# TLA+ models of self-node-remediation

This directory holds TLA+ models of the SelfNodeRemediation (SNR) operator in
`src/`, with the TLC configurations that check them. The models cover the
remediation reconciler and its environment. `PROJECT.json` lists:
- the components;
- the runs;
- the mutants that show each checked property can fail;
- the map from every definition to the source lines it models;
- the findings;
- the hazards.

## 1. The system

An SNR object asks for one node to be fenced. It is usually created by
NodeHealthCheck (NHC). Two copies of the same reconciler
(`src/controllers/selfnoderemediation_controller.go`) act on it:

* **the Manager**, in the operator deployment on a healthy node;
* **the Agent**, in the DaemonSet pod on the remediated node itself. The Agent
  handles only the SNR named after its own node (`Reconcile`, lines 158-164).

Both read the SNR and the Node from their informer caches and write back
through the API server. The written state is:
- the SNR's finalizer;
- the SNR status: `Phase`, `TimeAssumedRebooted` (TAR), the `Processing` and
  `Succeeded` conditions, and `LastError`;
- the Node's taints (NoExecute remediation taint, out-of-service taint);
- `Node.Spec.Unschedulable`.

Remediation runs through four phases:

| phase | Manager | Agent |
|---|---|---|
| Fencing-Started | `prepareReboot`: finalizer, NoExecute taint, unschedulable mark, TAR = now + SafeTime | same |
| Pre-Reboot-Completed | `rebootNode`: wait until TAR (`wasNodeRebooted`), then Reboot-Completed | `rebootIfNeeded`: reboot unless `didIRebootMyself` |
| Reboot-Completed | delete pods (`DeletePods`) or out-of-service taint (`useOutOfServiceTaint`) | same |
| Fencing-Completed | on deletion, `recoverNode`: schedulable, remove NoExecute, remove finalizer | same |

The environment (not in `src/`):
- the Kubernetes node controller, which makes the `unschedulable` taint follow
  `Spec.Unschedulable`;
- the taint manager, which evicts pods from a NoExecute node;
- out-of-service cleanup, which force-deletes terminating pods and detaches
  volumes;
- NHC, which annotates `nhc-timed-out` and deletes the SNR;
- the API check on every node (outside `src/`: error counter, then asking its
  peers through `pkg/peerhealth`), which reboots a node that lost the API
  server when its peers say it is unhealthy;
- the hardware watchdog.

### Inventory of components

| component | source | state | operations | status |
|---|---|---|---|---|
| SNR reconciler | controllers/selfnoderemediation_controller.go | SNR status and finalizer, Node taints and unschedulable | Reconcile and its branches | modelled: `SNRReconciler` |
| Peer health server | pkg/peerhealth/server.go | none (reads SNRs) | IsHealthy | modelled: `PeerHealth` |
| Peer health client | pkg/peerhealth/client.go | gRPC connection | NewClient, Close | modelled: `PeerHealth` (`DialledPeers`) |
| Control-plane manager | pkg/controlplane/manager.go | node role, endpoint reachability at start | setNodeRole, initializeManager, IsControlPlaneHealthy, isDiagnosticsPassed | modelled: `PeerHealth` |
| API types / config | api/v1alpha2 | declarations, defaults | none | constants of the model |
| API check, reboot, watchdog | outside `src/` | error counter, watchdog | from the spec | `PeerHealth` (counter, consultation), `PeersConfirmUnhealthy`, `WatchdogReset` |
| e2e tests | e2e/ | none | none | not modelled |

### What is hard here

- Two processes act on the same objects from caches that may be stale.
- Two kinds of write:
  - `Update` and `Status().Update` carry a resourceVersion and fail on conflict;
  - merge patches (`client.MergeFrom`) do not, and for taints they send the
    whole list.
- A successful write replaces the in-memory object with the server's answer.
  In `updateSnrStatusLastError` this silently drops the status changes of the
  same reconcile.
- Time:
  - TAR must come after the latest moment a node cut off from the API
    reboots, that is detection plus the watchdog timeout;
  - a node that loses the API has frozen caches and failing writes;
  - its reboot clears the Agent's cache.
- NHC can annotate or delete the SNR at any point of the protocol.

## 2. Modules

* `SNRReconciler.tla` models the reconciler and its environment.
  * Per process: `pc` (Idle/Read), the snapshot `snap`/`nodeSnap` taken by
    `Read`, and `snrFresh`/`nodeFresh`, which say whether that snapshot still
    has the store's resourceVersion.
  * The store: `snr`, `node`.
  * The workload: `pods` (Running, Terminating, Gone), `vaAttached`, and
    `running`: whether the pods' containers execute on the node.
    `KubeletSyncsPods` is the kubelet of a connected node, which starts the
    containers again after a reboot (not on a NoExecute-tainted node, as the
    pods do not tolerate it) and stops those of deleted pods. A reboot stops
    them; a node cut off from the API keeps running them. The constant
    `KubeletSync` switches this tracking on; without it `running` stays
    FALSE and the state space is unchanged.
  * The node's body: `apiOK`, `lostAt`, `held`, `rebootAt`, `rebooted`, and
    the Agent's frozen cache `cacheSnr`/`cacheNode`.
  * `target` is which case `getNodeFromSnr` and the node's labels present
    (one of `NodeCases`). `ViaMachine` is a node reached through the SNR's
    Machine owner; the SNR then carries the machine's name, and
    `AgentOwnsRequest` drops it in the Agent before the `Get`
    (`Reconcile`, lines 158-163). `SkippedCases` are the cases `Reconcile`
    leaves alone (node not found, excluded, not reboot-capable).
  * Actions: `Read` models the `Get`. Then comes one action per branch of
    `Reconcile`, the phase handlers grouped as
    `RemediateWithResourceRemoval` like the code's phase switch: `StoppedByNHC`, `NodeNotFound`, `ExcludedNode`,
    `NotRebootCapable`, `AddFinalizer`, `PrepareReboot`, `RebootIfNeeded`
    (Agent), `WaitForReboot` (Manager), `DeleteResources`,
    `UseOutOfServiceTaint`, `FencingCompletedIdle` and `RecoverNode`.
  * Each action carries the whole branch, ending with the deferred status
    write: `UpdateSnrStatusLastError`, then `UpdateSnrStatus`. These return
    the set of SNRs the store may hold afterwards: with `WriteFailures`
    either write may fail, and a failed lastError patch leaves the
    deferred Update to write the phase, TAR and lastError. Each API call
    of the branch can succeed, conflict or fail, and the branch's early
    returns are disjuncts.
  * Helpers named after the code carry each decision: `WasNodeRebooted`,
    `IsResourceDeletionExpired`, `SetTimeAssumedRebooted`,
    `UpdateConditions` (the two conditions' statuses per
    `processingChangeReason`),
    `RemoveNoExecuteTaint`, `MarkNodeAsUnschedulable`, `RemoveFinalizer`,
    `DidIRebootMyself`, `IsStoppedByNHC`, `RuntimeStrategy` and so on.
  * `RemediationEnded` is a stuttering step once the SNR is gone and no
    reconcile is in flight: `Reconcile` answers "SNR already deleted", and
    the system has rightly stopped.
  * The clock: `Tick` advances `now` only while some timer runs
    (`TimerPending`: TAR plus the out-of-service grace not yet reached, the
    API check's detection still pending, a reboot under way, or a connected
    node whose API check has not yet settled). Once nothing waits on time,
    the clock stops instead of running into `MaxTime`.
  * The environment's controllers model what the code relies on: the taint
    manager evicts from a node with NoExecute or out-of-service (both have
    the NoExecute effect); out-of-service cleanup force-deletes terminating
    pods and then detaches their volumes (`vaAttached`), so
    `isResourceDeletionCompleted` can see pods gone with volumes attached.
  * To keep the state space small, state nobody reads again is made
    canonical:
    - a process's snapshot is reset at the end of its reconcile;
    - the freshness flags of an idle process are TRUE;
    - `lostAt` is 0 while the node has the API.
* `MCSNRReconciler.tla` gives the timing constants values for TLC.

* `PeerHealth.tla` models the self-fencing decision of one node that lost
  the API server (the target), and the peers it asks.
  * State:
    - the SNRs in the store (`store`, drawn from a `Universe` of records
      with name, namespace and owner);
    - each peer's informer cache (`cache`) and link to the API server
      (`peerApi`), and the target's own link (`targetApi`);
    - the target's API error counter (`errCount`);
    - the role and endpoint reachability recorded at start (`role`,
      `accessibleAtStart`): `SetNodeRole` derives the role from the node's
      labels (`LabelSets`; the worker label wins, a node with neither gets
      no role), and `initializeManager` pings the endpoint if
      `EndpointUrl` is set, at start and again after every reboot;
    - `last`, what the latest consultation saw and decided.
  * `IsHealthy` and `isHealthyBySnr` are operators:
    - the List reads the peer's cache and the Get reads the store;
    - the name looked up depends on each listed SNR's owner;
    - NotFound gives Healthy, any other error gives ApiError;
    - the first non-Healthy code wins, in any list order.
  * `DialledPeers` is the client's `NewClient` by its outcome: any set of
    peers may be the ones the target reaches and that answer.
  * `RemediatesTarget` is the reconciler's `getNodeFromSnr`: which SNRs
    remediate the target.
  * From the spec (code outside `src/`): `ProbeApi` (the counter, reset
    by a probe while `targetApi` holds), `Consult` (the classification of
    the answers, table 4.4; the all-Healthy outcome uses the code's
    `HealthyBecauseCRNotFound`, as `manager.go` does) and `MustReboot`. `Probed`: only a
    control-plane target runs its diagnostics and asks the other masters;
    for any other target they take no value that matters.
  * The control-plane decision is `IsControlPlane`, `IsControlPlaneHealthy`
    and `IsDiagnosticsPassed` with `IsEndpointAccessLost`,
    `IsEndpointAccessible` and `IsEtcdRunning` from the code. The ping and
    the kubelet probe are free booleans; `last` records them and the
    endpoint reachability at start, so `RebootJustified` can judge the
    diagnostics from the observations.
  * The environment creates and deletes SNRs, syncs the caches of connected
    peers, and breaks and restores the peers' links and the target's.
  * `FairSpec` adds weak fairness to `ProbeApi`, `Consult` and each
    peer's `CacheSync` (see Assumptions).
* `MCPeerHealth.tla` gives two peers and the SNR universes.

Planned next:
- `PeerHealth` with a clock, to replace `PeersConfirmUnhealthy` and measure
  how far a lagging peer cache delays the reboot, which
  `StaleCacheOnlyDelaysFencing` shows to be finite but does not bound.

## 3. Runs

The first nine runs use `MCSNRReconciler`, the last three `MCPeerHealth`.

| run | cfg | checks | expect |
|---|---|---|---|
| resource_deletion | SNRResourceDeletion.cfg | FencingSafety, StatusOnlyAdvances, NodeReleasedWhenSNRGone | pass |
| write_failures | SNRWriteFailures.cfg | the same safety properties, with transient failures of any write (status writes included) and every node case | pass |
| nhc_timeout | SNRNHCTimeout.cfg | StatusOnlyAdvances, NodeReleasedWhenSNRGone with NHC timeouts | pass |
| out_of_service | SNROutOfService.cfg | FencingSafety, StatusOnlyAdvances, RemediationCompletes and DeletedSNREventuallyGone (liveness, `CompletionSpec`) with the out-of-service strategy and the kubelet tracked | pass |
| early_reboot | SNREarlyReboot.cfg | WorkloadStoppedWhenRemoved with the kubelet tracked | violation |
| nhc_race | SNRNHCRace.cfg | FencingSafety with NHC timeouts | violation |
| oos_completion | SNROOSCompletion.cfg | WorkloadGoneWhenCompleted with the out-of-service strategy | violation |
| machine_owned_snr | SNRMachineOwned.cfg | FencingSafety for an SNR named after its machine | violation |
| oos_taint_race | SNROOSTaintRace.cfg | NodeReleasedWhenSNRGone with the out-of-service strategy | violation |
| peer_health | PeerHealthDecision.cfg | FencedWhenRemediated, RebootJustified, StaleCacheOnlyDelaysFencing | pass |
| peer_control_plane | PeerHealthControlPlane.cfg | RebootJustified for a control-plane node with an endpoint URL | pass |
| peer_unowned_snr | PeerHealthUnowned.cfg | FencedWhenRemediated with an SNR without owner | violation |

The properties:

* **FencingSafety**: pods are deleted, or the out-of-service taint is put on
  the node, only once the node has rebooted during this remediation. It is an
  action property. It is what TAR, `wasNodeRebooted`, `rebootIfNeeded` and the
  API check must achieve together.
* **StatusOnlyAdvances**: while the SNR exists, no write moves the phase back
  or replaces a set TAR. Both processes write the status from snapshots.
* **NodeReleasedWhenSNRGone**: once the SNR is gone, the node has neither the
  NoExecute nor the out-of-service taint and is schedulable.
* **RemediationCompletes**: an SNR for a remediable node is eventually gone
  or Fencing-Completed, provided the reconcilers are idle infinitely often.
  It needs the reboot, the peers' verdict, the eviction and the
  out-of-service cleanup all to happen, in an order no test fixes.
* **WorkloadGoneWhenCompleted**: spec 5 (Fencing-Completed: workloads are
  gone), checked because the code departs from it.
* **WorkloadStoppedWhenRemoved**: when the pods are deleted, or the
  out-of-service taint goes on, their containers do not still run on a node
  cut off from the API server. This is spec 1's purpose, stated on the
  workload rather than on `rebooted`, and checked because the code departs
  from it.
* **DeletedSNREventuallyGone**: a deleted SNR whose fencing completed
  eventually disappears.
* **FencedWhenRemediated**: a target asks peers that reach the API server
  and have synced caches, while an SNR remediates it. Then it reboots. This
  is what `PeersConfirmUnhealthy` assumes in `SNRReconciler`.
* **StaleCacheOnlyDelaysFencing** (liveness, `FairSpec`): `IsHealthy`
  lists SNRs from the peer's informer cache, so a peer that has not yet
  seen the target's SNR answers Healthy, and the target clears its counter
  and keeps running for another round. The property says this only
  delays the fencing. Take a worker or compact-cluster target that
  eventually stays cut off and remediated, with peers that reach the API
  server, and a store that stops changing. Such a target then decides to
  reboot infinitely often. It relies on the Healthy reset, the name
  lookup and the first-non-Healthy rule of `IsHealthy` all together.
* **RebootJustified**: a node that some peer answered reboots only if an
  SNR remediates it. A control-plane node may also reboot when spec 4.6's
  diagnostics fail: the endpoint was reachable when the agent started and
  is not now, or the kubelet does not answer. The diagnostics are judged
  from what the node observed, not from the code's `isDiagnosticsPassed`,
  so a fault in that code shows.

### Findings (violation runs)

1. **nhc_race**: pods deleted without a reboot.
   1. NHC adds `nhc-timed-out` after Pre-Reboot-Completed but before the
      connected Agent has rebooted, so the Agent stops.
   2. NHC later deletes the SNR. Its finalizer keeps it: on the timeout the code only sets
      conditions (lines 195-199), where spec I5 says the finalizer is removed;
      its DeletionTimestamp makes `isStoppedByNHC` false.
   3. TAR is long past, so the Manager goes to Reboot-Completed and deletes
      the pods of a node that never rebooted.
2. **early_reboot**: pods deleted while they still run.
   1. The node loses the API before any reconciler has tainted it; its API
      check reboots it (the SNR already exists, so the peers say
      Unhealthy).
   2. It reconnects, and its kubelet starts its pods again.
   3. The SNR reaches Pre-Reboot-Completed. The connected Agent skips the
      reboot: `didIRebootMyself` (lines 530-538) counts any reboot since the
      SNR was created, as spec 4.1's same-boot avoidance prescribes.
   4. The node loses the API again less than DetectTime + WatchdogTime
      before TAR. At TAR the Manager deletes the pods while their
      containers still run on the cut-off node.
   This needs pods that stay running on the NoExecute-tainted node for at
   least a tick after the restart: pods tolerating NoExecute, or a long
   termination grace period.
3. **oos_completion**: Fencing-Completed with pods still on the node. With
   the out-of-service strategy, `isResourceDeletionCompleted` (lines
   875-899) waits only for pods that are already terminating and for volume
   attachments. It runs in the reconcile that has just added the
   out-of-service taint, so pods the taint manager has not yet evicted (for
   example pods tolerating NoExecute for a while) count as gone. The taint
   is removed and the SNR reaches Fencing-Completed; once evicted, those
   pods stay Terminating on a node without the taint that lets the cluster
   force-delete them. Spec 5 says the strategy waits until no pods or
   volume attachments remain.
4. **machine_owned_snr**: a node that keeps the API is never rebooted.
   1. A machine-based detector creates an SNR named after the machine;
      `getNodeFromSnr` finds the node through the Machine owner.
   2. The Agent on that node drops the request, whose name is not its node
      name (lines 158-163, as spec 4.1 prescribes).
   3. The node still reaches the API server, so its API check never fires;
      after TAR the Manager deletes the pods of a node that never rebooted.
      Spec 1 says the node reboots itself first.
5. **oos_taint_race**: NoExecute returns after the SNR is gone.
   1. The Agent reads the node while it still has NoExecute and
      out-of-service.
   2. The Manager's `recoverNode` removes NoExecute and the finalizer, so the
      SNR is gone.
   3. The Agent's `removeOutOfServiceTaint` merge-patches the taint list from
      its snapshot. That puts NoExecute back, and nobody removes it.
6. **peer_unowned_snr**: an SNR for node N is created without an owner
   reference.
   1. The reconciler's `getNodeFromSnr` remediates N.
   2. Peers asked by N look up N's machine name in that namespace (server.go
      line 135), find nothing and answer Healthy.
   3. N keeps running while the Manager deletes its workloads after TAR.

## 4. Bounds and why they suffice

* Time is counted in ticks. The timing constants are:
  - `SafeTime = 4`;
  - `WatchdogTime = 1`;
  - `DetectTime = 2`, the time from losing the API to the peers' verdict;
  - `OOSGrace = 1`.

  SafeTime is the tightest value allowed by the spec's strict inequality
  (SafeTime > DetectTime + WatchdogTime). With it, every off-by-one in a
  timing guard shows; the mutant `WasNodeRebootedEarly` is an example.
* `MaxTime = 7` in `resource_deletion`, `write_failures`,
  `early_reboot` and `machine_owned_snr`, and `5` in the runs that add NHC timeouts or the
  out-of-service strategy. Both let TAR pass and the remediation complete
  after it.
* The liveness runs keep the node's API (`ApiLoss = FALSE`). With API loss,
  reboot after reboot can push `now` to `MaxTime` before the SNR is even
  prepared, and the capped clock then stops a remediation that the real
  system would finish: a bound artefact, not a behaviour. The disconnected
  node is covered by the safety runs.
* `PeerHealth`: two peers, so the quorum (2) is met only when both answer.
  `peer_health` labels the target worker, control-plane, or both (the
  compact case, a worker to `setNodeRole`), without an endpoint URL. The
  endpoint and the diagnostics bear on none of its properties, and
  `peer_control_plane` has them: a control-plane target with an endpoint
  URL and NHC's SNRs only, since owners do not change that decision. A node with no label takes the worker
  branch of `MustReboot`, so it is left out. That keeps the liveness check
  at about 340 000 states.
  The threshold is `MaxApiErrorThreshold = 2`. The SNR universes hold:
  - NHC's SNR and a machine-owned SNR for the target;
  - NHC's SNR for another node in a second namespace;
  - in the unowned run, an SNR without an owner.

  Together these reach every branch of the name choice and of the
  classification.
* `KubeletSync` is on in `out_of_service` (cheap: the node keeps the API)
  and in `early_reboot`. In the other runs with API loss it would double the
  state space for no property that reads it.
* One SNR and one node, with two processes (Manager and Agent). The pods are
  one token (Running, Terminating, Gone): the properties do not tell one pod
  from another.
* `WriteFailures` lets any API write of either process fail: the Node
  Updates and patches, the finalizer Updates, the status Update and the
  lastError patch. When the lastError patch fails, the deferred Update
  writes all the reconcile's status changes, lastError included. The
  Agent's writes also fail while its node has lost the API. `ApiLoss` says
  whether the node may lose the API at all. `write_failures` turns it off so
  that TLC can explore every combination of failing writes at `MaxTime = 7`.
  The runs with API loss cover the disconnected node.

## 5. Assumptions

* A reconcile ends within one tick. Its API calls are bounded by client
  timeouts far below SafeTime, so `Tick` waits for in-flight reconciles.
* A connected Agent reacts to Pre-Reboot-Completed before time advances
  (`AgentMustReboot`). The API check reacts at `DetectTime`.
* A reconnection shorter than one tick goes unseen by the API check, because
  its error counter is reset only by a successful probe (`held`).
* While its node is cut off, the Agent's cache is what the store held at the
  disconnection. After a reboot it is empty.
* The SNR's finalizer is its only finalizer.
* Fairness. `FairSpec` gives `WF` to the Manager's reconcile, because
  controller-runtime requeues after every result, and to the node
  controller. `CompletionSpec` adds:
  - `WF` to the Agent's reconcile (also requeued) and to the watchdog reset,
    the taint manager and the out-of-service cleanup, controllers that keep
    running;
  - `SF` to `Tick`, since time passes even if the reconcilers keep
    disabling it by being mid-reconcile, and to `PeersConfirmUnhealthy`,
    since the API check polls every interval while a flapping link enables
    and disables the verdict.

  In `PeerHealth`, `FairSpec` gives `WF` to the API check's probe and
  consultation, which run on a ticker, and to each peer's cache sync:
  client-go's informer re-lists and re-watches while the peer reaches the
  API server.

  NHC and link changes get no fairness. `RemediationCompletes` has the
  premise that all processes are idle infinitely often: the reconcilers
  return with `RequeueAfter` and do not run back to back forever.

## 6. Not modelled

- The peer-health server's `Start`: connection set-up only. A peer whose
  server did not start is one that does not answer, which `Consult`
  already allows. The client's `NewClient` is modelled only by its
  outcome (`DialledPeers`): a peer the client cannot dial within
  `peerDialTimeout` does not answer.
- `initializeManager` failing to Get its node: the agent does not start.
- Pods that tolerate the NoExecute taint: `KubeletSyncsPods` does not start
  containers again on a tainted node.
- `PeerHealth` has no clock: each consultation is one atomic step. That a
  stale peer cache only delays a reboot is checked. How long the delay is,
  against `SafeTime`, is not measured.
- In `PeerHealth` a peer's Gets all fail or all succeed. A transient failure
  of a single Get is left out.
- The API types: declarations.
- The e2e tests.
- Inside the reconciler:
  - `restoreNode` and `patchSnrStatus` are never called;
  - event recording and logging are left out;
  - the Machine owner lookup is folded into `target` (`ViaMachine`).
- Pods scheduled onto the node during the remediation are not modelled (see
  the hazard on `didIRebootMyself`).
