---------------------------- MODULE SNRReconciler ----------------------------
(***************************************************************************)
(* The remediation reconciler of one SelfNodeRemediation (SNR) request and *)
(* the node it fences (controllers/selfnoderemediation_controller.go).     *)
(*                                                                         *)
(* Two processes reconcile the same SNR: the Manager (MyNodeName is not    *)
(* the remediated node) and the Agent running ON the remediated node.      *)
(* Each reconcile reads the SNR and the Node from its informer cache       *)
(* (Read) and later acts on that snapshot (one Step action per branch of   *)
(* Reconcile).  Writes follow the client calls the code makes:             *)
(*   - Client.Update / Status().Update carry the resourceVersion of the    *)
(*     snapshot and fail with a conflict when the object changed since;   *)
(*   - Client.Patch(MergeFrom) carries no resourceVersion: a taint patch   *)
(*     replaces the whole taint list with the snapshot's list +/- one.    *)
(*   - a successful Update or Patch refreshes the in-memory object from    *)
(*     the server's answer, dropping unsaved in-memory changes.            *)
(* The environment is the clock, the node controller (unschedulable        *)
(* taint), the taint manager and out-of-service cleanup (pods, volume      *)
(* attachments), the node's kubelet (its pods' containers), NHC (timeout *)
(* annotation, deletion), the node's API connectivity, its API-check self *)
(* fencing and its hardware watchdog.                                      *)
(***************************************************************************)
EXTENDS Integers, FiniteSets

CONSTANTS
    Manager, Agent,        \* the two reconciling processes (model values)
    Strategy,              \* snr.Spec.RemediationStrategy
    OutOfServiceTaintGA,   \* utils.IsOutOfServiceTaintGA
    NodeCases,             \* what getNodeFromSnr and the node's labels can show
    NHCTimeouts,           \* NHC may add the nhc-timed-out annotation
    WriteFailures,         \* an API write may fail transiently
    ApiLoss,               \* the remediated node may lose the API server
    KubeletSync,           \* the node's containers are tracked (running)
    SafeTime,              \* GetTimeToAssumeNodeRebooted, in ticks
    WatchdogTime,          \* watchdog timeout: reset at most this long after the last pet
    DetectTime,            \* API-check time from losing the API to the peers' verdict
    OOSGrace,              \* the 300s grace of isResourceDeletionExpired, in ticks
    MaxTime                \* bound of the clock

ASSUME Strategy \in {"ResourceDeletion", "OutOfServiceTaint", "Automatic"}
ASSUME NodeCases \subseteq {"Remediable", "ViaMachine", "NotFound", "Excluded", "NotRebootCapable"}
ASSUME {SafeTime, WatchdogTime, DetectTime, OOSGrace, MaxTime} \subseteq Nat

Procs == {Manager, Agent}

NoTime == -1

\* remediationPhase; a nil Status.Phase reads as Fencing-Started (getPhase)
Phases == {"Fencing-Started", "Pre-Reboot-Completed", "Reboot-Completed", "Fencing-Completed"}
PhaseRank == [ph \in Phases |->
                CASE ph = "Fencing-Started"      -> 0
                  [] ph = "Pre-Reboot-Completed" -> 1
                  [] ph = "Reboot-Completed"     -> 2
                  [] ph = "Fencing-Completed"    -> 3]

\* the <<Processing, Succeeded>> condition statuses, before any is set
NoConditions == <<"Absent", "Absent">>

\* processingChangeReason
ProcessingChangeReasons == {"remediationStarted", "remediationFinishedSuccessfully",
                            "remediationTimeoutByNHC", "remediationSkippedNodeNotFound"}

\* updateConditions: the <<Processing, Succeeded>> statuses each reason sets
ConditionsOf(reason) ==
    CASE reason = "remediationStarted"              -> <<"True", "Unknown">>
      [] reason = "remediationFinishedSuccessfully" -> <<"False", "True">>
      [] reason \in {"remediationTimeoutByNHC",
                     "remediationSkippedNodeNotFound"} -> <<"False", "False">>

\* both conditions are set to the reason's statuses; when they already have
\* them nothing changes (the Reason field is not modelled)
UpdateConditions(reason, s) == [s EXCEPT !.cond = ConditionsOf(reason)]

NoError == "none"
Errors == {NoError, "NodeNotFound", "NotRebootCapable", "NodeWriteFailed",
           "SNRWriteFailed", "DeletePodsFailed", "OutOfServiceNotReady"}

Taints == {"Unschedulable", "NoExecute", "OutOfService"}

SNRs == [exists: BOOLEAN, finalizer: BOOLEAN, deleting: BOOLEAN, nhcTimedOut: BOOLEAN,
         phase: Phases, tar: {NoTime} \cup 0..(MaxTime + SafeTime),
         cond: {NoConditions} \cup {ConditionsOf(r) : r \in ProcessingChangeReasons},
         lastError: Errors]
Nodes == [unschedulable: BOOLEAN, taints: SUBSET Taints]

InitialSNR ==
    [exists |-> TRUE, finalizer |-> FALSE, deleting |-> FALSE, nhcTimedOut |-> FALSE,
     phase |-> "Fencing-Started", tar |-> NoTime, cond |-> NoConditions, lastError |-> NoError]
InitialNode == [unschedulable |-> FALSE, taints |-> {}]

VARIABLES
    now,            \* the clock
    snr,            \* the SNR as stored by the API server
    node,           \* the Node as stored by the API server
    pods,           \* the pods bound to the node: Running, Terminating or Gone
    vaAttached,     \* a VolumeAttachment still references the node
    pc,             \* per process: Idle, or Read when it holds a snapshot
    snap,           \* per process: the SNR of its cache at Read
    nodeSnap,       \* per process: the Node of its cache at Read
    snrFresh,       \* per process: the SNR is unchanged since its Read
    nodeFresh,      \* per process: the Node is unchanged since its Read
    apiOK,          \* the remediated node reaches the API server
    lostAt,         \* when the API check last started counting errors
    held,           \* a tick has passed since the API was last regained
    rebootAt,       \* deadline of a triggered reboot, or NoTime
    rebooted,       \* the node has rebooted since the SNR was created
    running,        \* the containers of the node's pods execute on the node
    cacheSnr,       \* the Agent's informer cache of the SNR while it is cut off
    cacheNode,      \* the Agent's informer cache of the Node while it is cut off
    target          \* the remediated node's case, one of NodeCases

vars == <<now, snr, node, pods, vaAttached, pc, snap, nodeSnap, snrFresh,
          nodeFresh, apiOK, lostAt, held, rebootAt, rebooted, running, cacheSnr, cacheNode, target>>
physVars == <<now, pods, vaAttached, apiOK, lostAt, held, rebootAt, rebooted, running, cacheSnr, cacheNode, target>>

-----------------------------------------------------------------------------
(* Helpers translated from the reconciler                                  *)

\* getNodeFromSnr finds the node (NotFound otherwise): by the SNR's name, or
\* (ViaMachine) through its Machine owner, the SNR then named after the machine
NodeFound == target # "NotFound"

\* the cases Reconcile must leave the node alone in
SkippedCases == {"NotFound", "Excluded", "NotRebootCapable"}

\* the node carries the exclude-from-remediation=true label
Excluded == target = "Excluded"

\* isNodeRebootCapable: an agent pod runs on the node and the node is
\* annotated is-reboot-capable=true
RebootCapable == target # "NotRebootCapable"

\* the Agent reaches the API server only while its node does
CanWrite(p) == p = Manager \/ apiOK

\* a transient failure of one API write (the Agent's writes also fail
\* while its node is cut off from the API server, see CanWrite)
WriteOutcomes(p) == IF WriteFailures THEN BOOLEAN ELSE {TRUE}

IsStoppedByNHC(s) == s.nhcTimedOut /\ ~s.deleting

RuntimeStrategy ==
    IF Strategy # "Automatic" THEN Strategy
    ELSE IF OutOfServiceTaintGA THEN "OutOfServiceTaint" ELSE "ResourceDeletion"

\* updateConditions(remediationStarted) unless the phase is Fencing-Completed
MarkStarted(s) == IF s.phase # "Fencing-Completed" THEN UpdateConditions("remediationStarted", s) ELSE s

\* mutant: a status write without the resourceVersion check (a merge patch)
UpdateSnrStatusUnchecked(p, st, fresh, m) ==
    IF ~CanWrite(p) \/ ~st.exists THEN {st}
    ELSE {IF ok THEN [st EXCEPT !.phase = m.phase, !.tar = m.tar, !.cond = m.cond,
                                !.lastError = m.lastError]
          ELSE st : ok \in WriteOutcomes(p)}

\* the deferred updateSnrStatus: Status().Update of the in-memory status,
\* refused on a resourceVersion conflict or when the SNR is gone, or
\* failing; the set of SNRs the store may hold afterwards
UpdateSnrStatus(p, st, fresh, m) ==
    IF ~CanWrite(p) \/ ~fresh \/ ~st.exists THEN {st}
    ELSE {IF ok THEN [st EXCEPT !.phase = m.phase, !.tar = m.tar, !.cond = m.cond,
                                !.lastError = m.lastError]
          ELSE st : ok \in WriteOutcomes(p)}

\* updateSnrStatusLastError followed by the deferred updateSnrStatus: a
\* changed lastError is merge-patched alone and the answer replaces the
\* in-memory SNR, so the status changes of this reconcile are not written;
\* when the patch fails, the in-memory SNR keeps them all and the deferred
\* Update writes them, lastError included
UpdateSnrStatusLastError(p, st, fresh, m, err) ==
    IF CanWrite(p) /\ st.exists /\ m.lastError # err
    THEN {[st EXCEPT !.lastError = err]}
         \cup (IF WriteFailures THEN UpdateSnrStatus(p, st, fresh, [m EXCEPT !.lastError = err])
               ELSE {})
    ELSE UpdateSnrStatus(p, st, fresh, [m EXCEPT !.lastError = err])

\* a change of the stored object outdates the snapshot of every process
\* holding one (an Idle process holds none: its flag stays TRUE)
Outdated(fresh, changed) == [q \in Procs |-> pc[q] = "Idle" \/ (fresh[q] /\ ~changed)]

\* a step of process p ends: one of the SNRs its status writes may leave
\* and the new Node are stored, the others' snapshots go stale; p drops its
\* own snapshot (kept canonical while Idle)
EndStep(p, snrOutcomes, nodeNew) ==
    \E snrNew \in snrOutcomes :
        /\ snr' = snrNew
        /\ node' = nodeNew
        /\ snrFresh' = [Outdated(snrFresh, snrNew # snr) EXCEPT ![p] = TRUE]
        /\ nodeFresh' = [Outdated(nodeFresh, nodeNew # node) EXCEPT ![p] = TRUE]
        /\ pc' = [pc EXCEPT ![p] = "Idle"]
        /\ snap' = [snap EXCEPT ![p] = InitialSNR]
        /\ nodeSnap' = [nodeSnap EXCEPT ![p] = InitialNode]

\* the guard shared by every remediation step of Reconcile
Remediating(p) ==
    /\ pc[p] = "Read"
    /\ snap[p].exists
    /\ ~IsStoppedByNHC(snap[p])
    /\ NodeFound
    /\ ~Excluded

\* Client.Update: conflict on a stale resourceVersion, failure when the
\* process cannot reach the API server or the write fails
UpdateOutcome(p, ok, fresh, exists) ==
    IF CanWrite(p) /\ ok /\ exists THEN (IF fresh THEN "Done" ELSE "Conflict") ELSE "Failed"

ResourceDeletionCompleted == pods # "Terminating" /\ ~vaAttached

\* wasNodeRebooted: TimeAssumedRebooted is not after now
WasNodeRebootedEarly(s) == ~(s.tar > now + 1)                 \* mutant: a tick early
WasNodeRebooted(s) == ~(s.tar > now)

\* isResourceDeletionExpired: TimeAssumedRebooted + 300s is not after now
IsResourceDeletionExpired(s) == ~(s.tar + OOSGrace > now)

\* prepareReboot: updateTimeAssumedRebooted only while it is zero
SetTimeAssumedRebooted(m) == IF m.tar = NoTime THEN [m EXCEPT !.tar = now + SafeTime] ELSE m

\* removeNoExecuteTaint: utils.DeleteTaint of the NoExecute remediation taint
RemoveNoExecuteTaintUnmatched(taints) == taints                \* mutant: DeleteTaint finds nothing
RemoveNoExecuteTaint(taints) == taints \ {"NoExecute"}

\* The taint patches (client.MergeFrom: the whole taint list of the
\* in-memory node is sent, without a resourceVersion)
AddNoExecuteTaint(taints) == taints \cup {"NoExecute"}
AddOutOfServiceTaintDropped(taints) == taints                  \* mutant: the patch omits the taint
AddOutOfServiceTaint(taints) == taints \cup {"OutOfService"}
RemoveOutOfServiceTaint(taints) == taints \ {"OutOfService"}

\* markNodeAsUnschedulable: Spec.Unschedulable, the node controller adds the taint
MarkNodeAsUnschedulable(n) == [n EXCEPT !.unschedulable = TRUE]

\* removeFinalizer: the SNR's finalizer is its only one, so a deleted SNR goes
RemoveFinalizer(st) == [st EXCEPT !.finalizer = FALSE, !.exists = ~st.deleting]

\* didIRebootMyself: the node's uptime is shorter than the SNR's age
DidIRebootMyselfAlways == TRUE           \* mutant: uptime compared the wrong way
DidIRebootMyself == rebooted

\* recoverNode waits until the node controller has removed the unschedulable taint
WaitsForTaintWrongKey(n) == "NoExecute" \in n.taints            \* mutant: the wrong taint
WaitsForUnschedulableTaint(n) == "Unschedulable" \in n.taints

-----------------------------------------------------------------------------
(* Reconcile: the cache read, then one action per branch                   *)

\* in agent mode a request whose name is not MyNodeName is dropped before
\* the Get: a request named after a machine never reaches the Agent
AgentOwnsRequest(p) == p = Agent => target # "ViaMachine"

\* the informer cache follows the store only while the process reaches it
Read(p) ==
    LET view  == IF CanWrite(p) THEN snr ELSE cacheSnr
        nview == IF CanWrite(p) THEN node ELSE cacheNode
    IN /\ pc[p] = "Idle"
       /\ AgentOwnsRequest(p)
       /\ view.exists
       /\ snap' = [snap EXCEPT ![p] = view]
       /\ nodeSnap' = [nodeSnap EXCEPT ![p] = nview]
       /\ snrFresh' = [snrFresh EXCEPT ![p] = (view = snr)]
       /\ nodeFresh' = [nodeFresh EXCEPT ![p] = (nview = node)]
       /\ pc' = [pc EXCEPT ![p] = "Read"]
       /\ UNCHANGED <<snr, node>>
       /\ UNCHANGED physVars

\* the nhc-timed-out annotation stops the remediation
StoppedByNHC(p) ==
    /\ pc[p] = "Read"
    /\ snap[p].exists
    /\ IsStoppedByNHC(snap[p])
    /\ EndStep(p, UpdateSnrStatus(p, snr, snrFresh[p], UpdateConditions("remediationTimeoutByNHC", snap[p])), node)
    /\ UNCHANGED physVars

\* getNodeFromSnr answers NotFound: remediationSkippedNodeNotFound
NodeNotFound(p) ==
    /\ pc[p] = "Read"
    /\ snap[p].exists
    /\ ~IsStoppedByNHC(snap[p])
    /\ ~NodeFound
    /\ EndStep(p, UpdateSnrStatusLastError(p, snr, snrFresh[p],
                    UpdateConditions("remediationSkippedNodeNotFound", snap[p]), "NodeNotFound"), node)
    /\ UNCHANGED physVars

\* the node carries exclude-from-remediation=true: only the Started conditions
ExcludedNode(p) ==
    /\ pc[p] = "Read"
    /\ snap[p].exists
    /\ ~IsStoppedByNHC(snap[p])
    /\ NodeFound
    /\ Excluded
    /\ EndStep(p, UpdateSnrStatus(p, snr, snrFresh[p], MarkStarted(snap[p])), node)
    /\ UNCHANGED physVars

\* prepareReboot: the node cannot reboot itself
NotRebootCapable(p) ==
    /\ Remediating(p)
    /\ snap[p].phase = "Fencing-Started"
    /\ ~RebootCapable
    /\ EndStep(p, UpdateSnrStatusLastError(p, snr, snrFresh[p], MarkStarted(snap[p]),
                                           "NotRebootCapable"), node)
    /\ UNCHANGED physVars

\* prepareReboot: addFinalizer, Update of the SNR; its answer replaces the
\* in-memory SNR, so the conditions set before it are not written
AddFinalizer(p) ==
    LET s  == snap[p]
        m0 == MarkStarted(s)
    IN /\ Remediating(p)
       /\ s.phase = "Fencing-Started"
       /\ RebootCapable
       /\ ~s.finalizer
       /\ ~s.deleting   \* its no-op branch: the SNR's finalizer is its only one,
                        \* so a deleted SNR without it is already gone
       /\ \E ok \in WriteOutcomes(p) :
            LET r  == UpdateOutcome(p, ok, snrFresh[p], snr.exists)
                st == IF r = "Done" THEN [snr EXCEPT !.finalizer = TRUE] ELSE snr
                m  == IF r = "Done" THEN st ELSE m0
            IN EndStep(p, UpdateSnrStatusLastError(p, st, r = "Done" \/ snrFresh[p], m,
                             IF r = "Failed" THEN "SNRWriteFailed" ELSE NoError), node)
       /\ UNCHANGED physVars

\* prepareReboot after the finalizer: addNoExecuteTaint, then
\* markNodeAsUnschedulable until the unschedulable taint shows, then
\* updateTimeAssumedRebooted (only while it is zero) and Pre-Reboot-Completed
PrepareReboot(p) ==
    LET s     == snap[p]
        n     == nodeSnap[p]
        m0    == MarkStarted(s)
        needNE == "NoExecute" \notin n.taints
    IN /\ Remediating(p)
       /\ s.phase = "Fencing-Started"
       /\ RebootCapable
       /\ s.finalizer
       /\ \E ok1, ok2 \in WriteOutcomes(p) :
            LET patched == needNE /\ CanWrite(p) /\ ok1
                nodeA   == IF patched THEN [node EXCEPT !.taints = AddNoExecuteTaint(n.taints)] ELSE node
                n1      == IF patched THEN nodeA ELSE n
                ready   == n1.unschedulable /\ "Unschedulable" \in n1.taints
                r       == IF n1.unschedulable THEN "Waiting"
                           ELSE UpdateOutcome(p, ok2, patched \/ nodeFresh[p], TRUE)
                m       == [SetTimeAssumedRebooted(m0) EXCEPT !.phase = "Pre-Reboot-Completed"]
            IN \/ /\ needNE /\ ~patched
                  /\ EndStep(p, UpdateSnrStatusLastError(p, snr, snrFresh[p], m0, "NodeWriteFailed"), node)
               \/ /\ ~needNE \/ patched
                  /\ ~ready
                  /\ EndStep(p, UpdateSnrStatusLastError(p, snr, snrFresh[p], m0,
                                   IF r = "Failed" THEN "NodeWriteFailed" ELSE NoError),
                             IF r = "Done" THEN MarkNodeAsUnschedulable(nodeA) ELSE nodeA)
               \/ /\ ~needNE \/ patched
                  /\ ready
                  /\ EndStep(p, UpdateSnrStatusLastError(p, snr, snrFresh[p], m, NoError), nodeA)
       /\ UNCHANGED physVars

\* rebootNode on the remediated node itself: rebootIfNeeded stops petting
\* the watchdog unless didIRebootMyself (uptime shorter than the SNR's age)
RebootIfNeeded(p) ==
    /\ p = Agent
    /\ Remediating(p)
    /\ snap[p].phase = "Pre-Reboot-Completed"
    /\ rebootAt' = IF DidIRebootMyself \/ rebootAt # NoTime THEN rebootAt ELSE now + WatchdogTime
    /\ EndStep(p, UpdateSnrStatusLastError(p, snr, snrFresh[p], MarkStarted(snap[p]), NoError), node)
    /\ UNCHANGED <<target, now, pods, vaAttached, apiOK, lostAt, held, rebooted, running, cacheSnr, cacheNode>>

\* rebootNode on another node: wasNodeRebooted once TimeAssumedRebooted is not after now
WaitForReboot(p) ==
    LET s  == snap[p]
        m0 == MarkStarted(s)
    IN /\ p = Manager
       /\ Remediating(p)
       /\ s.phase = "Pre-Reboot-Completed"
       /\ EndStep(p, UpdateSnrStatusLastError(p, snr, snrFresh[p],
                        IF ~WasNodeRebooted(s) THEN m0 ELSE [m0 EXCEPT !.phase = "Reboot-Completed"],
                        NoError), node)
       /\ UNCHANGED physVars

\* handleRebootCompletedPhase with deleteResourcesWrapper (DeletePods)
DeleteResources(p) ==
    LET m0 == MarkStarted(snap[p])
    IN /\ Remediating(p)
       /\ snap[p].phase = "Reboot-Completed"
       /\ RuntimeStrategy = "ResourceDeletion"
       /\ \E ok \in WriteOutcomes(p) :
            LET done == CanWrite(p) /\ ok
            IN /\ pods' = IF done THEN "Gone" ELSE pods
               /\ EndStep(p, UpdateSnrStatusLastError(p, snr, snrFresh[p],
                                IF done THEN [UpdateConditions("remediationFinishedSuccessfully", m0) EXCEPT !.phase = "Fencing-Completed"]
                                        ELSE m0,
                                IF done THEN NoError ELSE "DeletePodsFailed"), node)
       /\ UNCHANGED <<target, now, vaAttached, apiOK, lostAt, held, rebootAt, rebooted, running, cacheSnr, cacheNode>>

\* handleRebootCompletedPhase with useOutOfServiceTaint: add the taint, wait
\* (at most OOSGrace past TimeAssumedRebooted) for terminating pods and
\* volume attachments to go, remove the taint
UseOutOfServiceTaint(p) ==
    LET s     == snap[p]
        n     == nodeSnap[p]
        m0    == MarkStarted(s)
        needOOS == "OutOfService" \notin n.taints
    IN /\ Remediating(p)
       /\ s.phase = "Reboot-Completed"
       /\ RuntimeStrategy = "OutOfServiceTaint"
       /\ \E ok1, ok2 \in WriteOutcomes(p) :
            LET added   == needOOS /\ CanWrite(p) /\ ok1
                nodeA   == IF added THEN [node EXCEPT !.taints = AddOutOfServiceTaint(n.taints)] ELSE node
                n1      == IF added THEN nodeA ELSE n
                needRm  == "OutOfService" \in n1.taints
                removed == needRm /\ CanWrite(p) /\ ok2
                nodeB   == IF removed THEN [nodeA EXCEPT !.taints = RemoveOutOfServiceTaint(n1.taints)] ELSE nodeA
            IN \/ /\ needOOS /\ ~added
                  /\ EndStep(p, UpdateSnrStatusLastError(p, snr, snrFresh[p], m0, "NodeWriteFailed"), node)
               \/ /\ ~needOOS \/ added
                  /\ ~ResourceDeletionCompleted
                  /\ EndStep(p, UpdateSnrStatusLastError(p, snr, snrFresh[p], m0,
                                   IF ~IsResourceDeletionExpired(s) THEN NoError ELSE "OutOfServiceNotReady"), nodeA)
               \/ /\ ~needOOS \/ added
                  /\ ResourceDeletionCompleted
                  /\ needRm /\ ~removed
                  /\ EndStep(p, UpdateSnrStatusLastError(p, snr, snrFresh[p], m0, "NodeWriteFailed"), nodeA)
               \/ /\ ~needOOS \/ added
                  /\ ResourceDeletionCompleted
                  /\ ~needRm \/ removed
                  /\ EndStep(p, UpdateSnrStatusLastError(p, snr, snrFresh[p],
                                   [UpdateConditions("remediationFinishedSuccessfully", m0) EXCEPT !.phase = "Fencing-Completed"], NoError), nodeB)
       /\ UNCHANGED physVars

\* handleFencingCompletedPhase while the SNR is not being deleted
FencingCompletedIdle(p) ==
    /\ Remediating(p)
    /\ snap[p].phase = "Fencing-Completed"
    /\ ~snap[p].deleting
    /\ EndStep(p, UpdateSnrStatusLastError(p, snr, snrFresh[p], snap[p], NoError), node)
    /\ UNCHANGED physVars

\* handleFencingCompletedPhase on a deleted SNR: recoverNode marks the node
\* schedulable, waits for the unschedulable taint to go, removes the
\* NoExecute taint, then the finalizer (which lets the SNR be deleted)
RecoverNode(p) ==
    LET s == snap[p]
        n == nodeSnap[p]
    IN /\ Remediating(p)
       /\ s.phase = "Fencing-Completed"
       /\ s.deleting
       /\ \E ok1, ok2, ok3 \in WriteOutcomes(p) :
            LET r1      == IF n.unschedulable THEN UpdateOutcome(p, ok1, nodeFresh[p], TRUE) ELSE "Skipped"
                nodeA   == IF r1 = "Done" THEN [node EXCEPT !.unschedulable = FALSE] ELSE node
                n1      == IF r1 = "Done" THEN nodeA ELSE n
                needRm  == "NoExecute" \in n1.taints
                removed == needRm /\ CanWrite(p) /\ ok2
                nodeB   == IF removed THEN [nodeA EXCEPT !.taints = RemoveNoExecuteTaint(n1.taints)] ELSE nodeA
                r3      == UpdateOutcome(p, ok3, snrFresh[p], snr.exists)
                st      == IF s.finalizer /\ r3 = "Done"
                           THEN RemoveFinalizer(snr) ELSE snr
            IN \/ /\ r1 \in {"Conflict", "Failed"}
                  /\ EndStep(p, UpdateSnrStatusLastError(p, snr, snrFresh[p], s,
                                   IF r1 = "Failed" THEN "NodeWriteFailed" ELSE NoError), node)
               \/ /\ r1 \in {"Done", "Skipped"}
                  /\ WaitsForUnschedulableTaint(n1)
                  /\ EndStep(p, UpdateSnrStatusLastError(p, snr, snrFresh[p], s, NoError), nodeA)
               \/ /\ r1 \in {"Done", "Skipped"}
                  /\ ~WaitsForUnschedulableTaint(n1)
                  /\ needRm /\ ~removed
                  /\ EndStep(p, UpdateSnrStatusLastError(p, snr, snrFresh[p], s, "NodeWriteFailed"), nodeA)
               \/ /\ r1 \in {"Done", "Skipped"}
                  /\ ~WaitsForUnschedulableTaint(n1)
                  /\ ~needRm \/ removed
                  /\ EndStep(p, UpdateSnrStatusLastError(p, st, snrFresh[p], s,
                                   IF s.finalizer /\ r3 # "Done" THEN "SNRWriteFailed" ELSE NoError), nodeB)
       /\ UNCHANGED physVars

-----------------------------------------------------------------------------
(* The environment                                                         *)

\* the node lifecycle controller makes the unschedulable taint follow
\* node.Spec.Unschedulable
NodeControllerSyncsTaint ==
    /\ \/ /\ node.unschedulable
          /\ "Unschedulable" \notin node.taints
          /\ node' = [node EXCEPT !.taints = @ \cup {"Unschedulable"}]
       \/ /\ ~node.unschedulable
          /\ "Unschedulable" \in node.taints
          /\ node' = [node EXCEPT !.taints = @ \ {"Unschedulable"}]
    /\ nodeFresh' = Outdated(nodeFresh, TRUE)
    /\ UNCHANGED <<snr, pc, snap, nodeSnap, snrFresh>>
    /\ UNCHANGED physVars

\* the taint manager evicts the pods of a node with a NoExecute-effect taint
\* (the remediation taint and the out-of-service taint both have that
\* effect), when the pods' tolerationSeconds, if any, have run out
TaintManagerEvicts ==
    /\ node.taints \cap {"NoExecute", "OutOfService"} # {}
    /\ pods = "Running"
    /\ pods' = "Terminating"
    /\ UNCHANGED <<target, now, snr, node, vaAttached, pc, snap, nodeSnap, snrFresh, nodeFresh,
                   apiOK, lostAt, held, rebootAt, rebooted, running, cacheSnr, cacheNode>>

\* the out-of-service taint lets the pod GC force-delete terminating pods,
\* and the attach-detach controller then force-detach the volumes those
\* pods used
OutOfServiceCleanup ==
    /\ "OutOfService" \in node.taints
    /\ pods = "Terminating" \/ (pods = "Gone" /\ vaAttached)
    /\ pods' = "Gone"
    /\ vaAttached' = FALSE
    /\ UNCHANGED <<target, now, snr, node, pc, snap, nodeSnap, snrFresh, nodeFresh,
                   apiOK, lostAt, held, rebootAt, rebooted, running, cacheSnr, cacheNode>>

\* NHC gives up on the remediation: the nhc-timed-out annotation
NHCTimesOut ==
    /\ NHCTimeouts
    /\ snr.exists
    /\ ~snr.nhcTimedOut
    /\ snr' = [snr EXCEPT !.nhcTimedOut = TRUE]
    /\ snrFresh' = Outdated(snrFresh, TRUE)
    /\ UNCHANGED <<node, pc, snap, nodeSnap, nodeFresh>>
    /\ UNCHANGED physVars

\* NHC deletes the SNR: it is gone at once unless the finalizer holds it
NHCDeletes ==
    /\ snr.exists
    /\ ~snr.deleting
    /\ snr' = IF snr.finalizer THEN [snr EXCEPT !.deleting = TRUE]
                               ELSE [snr EXCEPT !.exists = FALSE]
    /\ snrFresh' = Outdated(snrFresh, TRUE)
    /\ UNCHANGED <<node, pc, snap, nodeSnap, nodeFresh>>
    /\ UNCHANGED physVars

\* the API check's error counter restarts only if a check succeeded, i.e.
\* if the connection held for a tick; a shorter reconnection goes unseen
LoseApi ==
    /\ ApiLoss
    /\ apiOK
    /\ apiOK' = FALSE
    /\ lostAt' = IF held THEN now ELSE lostAt
    /\ cacheSnr' = snr
    /\ cacheNode' = node
    /\ UNCHANGED <<target, now, snr, node, pods, vaAttached, pc, snap, nodeSnap, snrFresh,
                   nodeFresh, held, rebootAt, rebooted, running>>

RegainApi ==
    /\ ~apiOK
    /\ apiOK' = TRUE
    /\ held' = FALSE
    /\ cacheSnr' = InitialSNR
    /\ cacheNode' = InitialNode
    /\ UNCHANGED <<target, now, snr, node, pods, vaAttached, pc, snap, nodeSnap, snrFresh,
                   nodeFresh, lostAt, rebootAt, rebooted, running>>

\* the API check of a node without the API server: after DetectTime its
\* peers are asked, they find an SNR for the node and answer Unhealthy,
\* and the node reboots through its watchdog
PeersConfirmUnhealthy ==
    /\ ~apiOK
    /\ snr.exists
    /\ rebootAt = NoTime
    /\ now >= lostAt + DetectTime
    /\ rebootAt' = now + WatchdogTime
    /\ UNCHANGED <<target, now, snr, node, pods, vaAttached, pc, snap, nodeSnap, snrFresh,
                   nodeFresh, apiOK, lostAt, held, rebooted, running, cacheSnr, cacheNode>>

\* the watchdog resets the node; the agent restarts with an empty cache
WatchdogReset ==
    /\ rebootAt # NoTime
    /\ rebooted' = TRUE
    /\ running' = FALSE
    /\ rebootAt' = NoTime
    /\ lostAt' = now
    /\ pc' = [pc EXCEPT ![Agent] = "Idle"]
    /\ cacheSnr' = IF apiOK THEN cacheSnr ELSE [cacheSnr EXCEPT !.exists = FALSE]
    /\ snap' = [snap EXCEPT ![Agent] = InitialSNR]
    /\ nodeSnap' = [nodeSnap EXCEPT ![Agent] = InitialNode]
    /\ snrFresh' = [snrFresh EXCEPT ![Agent] = TRUE]
    /\ nodeFresh' = [nodeFresh EXCEPT ![Agent] = TRUE]
    /\ UNCHANGED <<target, now, snr, node, pods, vaAttached, apiOK, held, cacheNode>>

\* the kubelet of a node that reaches the API server syncs the pods bound
\* to it: after a reboot it starts their containers again, and it stops
\* the containers of a pod that is being deleted or gone.  The pods are
\* ones that do not tolerate the NoExecute taint, so they are not started
\* again on a node that carries it.  A node cut off from the API server
\* keeps running what it runs.
KubeletSyncsPods ==
    /\ KubeletSync
    /\ apiOK
    /\ running' = IF pods = "Running"
                   THEN running \/ "NoExecute" \notin node.taints
                   ELSE FALSE
    /\ running' # running
    /\ UNCHANGED <<target, now, snr, node, pods, vaAttached, pc, snap, nodeSnap, snrFresh,
                   nodeFresh, apiOK, lostAt, held, rebootAt, rebooted, cacheSnr, cacheNode>>

\* a connected agent reacts to Pre-Reboot-Completed before time passes
AgentMustReboot ==
    /\ AgentOwnsRequest(Agent)
    /\ apiOK
    /\ snr.exists
    /\ snr.phase = "Pre-Reboot-Completed"
    /\ ~IsStoppedByNHC(snr)
    /\ ~DidIRebootMyself
    /\ rebootAt = NoTime

\* a timer that compares a recorded time with now still runs: the wait for
\* TimeAssumedRebooted and for its out-of-service grace, the API check's
\* count towards asking the peers, the watchdog, and a reconnection that
\* must hold a tick to reset the error counter.  With none running, every
\* comparison with now keeps its value as time passes.
TimerPending ==
    \/ snr.exists /\ snr.tar # NoTime /\ now < snr.tar + OOSGrace
    \/ ~apiOK /\ snr.exists /\ rebootAt = NoTime /\ now < lostAt + DetectTime
    \/ rebootAt # NoTime
    \/ apiOK /\ ~held

\* time advances only while a timer runs, no deadline is due and no
\* reconcile is in flight: a reconcile, its API calls bounded by client
\* timeouts, ends well within one tick of the SafeTime scale
Tick ==
    /\ now < MaxTime
    /\ TimerPending
    /\ \A p \in Procs : pc[p] = "Idle"
    /\ rebootAt = NoTime \/ now < rebootAt
    /\ ~AgentMustReboot
    /\ ~(~apiOK /\ snr.exists /\ rebootAt = NoTime /\ now >= lostAt + DetectTime)
    /\ now' = now + 1
    /\ held' = (held \/ apiOK)
    /\ lostAt' = IF apiOK THEN 0 ELSE lostAt   \* unread until the next LoseApi
    /\ UNCHANGED <<target, snr, node, pods, vaAttached, pc, snap, nodeSnap, snrFresh, nodeFresh,
                   apiOK, rebootAt, rebooted, running, cacheSnr, cacheNode>>

-----------------------------------------------------------------------------

\* the SNR is gone and no reconcile is in flight: "SNR already deleted",
\* Reconcile has nothing left to do
RemediationEnded ==
    /\ ~snr.exists
    /\ \A p \in Procs : pc[p] = "Idle"
    /\ UNCHANGED vars

Init ==
    /\ now = 0
    /\ snr = InitialSNR
    /\ node = InitialNode
    /\ pods = "Running"
    /\ vaAttached \in IF RuntimeStrategy = "OutOfServiceTaint" THEN BOOLEAN ELSE {TRUE}
       \* with volumes or without; only isResourceDeletionCompleted tells them apart
    /\ pc = [p \in Procs |-> "Idle"]
    /\ snap = [p \in Procs |-> InitialSNR]
    /\ nodeSnap = [p \in Procs |-> InitialNode]
    /\ snrFresh = [p \in Procs |-> TRUE]
    /\ nodeFresh = [p \in Procs |-> TRUE]
    /\ apiOK \in IF ApiLoss THEN BOOLEAN ELSE {TRUE}
    /\ lostAt = 0
    /\ held = TRUE
    /\ rebootAt = NoTime
    /\ rebooted = FALSE
    /\ running = KubeletSync   \* untracked: FALSE for ever
    /\ cacheSnr = InitialSNR
    /\ cacheNode = InitialNode
    /\ target \in NodeCases

\* remediateWithResourceRemoval: the handler of the SNR's phase, with the
\* strategy's way of removing the node's resources (DeletePods or the
\* out-of-service taint) in the Reboot-Completed phase
RemediateWithResourceRemoval(p) ==
    \/ NotRebootCapable(p) \/ AddFinalizer(p) \/ PrepareReboot(p)   \* Fencing-Started
    \/ RebootIfNeeded(p) \/ WaitForReboot(p)                         \* Pre-Reboot-Completed
    \/ DeleteResources(p) \/ UseOutOfServiceTaint(p)                 \* Reboot-Completed
    \/ FencingCompletedIdle(p) \/ RecoverNode(p)                     \* Fencing-Completed

Reconcile(p) ==
    \/ Read(p)
    \/ StoppedByNHC(p)
    \/ NodeNotFound(p)
    \/ ExcludedNode(p)
    \/ RemediateWithResourceRemoval(p)

Environment ==
    \/ NodeControllerSyncsTaint
    \/ TaintManagerEvicts
    \/ OutOfServiceCleanup
    \/ NHCTimesOut
    \/ NHCDeletes
    \/ LoseApi
    \/ RegainApi
    \/ PeersConfirmUnhealthy
    \/ WatchdogReset
    \/ KubeletSyncsPods
    \/ Tick
    \/ RemediationEnded

Next == (\E p \in Procs : Reconcile(p)) \/ Environment

Spec == Init /\ [][Next]_vars

\* controller-runtime requeues the Manager's reconcile after every result
\* (Requeue, RequeueAfter, or an error with backoff) and the node lifecycle
\* controller keeps syncing the unschedulable taint: all the clean-up after
\* a deletion relies on
FairSpec ==
    /\ Spec
    /\ WF_vars(Reconcile(Manager))
    /\ WF_vars(NodeControllerSyncsTaint)

\* A remediation's progress also relies on the Agent's requeues, on time
\* passing, on an armed watchdog firing, on the API check asking the peers
\* once its threshold is reached, and on the taint manager and the
\* out-of-service pod GC and attach-detach controller.  Tick is enabled only
\* between reconciles, and reconciles may follow each other without end, so
\* the clock gets strong fairness: real time passes whatever the reconcilers
\* do.  The peers' verdict, once due, holds the clock back, and a flapping
\* link may disable it again and again: it gets strong fairness for the
\* same reason.  NHC and the network get none.
CompletionSpec ==
    /\ FairSpec
    /\ WF_vars(Reconcile(Agent))
    /\ SF_vars(Tick)
    /\ WF_vars(WatchdogReset)
    /\ SF_vars(PeersConfirmUnhealthy)
    /\ WF_vars(TaintManagerEvicts)
    /\ WF_vars(OutOfServiceCleanup)

-----------------------------------------------------------------------------
(* Properties                                                              *)

TypeOK ==
    /\ now \in 0..MaxTime
    /\ snr \in SNRs
    /\ node \in Nodes
    /\ pods \in {"Running", "Terminating", "Gone"}
    /\ vaAttached \in BOOLEAN
    /\ pc \in [Procs -> {"Idle", "Read"}]
    /\ snap \in [Procs -> SNRs]
    /\ nodeSnap \in [Procs -> Nodes]
    /\ snrFresh \in [Procs -> BOOLEAN]
    /\ nodeFresh \in [Procs -> BOOLEAN]
    /\ apiOK \in BOOLEAN
    /\ lostAt \in 0..MaxTime
    /\ held \in BOOLEAN
    /\ rebootAt \in {NoTime} \cup 0..(MaxTime + WatchdogTime)
    /\ rebooted \in BOOLEAN
    /\ running \in BOOLEAN
    /\ cacheSnr \in SNRs
    /\ cacheNode \in Nodes
    /\ target \in NodeCases

\* Fencing safety (spec 4.5, 8): the node's workloads are removed -- its
\* pods deleted by DeletePods or the out-of-service taint put on the node --
\* only once the node has actually rebooted during this remediation.  This
\* is what TimeAssumedRebooted, wasNodeRebooted and the self-reboot paths
\* (rebootIfNeeded, the peers' verdict, the watchdog) must achieve together.
RemovesResources ==
    \/ pods # "Gone" /\ pods' = "Gone"
    \/ "OutOfService" \notin node.taints /\ "OutOfService" \in node'.taints
FencingSafety == [][RemovesResources => rebooted]_vars

\* No split brain (spec 1: the node is power-cycled before its workloads
\* are deleted and relocated): when the pods are deleted, or the
\* out-of-service taint lets the cluster delete them, their containers no
\* longer run on a node cut off from the API server, whose kubelet would
\* never learn of the deletion.  It is about what counts as the reboot:
\* didIRebootMyself accepts any reboot since the SNR was created, and
\* wasNodeRebooted only the passing of TimeAssumedRebooted.
WorkloadStoppedWhenRemoved == [][RemovesResources => ~running \/ apiOK]_vars

\* Status only advances (spec I1, I2): while the SNR exists, a status write
\* by either reconciler never moves the phase back, and TimeAssumedRebooted,
\* once set, is never replaced -- despite both processes writing the status
\* from cached snapshots that may be stale.
StatusOnlyAdvances ==
    [][snr.exists /\ snr'.exists =>
         /\ PhaseRank[snr'.phase] >= PhaseRank[snr.phase]
         /\ (snr.tar # NoTime => snr'.tar = snr.tar)]_snr

\* Clean recovery: once the SNR is gone, the node it remediated carries no
\* NoExecute or out-of-service taint and is schedulable again -- no
\* reconcile running from an old snapshot leaves the node fenced.
NodeReleasedWhenSNRGone ==
    ~snr.exists => /\ node.taints \cap {"NoExecute", "OutOfService"} = {}
                   /\ ~node.unschedulable

\* Clean-up completes (spec 5, Fencing-Completed row): once NHC has deleted
\* an SNR whose fencing completed, the Manager's recoverNode -- mark the node
\* schedulable, wait for the taint to go, remove NoExecute, remove the
\* finalizer -- eventually lets the SNR disappear, despite conflicts with the
\* Agent's writes and the wait on the node controller.
DeletedSNREventuallyGone ==
    (snr.exists /\ snr.deleting /\ snr.phase = "Fencing-Completed") ~> ~snr.exists

\* Remediation completes (spec 5): the SNR of a node Reconcile does not
\* skip eventually reaches Fencing-Completed, or is deleted -- through the
\* wait for TimeAssumedRebooted, the Agent's reboot, transient failures
\* and, for the out-of-service strategy, the wait for the cluster to clean
\* the node up, retried with backoff once its grace has expired.
\* A wait returns RequeueAfter (wasNodeRebooted's timeLeft, the
\* out-of-service grace, one second in recoverNode), so the reconcilers do
\* not run back to back for ever: both are idle together again and again.
RemediationCompletes ==
    []<>(\A p \in Procs : pc[p] = "Idle")
        => ((snr.exists /\ target \notin SkippedCases)
                ~> (~snr.exists \/ snr.phase = "Fencing-Completed"))

\* Spec 5, Reboot-Completed row: the remediation reaches Fencing-Completed
\* only with the node's resources gone -- for the out-of-service strategy,
\* "wait until no pods/VAs remain" -- so no pod of the rebooted node is left
\* for the cluster to evict once the out-of-service taint that lets it
\* force-delete them has been removed again.  It is about what
\* isResourceDeletionCompleted waits for, read in the same reconcile that
\* has just added the taint.
WorkloadGoneWhenCompleted ==
    snr.exists /\ snr.phase = "Fencing-Completed" => pods = "Gone"

=============================================================================
