----------------------------- MODULE PeerHealth -----------------------------
(***************************************************************************)
(* The self-fencing decision of one node (the target) that lost the API   *)
(* server, and the peer-health servers it asks.                            *)
(*                                                                         *)
(*  - the target's API check counts failed probes and, at the threshold,  *)
(*    asks its peers (outside src/, modelled from the spec, 4.2 and 4.4);  *)
(*  - each peer answers IsHealthy (src/pkg/peerhealth/server.go): it      *)
(*    lists the SNRs from its informer cache, and for each one Gets an    *)
(*    SNR by name, directly from the API server, in that SNR's namespace: *)
(*    the node name for an NHC-owned SNR, the machine name otherwise;     *)
(*  - the answers are classified (spec 4.4 table) and a control-plane     *)
(*    target decides with IsControlPlaneHealthy                           *)
(*    (src/pkg/controlplane/manager.go).                                  *)
(*                                                                         *)
(* The store's SNRs come from a small universe of records; which of them  *)
(* remediate the target is decided as the reconciler's getNodeFromSnr     *)
(* decides it.                                                             *)
(***************************************************************************)
EXTENDS Naturals, FiniteSets

CONSTANTS
    Peers,              \* the worker peers in the target's registry
    Universe,           \* the SNRs that may exist: [name, ns, owner]
    NodeName,           \* the target's node name
    MachineName,        \* the target's machine name, or NoName without machines
    NoName,             \* the empty name
    LabelSets,          \* the role labels the target's Node may carry
    EndpointUrl,        \* END_POINT_HEALTH_CHECK_URL is set
    MaxApiErrorThreshold

ASSUME MaxApiErrorThreshold \in Nat \ {0}
\* "control-plane" stands for the label GetUsedControlPlaneLabel picks
ASSUME LabelSets \subseteq SUBSET {"worker", "control-plane"}
ASSUME EndpointUrl \in BOOLEAN

VARIABLES
    store,          \* the SNRs in the API server
    cache,          \* cache[p]: the SNRs in peer p's informer cache
    peerApi,        \* peerApi[p]: peer p reaches the API server
    targetApi,      \* the target reaches the API server
    errCount,       \* the target's API error counter
    role,           \* the target's nodeRole, set at start
    accessibleAtStart, \* wasEndpointAccessibleAtStart, set at start
    last            \* what the latest consultation saw and decided

vars == <<store, cache, peerApi, targetApi, errCount, role, accessibleAtStart, last>>

Codes == {"Healthy", "Unhealthy", "ApiError"}

Reasons == {"UnHealthyBecausePeersResponse", "UnHealthyBecauseNodeIsIsolated",
            "HealthyBecauseCRNotFound", "HealthyBecauseMostPeersCantAccessAPIServer",
            "HealthyBecauseNoPeersWereFound"}

NoConsult == [reason |-> "None"]

-----------------------------------------------------------------------------
(* The reconciler's view: which SNRs remediate the target.                 *)

IsOwnedByNHC(s) == s.owner = "NodeHealthCheck"

\* getNodeFromSnr: a Machine-owned SNR names its machine (the owner
\* reference, named like the SNR), any other SNR is named after its node
RemediatesTarget(s) ==
    IF s.owner = "Machine"
    THEN MachineName # NoName /\ s.name = MachineName
    ELSE s.name = NodeName

Remediated == \E s \in store : RemediatesTarget(s)

-----------------------------------------------------------------------------
(* The peer-health server.                                                 *)

\* isHealthyBySnr: a direct Get of the SNR; NotFound is Healthy, any other
\* error (no API, or the empty name the dynamic client refuses) is ApiError
IsHealthyBySnrNotFoundUnhealthy(p, name, ns) ==   \* mutant: IsNotFound check lost
    IF ~peerApi[p] \/ name = NoName THEN "ApiError" ELSE "Unhealthy"

IsHealthyBySnr(p, name, ns) ==
    CASE ~peerApi[p] \/ name = NoName                         -> "ApiError"
      [] \E s \in store : s.name = name /\ s.ns = ns           -> "Unhealthy"
      [] OTHER                                                  -> "Healthy"

\* the name IsHealthy looks up for a listed SNR
LookupNameSwapped(s) == IF IsOwnedByNHC(s) THEN MachineName ELSE NodeName  \* mutant
LookupName(s) == IF IsOwnedByNHC(s) THEN NodeName ELSE MachineName

\* IsHealthy: the first non-Healthy code of the loop over the cached list;
\* the cache lists in no fixed order, so any non-Healthy code may come first
IsHealthyHealthyFirst(p) ==     \* mutant: the loop stops at a Healthy code
    LET codes == {IsHealthyBySnr(p, LookupName(s), s.ns) : s \in cache[p]}
    IN  IF "Healthy" \in codes \/ codes = {} THEN {"Healthy"} ELSE codes

IsHealthy(p) ==
    LET codes == {IsHealthyBySnr(p, LookupName(s), s.ns) : s \in cache[p]}
    IN  IF codes \subseteq {"Healthy"} THEN {"Healthy"} ELSE codes \ {"Healthy"}

-----------------------------------------------------------------------------
(* The control-plane manager (src/pkg/controlplane/manager.go).            *)

NoRole == "None"

\* setNodeRole: the worker label wins; a node with neither label keeps the
\* zero role
SetNodeRole(labels) ==
    IF "worker" \in labels THEN "Worker"
    ELSE IF "control-plane" \in labels THEN "ControlPlane"
    ELSE NoRole

IsControlPlane == role = "ControlPlane"

\* isEndpointAccessible: without a URL the endpoint counts as reachable,
\* otherwise the pinger's run (3 pings within 5 s) decides
IsEndpointAccessible(pingOK) == ~EndpointUrl \/ pingOK

\* initializeManager records the endpoint's reachability once, at start
AccessibleAtStartValues == {IsEndpointAccessible(ping) : ping \in BOOLEAN}

\* mutant: the endpoint counts as lost whenever it is unreachable
IsEndpointAccessLostUnguarded(pingOK) == ~IsEndpointAccessible(pingOK)

\* isEndpointAccessLost: only an endpoint reachable at start can be lost
IsEndpointAccessLost(pingOK) ==
    accessibleAtStart /\ ~IsEndpointAccessible(pingOK)

\* isEtcdRunning is not implemented and answers true
IsEtcdRunning == TRUE

-----------------------------------------------------------------------------
(* The consultation (spec 4.4) and the control-plane decision.             *)

Quorum == Cardinality(Peers) \div 2 + 1

\* the classification of the answers of the peers that answered; peers that
\* all answer Healthy (they find no SNR for the node) give the reason
\* IsControlPlaneHealthy handles as "reported healthy by worker peers",
\* HealthyBecauseCRNotFound (spec 4.4's table names it
\* HealthyBecausePeersResponse, which src/ never uses)
Classify(answers, answered) ==
    CASE Peers = {}                                   -> "HealthyBecauseNoPeersWereFound"
      [] answered = {}                                -> "UnHealthyBecauseNodeIsIsolated"
      [] \E p \in answered : answers[p] = "Unhealthy" -> "UnHealthyBecausePeersResponse"
      [] \E p \in answered : answers[p] = "Healthy"   -> "HealthyBecauseCRNotFound"
      [] Cardinality(answered) >= Quorum              -> "HealthyBecauseMostPeersCantAccessAPIServer"
      [] OTHER                                        -> "Undecided"

\* isDiagnosticsPassed: the endpoint not lost, the kubelet answering on
\* its port (isKubeletServiceRunning), etcd running
IsDiagnosticsPassed(pingOK, kubeletRunning) ==
    /\ ~IsEndpointAccessLost(pingOK)
    /\ kubeletRunning
    /\ IsEtcdRunning

IsControlPlaneHealthy(reason, canOtherMastersBeReached, diag) ==
    CASE reason = "UnHealthyBecausePeersResponse"              -> FALSE
      [] reason = "UnHealthyBecauseNodeIsIsolated"             -> canOtherMastersBeReached
      [] reason \in {"HealthyBecauseErrorsThresholdNotReached",
                     "HealthyBecauseCRNotFound"}               -> TRUE
      [] reason = "HealthyBecauseMostPeersCantAccessAPIServer" -> diag
      [] reason = "HealthyBecauseNoPeersWereFound"             -> diag /\ canOtherMastersBeReached
      [] OTHER                                                 -> FALSE

\* a worker reboots on the two unhealthy classifications
MustReboot(reason, masters, diag) ==
    IF IsControlPlane
    THEN ~IsControlPlaneHealthy(reason, masters, diag)
    ELSE reason \in {"UnHealthyBecausePeersResponse", "UnHealthyBecauseNodeIsIsolated"}

-----------------------------------------------------------------------------
(* The target's API check (spec 4.2): a probe every ApiCheckInterval,     *)
(* which succeeds or fails as the target's link to the API server allows. *)

ProbeApi ==
    /\ errCount < MaxApiErrorThreshold
    /\ errCount' = IF targetApi THEN 0 ELSE errCount + 1
    /\ UNCHANGED <<store, cache, peerApi, targetApi, role, accessibleAtStart, last>>

\* NewClient: without credentials, or when the blocking dial (which reports
\* the connection error) does not complete within peerDialTimeout, there is
\* no client; so any set of peers may be the ones that answer
DialledPeers == SUBSET Peers

\* only a control-plane target asks the other masters and runs its
\* diagnostics (IsControlPlaneHealthy); for any other target they are unused
Probed == IF IsControlPlane THEN BOOLEAN ELSE {TRUE}

\* at the threshold the target asks its peers; each peer that answers in
\* time gives one of the codes its IsHealthy can give; a reboot restarts
\* the agent, whose control-plane manager re-reads the endpoint at start
Consult ==
    /\ errCount >= MaxApiErrorThreshold
    /\ \E answered \in DialledPeers : \E answers \in [answered -> Codes] :
         /\ \A p \in answered : answers[p] \in IsHealthy(p)
         /\ LET reason == Classify(answers, answered) IN
            /\ reason # "Undecided"
            /\ \E masters, pingOK, kubelet \in Probed :
                 LET diag   == IsDiagnosticsPassed(pingOK, kubelet)
                     reboot == MustReboot(reason, masters, diag)
                 IN  /\ last' = [reason     |-> reason,
                                 reboot     |-> reboot,
                                 atStart    |-> accessibleAtStart,
                                 endpoint   |-> IsEndpointAccessible(pingOK),
                                 kubelet    |-> kubelet,
                                 answered   |-> answered # {},
                                 remediated |-> Remediated,
                                 synced     |-> \A p \in answered :
                                                   peerApi[p] /\ cache[p] = store]
                     /\ errCount' = IF reboot \/ reason = "HealthyBecauseCRNotFound"
                                    THEN 0 ELSE errCount
                     /\ accessibleAtStart' \in IF reboot THEN AccessibleAtStartValues
                                              ELSE {accessibleAtStart}
    /\ UNCHANGED <<store, cache, peerApi, targetApi, role>>

-----------------------------------------------------------------------------
(* The environment: NHC or MHC create and delete SNRs, the peers' caches  *)
(* follow the store while they reach the API server, links come and go.  *)

CreateSnr ==
    \E s \in Universe \ store :
        /\ store' = store \cup {s}
        /\ UNCHANGED <<cache, peerApi, targetApi, errCount, role, accessibleAtStart, last>>

DeleteSnr ==
    \E s \in store :
        /\ store' = store \ {s}
        /\ UNCHANGED <<cache, peerApi, targetApi, errCount, role, accessibleAtStart, last>>

CacheSync(p) ==
    /\ peerApi[p]
    /\ cache[p] # store
    /\ cache' = [cache EXCEPT ![p] = store]
    /\ UNCHANGED <<store, peerApi, targetApi, errCount, role, accessibleAtStart, last>>

PeerLinkChanges(p) ==
    /\ peerApi' = [peerApi EXCEPT ![p] = ~@]
    /\ UNCHANGED <<store, cache, targetApi, errCount, role, accessibleAtStart, last>>

TargetLinkChanges ==
    /\ targetApi' = ~targetApi
    /\ UNCHANGED <<store, cache, peerApi, errCount, role, accessibleAtStart, last>>

-----------------------------------------------------------------------------

Init ==
    /\ store = {}
    /\ cache = [p \in Peers |-> {}]
    /\ peerApi = [p \in Peers |-> TRUE]
    /\ targetApi \in BOOLEAN
    /\ errCount = 0
    /\ \E labels \in LabelSets : role = SetNodeRole(labels)
    /\ accessibleAtStart \in AccessibleAtStartValues
    /\ last = NoConsult

Next ==
    \/ ProbeApi
    \/ Consult
    \/ CreateSnr
    \/ DeleteSnr
    \/ TargetLinkChanges
    \/ \E p \in Peers : CacheSync(p) \/ PeerLinkChanges(p)

Spec == Init /\ [][Next]_vars

\* The target's API check runs on a ticker and asks its peers whenever the
\* counter is at the threshold; a peer's informer delivers the store's
\* changes while the peer reaches the API server (client-go re-lists and
\* re-watches). Each of these stays enabled until it is taken.
FairSpec ==
    /\ Spec
    /\ WF_vars(ProbeApi)
    /\ WF_vars(Consult)
    /\ \A p \in Peers : WF_vars(CacheSync(p))

-----------------------------------------------------------------------------
(* Properties.                                                             *)

TypeOK ==
    /\ store \subseteq Universe
    /\ cache \in [Peers -> SUBSET Universe]
    /\ peerApi \in [Peers -> BOOLEAN]
    /\ targetApi \in BOOLEAN
    /\ errCount \in 0..MaxApiErrorThreshold
    /\ role \in {"Worker", "ControlPlane", NoRole}
    /\ accessibleAtStart \in BOOLEAN
    /\ last = NoConsult \/ last.reason \in Reasons

\* The assumption the reconciler's TimeAssumedRebooted rests on: a target
\* whose SNR exists, asking peers that reach the API server and whose caches
\* are in sync, reboots. It is about IsHealthy's choice of name and
\* namespace per listed SNR, the classification, and IsControlPlaneHealthy.
FencedWhenRemediated ==
    (last # NoConsult /\ last.remediated /\ last.answered /\ last.synced) => last.reboot

\* Spec 4.6's diagnostics, from what the node observed at the consultation:
\* they fail when the health endpoint, reachable when the agent started, is
\* unreachable now, or the kubelet does not respond (etcd is not observed)
SpecDiagnosticsFailed(c) == (c.atStart /\ ~c.endpoint) \/ ~c.kubelet

\* A node that some peer answered reboots only if an SNR remediates it, or,
\* for a control-plane node, if spec 4.6's diagnostics failed (spec 4.4
\* scenarios 2 and 4, spec 4.6): IsHealthy's NotFound/ApiError distinction,
\* the classification, IsControlPlaneHealthy and isDiagnosticsPassed with
\* the endpoint recorded at start keep it running otherwise, whatever the
\* peers' caches hold.
RebootJustified ==
    (last # NoConsult /\ last.reboot /\ last.answered) =>
        \/ last.remediated
        \/ IsControlPlane /\ SpecDiagnosticsFailed(last)

\* a consultation that decides to reboot: only Consult takes the counter from
\* the threshold back to zero
RebootDecided ==
    errCount >= MaxApiErrorThreshold /\ errCount' = 0 /\ last'.reboot

\* A peer's IsHealthy lists SNRs from its informer cache (server.go:124), so
\* a peer whose cache lags the store answers Healthy about a remediated
\* target, and the target resets its counter and keeps running a further
\* round. The lag only delays the fencing: a worker (or unlabelled) target
\* that stays cut off from the API server while an SNR remediates it, with
\* peers that reach the API server and a store that stops changing,
\* reboots again and again, whatever the peers answered before their
\* caches caught up.
StaleCacheOnlyDelaysFencing ==
    ( /\ role # "ControlPlane"
      /\ <>[](Remediated /\ ~targetApi /\ \A p \in Peers : peerApi[p])
      /\ <>[][UNCHANGED store]_vars )
    => []<><<RebootDecided>>_vars
====
