\* The kubelet's pod sync is tracked: a node that rebooted through its API
\* check before it was fenced runs its pods again, and the reboot counts as
\* the remediation's.  Are the pods deleted while they run on a node cut
\* off from the API server?
CONSTANTS
    Manager = Manager
    Agent = Agent
    Strategy = "ResourceDeletion"
    OutOfServiceTaintGA = FALSE
    NodeCases = {"Remediable"}
    NHCTimeouts = FALSE
    ApiLoss = TRUE
    KubeletSync = TRUE
    WriteFailures = FALSE
    SafeTime <- MC_SafeTime
    WatchdogTime <- MC_WatchdogTime
    DetectTime <- MC_DetectTime
    OOSGrace <- MC_OOSGrace
    MaxTime <- MC_MaxTime
SPECIFICATION Spec
PROPERTY WorkloadStoppedWhenRemoved
