\* Two reconcilers, API loss of the remediated node, ResourceDeletion
\* strategy, writes always reach the server; NHC deletes, never times out.
CONSTANTS
    Manager = Manager
    Agent = Agent
    Strategy = "ResourceDeletion"
    OutOfServiceTaintGA = FALSE
    NodeCases = {"Remediable"}
    NHCTimeouts = FALSE
    ApiLoss = TRUE
    KubeletSync = FALSE
    WriteFailures = FALSE
    SafeTime <- MC_SafeTime
    WatchdogTime <- MC_WatchdogTime
    DetectTime <- MC_DetectTime
    OOSGrace <- MC_OOSGrace
    MaxTime <- MC_MaxTime
SPECIFICATION Spec
INVARIANT NodeReleasedWhenSNRGone
PROPERTY FencingSafety
PROPERTY StatusOnlyAdvances
