\* The out-of-service strategy on a node that keeps the API: does the
\* remediation wait until the node's pods are gone, as spec 5 says?
CONSTANTS
    Manager = Manager
    Agent = Agent
    Strategy = "OutOfServiceTaint"
    OutOfServiceTaintGA = TRUE
    NodeCases = {"Remediable"}
    NHCTimeouts = FALSE
    ApiLoss = FALSE
    KubeletSync = FALSE
    WriteFailures = FALSE
    SafeTime <- MC_SafeTime
    WatchdogTime <- MC_WatchdogTime
    DetectTime <- MC_DetectTime
    OOSGrace <- MC_OOSGrace
    MaxTime <- MC_MaxTimeShort
SPECIFICATION Spec
INVARIANT WorkloadGoneWhenCompleted
