\* NHC may time the remediation out (nhc-timed-out annotation) and then
\* delete the SNR: FencingSafety is checked alone.
CONSTANTS
    Manager = Manager
    Agent = Agent
    Strategy = "ResourceDeletion"
    OutOfServiceTaintGA = FALSE
    NodeCases = {"Remediable"}
    NHCTimeouts = TRUE
    ApiLoss = TRUE
    KubeletSync = FALSE
    WriteFailures = FALSE
    SafeTime <- MC_SafeTime
    WatchdogTime <- MC_WatchdogTime
    DetectTime <- MC_DetectTime
    OOSGrace <- MC_OOSGrace
    MaxTime <- MC_MaxTime
SPECIFICATION Spec
PROPERTY FencingSafety
