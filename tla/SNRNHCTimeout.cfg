\* NHC may time the remediation out and delete the SNR: the status and the
\* node's release when the SNR is gone.
CONSTANTS
    Manager = Manager
    Agent = Agent
    Strategy = "ResourceDeletion"
    OutOfServiceTaintGA = FALSE
    NodeCases = {"Remediable"}
    NHCTimeouts = TRUE
    ApiLoss = TRUE
    KubeletSync = FALSE
    WriteFailures = FALSE
    SafeTime <- MC_SafeTime
    WatchdogTime <- MC_WatchdogTime
    DetectTime <- MC_DetectTime
    OOSGrace <- MC_OOSGrace
    MaxTime <- MC_MaxTimeShort
SPECIFICATION Spec
INVARIANT NodeReleasedWhenSNRGone
PROPERTY StatusOnlyAdvances
