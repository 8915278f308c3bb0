\* Out-of-service remediation: is the node released once the SNR is gone,
\* with both reconcilers merge-patching its taint list?
CONSTANTS
    Manager = Manager
    Agent = Agent
    Strategy = "Automatic"
    OutOfServiceTaintGA = TRUE
    NodeCases = {"Remediable"}
    NHCTimeouts = FALSE
    ApiLoss = TRUE
    KubeletSync = FALSE
    WriteFailures = FALSE
    SafeTime <- MC_SafeTime
    WatchdogTime <- MC_WatchdogTime
    DetectTime <- MC_DetectTime
    OOSGrace <- MC_OOSGrace
    MaxTime <- MC_MaxTime
SPECIFICATION Spec
INVARIANT NodeReleasedWhenSNRGone
