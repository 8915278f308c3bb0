\* The Automatic strategy on a cluster where the out-of-service taint is
\* GA, on a node that keeps the API: remediation through the out-of-service
\* taint, with its wait for the cluster's clean-up and the retries after its
\* grace expires, under the fairness of the reconcilers' requeues, the
\* clock, the watchdog and the cluster's controllers; NHC may delete.
CONSTANTS
    Manager = Manager
    Agent = Agent
    Strategy = "Automatic"
    OutOfServiceTaintGA = TRUE
    NodeCases = {"Remediable"}
    NHCTimeouts = FALSE
    ApiLoss = FALSE
    KubeletSync = TRUE
    WriteFailures = FALSE
    SafeTime <- MC_SafeTime
    WatchdogTime <- MC_WatchdogTime
    DetectTime <- MC_DetectTime
    OOSGrace <- MC_OOSGrace
    MaxTime <- MC_MaxTimeShort
SPECIFICATION CompletionSpec
PROPERTY FencingSafety
PROPERTY StatusOnlyAdvances
PROPERTY RemediationCompletes
PROPERTY DeletedSNREventuallyGone
