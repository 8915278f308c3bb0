\* Two reconcilers, transient failures of any API write, the node keeps
\* the API; ResourceDeletion strategy; NHC deletes, never times out.  The
\* node is remediable, or one Reconcile must skip: not found, excluded by
\* label, or not reboot-capable.
CONSTANTS
    Manager = Manager
    Agent = Agent
    Strategy = "ResourceDeletion"
    OutOfServiceTaintGA = FALSE
    NodeCases = {"Remediable", "NotFound", "Excluded", "NotRebootCapable"}
    NHCTimeouts = FALSE
    ApiLoss = FALSE
    KubeletSync = FALSE
    WriteFailures = TRUE
    SafeTime <- MC_SafeTime
    WatchdogTime <- MC_WatchdogTime
    DetectTime <- MC_DetectTime
    OOSGrace <- MC_OOSGrace
    MaxTime <- MC_MaxTime
SPECIFICATION Spec
INVARIANT NodeReleasedWhenSNRGone
PROPERTY FencingSafety
PROPERTY StatusOnlyAdvances
