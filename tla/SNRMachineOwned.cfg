\* An SNR created by a machine-based detector: named after the machine, it
\* leads getNodeFromSnr to the node through the Machine owner.  The node
\* keeps the API.  Is it rebooted before its pods are deleted?
CONSTANTS
    Manager = Manager
    Agent = Agent
    Strategy = "ResourceDeletion"
    OutOfServiceTaintGA = FALSE
    NodeCases = {"ViaMachine"}
    NHCTimeouts = FALSE
    ApiLoss = FALSE
    KubeletSync = FALSE
    WriteFailures = FALSE
    SafeTime <- MC_SafeTime
    WatchdogTime <- MC_WatchdogTime
    DetectTime <- MC_DetectTime
    OOSGrace <- MC_OOSGrace
    MaxTime <- MC_MaxTime
SPECIFICATION Spec
PROPERTY FencingSafety
