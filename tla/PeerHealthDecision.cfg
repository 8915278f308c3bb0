\* A target labelled worker, control-plane or both (a compact cluster's
\* node, which setNodeRole makes a worker); SNRs from NHC and a machine
\* health check; peers whose links and caches come and go, and a target
\* whose own link comes and goes. No endpoint URL: the diagnostics and the
\* endpoint do not bear on these properties and are checked by
\* PeerHealthControlPlane.cfg.
CONSTANTS
    Peers = {p1, p2}
    NodeName = "node"
    MachineName = "machine"
    NoName = NoName
    LabelSets = {{"worker"}, {"control-plane"}, {"worker", "control-plane"}}
    EndpointUrl = FALSE
    Universe <- MC_Universe
    MaxApiErrorThreshold <- MC_MaxApiErrorThreshold
SPECIFICATION FairSpec
INVARIANT FencedWhenRemediated
INVARIANT RebootJustified
PROPERTY StaleCacheOnlyDelaysFencing
