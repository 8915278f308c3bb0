\* A control-plane target with an endpoint to ping, recorded at start and
\* again after every reboot; SNRs from NHC for it and for another node; peers
\* whose links and caches come and go.
CONSTANTS
    Peers = {p1, p2}
    NodeName = "node"
    MachineName = "machine"
    NoName = NoName
    LabelSets = {{"control-plane"}}
    EndpointUrl = TRUE
    Universe <- MC_UniverseNHC
    MaxApiErrorThreshold <- MC_MaxApiErrorThreshold
SPECIFICATION Spec
INVARIANT RebootJustified
