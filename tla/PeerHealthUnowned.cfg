\* A worker whose SNR was created without an owner reference.
CONSTANTS
    Peers = {p1, p2}
    NodeName = "node"
    MachineName = "machine"
    NoName = NoName
    LabelSets = {{"worker"}}
    EndpointUrl = TRUE
    Universe <- MC_UniverseWithHand
    MaxApiErrorThreshold <- MC_MaxApiErrorThreshold
SPECIFICATION Spec
INVARIANT FencedWhenRemediated
