\* Two slices of one service on two nodes, two changes.
CONSTANTS
    None = None
    Service = {"svc"}
    ServiceSpecs <- MCServiceSpecs
    Node = {"n1", "n2"}
    SliceName = {"a", "b"}
    Slices <- MCSlices
    Addresses = {1, 2, 11, 12, 13, 90}
    IPv4 = {1, 2, 11, 12, 13}
    NodeAddresses = {1, 2}
    Selector = None
    Self = "n1"
    MaxChanges = 2
SPECIFICATION EndSpec
INVARIANTS
    EndTypeOK
    ServesItsOwnPort
PROPERTIES
    StableWhileUnchanged
CHECK_DEADLOCK FALSE
