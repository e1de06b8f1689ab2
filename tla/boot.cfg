SPECIFICATION Spec
CONSTANTS
    p1 = p1
    p2 = p2
    n1 = n1
    NodeUnset = NodeUnset
    Procs = {p1, p2}
    Configs <- MCConfigs
    Generated = NodeUnset
    Stump = Stump
    NoProc = NoProc
    MaxStarts = 3
SYMMETRY Symmetry
INVARIANTS TypeOK IdentityKept NoTakeover ProvisionedInOrder
CHECK_DEADLOCK FALSE
