SPECIFICATION Spec
CONSTANTS
    Key = {a, b, c, d}
    Value = {x, y}
    Invalid = Invalid
    Nothing = Nothing
    Unused = Unused
    RAFT_MAX_LOG = 3
INVARIANTS
    KeysDiffer
    CountOfItems
PROPERTY BehavesLikeAMap
