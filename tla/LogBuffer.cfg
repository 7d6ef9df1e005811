SPECIFICATION BufferSpec
CONSTANTS
    Kinds = {a, b}
    NoFilter = NoFilter
    BaseCapacity = 2
    MaxAppends = 9
SYMMETRY KindSymmetry
INVARIANTS
    SizeIsBounded
    VictimsAreTheLoops
PROPERTIES
    MatchingGoLast
    ReflaggingKeepsAll
