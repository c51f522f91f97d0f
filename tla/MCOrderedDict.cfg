SPECIFICATION DictSpec
CONSTANTS
    Key = {a, b, c}
    Gone = Gone
    Lost = Lost
    Estimates = {8}
    InitSize = 1
    Slack = 2
    Spare = 0
    ByteSize = 11
    a = a
    b = b
    c = c
SYMMETRY Symmetry
INVARIANTS
    IndexIsRight
    FreeSlotLeft
    SkippedAreDeleted
PROPERTIES
    ImplementsOrderedMap
