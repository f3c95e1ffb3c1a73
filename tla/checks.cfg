SPECIFICATION CheckSpec
CONSTANT Names = {a, b, c, d}
INVARIANTS CheckInductive VerdictIsRight ChainIsGenuine
PROPERTIES ChecksShrink ChecksEnd
CHECK_DEADLOCK FALSE
