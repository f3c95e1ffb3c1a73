SPECIFICATION CheckSpec
CONSTANT Names = {a, b, c, d}
INVARIANT ErrorsArePushed
CHECK_DEADLOCK FALSE
