SPECIFICATION Spec
INVARIANT ConsumerIsThere
CONSTANTS
  Senders = {s1, s2}
  Buffered = {s2}
  Configs <- SmallConfigs
CHECK_DEADLOCK FALSE
