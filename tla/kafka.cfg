SPECIFICATION FairSpec
INVARIANTS KafkaInductive NoAnswerIsLost CrashIsExplained
PROPERTIES BootGivesConsumer NothingIsForgotten WatchersEnd SenderIsAnswered
CONSTANTS
  Senders = {s1, s2}
  Buffered = {s2}
  Configs <- SmallConfigs
CHECK_DEADLOCK FALSE
