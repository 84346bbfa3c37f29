\* Three jobs and two consumers of one queue.  The keeper really stops after a shutdown.
CONSTANTS
  Keys = {position, price, rescan}
  Consumers = {worker1, worker2}
  None = None
SPECIFICATION FairSpec
CHECK_DEADLOCK FALSE
INVARIANTS
  TypeOK
  KeysAreQueued
  NoSleeperWhileQueued
  SleepersAreIdle
PROPERTIES
  ImplementsWorkSet
  EveryJobTaken
