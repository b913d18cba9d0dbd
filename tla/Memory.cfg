SPECIFICATION FairSpec
CONSTANTS
  Publishers = {p1}
  MemorySize = 8
  Configs <- AllConfigs
  Sizes = {1, 3, 5}
  MaxMessages = 4
  MaxSends = 1
  MaxHeld = 1
INVARIANTS TypeOK PartitionsTile IndexedPayloadIntact OccupiedAreIndexed BuddyBlocks NoFreeBuddies
PROPERTIES MisreadOnlyIfEvictedOrMoved NoNeedlessEviction PublicationEnds ImplementsMessageStore
CHECK_DEADLOCK FALSE
