SPECIFICATION Spec
CONSTANTS
  MaxField = 9
  None = None
  NoPointer = NoPointer
INVARIANT EverySlotHasOneSource
INVARIANT FavouritesMeetLast
INVARIANT OutMeansBeaten
INVARIANT EveryPairMeetsOnce
INVARIANT GroupsApart
CHECK_DEADLOCK FALSE
