SPECIFICATION Spec
CONSTANTS
  miyazaki = miyazaki
  walt = walt
  Guests <- MCGuests
  Kinds <- MCKinds
  MaxMessages = 2
  HistoryCap = 1
  GuestSlots = 1
  MaxDrafts = 2
INVARIANTS AnswersInOwnRound TurnIsClosed
PROPERTIES OneDraftOfOwn EveryMessageHandled
CHECK_DEADLOCK FALSE
