SPECIFICATION Spec
CONSTANTS
  Names = {outbox, cut, long}
  LongNames = {long}
  Cut = cut
  Outbox = outbox
  GivenIds = {given}
  NoId = NoId
  NoMailbox = NoMailbox
  Sessions = {s1}
  MaxMessages = 2
  MaxAppends = 3
  Limit = 1
INVARIANTS GeneratedIdsUnique EnvelopeIsCurrent
PROPERTIES HistoryStable ExistsAgreesWithFetch
