SPECIFICATION Spec
CONSTANTS
  LongBits = 15
  IntBits = 8
  Spelling <- MCSpelling
  Tokens <- MCTokens
  AuthMode = "token"
  MaxUpsertBatch = 2
  Calls <- MCCalls
  Ask <- MCAsk
  Handled <- MCHandled
  Starts <- MCStarts
  MaxWriteQueueDepth = 1
INVARIANTS EndToEnd ReadAfterAck WriteOutcome FilterMeaning WaitersHeld
PROPERTY StopClean
