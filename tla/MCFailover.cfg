SPECIFICATION Spec
CONSTANTS
  N = 3
  MaxAttempts = 3
  MaxTokens = 2
  Managed = {1, 3}
INVARIANTS
  FailuresComplete
  RetriesSpent
  ResponsesReleased
PROPERTIES
  GenerationSpec
  NeverStuckBeforeFirstToken
