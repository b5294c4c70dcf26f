SPECIFICATION Spec
CONSTANTS
  Route <- AllRoutes
  Token <- Letters
  MaxNew = 2
  PromptLens = {0, 1, 3, 4}
  MaxPromptTokens = 3
  MaxModelLen = 4
  Stops <- SomeStops
INVARIANTS
    AnswersAreTrue
    WaiterIsWoken
    AbandonedIsCancelled
    StreamIsWhole
PROPERTIES
    EveryCallAnswered
CHECK_DEADLOCK FALSE
