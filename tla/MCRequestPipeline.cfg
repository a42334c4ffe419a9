SPECIFICATION MCSpec
CONSTANTS
    Requests = {r1, r2}
    NoRequest = NoRequest
    App = App
    DropsAcquirers = FALSE
    MaxTokens = 2
    MayDiffer = {r2}
PROPERTIES RenewalHasCause RetryIsNew EveryRequestEnds
INVARIANTS OneSignIn WaiterIsNotified
CHECK_DEADLOCK FALSE
