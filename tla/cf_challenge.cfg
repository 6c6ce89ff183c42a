SPECIFICATION Spec
CONSTANTS
    NoToken = NoToken
    Primary = {a}
    Fallback = {}
    MaxTokens = 2
    PerTokenRetries = 2
    EventCap = 1
    OutCap = 1
    Lines = 2
    Answers = {"challenge"}
    AtOnce = {}
INVARIANT ChallengeResetsSession
CHECK_DEADLOCK FALSE
