SPECIFICATION FairSpec
CONSTANTS
    NoToken = NoToken
    Primary = {a}
    Fallback = {b}
    MaxTokens = 1
    PerTokenRetries = 3
    EventCap = 1
    OutCap = 1
    Lines = 1
    Answers = {"limited", "challenge"}
    AtOnce = {"policy", "other"}
INVARIANT TypeOK
INVARIANT OneEnding
INVARIANT OnlyWholeAnswersFinish
INVARIANT CooledNotCalled
PROPERTY RequestEnds
CHECK_DEADLOCK FALSE
