SPECIFICATION FairSpec
CONSTANTS
    NumEvents = 2
    Close = Close
    Free = Free
    Handlers = {h1}
    Grace = 1
    WithWatchdog = TRUE
CHECK_DEADLOCK FALSE
INVARIANTS OneSocket OpenWhileServing
PROPERTIES AnswerIsFinal EverySinkTried ComesDown
