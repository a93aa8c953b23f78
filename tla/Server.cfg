SPECIFICATION Spec
CONSTANTS
    Threads = {c1, c2}
    NoThread = none
    CliClients = {c1}
    Outcomes = {"ok", "refused", "panics"}
    MaxRequests = 2
INVARIANTS
    OneQueryAtATime ReplyIsForRequest RunsInTheLanguageMeant NoOtherHangup
PROPERTIES
    EveryRequestEnds
CHECK_DEADLOCK FALSE
