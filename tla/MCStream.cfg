SPECIFICATION Spec
CONSTANTS
    MaxPayload = 90
    MaxRecords = 2
    MaxStrings = 2
    Windows = {1, 2}
    Scripts <- MCScripts
    Responses <- MCResponses
INVARIANTS
    RoundTrip
    Delivered
    AnswersMatch
PROPERTIES
    Answered
CHECK_DEADLOCK FALSE
