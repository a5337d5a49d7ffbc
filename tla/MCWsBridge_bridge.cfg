SPECIFICATION FairSpec
CONSTANTS
    SetupMax = 3
    MaxAttempts = 2
    Verifies = {TRUE, FALSE}
    Plain = {2}
    MaxMessages = 3
    MaxOutputs = 2
INVARIANTS TypeOK OneSetup TicketMatchesDoor AttemptsBounded NothingLeaks
PROPERTIES NoShotForNobody KeepsPipe MessagesServed
CHECK_DEADLOCK FALSE
