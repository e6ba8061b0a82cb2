SPECIFICATION FairSpec
CONSTANTS
    c1 = c1
    c2 = c2
    Clients = {c1, c2}
    MaxRequests <- Requests
    NumFds = 4
    Names <- FourNames
    Type = "generic"
    Nobody = Nobody
CONSTRAINT OneThingAtATime
INVARIANTS
    TypeOK
    AnswersInOrder
    AnswersTruthful
    OnlyLastHangs
PROPERTIES
    RequestSettled
    AcceptedInTheEnd
