\* Two clients, pipes of one message, two messages of each client.
SPECIFICATION FairSpec
CONSTANTS
    Clients = {c1, c2}
    MaxSends = 2
    PipeCapacity = 1
INVARIANTS
    TypeOK
    NothingLost
    NeverBackwards
    AnswersToTheirClient
    NeverBothBlocked
PROPERTIES
    MessagesArrive
    DisconnectEnds
