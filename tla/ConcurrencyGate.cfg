\* Two slots, a queue of two and five clients: a newcomer can meet running,
\* woken, queued and expired requests at once.
CONSTANTS
    c1 = c1
    c2 = c2
    c3 = c3
    c4 = c4
    c5 = c5
    Clients <- FiveClients
    Limit = 2
    QueueSize = 2
SPECIFICATION Spec
INVARIANTS
    TypeOK
    SlotsConserved
    CountersAgree
    NoIdleSlot
PROPERTIES
    NoOvertaking
    Answered
    ImplementsAdmission
