SPECIFICATION Spec
CONSTANTS
    c1 = c1
    c2 = c2
    Clients = {c1, c2}
    Requests <- Contended
    EngineCapacity = 1
    PopupCapacity = 1
    MaxSent = 3
    MaxVersion = 0
    MaxSpawned = 1
SYMMETRY Interchangeable
INVARIANTS TypeOK CounterLedger
PROPERTIES NoSecondWindow AnswersInOrder
CHECK_DEADLOCK FALSE
