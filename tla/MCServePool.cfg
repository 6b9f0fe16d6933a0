SPECIFICATION HungSpec
CONSTANTS
    Workers = {w1, w2}
    Conns = {c1, c2, c3}
    QUEUE_CAP = 1
    None = None
ACTION_CONSTRAINT ArriveInTurn
PROPERTY ImplementsContract
PROPERTY EveryConnectionSettled
PROPERTY QueueServedByFreeWorker
INVARIANT IInv
INVARIANT GaugesBounded
INVARIANT Conservation
INVARIANT HighWater
CHECK_DEADLOCK FALSE
