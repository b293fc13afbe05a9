SPECIFICATION FairSpec
CONSTANTS
    Machines <- MCMachines
    Cids = {3, 4}
    MaxConns = 2
    MaxConnsPerCid = 1
    Timeout = 1
    Grace = 2
    MaxAlerts = 2
    Slots = 3
    CollectorPlans <- MCCollectorPlans
    Sources = {"p", "q"}
    FrontPlans <- MCFrontPlans
    CleanupInterval = 2
    Skew = 1
    LoginPlans <- MCLoginPlans
    IdlePlans <- MCIdlePlans
    MaxSweeps = 2
    SweepTimeout = 1
    InventoryPlans <- MCInventoryPlans
    QueueCap = 2
    SocketPlans <- MCSocketPlans
    SocketBuffer = 1
    RecordChanCap = 1
    GroupChanCap = 1
    CorrelationTimeout = 2
    MaxPendingEvents = 2
    CollectionPlans <- MCCollectionPlans
INVARIANTS CollectorSound FrontOrderly LimitsKept IdleSound SnapshotSound ConnectionSound CollectionSound
PROPERTIES LockoutsStand StopsJustified NeverBackwards LaterProbeStands RuntimeProgress
CHECK_DEADLOCK FALSE
