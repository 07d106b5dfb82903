CONSTANTS
    t1 = t1
    t2 = t2
    w1 = w1
    Workers = {w1}
    Threads = {t1, t2}
    Home <- OneWorker
    Savers = {t1, t2}
    Keys = {"a"}
    Ttl = 2
    LoadTime = 1
    MaxTime = 4
    NoThread = NoThread
SPECIFICATION Spec
INVARIANTS TypeOK StaleForOneTtl
PROPERTIES NoNeedlessLoad EveryGetReturns
