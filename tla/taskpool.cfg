CONSTANTS
    w1 = w1
    w2 = w2
    c1 = c1
    c2 = c2
    t1 = t1
    t2 = t2
    t3 = t3
    g1 = g1
    g2 = g2
    None = None
    Pool = Pool
    Workers = {w1, w2}
    Callers = {c1, c2}
    Tasks = {t1, t2, t3}
    Groups = {g1}
    Submits <- SubmitsMany
    Consumes <- ConsumesMany
    MaxSpurious = 0
SYMMETRY WorkerSymmetry
SPECIFICATION Spec
INVARIANTS TypeOK GroupsAlive TasksAlive NoLostWakeup NoIdleWorker WaitedWorkFinished
PROPERTIES ImplementsContract
