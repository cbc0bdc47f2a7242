CONSTANTS
    w1 = w1
    w2 = w2
    c1 = c1
    c2 = c2
    t1 = t1
    t2 = t2
    t3 = t3
    g1 = g1
    g2 = g2
    None = None
    Pool = Pool
    Workers = {w1}
    Callers = {c1}
    Tasks = {t1, t2, t3}
    Groups = {g1}
    Submits <- SubmitsNested
    Consumes <- ConsumesSafe
    MaxSpurious = 1
SPECIFICATION FairSpec
INVARIANTS NestedStealing
PROPERTIES EveryTaskRuns EveryWaitReturns DestructionCompletes
