SPECIFICATION Spec
CONSTANTS
    t1 = t1
    t2 = t2
    plain = plain
    generic = generic
    s1 = s1
    first = first
    second = second
    special = special
    w1 = w1
    NoArguments = NoArguments
    None = None
    Failed = Failed
    Threads = {t1, t2}
    Workers = {w1}
    Devices <- DeviceKinds
    Programs = {plain, generic}
    EntryPoints <- EntryPointsOf
    Arguments = {s1}
    Specializable = {generic}
    Pipelines = {first, second, special}
    ProgramOf <- ProgramsOf
    AddressOf <- OwnAddress
    RayTracing = {first, second}
    Kept = {first}
    Lists <- ListsOfClients
    MaxOptixTasks = 2
    MaxCalls <- CallsOfClients
INVARIANTS CommandsResolved
PROPERTIES PublishedTogether ModulesReadAfterwards EveryCallReturns
