SPECIFICATION Spec
CONSTANTS
    h1 = h1
    h2 = h2
    a1 = a1
    a2 = a2
    a3 = a3
    p1 = p1
    p2 = p2
    None = None
    Threads = {h1, h2}
    Allocs = {a1, a2, a3}
    Pages = {p1, p2}
    PageSize = 8
    Granularity = 2
    Sizes = {1, 5, 9}
    Aligns = {3}
    MaxLeaked = 1
    Buffers = {h1, h2}
    MaxPages = 3
    MaxAllocations = 2
    BindingSizes = {1, 5}
    Alignment = 2
    InitialPageSize = 4
    MaxPageSize = 8
    MaxRetainedSize = 8
    InitialChunkSize = 4
    MaxChunkSize = 8
    HeapAllocs = {a1, a2, a3}
    CudaStreams = {h1, h2}
    HeapPageSize = 32
    Requests <- RequestsOfClients
    CudaAlignment = 8
    MaxHeapPages = 2
    MaxHeapSubmits = 2
    MaxHeld <- HeldByBackend
SYMMETRY Interchangeable
INVARIANTS PagesTiled AccountsAgree RequestsHonoured GpuRangesApart
PROPERTIES RetentionBounded ImplementsRanges
CHECK_DEADLOCK FALSE
