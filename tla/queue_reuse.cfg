CONSTANTS
    Backends = {"Vulkan", "D3D12", "Metal", "CUDA"}
    Buffers = {b1, b2}
    Resources = {r1, r2}
    Streams = {s1, s2}
    StreamsBlock = TRUE
    LastID <- IDs
    Made <- Makes
    MaxHandles = 2
    MaxWithoutEvent = 0
    SubmitMayFail = TRUE
    b1 = b1
    b2 = b2
    r1 = r1
    r2 = r2
    s1 = s1
    s2 = s2
SYMMETRY Interchangeable
SPECIFICATION Spec
INVARIANTS GpuResourcesAlive InFlightUntouched ShutdownAfterSuccess NoCycleLeft
CHECK_DEADLOCK FALSE
