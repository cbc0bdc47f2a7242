CONSTANTS
    Backends = {"Vulkan"}
    Buffers = {b1}
    Resources = {r1}
    Streams = {}
    StreamsBlock = TRUE
    LastID <- IDs
    Made <- Makes
    MaxHandles = 1
    MaxWithoutEvent = 0
    SubmitMayFail = FALSE
    b1 = b1
    r1 = r1
SPECIFICATION FairSpec
PROPERTIES AnyOrderDestroyed
CHECK_DEADLOCK FALSE
