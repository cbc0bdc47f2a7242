CONSTANTS
    Slots = {s1, s2}
    MaxSubmissions = 2
    Backends = {"D3D12", "Vulkan"}
    Images = {0, 1, 2}
    MaxQueued = 2
    MaxWrites = 2
    SurfaceBackends = {"Vulkan", "CUDA", "D3D12"}
SPECIFICATION FairSpec
INVARIANTS ResolvedBehindFence SyncObjectsPaired ImagesHandedOver FramesThrottled
PROPERTIES FreshBehindFence ResetStays CallsReturn
