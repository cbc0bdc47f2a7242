CONSTANTS
    None = None
    v = v
    w = w
    u = u
    ind = ind
    a = a
    asrc = asrc
    mm = mm
    g = g
    up = up
    h = h
    ta = ta
    x = x
    d = d
    p1 = p1
    p2 = p2
    c1 = c1
    q1 = q1
    r0 = r0
    r1 = r1
    r2 = r2
    tab = tab
    badtab = badtab
    pool = pool
    callback = callback
    Buffers <- MCBuffers
    Textures <- MCTextures
    HostVisible = {up}
    LayerCount <- MCLayerCount
    MipCount <- MCMipCount
    DefaultState <- MCDefaultState
    All <- MCAll
    Bindings <- MCBindings
    Usage <- MCUsage
    Nvapi = TRUE
    TableBuffer <- MCTableBuffer
    Clients <- MCClients
SPECIFICATION Spec
INVARIANTS TrackerTruthful NeedsMet BarriersOutsidePasses DefaultsRestored UsesRetained DrawnAsAsked
CHECK_DEADLOCK FALSE
