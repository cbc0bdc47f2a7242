CONSTANTS
    Clients = {c1, c2, c3}
    MaxHandles = 2
SPECIFICATION FairSpec
INVARIANTS DeletedUnheld
PROPERTIES Collected
