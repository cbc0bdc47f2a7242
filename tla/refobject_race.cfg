CONSTANTS
    Clients = {c1, c2}
    MaxHandles = 1
SPECIFICATION Spec
INVARIANTS ParentOutlives
