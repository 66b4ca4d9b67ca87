SPECIFICATION Spec
CONSTANTS
    n1 = n1
    k1 = k1
    k2 = k2
    Nodes = {n1}
    Conns <- TwoConns
    Reqs <- TwoReqs
    NodeOf <- OneNode
    KeyOf <- TwoKeys
    MaxActions = 1
    Bannable = {1}
    MaxFailures = 1
    None = None
INVARIANTS Inv
PROPERTIES SessionKept KeptUntilAcked
CHECK_DEADLOCK FALSE
