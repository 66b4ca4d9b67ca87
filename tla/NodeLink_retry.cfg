SPECIFICATION Spec
CONSTANTS
    n1 = n1
    k1 = k1
    k2 = k2
    Nodes = {n1}
    Conns <- TwoConns
    Reqs <- TwoReqs
    NodeOf <- OneNode
    KeyOf <- SameKey
    MaxActions = 2
    Bannable = {}
    MaxFailures = 1
    None = None
INVARIANTS Inv
PROPERTIES EveryInvokeAnswered
CHECK_DEADLOCK FALSE
