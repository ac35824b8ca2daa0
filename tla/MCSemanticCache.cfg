SPECIFICATION Spec
CONSTANTS
    Threads = {t, u}
    k1 = k1
    k2 = k2
    k3 = k3
    i1 = i1
    i2 = i2
    Keys = {k1, k2, k3}
    Inputs = {i1, i2}
    InputsOf <- ChainInputs
    QueriesOf <- ChainQueries
    MaxCalls = 7
INVARIANT IndexExact
PROPERTY InvalidatesExactly
SYMMETRY AnyThread
CHECK_DEADLOCK FALSE
