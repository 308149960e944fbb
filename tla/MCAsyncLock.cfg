SPECIFICATION Spec
CONSTANT Calls = {c1, c2, c3, c4}
INVARIANT Mutex
PROPERTY ImplementsFifoMutex
