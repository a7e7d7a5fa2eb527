CONSTANTS
    A = A  B = B  a1 = a1  a2 = a2  b1 = b1  b2 = b2  ptr1 = ptr1  cookie1 = cookie1
    Procs = {A, B}
    Threads = {a1, b1}
    ProcOf <- MCProcOf
    Binders = {ptr1}
    Cookies = {cookie1}
    Foreign = Foreign
    Payloads <- MCPayloads
    NotifyBinders = {ptr1}
    Uids = {0}
    MaxThreadsVals = {}
    ReadSizes = {2, 3}
    NonBlock = TRUE
    LooperActive = 3
    StateGarbage = {0}
    DeadTagsEqual = TRUE
    SendBound = 1
    LooperBound = 0
    NULL = NULL
    Undef = Undef
SPECIFICATION SpecFixedCM
SYMMETRY ThreadSymmetry
INVARIANT ReleaseCompletes
CHECK_DEADLOCK FALSE
