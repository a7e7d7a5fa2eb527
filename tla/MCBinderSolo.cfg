CONSTANTS
    A = A  B = B  a1 = a1  a2 = a2  b1 = b1  b2 = b2  ptr1 = ptr1  cookie1 = cookie1
    Procs = {B}
    Threads = {b1}
    ProcOf <- MCProcOf
    Binders = {ptr1}
    Cookies = {cookie1}
    Foreign = Foreign
    Payloads <- SmallPayloads
    NotifyBinders = {ptr1}
    Uids = {0, 1}
    MaxThreadsVals = {1}
    ReadSizes = {2, 3}
    NonBlock = TRUE
    LooperActive = 3
    StateGarbage <- AnyState
    DeadTagsEqual = TRUE
    SendBound = 3
    LooperBound = 1
    NULL = NULL
    Undef = Undef
SPECIFICATION SpecFixed
SYMMETRY ThreadSymmetry
INVARIANTS ReplyAccounting CallerNeverServesOwnCall
CHECK_DEADLOCK FALSE
