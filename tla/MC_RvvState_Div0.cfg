CONSTANTS
    c1 = c1
    c2 = c2
    t1 = t1
    t2 = t2
    Ctx <- MC_Ctx
    Thr <- MC_Thr
    NoCtx = NoCtx
    NoThread = NoThread
    RvvAvailable = TRUE
    DestroyAfterCalls = TRUE
    FiniAfterDestroy = TRUE

SYMMETRY MC_Symmetry

SPECIFICATION Spec

INVARIANT ValidateNoDivByZero
