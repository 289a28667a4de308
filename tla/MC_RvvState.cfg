\* Contexts used as the spec's callers must use them: destroy only with no
\* call in flight, manager teardown only with no live context.
CONSTANTS
    c1 = c1
    c2 = c2
    t1 = t1
    t2 = t2
    Ctx <- MC_Ctx
    Thr <- MC_Thr
    NoCtx = NoCtx
    NoThread = NoThread
    RvvAvailable = TRUE
    DestroyAfterCalls = TRUE
    FiniAfterDestroy = TRUE

SPECIFICATION FairSpec

INVARIANT TypeOK
INVARIANT LockReleasedOnAllPaths
INVARIANT ActiveImpliesValid
INVARIANT NoNullDeref
PROPERTY CallsReturn
