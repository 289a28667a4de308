------------------------------ MODULE RvvState ------------------------------
(***************************************************************************)
(* Per-process RVV contexts and their save/restore protocol                *)
(* (src/fdca_rvv_state.c, src/fdca_rvv_state.h).                           *)
(*                                                                         *)
(* Threads call fdca_rvv_context_save/restore/create/destroy and           *)
(* fdca_rvv_csr_validate on a set of context slots.  save and restore take *)
(* the context mutex and run as a sequence of steps, so that a concurrent  *)
(* destroy (which takes no lock) or a manager teardown can fall between    *)
(* them.  The manager singleton g_rvv_manager is created and torn down by  *)
(* the device init/fini path.                                              *)
(*                                                                         *)
(* The CSR accessors fdca_rvv_read_csr/write_csr are the driver's stubs:   *)
(* a read returns a fixed value per CSR (VTYPE reads as VILL) and a write  *)
(* only logs.  Statistics, timestamps and debug output are left out.       *)
(***************************************************************************)
EXTENDS Naturals, FiniteSets, Vtype

CONSTANTS
    Ctx,             \* context slots (memory a context may be allocated in)
    Thr,             \* calling threads
    NoCtx,           \* a thread that is in no call
    NoThread,        \* an unlocked mutex
    RvvAvailable,    \* fdev->rvv_available
    DestroyAfterCalls, \* callers destroy a context only when no call on it is in flight
    FiniAfterDestroy   \* the device tears the manager down only with no live context

ASSUME ConstantsAssumption ==
    /\ NoCtx \notin Ctx
    /\ NoThread \notin Thr
    /\ RvvAvailable \in BOOLEAN
    /\ DestroyAfterCalls \in BOOLEAN
    /\ FiniAfterDestroy \in BOOLEAN

VARIABLES
    ctxState,  \* "none" (never allocated), "live", or "freed" (kfree'd)
    lock,      \* ctx->lock: the thread holding it, or NoThread
    csr,       \* ctx->csr: valid flag and the saved CSR view
    regs,      \* ctx->regs: allocated, saved, ref_count
    active,    \* ctx->active
    mgr,       \* g_rvv_manager != NULL
    pc,        \* each thread's position in the call it is executing
    tgt,       \* the context the thread's call is on
    ret,       \* the return code the call will report
    divByZero  \* history: some fdca_rvv_csr_validate divided by sew_bits = 0

vars == <<ctxState, lock, csr, regs, active, mgr, pc, tgt, ret, divByZero>>

-----------------------------------------------------------------------------
(* Data                                                                    *)

\* The values fdca_rvv_read_csr returns: 0 for every CSR but VTYPE, which
\* reads as VILL (VLENB is not modelled: nothing reads it back).
StubVtype == [vill |-> TRUE, low |-> 0]
StubVl == 0
StubVstart == 0

CsrRecord == [valid : BOOLEAN, vl : Nat, vstart : Nat, parsed : ParsedRecord]

\* memset(&ctx->csr, 0, ...) in fdca_rvv_context_create.
ZeroCsr == [valid |-> FALSE, vl |-> 0, vstart |-> 0, parsed |-> ZeroParsed]

\* The register state after memset(reg_state, 0, ...).
ZeroRegs == [allocated |-> FALSE, saved |-> FALSE, ref_count |-> 0]

\* A register state is either zeroed or allocated and referenced.
RegsRecord == [allocated : {TRUE}, saved : BOOLEAN, ref_count : {1}] \cup {ZeroRegs}

Pcs == {"idle",
        "save_lock", "save_regs", "save_end",
        "restore_lock", "restore_regs", "restore_end",
        "null_deref"}

\* Steps at which a thread holds the context mutex.
LockedPcs == {"save_regs", "save_end", "restore_regs", "restore_end"}

\* Threads with a save or restore in flight on context c.
InFlight(c) == {t \in Thr : pc[t] # "idle" /\ tgt[t] = c}

-----------------------------------------------------------------------------
(* Initial state: no context allocated, the manager may or may not exist  *)
(* yet (fdca_add_device publishes the device before fdca_device_init).    *)

Init ==
    /\ ctxState = [c \in Ctx |-> "none"]
    /\ lock = [c \in Ctx |-> NoThread]
    /\ csr = [c \in Ctx |-> ZeroCsr]
    /\ regs = [c \in Ctx |-> ZeroRegs]
    /\ active = [c \in Ctx |-> FALSE]
    /\ mgr \in BOOLEAN
    /\ pc = [t \in Thr |-> "idle"]
    /\ tgt = [t \in Thr |-> NoCtx]
    /\ ret = [t \in Thr |-> "ok"]
    /\ divByZero = FALSE

-----------------------------------------------------------------------------
(* Manager lifecycle (fdca_rvv_state_manager_init / _fini).               *)

\* fdca_rvv_state_manager_init: allocate the manager and publish it in
\* g_rvv_manager.  Its allocation failures return -ENOMEM and change nothing.
StateManagerInit ==
    /\ mgr' = TRUE
    /\ UNCHANGED <<ctxState, lock, csr, regs, active, pc, tgt, ret, divByZero>>

\* fdca_rvv_state_manager_fini: free the manager and clear g_rvv_manager.
\* It does not look at the contexts (context_count is never incremented).
StateManagerFini ==
    /\ mgr
    /\ FiniAfterDestroy => \A c \in Ctx : ctxState[c] # "live"
    /\ mgr' = FALSE
    /\ UNCHANGED <<ctxState, lock, csr, regs, active, pc, tgt, ret, divByZero>>

-----------------------------------------------------------------------------
(* Context lifecycle.                                                      *)

\* fdca_rvv_regs_alloc on its success path: both buffers allocated, nothing
\* saved yet, one reference.
RegsAlloc == [allocated |-> TRUE, saved |-> FALSE, ref_count |-> 1]

\* fdca_rvv_context_create with fdca_rvv_regs_alloc succeeding.  The error
\* returns (-ENODEV, -ENOMEM with the partial allocation undone) change
\* nothing and are stutter steps.
ContextCreate(t, c) ==
    /\ pc[t] = "idle"
    /\ RvvAvailable
    /\ ctxState[c] = "none"
    /\ ctxState' = [ctxState EXCEPT ![c] = "live"]
    /\ lock' = [lock EXCEPT ![c] = NoThread]
    /\ csr' = [csr EXCEPT ![c] = ZeroCsr]
    /\ regs' = [regs EXCEPT ![c] = RegsAlloc]
    /\ active' = [active EXCEPT ![c] = FALSE]
    /\ UNCHANGED <<mgr, pc, tgt, ret, divByZero>>

\* Mutant: "atomic_dec_return(...) >= 0", so the last reference is dropped
\* without freeing.
RegsFreeOffByOne(r) ==
    IF ~r.allocated THEN r
    ELSE IF r.ref_count - 1 >= 0 THEN [r EXCEPT !.ref_count = r.ref_count - 1]
    ELSE ZeroRegs

\* fdca_rvv_regs_free: drop a reference; the last one frees the buffers and
\* zeroes the structure.
RegsFree(r) ==
    IF ~r.allocated THEN r
    ELSE IF r.ref_count - 1 > 0 THEN [r EXCEPT !.ref_count = r.ref_count - 1]
    ELSE ZeroRegs

\* fdca_rvv_context_destroy: release the registers and kfree the context,
\* without taking ctx->lock.
ContextDestroy(t, c) ==
    /\ pc[t] = "idle"
    /\ ctxState[c] = "live"
    /\ DestroyAfterCalls => InFlight(c) = {}
    /\ regs' = [regs EXCEPT ![c] = RegsFree(@)]
    /\ ctxState' = [ctxState EXCEPT ![c] = "freed"]
    /\ UNCHANGED <<lock, csr, active, mgr, pc, tgt, ret, divByZero>>

-----------------------------------------------------------------------------
(* fdca_rvv_context_save                                                   *)

SaveCall(t, c) ==
    /\ pc[t] = "idle"
    /\ ctxState[c] = "live"
    /\ pc' = [pc EXCEPT ![t] = "save_lock"]
    /\ tgt' = [tgt EXCEPT ![t] = c]
    /\ ret' = [ret EXCEPT ![t] = "ok"]
    /\ UNCHANGED <<ctxState, lock, csr, regs, active, mgr, divByZero>>

\* fdca_rvv_csr_save: read every CSR, parse VTYPE, mark the CSR view valid.
CsrSave(cs) ==
    [valid |-> TRUE, vl |-> StubVl, vstart |-> StubVstart,
     parsed |-> ParseVtype(StubVtype, cs.parsed)]

\* Mutant: the register step taken without testing g_rvv_manager.
ContextSaveLockNoMgrCheck(t) ==
    LET c == tgt[t] IN
    /\ pc[t] = "save_lock"
    /\ lock[c] = NoThread
    /\ lock' = [lock EXCEPT ![c] = t]
    /\ csr' = [csr EXCEPT ![c] = CsrSave(@)]
    /\ pc' = [pc EXCEPT ![t] = "save_regs"]
    /\ UNCHANGED <<ctxState, regs, active, mgr, tgt, ret, divByZero>>

\* mutex_lock, fdca_rvv_csr_save (which cannot fail for a non-NULL
\* context), then the test "g_rvv_manager && g_rvv_manager->hw_config".
ContextSaveLock(t) ==
    LET c == tgt[t] IN
    /\ pc[t] = "save_lock"
    /\ lock[c] = NoThread
    /\ lock' = [lock EXCEPT ![c] = t]
    /\ csr' = [csr EXCEPT ![c] = CsrSave(@)]
    /\ pc' = [pc EXCEPT ![t] = IF mgr THEN "save_regs" ELSE "save_end"]
    /\ UNCHANGED <<ctxState, regs, active, mgr, tgt, ret, divByZero>>

\* fdca_rvv_regs_save: -EINVAL unless the registers are allocated;
\* otherwise the register file is marked saved.
RegsSaveOk(r) == r.allocated

\* ret = fdca_rvv_regs_save(&ctx->regs, g_rvv_manager->hw_config):
\* g_rvv_manager is read again for the argument; an error goes to
\* out_unlock.
ContextSaveRegs(t) ==
    LET c == tgt[t] IN
    /\ pc[t] = "save_regs"
    /\ IF ~mgr
       THEN /\ pc' = [pc EXCEPT ![t] = "null_deref"]
            /\ UNCHANGED <<regs, ret>>
       ELSE IF ~RegsSaveOk(regs[c])
       THEN /\ ret' = [ret EXCEPT ![t] = "einval"]
            /\ pc' = [pc EXCEPT ![t] = "save_end"]
            /\ UNCHANGED regs
       ELSE /\ regs' = [regs EXCEPT ![c].saved = TRUE]
            /\ pc' = [pc EXCEPT ![t] = "save_end"]
            /\ UNCHANGED ret
    /\ UNCHANGED <<ctxState, lock, csr, active, mgr, tgt, divByZero>>

\* On success ctx->active = false; out_unlock: mutex_unlock on every path.
ContextSaveEnd(t) ==
    LET c == tgt[t] IN
    /\ pc[t] = "save_end"
    /\ active' = IF ret[t] = "ok" THEN [active EXCEPT ![c] = FALSE] ELSE active
    /\ lock' = [lock EXCEPT ![c] = NoThread]
    /\ pc' = [pc EXCEPT ![t] = "idle"]
    /\ tgt' = [tgt EXCEPT ![t] = NoCtx]
    /\ UNCHANGED <<ctxState, csr, regs, mgr, ret, divByZero>>

-----------------------------------------------------------------------------
(* fdca_rvv_context_restore                                                *)

RestoreCall(t, c) ==
    /\ pc[t] = "idle"
    /\ ctxState[c] = "live"
    /\ pc' = [pc EXCEPT ![t] = "restore_lock"]
    /\ tgt' = [tgt EXCEPT ![t] = c]
    /\ ret' = [ret EXCEPT ![t] = "ok"]
    /\ UNCHANGED <<ctxState, lock, csr, regs, active, mgr, divByZero>>

\* fdca_rvv_csr_restore: -EINVAL unless the CSR view is valid; otherwise it
\* writes six CSRs back (not modelled: nothing reads them).
CsrRestoreOk(cs) == cs.valid

\* Mutant: fdca_rvv_csr_restore without its "!csr_ctx->valid" test.
ContextRestoreLockNoValidCheck(t) ==
    LET c == tgt[t] IN
    /\ pc[t] = "restore_lock"
    /\ lock[c] = NoThread
    /\ lock' = [lock EXCEPT ![c] = t]
    /\ pc' = [pc EXCEPT ![t] = IF mgr THEN "restore_regs" ELSE "restore_end"]
    /\ UNCHANGED <<ctxState, csr, regs, active, mgr, tgt, ret, divByZero>>

\* mutex_lock, ret = fdca_rvv_csr_restore (an error goes to out_unlock),
\* then the test on g_rvv_manager.
ContextRestoreLock(t) ==
    LET c == tgt[t] IN
    /\ pc[t] = "restore_lock"
    /\ lock[c] = NoThread
    /\ lock' = [lock EXCEPT ![c] = t]
    /\ IF ~CsrRestoreOk(csr[c])
       THEN /\ ret' = [ret EXCEPT ![t] = "einval"]
            /\ pc' = [pc EXCEPT ![t] = "restore_end"]
       ELSE /\ pc' = [pc EXCEPT ![t] = IF mgr THEN "restore_regs" ELSE "restore_end"]
            /\ UNCHANGED ret
    /\ UNCHANGED <<ctxState, csr, regs, active, mgr, tgt, divByZero>>

\* fdca_rvv_regs_restore: -EINVAL unless the registers are allocated and
\* were saved.
RegsRestoreOk(r) == r.allocated /\ r.saved

\* ret = fdca_rvv_regs_restore(&ctx->regs, g_rvv_manager->hw_config), with
\* g_rvv_manager read again for the argument.
ContextRestoreRegs(t) ==
    LET c == tgt[t] IN
    /\ pc[t] = "restore_regs"
    /\ IF ~mgr
       THEN pc' = [pc EXCEPT ![t] = "null_deref"]
       ELSE pc' = [pc EXCEPT ![t] = "restore_end"]
    /\ ret' = IF mgr /\ ~RegsRestoreOk(regs[c])
              THEN [ret EXCEPT ![t] = "einval"] ELSE ret
    /\ UNCHANGED <<ctxState, lock, csr, regs, active, mgr, tgt, divByZero>>

\* Mutant: the error path returns ret directly instead of "goto out_unlock".
ContextRestoreEndErrorReturn(t) ==
    LET c == tgt[t] IN
    /\ pc[t] = "restore_end"
    /\ active' = IF ret[t] = "ok" THEN [active EXCEPT ![c] = TRUE] ELSE active
    /\ lock' = IF ret[t] = "ok" THEN [lock EXCEPT ![c] = NoThread] ELSE lock
    /\ pc' = [pc EXCEPT ![t] = "idle"]
    /\ tgt' = [tgt EXCEPT ![t] = NoCtx]
    /\ UNCHANGED <<ctxState, csr, regs, mgr, ret, divByZero>>

\* On success ctx->active = true (and preempted = false, which nothing ever
\* sets); out_unlock: mutex_unlock on every path.
ContextRestoreEnd(t) ==
    LET c == tgt[t] IN
    /\ pc[t] = "restore_end"
    /\ active' = IF ret[t] = "ok" THEN [active EXCEPT ![c] = TRUE] ELSE active
    /\ lock' = [lock EXCEPT ![c] = NoThread]
    /\ pc' = [pc EXCEPT ![t] = "idle"]
    /\ tgt' = [tgt EXCEPT ![t] = NoCtx]
    /\ UNCHANGED <<ctxState, csr, regs, mgr, ret, divByZero>>

-----------------------------------------------------------------------------
(* fdca_rvv_csr_validate: reads the CSR view without taking ctx->lock.     *)
(* With the manager present it computes vlen / parsed.sew_bits before     *)
(* looking at VL; sew_bits is 0 in a context no VTYPE was ever parsed      *)
(* into.  The result is not stored anywhere, so only the division is kept. *)

CsrValidate(t, c) ==
    /\ pc[t] = "idle"
    /\ ctxState[c] = "live"
    /\ divByZero' = (divByZero \/
                     (~csr[c].parsed.vill /\ mgr /\ csr[c].parsed.sew_bits = 0))
    /\ UNCHANGED <<ctxState, lock, csr, regs, active, mgr, pc, tgt, ret>>

-----------------------------------------------------------------------------

ThreadStep(t) ==
    \/ ContextSaveLock(t) \/ ContextSaveRegs(t) \/ ContextSaveEnd(t)
    \/ ContextRestoreLock(t) \/ ContextRestoreRegs(t) \/ ContextRestoreEnd(t)

Next ==
    \/ StateManagerInit
    \/ StateManagerFini
    \/ \E t \in Thr, c \in Ctx :
          \/ ContextCreate(t, c)
          \/ ContextDestroy(t, c)
          \/ SaveCall(t, c)
          \/ RestoreCall(t, c)
          \/ CsrValidate(t, c)
    \/ \E t \in Thr : ThreadStep(t)

Spec == Init /\ [][Next]_vars

\* A thread blocked in mutex_lock gets the mutex once it is free often
\* enough (the kernel mutex hands off to a waiter); every other step of a
\* call runs once it is enabled.
Fairness ==
    \A t \in Thr :
        /\ SF_vars(ContextSaveLock(t)) /\ SF_vars(ContextRestoreLock(t))
        /\ WF_vars(ContextSaveRegs(t)) /\ WF_vars(ContextSaveEnd(t))
        /\ WF_vars(ContextRestoreRegs(t)) /\ WF_vars(ContextRestoreEnd(t))

FairSpec == Spec /\ Fairness

-----------------------------------------------------------------------------
(* Properties                                                              *)

TypeOK ==
    /\ ctxState \in [Ctx -> {"none", "live", "freed"}]
    /\ lock \in [Ctx -> Thr \cup {NoThread}]
    /\ csr \in [Ctx -> CsrRecord]
    /\ regs \in [Ctx -> RegsRecord]
    /\ active \in [Ctx -> BOOLEAN]
    /\ mgr \in BOOLEAN
    /\ pc \in [Thr -> Pcs]
    /\ tgt \in [Thr -> Ctx \cup {NoCtx}]
    /\ ret \in [Thr -> {"ok", "einval"}]
    /\ divByZero \in BOOLEAN

\* Every exit path of save and restore, the error paths included, releases
\* ctx->lock: a context's mutex is held exactly when its holder is in the
\* locked part of a save or restore on that context.
LockReleasedOnAllPaths ==
    \A c \in Ctx :
        lock[c] # NoThread =>
            /\ pc[lock[c]] \in LockedPcs
            /\ tgt[lock[c]] = c

\* A live context is active only if its CSR view was saved and its register
\* storage is allocated (fdca_rvv_context_is_valid): restore refuses a
\* context whose CSRs were never saved.
ActiveImpliesValid ==
    \A c \in Ctx :
        ctxState[c] = "live" /\ active[c] => csr[c].valid /\ regs[c].allocated

\* Every save or restore that starts returns: no call blocks forever on a
\* context mutex left held by an earlier call.
CallsReturn ==
    \A t \in Thr : pc[t] \in {"save_lock", "restore_lock"} ~> pc[t] = "idle"

\* The design (spec section 5) allows only one active context at a time,
\* since there is a single vector unit.
AtMostOneActive ==
    Cardinality({c \in Ctx : ctxState[c] = "live" /\ active[c]}) <= 1

\* A context that restore reports active had its vector registers saved
\* (spec 4.3: restoring a register file that was never saved fails).
ActiveImpliesRegsSaved ==
    \A c \in Ctx : ctxState[c] = "live" /\ active[c] => regs[c].saved

\* Save and restore test "g_rvv_manager && g_rvv_manager->hw_config" and
\* then read g_rvv_manager again for the register step: that second read
\* never finds the manager gone (a NULL dereference in the kernel).
NoNullDeref == \A t \in Thr : pc[t] # "null_deref"

\* fdca_rvv_csr_validate never divides by a zero element width.
ValidateNoDivByZero == ~divByZero
=============================================================================
