--------------------------- MODULE RvvStateProofs ---------------------------
(***************************************************************************)
(* Proofs about the RVV context save/restore model (RvvState).            *)
(*                                                                         *)
(* TypeCorrect holds for every value of the constants.  The lock and      *)
(* activity invariants hold under the two caller contracts of the design  *)
(* (spec 3 and 4.4): a context is destroyed only when no save or          *)
(* restore on it is in flight, and the manager is torn down only when no  *)
(* context is live.  Without the second, TLC finds the NULL dereference   *)
(* of run rvv_fini_race.                                                  *)
(***************************************************************************)
EXTENDS RvvState, TLAPS

-----------------------------------------------------------------------------
(* Lemmas on the data operators.                                           *)

\* fdca_rvv_csr_save yields a well-formed CSR view.
LEMMA CsrSaveType ==
    ASSUME NEW cs \in CsrRecord
    PROVE  CsrSave(cs) \in CsrRecord /\ CsrSave(cs).valid
  <1>1. ParseVtype(StubVtype, cs.parsed) = [cs.parsed EXCEPT !.vill = TRUE]
    BY DEF ParseVtype, StubVtype
  <1>2. [cs.parsed EXCEPT !.vill = TRUE] \in ParsedRecord
    BY DEF CsrRecord, ParsedRecord
  <1>3. QED
    BY <1>1, <1>2 DEF CsrSave, CsrRecord, StubVl, StubVstart

\* fdca_rvv_regs_free keeps a register state well formed.
LEMMA RegsFreeType ==
    ASSUME NEW r \in RegsRecord
    PROVE  RegsFree(r) \in RegsRecord
  <1>1. CASE r = ZeroRegs
    BY <1>1 DEF RegsFree, RegsRecord, ZeroRegs
  <1>2. CASE r \in [allocated : {TRUE}, saved : BOOLEAN, ref_count : {1}]
    <2>1. r.allocated = TRUE /\ r.ref_count = 1
      BY <1>2
    <2>2. RegsFree(r) = ZeroRegs
      BY <2>1 DEF RegsFree
    <2>3. QED
      BY <2>2 DEF RegsRecord
  <1>3. QED
    BY <1>1, <1>2 DEF RegsRecord

\* Marking the vector registers saved keeps a register state well formed.
LEMMA RegsSavedType ==
    ASSUME NEW r \in RegsRecord, r.allocated
    PROVE  [r EXCEPT !.saved = TRUE] \in RegsRecord
  <1>0. ~ZeroRegs.allocated
    BY DEF ZeroRegs
  <1>1. r # ZeroRegs
    BY <1>0
  <1>2. r \in [allocated : {TRUE}, saved : BOOLEAN, ref_count : {1}]
    BY <1>1 DEF RegsRecord
  <1>3. QED
    BY <1>2 DEF RegsRecord

\* The zeroed CSR view of a new context is well formed.
LEMMA ZeroCsrType == ZeroCsr \in CsrRecord
  BY DEF ZeroCsr, CsrRecord, ZeroParsed, ParsedRecord

-----------------------------------------------------------------------------
(* Type correctness.                                                       *)

LEMMA InitTypeOK == Init => TypeOK
  <1> SUFFICES ASSUME Init PROVE TypeOK
    OBVIOUS
  <1>1. ZeroRegs \in RegsRecord
    BY DEF ZeroRegs, RegsRecord
  <1>2. csr \in [Ctx -> CsrRecord] /\ regs \in [Ctx -> RegsRecord]
    BY <1>1, ZeroCsrType DEF Init
  <1>3. QED
    BY <1>2 DEF Init, TypeOK, Pcs

LEMMA NextTypeOK == TypeOK /\ [Next]_vars => TypeOK'
  <1> SUFFICES ASSUME TypeOK, [Next]_vars PROVE TypeOK'
    OBVIOUS
  <1>1. CASE StateManagerInit
    BY <1>1 DEF StateManagerInit, TypeOK
  <1>2. CASE StateManagerFini
    BY <1>2 DEF StateManagerFini, TypeOK
  <1>3. ASSUME NEW t \in Thr, NEW c \in Ctx, ContextCreate(t, c) PROVE TypeOK'
    BY <1>3, ZeroCsrType DEF ContextCreate, RegsAlloc, TypeOK, RegsRecord
  <1>4. ASSUME NEW t \in Thr, NEW c \in Ctx, ContextDestroy(t, c) PROVE TypeOK'
    BY <1>4, RegsFreeType DEF ContextDestroy, TypeOK
  <1>5. ASSUME NEW t \in Thr, NEW c \in Ctx, SaveCall(t, c) PROVE TypeOK'
    BY <1>5 DEF SaveCall, TypeOK, Pcs
  <1>6. ASSUME NEW t \in Thr, NEW c \in Ctx, RestoreCall(t, c) PROVE TypeOK'
    BY <1>6 DEF RestoreCall, TypeOK, Pcs
  <1>7. ASSUME NEW t \in Thr, NEW c \in Ctx, CsrValidate(t, c) PROVE TypeOK'
    BY <1>7 DEF CsrValidate, TypeOK
  <1>8. ASSUME NEW t \in Thr, ContextSaveLock(t) PROVE TypeOK'
    <2>1. \A c \in Ctx : CsrSave(csr[c]) \in CsrRecord
      BY CsrSaveType DEF TypeOK
    <2>2. QED
      BY <1>8, <2>1 DEF ContextSaveLock, TypeOK, Pcs
  <1>9. ASSUME NEW t \in Thr, ContextSaveRegs(t) PROVE TypeOK'
    <2> DEFINE c == tgt[t]
    <2>1. CASE ~mgr
      BY <1>9, <2>1 DEF ContextSaveRegs, RegsSaveOk, TypeOK, Pcs
    <2>2. CASE mgr /\ c \in Ctx /\ ~regs[c].allocated
      BY <1>9, <2>2 DEF ContextSaveRegs, RegsSaveOk, TypeOK, Pcs
    <2>3. CASE mgr /\ c \in Ctx /\ regs[c].allocated
      <3>1. [regs[c] EXCEPT !.saved = TRUE] \in RegsRecord
        BY <2>3, RegsSavedType DEF TypeOK
      <3>2. QED
        BY <1>9, <2>3, <3>1 DEF ContextSaveRegs, RegsSaveOk, TypeOK, Pcs
    <2>4. CASE mgr /\ c \notin Ctx
      BY <1>9, <2>4 DEF ContextSaveRegs, RegsSaveOk, TypeOK, Pcs
    <2>5. QED
      BY <2>1, <2>2, <2>3, <2>4
  <1>10. ASSUME NEW t \in Thr, ContextSaveEnd(t) PROVE TypeOK'
    BY <1>10 DEF ContextSaveEnd, TypeOK, Pcs
  <1>11. ASSUME NEW t \in Thr, ContextRestoreLock(t) PROVE TypeOK'
    BY <1>11 DEF ContextRestoreLock, CsrRestoreOk, TypeOK, Pcs
  <1>12. ASSUME NEW t \in Thr, ContextRestoreRegs(t) PROVE TypeOK'
    BY <1>12 DEF ContextRestoreRegs, RegsRestoreOk, TypeOK, Pcs
  <1>13. ASSUME NEW t \in Thr, ContextRestoreEnd(t) PROVE TypeOK'
    BY <1>13 DEF ContextRestoreEnd, TypeOK, Pcs
  <1>14. CASE UNCHANGED vars
    BY <1>14 DEF vars, TypeOK
  <1>15. QED
    BY <1>1, <1>2, <1>3, <1>4, <1>5, <1>6, <1>7, <1>8, <1>9, <1>10,
       <1>11, <1>12, <1>13, <1>14 DEF Next, ThreadStep

\* The model's state keeps its shape for every value of the constants.
THEOREM TypeCorrect == Spec => []TypeOK
  BY InitTypeOK, NextTypeOK, PTL DEF Spec

-----------------------------------------------------------------------------
(* The inductive invariant behind LockReleasedOnAllPaths and              *)
(* ActiveImpliesValid.  Each conjunct is needed by some step:             *)
(*   TgtInv       a call in flight names a context;                       *)
(*   LockHeld     a thread in the locked part owns its context's mutex,   *)
(*                so the unlock at out_unlock releases its own lock;      *)
(*   NoUseAfterDestroy  a call in flight is on a live context, so create  *)
(*                never reinitialises a mutex somebody holds;             *)
(*   MgrPresent   g_rvv_manager is still set when the register step reads *)
(*                it again, so the NULL dereference is unreachable;       *)
(*   LiveAllocated  a live context owns its register storage;             *)
(*   RestoreOkValid a restore still headed for success found csr valid.   *)

TgtInv == \A t \in Thr : pc[t] # "idle" => tgt[t] \in Ctx

LockHeld == \A t \in Thr : pc[t] \in LockedPcs => lock[tgt[t]] = t

NoUseAfterDestroy ==
    \A t \in Thr : pc[t] # "idle" => ctxState[tgt[t]] = "live"

MgrPresent == \A t \in Thr : pc[t] \in {"save_regs", "restore_regs"} => mgr

LiveAllocated == \A c \in Ctx : ctxState[c] = "live" => regs[c].allocated

RestoreOkValid ==
    \A t \in Thr :
        pc[t] \in {"restore_regs", "restore_end"} /\ ret[t] = "ok"
            => csr[tgt[t]].valid

IInv ==
    /\ TypeOK
    /\ TgtInv
    /\ LockHeld
    /\ LockReleasedOnAllPaths
    /\ NoUseAfterDestroy
    /\ MgrPresent
    /\ NoNullDeref
    /\ LiveAllocated
    /\ RestoreOkValid
    /\ ActiveImpliesValid

\* Under the caller contracts, no step leaves the inductive invariant.
LEMMA InitIInv == Init => IInv
  <1> SUFFICES ASSUME Init PROVE IInv
    OBVIOUS
  <1>1. TypeOK
    BY InitTypeOK
  <1>2. QED
    BY <1>1 DEF Init, IInv, TgtInv, LockHeld, LockReleasedOnAllPaths,
       NoUseAfterDestroy, MgrPresent, NoNullDeref, LiveAllocated,
       RestoreOkValid, ActiveImpliesValid, LockedPcs

LEMMA NextIInv ==
    ASSUME DestroyAfterCalls, FiniAfterDestroy
    PROVE  IInv /\ [Next]_vars => IInv'
  <1> SUFFICES ASSUME IInv, [Next]_vars PROVE IInv'
    OBVIOUS
  <1> USE ConstantsAssumption
  <1>0. TypeOK'
    BY NextTypeOK DEF IInv
  <1> DEFINE Rest == /\ TgtInv /\ LockHeld /\ LockReleasedOnAllPaths
                    /\ NoUseAfterDestroy /\ MgrPresent /\ NoNullDeref
                    /\ LiveAllocated /\ RestoreOkValid /\ ActiveImpliesValid
  <1> SUFFICES Rest'
    BY <1>0 DEF IInv
  <1> USE DEF IInv, TypeOK, TgtInv, LockHeld, LockReleasedOnAllPaths,
              NoUseAfterDestroy, MgrPresent, NoNullDeref, LiveAllocated,
              RestoreOkValid, ActiveImpliesValid, LockedPcs
  <1>1. CASE StateManagerInit
    BY <1>1 DEF StateManagerInit
  <1>2. CASE StateManagerFini
    BY <1>2 DEF StateManagerFini
  <1>3. ASSUME NEW t \in Thr, NEW c \in Ctx, ContextCreate(t, c) PROVE Rest'
    BY <1>3 DEF ContextCreate, RegsAlloc
  <1>4. ASSUME NEW t \in Thr, NEW c \in Ctx, ContextDestroy(t, c) PROVE Rest'
    BY <1>4 DEF ContextDestroy, InFlight
  <1>5. ASSUME NEW t \in Thr, NEW c \in Ctx, SaveCall(t, c) PROVE Rest'
    BY <1>5 DEF SaveCall
  <1>6. ASSUME NEW t \in Thr, NEW c \in Ctx, RestoreCall(t, c) PROVE Rest'
    BY <1>6 DEF RestoreCall
  <1>7. ASSUME NEW t \in Thr, NEW c \in Ctx, CsrValidate(t, c) PROVE Rest'
    BY <1>7 DEF CsrValidate
  <1>8. ASSUME NEW t \in Thr, ContextSaveLock(t) PROVE Rest'
    BY <1>8, CsrSaveType DEF ContextSaveLock
  <1>9. ASSUME NEW t \in Thr, ContextSaveRegs(t) PROVE Rest'
    <2> DEFINE c == tgt[t]
    <2>1. /\ pc[t] = "save_regs" /\ mgr /\ c \in Ctx
          /\ ctxState[c] = "live" /\ lock[c] = t
      BY <1>9 DEF ContextSaveRegs, RegsSaveOk
    <2>2. regs[c].allocated
      BY <2>1
    <2>3. /\ regs' = [regs EXCEPT ![c].saved = TRUE]
          /\ pc' = [pc EXCEPT ![t] = "save_end"]
          /\ UNCHANGED <<ctxState, lock, csr, active, mgr, tgt, ret>>
      BY <1>9, <2>1, <2>2 DEF ContextSaveRegs, RegsSaveOk
    <2>4. \A d \in Ctx : regs'[d].allocated = regs[d].allocated
      BY <2>1, <2>3
    <2>5. (TgtInv /\ LockHeld /\ LockReleasedOnAllPaths)'
      BY <2>1, <2>3
    <2>6. (NoUseAfterDestroy /\ MgrPresent /\ NoNullDeref)'
      BY <2>1, <2>3
    <2>7. (LiveAllocated /\ ActiveImpliesValid)'
      BY <2>3, <2>4
    <2>8. RestoreOkValid'
      BY <2>1, <2>3
    <2>9. QED
      BY <2>5, <2>6, <2>7, <2>8
  <1>10. ASSUME NEW t \in Thr, ContextSaveEnd(t) PROVE Rest'
    BY <1>10 DEF ContextSaveEnd
  <1>11. ASSUME NEW t \in Thr, ContextRestoreLock(t) PROVE Rest'
    BY <1>11 DEF ContextRestoreLock, CsrRestoreOk
  <1>12. ASSUME NEW t \in Thr, ContextRestoreRegs(t) PROVE Rest'
    BY <1>12 DEF ContextRestoreRegs, RegsRestoreOk
  <1>13. ASSUME NEW t \in Thr, ContextRestoreEnd(t) PROVE Rest'
    BY <1>13 DEF ContextRestoreEnd
  <1>14. CASE UNCHANGED vars
    BY <1>14 DEF vars
  <1>15. QED
    BY <1>1, <1>2, <1>3, <1>4, <1>5, <1>6, <1>7, <1>8, <1>9, <1>10,
       <1>11, <1>12, <1>13, <1>14 DEF Next, ThreadStep

\* Under the caller contracts, every exit path of fdca_rvv_context_save and
\* fdca_rvv_context_restore releases ctx->lock: the mutex of a context is
\* held only by a thread inside the locked part of a call on it.
THEOREM LockSafety ==
    ASSUME DestroyAfterCalls, FiniAfterDestroy
    PROVE  Spec => []LockReleasedOnAllPaths
  <1>1. IInv => LockReleasedOnAllPaths
    BY DEF IInv
  <1>2. QED
    BY <1>1, InitIInv, NextIInv, PTL DEF Spec

\* Under the caller contracts, a live context that restore made active had
\* its CSR view saved and owns its register storage.
THEOREM ActiveSafety ==
    ASSUME DestroyAfterCalls, FiniAfterDestroy
    PROVE  Spec => []ActiveImpliesValid
  <1>1. IInv => ActiveImpliesValid
    BY DEF IInv
  <1>2. QED
    BY <1>1, InitIInv, NextIInv, PTL DEF Spec

=============================================================================
