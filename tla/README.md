# TLA+ models of the FDCA RVV driver

This directory holds the formal models of the RISC-V Vector (RVV) part of the FDCA
kernel driver in `src/`: TLA+ modules, TLC configurations that model-check them
on small instances, and TLAPS proofs that hold for every instance.
`PROJECT.json` lists the components, runs, mutants, source map, findings,
hazards and theorems. This README explains them.

## 1. The system

| Part | Source | State | Operations |
|---|---|---|---|
| State manager | `fdca_rvv_state.c` 594-698 | `g_rvv_manager` (global pointer, hw_config) | `state_manager_init`, `state_manager_fini` |
| Vector context | `fdca_rvv_state.c` 416-580 | `ctx->lock` (mutex), `csr`, `regs`, `active` | `context_create`, `context_destroy`, `context_save`, `context_restore` |
| CSR view | `fdca_rvv_state.c` 55-250, `.h` 83-110, 283-300 | raw CSRs, parsed VTYPE, `valid` | `read_csr` (stub), `csr_save`, `csr_restore`, `parse_vtype`, `csr_validate` |
| Register storage | `fdca_rvv_state.c` 265-402 | `allocated`, `saved`, `ref_count` | `regs_alloc`, `regs_free`, `regs_save`, `regs_restore` |
| Instruction decoder | `fdca_rvv_instr.c` | none (pure) | decode, parse, validate, conflicts |
| Vector memory op | `fdca_vector_mem.c` | DMA buffers, device status register | prepare, kick-off (four kinds), wait, execute |
| VRF allocator | `fdca_vrf.c` | bitmap under `alloc_lock`, lane bases | init, alloc_reg, free_reg, read/write_lane |
| Configuration | `fdca_rvv_config.c`, `fdca_pci.c` 170-235 | `rvv_config` | capability decode and validation |

The parts interact as follows:
- A context's save and restore call the CSR and register helpers under `ctx->lock`.
- Save and restore test `g_rvv_manager` and then read it again for the register step.
  Nothing orders those reads against `state_manager_fini`.
- `context_destroy` takes no lock.
- `csr_validate` reads the CSR view without the lock.
- The PCI probe publishes the device (`fdca_add_device`) before
  `fdca_device_init` creates the manager. Calls can therefore arrive with
  no manager.

The hard behaviours are these:
- the interleaving of save, restore, destroy and fini across threads;
- the check-then-reread of the global manager pointer;
- error paths that must reach `out_unlock`;
- divisions by values that are zero in a fresh context;
- timeouts racing a device that is still running DMA (vector_mem).

## 2. Modules

* `Vtype.tla` holds the VTYPE decoding as pure operators:
  - `ParseVtype` is `fdca_rvv_csr_parse_vtype`, including its early return on `vill`, which leaves the other parsed fields untouched.
  - `GetSewBits` and `GetLmulFraction` are the inline helpers of `fdca_rvv_state.h`.
  - VTYPE is a record of `vill` and its low 8 bits. The code masks only those bits.
* `RvvState.tla` is the save/restore component.
  - Variables:
    - `ctxState` is the slot state: none, live or freed (kfree'd).
    - `lock` is `ctx->lock`, held by a thread or by `NoThread`.
    - `csr` is the `valid` flag plus the parsed view.
    - `regs` is `fdca_rvv_register_state`.
    - `active` is `ctx->active`.
    - `mgr` records whether `g_rvv_manager` is non-NULL.
    - `pc`, `tgt` and `ret` hold each thread's place in a call, its context and its return code.
    - `divByZero` is a history flag for the division in `csr_validate`.
  - Actions:
    - One action per handler, and save and restore are split at the points where another thread can act. `ContextSaveLock` is `mutex_lock` + `csr_save` + the manager test. `ContextSaveRegs` is the reread of the manager + `regs_save`. `ContextSaveEnd` is the statistics, `active` and `out_unlock`. Restore has the same three steps.
    - The functions these handlers call have operators of their own: `RegsAlloc`, `RegsFree`, `CsrSave`, `RegsSaveOk`, `CsrRestoreOk` and `RegsRestoreOk`. Each action maps to its call site and each operator to the function it models.
    - Error returns of create (ENODEV, ENOMEM with the partial allocation undone) change nothing and are stutter steps.
    - `read_csr` is a stub in the code: it returns VILL for VTYPE and 0 for VL and VSTART. The model uses exactly those values (`StubVtype`, `StubVl`, `StubVstart`).
  - Two constants state the caller contracts of spec sections 3 and 4.4:
    - `DestroyAfterCalls`: destroy only with no call in flight on the context.
    - `FiniAfterDestroy`: manager teardown only with no live context.
  - The code enforces neither contract.
    - `FiniAfterDestroy` is the one that matters: `fdca_pci_remove` tears the manager down whatever contexts are live. Run rvv_fini_race switches it off and shows the NULL dereference it hides.
    - `DestroyAfterCalls` has no run of its own. Spec 4.4 makes "no call in flight at destroy" the caller's duty. Without the contract, the first bad state is a destroy while a call still waits at `mutex_lock`: the spec's locking destroy would fail the same way, and the run would only restate the guard that was switched off.
* `MC_RvvState.tla` instantiates RvvState with two contexts and two threads, and defines the symmetry set.
* `RvvStateProofs.tla` holds the TLAPS proofs.

## 3. Runs

All runs use `MC_RvvState` with 2 contexts, 2 threads and `RvvAvailable = TRUE`.

| Run | cfg | Expect | Checks |
|---|---|---|---|
| rvv_core | MC_RvvState.cfg | pass | TypeOK, LockReleasedOnAllPaths, ActiveImpliesValid, NoNullDeref, CallsReturn under FairSpec, both contracts on |
| rvv_two_active | MC_RvvState_TwoActive.cfg | violation | AtMostOneActive |
| rvv_regs_unsaved | MC_RvvState_RegsUnsaved.cfg | violation | ActiveImpliesRegsSaved |
| rvv_div0 | MC_RvvState_Div0.cfg | violation | ValidateNoDivByZero |
| rvv_fini_race | MC_RvvState_FiniRace.cfg | violation | NoNullDeref, with FiniAfterDestroy off |

Why these bounds are enough:
- Two threads are the least that can contend for one mutex.
- Two contexts are the least that can be active at once.
- The initial manager state is nondeterministic, so that the probe order (device published before the manager exists) is covered.
- Each context slot is used once (none → live → freed). A re-created context gets a fresh mutex and zeroed state, which is what a freed-and-reused slot would hold, so reuse adds no new behaviour.
- The pass run explores 12,662 distinct states and fires every action.

The violation runs are the findings:
1. **rvv_two_active**: nothing deactivates a context when another is restored. `fdca_rvv_switch_context` is declared and never defined. The spec's single vector unit allows one active context.
2. **rvv_regs_unsaved**: with no manager, save and restore skip the register step and restore still succeeds.
3. **rvv_div0**: `csr_validate` on a created-but-never-saved context divides `vlen` by `sew_bits = 0`. `vill` is 0 after the memset, so the early return is not taken.
4. **rvv_fini_race**: fini between the manager test and the reread in save dereferences NULL.

Every property of the pass run has a mutant, a plausible bug in the mapped code, that TLC catches:

| Mutant | Property that catches it |
|---|---|
| `>= 0` in `regs_free` | TypeOK |
| `csr_restore` without its `valid` test | ActiveImpliesValid |
| restore error path returning without `goto out_unlock` | LockReleasedOnAllPaths, CallsReturn |
| the register step without the manager test | NoNullDeref |

## 4. Fairness

`FairSpec` assumes the following:
- Strong fairness on the two `mutex_lock` steps. A kernel mutex hands off to a waiting task, so a waiter that is repeatedly able to take the lock gets it.
- Weak fairness on the other steps of a call, which run without blocking. The register I/O is "assumed fast" (spec section 5).

No fairness is assumed for the environment actions (create, destroy, calls, validate, manager init/fini). The code does not force anyone to call them.

Symmetry is used only in the violation runs. The pass run has a liveness property, and symmetry is unsound for liveness.

## 5. Proofs (`RvvStateProofs.tla`)

* `TypeCorrect`: `Spec => []TypeOK`, for all constants. It rests on the following lemmas:
  - `CsrSaveType`: `csr_save` yields a valid CSR record.
  - `RegsFreeType`: `regs_free` of a well-formed state is zeroed, or it keeps its single reference.
  - `RegsSavedType`.
  - `ZeroCsrType`.
  - `InitTypeOK`.
  - `NextTypeOK`, with one step per action.
* `LockSafety` and `ActiveSafety`: under `DestroyAfterCalls /\ FiniAfterDestroy`, `Spec` implies `[]LockReleasedOnAllPaths` and `[]ActiveImpliesValid`.
  Neither holds inductively on its own. Both follow from the inductive invariant `IInv`. Before the proof, TLC checked `IInv` as an invariant on the constants of the pass configuration. `IInv` is `TypeOK` plus:
  - `TgtInv`: a call in flight names a context.
  - `LockHeld`: a thread in the locked part owns its context's mutex. This is why the unlock on every exit path releases its own lock and no one else's.
  - `NoUseAfterDestroy`: a call in flight is on a live context. Under DestroyAfterCalls, this is why create never reinitialises a mutex somebody holds.
  - `MgrPresent`: a thread at a register step sees the manager present. It holds because fini needs no live context. It is needed because a thread stuck at the NULL dereference would keep its lock for ever.
  - `LiveAllocated`, and `RestoreOkValid`: a restore still headed for success found the CSR view valid.

  The lemmas `InitIInv` and `NextIInv` prove `Init => IInv` and `IInv /\ [Next]_vars => IInv'`, with one step per action. Each theorem concludes with `PTL`.

There is no theorem for `NoNullDeref`. It follows from `IInv` just as the two above do, but only through `FiniAfterDestroy`, and that contract rules out the one way the second read of `g_rvv_manager` can find it NULL. Since the code does not justify the contract (see rvv_fini_race), such a theorem would be hollow. `NoNullDeref` on rvv_core checks only that the register steps are guarded when the manager is absent from the start (the probe order).

Only TLC checks the following:
- `CallsReturn`. It is liveness, which TLAPS cannot prove here.
- The violation runs.

The constant assumption `ConstantsAssumption` is `NoCtx \notin Ctx`, `NoThread \notin Thr`, and the flags are Booleans. TLC evaluates it on every run.

## 6. What is not modelled (yet)

Planned modules, in order:
1. `RvvInstr`: decode, validate and conflicts as pure operators over a small opcode set. Its checks are the duplicate `case 0x00` in `decode_varith_type`, which makes REDUCE unreachable, and the symmetry of `instr_conflicts`, to be proved as a theorem.
2. `VectorMemOp`: execute against a device that can finish late. It covers the timeout that frees the staging buffer while DMA is running, the index buffer freed after kick-off, the unlocked shared status register, and the u32 size overflow.
3. `VrfAlloc`: the lane offset bound of read_lane and write_lane (the offset leaves the 4 KB window above 1024 bits per lane, and `size` is never checked). The bitmap allocator needs no interleaving model: `alloc_reg` and `free_reg` both hold `alloc_lock`, and the counters are atomic.
4. Capability decode with `rvv_config_validate`.

Left out on purpose:
- Statistics counters and `print_csr_state`, which nothing reads.
- The byte copies of the register file, abstracted to the `saved` flag.
- The queue, sync, VRAM, GTT, memory, NoC, PM, debug and module-entry files. They lie outside the RVV design of `spec.md`, and most of them are MMIO programming.
