# rk3588-npu-lab in TLA+

The repository is a collection of tools around one board: an `LD_PRELOAD` tracer for
the NPU's ioctls, bare-metal NPU programs, a Vulkan compute path, patches to llama.cpp
and its server, and reference implementations of an agent's memory, perception and
adapter cartridges. There is no single process that contains them all. The parts with
state, concurrency or failure are small and deep rather than many, and each of them is
modelled by a module of its own. This directory holds those modules, the TLC instances
that check them, and the proofs that carry the main results to every instance.

Modelled are the tracer's dump window and its buffer table, the in-place state update of
the serving patch 02, the checkpoint sidecar of the serving patch 10, the GPU path, the
W4A4 tools (kits, bank, GPTQ, calibration, folds, fault probes), the NPU probes, and
the reference libraries for memory, perception and adapter cartridges. What is left out
is listed under *Not modelled and why*.

## Files

| Module | What it is | Checked by | Proved in |
|---|---|---|---|
| `NpuHookDump` | SUBMIT handler of `tools/tracing/npu_hook.c`: counters, dump window, stderr | `MCNpuHookDump` | `NpuHookDump_proofs` |
| `NpuHookGem` | GEM buffer table of the same tracer | `MCNpuHookGem` | `NpuHookGem_proofs` |
| `SsmStates` | abstract: what evaluating a ubatch does to the recurrent-state cache | `MCServing` | |
| `SsmInplace` | the scan with worker threads, in place or copying (patch 02) | `MCServing` | `SsmInplace_proofs` |
| `EpisodicStore` | `reference/memory/episodic_store.py` with its two files | `MCServing` | `Reference_proofs` |
| `GpuOps` | Vulkan context, weights and `gpu_matmul` (`gpu/`) | `MCServing` | `GpuOps_proofs` |
| `SlotCheckpoint` | saving and restoring a slot with its checkpoints (patch 10) | `MCServing` | `SlotCheckpoint_proofs` |
| `W4A4Kit` | probe kits: layouts, packing, `verify_kit.py`, `classify_output.py` | `MCOffline` | `W4A4Kit_proofs` |
| `W4A4Bank` | bank, scales and index of a whole model (`pack_rk3588.py --all`) | `MCOffline` | `Tools_proofs` |
| `W4A4Gptq` | `GPTQ.quantize`: columns, blocks, groups (`quantize.py`) | `MCOffline` | `Tools_proofs` |
| `W4A4Calib` | layer-by-layer calibration, `main` of `quantize.py` | `MCOffline` | `Tools_proofs` |
| `W4A4Fold` | `rotate.py` and `smooth.py` on one checkpoint | `MCOffline` | `Tools_proofs` |
| `FlakyProbe` | `probe_flaky.py`, the procedure, `classify_flaky.py` | `MCOffline` | `Tools_proofs` |
| `NpuProbes` | the three programs of `tools/npu-probes` | `MCOffline` | `Tools_proofs` |
| `RecurringIdentity` | `reference/memory/recurring_identity.py` | `MCOffline` | `Reference_proofs` |
| `Cascade` | `reference/perception/cascade.py` | `MCOffline` | `Reference_proofs` |
| `CartridgeRuntime` | `reference/cartridges/hotswap.py` | `MCOffline` | `Reference_proofs` |

`PROJECT.json` maps every definition to the lines it models, lists the hazards with
the properties that cover them, and gives for every property a mutant: a plausible
bug, defined next to the operator it replaces and marked "Mutant", under which TLC
finds the property violated.

Run TLC on `MC*.tla` with the `.cfg` of the same name, and `tlapm` on `*_proofs.tla`. The
other configurations each ask one question that the code answers otherwise than a text of
the repository; a configuration belongs to the module its name begins with:
`MCNpuHookDumpMax.cfg`, `EpisodicStoreRollBack.cfg`, `EpisodicStoreDecay.cfg`,
`GpuOpsFallback.cfg`, `GpuOpsSum.cfg`, `SlotCheckpointStale.cfg`,
`CartridgeRuntimeAsked.cfg` and `MCW4A4KitSwap.cfg`.

## Inventory

**NPU tracer** (`tools/tracing/npu_hook.c`). Preloaded under a process that drives the
NPU, it wraps `ioctl`, `mmap`, `open` and the read calls. Its state is a set of plain
global variables; the threads of the traced process run its handlers concurrently and
the only lock is stdio's.
 * *Dump window* — counters per unit kind (CNA, DPU): buffers seen, buffers dumped, and
   the window read lazily from the environment. SUBMIT counts, decides whether to dump,
   formats on the stack, writes under `flockfile`, then prints one line. Hard: every
   `++` and every guard is a race; dumps of three cores share one stream. Correct if
   dumps come out whole, lost updates never shrink what the user asked for, and no
   thread keeps the stream.
 * *Buffer table* — `_gems`, indexed by DRM handle, and the buffers found in
   `/proc/self/maps`. MEM_CREATE, MEM_MAP, MEM_DESTROY and `mmap` maintain it, SUBMIT
   searches it by kernel address and IOVA, and then dereferences what it found. Hard:
   entries are never cleared while handles and addresses are recycled, and the driver
   has returned before the hook records; the scan of the maps, the resolvers and the
   `mmap` hook test and store without a lock. Correct if a lookup never returns a stale
   entry in place of a live one, the tables stay within their bounds, and the user
   address of a buffer is its own.
 * *Statistics and report* — op histogram, layer map, sync tracker, printed at exit;
   unlocked search-or-append on arrays with a limit.
 * *Descriptors and call logging* — which descriptors are the NPU; `close` is not
   hooked. Read calls are only logged.

**Serving patches** (`serving/patches`). Each is a patch against llama.cpp, so the
program around it is modelled from how the patch uses it.
 * *02 in-place Mamba-2 state* — workers scan the sequences of a ubatch, each its own
   heads, and write final states into cache rows that other sequences may still have to
   read. Hard: the aliasing test, and ordering without a barrier. Correct if the result
   is the copying graph's.
 * *10 checkpoint sidecar* — slot state and its checkpoints are two files. Save,
   restore, and what a killed server leaves. Correct if a restored slot has the checkpoints of
   the state it restored, or none.
 * *11/12 router* — the mask of the spawning thread is widened around a spawn and put
   back; LRU eviction skips pinned models and re-reads the pin file. Correct if the
   mask is restored on every exit, and pinned models stay.
 * *01 grouped MoE gemm* — the rows of an expert in groups of four and a remainder;
   correct if each row is computed once.
 * *03/09 trimmed LM head, prefix vocabulary* — index tables between the kept and the
   full vocabulary. *04-08, 13* wire tensors or set hyper-parameters: no state.

**Memory, perception, cartridges** (`reference`). Single-threaded Python libraries; the
hard behaviours are long sequences of calls, exceptions and restarts.
 * *Episodic store* — parallel arrays of keys and metadata; add with eviction, recall
   that counts, consolidation that decays, save and load as two files. Correct if the
   arrays stay parallel, forgetting takes the cold, and a save can be rolled back to, as
   far as files that are never synced allow.
 * *Recurring identity* — centroids that follow what they match; a label once given
   stays with its identity.
 * *Perception cascade* — readers from cheap to expensive until one is confident, with
   the cost added up.
 * *Cartridges* — adapters on a shared model: `use`, `use_base_only`, generate.
   *Training* and *grafting* are library calls and linear algebra.

**GPU** (`gpu`). A Vulkan context with one command buffer and one fence, and a weight
object built in eight steps, each of which can fail into one clean-up. `gpu_matmul`
records, submits, waits without a timeout and copies the result. Hard: failure exits,
errors of the submission and of the wait that nobody looks at, device loss. Correct if everything created is destroyed once and a
failure reaches the caller. The *shaders* are floating-point kernels.

**NPU programs** (`tools/example`, `tools/npu-probes`, `tools/w4a4`, `tools/bench`).
Sequential programs around a device that may fail or return garbage.
 * *W4A4 kits* — a weight bank and an input in several layouts, the goldens, and a
   description; one program writes them, one checks them on disk, one names what the
   board made of them. Hard: five index permutations, each written once forwards and
   once backwards, and a diagnosis from values alone. Correct if damage is found, a
   sound kit passes, and the diagnosis is what happened.
 * *W4A4 bank* — three files grown side by side, with padding and two kinds of scales;
   any tensor may fail. Correct if the offsets lead to each tensor's own cells.
 * *GPTQ and calibration* — errors passed on inside a block and, later, beyond it;
   scales read on the way; two activation buffers exchanged per layer, hooks put in and
   taken out. Correct if each error is taken out once, and each layer is calibrated on
   the quantised layers before it.
 * *Rotation and smoothing* — what is folded into one side of a weight must be undone on
   the side of those that read it, over any sequence of runs.
 * *Fault probes* — generations tagged into one buffer; a device that leaves lanes stale,
   zero or misplaced, and may stay degraded. Correct if a lane is called what it is and
   a health verdict is true.
 * *NPU probes* — a gate, then measurements that prepare handles, run and free, each step
   of which can fail. Correct if no handle is lost and no failed run is reported.
 * *GEMM session*: one straight line of ioctls. *Benchmarks*: loops around a clock.

**Kernel patch and documents** (`kernel`, `docs`): a Kconfig option and prose.

Components interact little: the tracer sits under any of the NPU programs (its
environment in `NpuHookGem` and `NpuHookDump` is any program at all); the two tracer
modules share SUBMIT, in which the buffer lookups come before the dump. The serving
patches meet in the server, but touch disjoint state.

## The modules

### NpuHookDump — the dump window

A thread's `pc` names the next access to shared memory; there is an action for each of
the accesses of `ioctl()` case 0x41 and `_dump_full_regcmd` (lines 561-627 and
667-737). An increment is a load into `reg[t]` and a store. Where the race lets the
compiler compare the value it holds or read again, the action chooses
(`CheckSkip`, `LoadCount`). `stdio` is the owner of the stream's lock: `Flockfile` takes
it for two writes, every other write waits for it and takes a single step. A command
buffer is its unit and the number of its registers; the text written is one of the
`Pieces`. `CountSubmit` may go straight to the log line: that is a submit whose buffers
could not be resolved (which buffers those are is `NpuHookGem`'s question). Four
history variables record what the counters, racing, do not: increments begun, dumps
let in, whether the skip test ever ran before `skip` was set, and whether the max test
turned a submit away.

*Run `npu_dump`*: two threads, three submits, two units (one per counter set), a window
of one after a skip of one, and one after a skip of -1 (clamped). Two threads suffice
for every pair of racing accesses and three submits let a thread enter the window with
another two on the way; a CNA buffer is of the length the docs report, and one unit
overflows the 8192-byte buffer. It shows that a dump once begun is completed before
anything else is written, up to 256 registers with its end marker (`DumpIntact`); that
nobody is turned away before the requested number was let in (`WindowFilled`); that no
warm-up buffer is dumped once the skip count is known (`SkipRespected`); and that every
submit returns (`SubmitReturns`).
*Fairness*: weak, per thread, of the handler's steps: the kernel schedules every
runnable thread, and the handler contains no loop that waits. Submitting again is the
traced program's choice and not fair.

*Run `npu_dump_max`* asks for what the comment and the tracer's README say,
`DUMPED < MAX`. Two threads pass the guard together and two buffers are dumped where
one was asked for.

*Proved* for any number of threads, units, buffer lengths and window bounds:
`Typing`, `SkipIsRespected`, `WindowIsFilled`, `DumpsAreIntact`. None of the properties
is inductive. `BoundsInv`: from its own store of `max` on, a thread finds it as the
environment has it, because another can only store the same value again. `SeenInv`:
`seen`, in memory and in every register between load and test, lags behind the
increments begun. `CountInv`: `dumped`, in memory or loaded, leaves room below
`accepted` for every thread that passed the test and has not stored yet — a
cardinality, which is why `Threads` is assumed finite. `StreamInv`: the lock belongs to
the thread inside `flockfile`..`funlockfile`, and a dump whose start is out has its
writer about to write the rest.

### NpuHookGem — the buffer table

The hook's state is `gems` (`_gems`), `vmas`, `count` (`_gem_vmas` and their number) and
`scanned`; the driver's is `buffer` and `map`. `DriverCreate` is MEM_CREATE inside the
driver and `MemCreate` the hook's record of it afterwards; what lies in between is open
to every other thread, and `fresh` holds the handles in that state. `MemMap` and
`MemDestroy` record, or do not record, the other two ioctls.

The hook has no lock, so `mmap` and SUBMIT go through the tables access by access, any
number of threads at a time; `pc[t]` names the next one.
 * `Mmap` returns from the kernel; then `NoteTest` and `NoteStore` compare and write one
   entry after the other (`_log_mmap`).
 * `Submit` and `SetScanned` test and set `_maps_scanned`: two first submits may both
   scan, and a second one may go on with a table that is not complete. `ReadLine` is one
   line of `/proc/self/maps`, as the program is mapped then; `TestBound` compares the
   count, `Append` stores the entry and the count. gcc -O2, the documented build, loads
   the count once for the test, the index and the increment, which decides how two scans
   overwrite each other.
 * `FindTask` looks the task buffer up by its kernel address, `TestUva` asks whether its
   user address is known, `Resolve` chooses one of the scanned mappings and
   `StoreResolved` stores it, in whatever state the entry is by then. `FindRegs` goes on
   to the buffer of the register commands by IOVA, and the same three follow for that.
   Where the hook follows a wrong user address, what it reads there is arbitrary.

A loop that only reads is one step, and so are the stores of one ioctl into its entry.

The environment is the DRM core and the rknpu driver, external to the repository: a
new buffer gets the lowest free handle of the file (`idr_alloc` from 1), and buffers
that exist together share no kernel address, IOVA page or offset. Addresses count in
pages. The program unmaps before it destroys, does not destroy a buffer whose
creation has not returned, and keeps the buffer that a call of its own is about.

*Run `npu_gem`*: two threads, a table of two entries, two pages of IOVA space, two kernel
addresses, offsets and user addresses, three creations, room for one mapping. Two threads
make every pair of racing accesses; three creations with reuse are the shortest history
in which a stale entry lies before, at and behind a live one; with room for one, two
scans meet at the bound. Kernel addresses, offsets and threads are interchangeable, hence
the symmetry. There is an entry for each handle: handles beyond the table are left to the
proof. Deadlock is not checked: the program may stop. It shows that scans together stay
within the table of mappings (`TypeOK`); that looking up any address of a live buffer
finds its entry, the entry of a handle that is just being rewritten, or nothing
(`LookupFindsLive`); and that the user address of a mapped buffer of 1 MiB or more is its
own once the `mmap` hook has gone through the table (`BigUvaCurrent`), with one exception
that the history variable `raced` singles out: if the hooked `mmap` stores the address
between another thread's test of the entry and that thread's store, the address from the
scan overwrites the right one. TLC finds that this happens as soon as the exception is
dropped. For smaller buffers the code guesses by size and promises nothing.

*Proved* for any number of threads and tables, address spaces and address sets of any
size: `Typing`, `LookupIsSound`, `BigUvaIsCurrent`. `Working` says what a thread works on
at each place, which is why the count stays within its bound: the index a thread stores
is one it has tested, whatever the count is by then. The argument of the lookups is
`LowerApart`: an entry *before* a live buffer's own shares no address with it. The buffer
took the lowest free handle, so all lower handles were in use at that moment, and what
they hold is either one of the buffers it was created beside, from which the driver keeps
it apart, or a later one, for which the same is true. Entries behind it may well hold its
addresses, but the search returns the first. Were handles given out in another order, the
table would need clearing; that is the point of the invariant. `MapLocated`, `Apart` and
`NoneToSpoil` (no thread is about to store into the entry of a big mapped buffer that is
not in `raced`) carry `BigUvaCurrent`.

### SsmStates and SsmInplace — the in-place state update

`SsmStates` says what evaluating a ubatch promises: row `head + i` becomes the scan of
the row that sequence `i`'s id names, as it was before; states that only move are
copied; the other rows stay. `SsmInplace` evaluates it node by node: `BuildGraph`
chooses the ubatch and whether the graph asks for the in-place update, `ScanSequence`
scans one sequence in one worker's slice, `CopyBack` is the copy of an aliased ubatch,
`ScanDone` the barrier, `CopyExtra` and `StoreStates` the rest of the graph. The loop
over tokens is folded into the constant operator `Scan`: between two tokens a worker
touches only the slice it writes. `ImplementsCopy` is the refinement, with the rows
before the ubatch as the abstract rows while one is in progress.

*In run `serving`*: every ubatch (every head, count and assignment of source rows,
duplicates included) over a cache of three rows, two workers, one ubatch; a state is a
number whose digits are its history, so that scanning twice or from a wrong row shows.
Three rows allow a chain and a cycle of sources, and a row just outside the owned
range on either side. A second ubatch was checked once by hand (it starts from states
of the same kind and shows nothing new; it takes some minutes). It shows that the in-place path computes
what the copy would (`ImplementsCopy`), that no source is read after it was overwritten
(`SourceIntact`), and that no step touches a row that is not the ubatch's
(`OnlyOwnedRows`). No liveness is stated: the workers' code waits for nothing but the
barrier of ggml's thread pool, which is not in the repository.

*Proved* for every cache size, set of slices, scan function and number of ubatches:
`Typing`, `SourceIsIntact`, `OnlyOwnedRowsChange`, and the refinement
`InplaceImplementsCopy`. `SsmInv` says what each slice of cache and result holds at
each node: `ScanInv` during the scan — a row is new exactly if it is one of the first
`Moved(h)` of the ubatch — and `StoredInv` after it.

### EpisodicStore — the memory

`keys` and `meta` are the two arrays; a key and a payload are named by the number of
the `add` they came with, so that a pair that slipped is visible. Vectors are
abstracted: any `k` rows may be the best for a query. `Add`, `Recall`, `Consolidate`
and `Load` are the methods, each atomic since the program is one thread; what raises
part of the way changes what it had changed by then (`Recall` on a row without
metadata). `save` takes four steps, because an exception or the end of the process between
two of them is visible in the files: a file is the value it holds, or nothing while it
is truncated. The code never syncs them: the kernel writes each back in its own time
(`WriteBack`), and a `PowerLoss` leaves what was written back, an older save's file or
half of one among it, while a killed process (`ProcessEnds`) loses its memory only.
History variables keep what saves were given, whether the store came from the files of
one save, and what the last save that returned may still be held to (`lastSave`, empty
after a power loss that came before both files were written back).

*In run `serving`*: capacity 2, three adds, one hit of each episode, two clock
values, two saves, failures, kills and power losses at any point. Three adds make the
third evict; two saves let either file of the second meet the other of the first. It
shows
that the arrays stay parallel through every such sequence unless the files of two saves
were mixed (`Parallel`); that an episode is forgotten only if it was cold at a
consolidation or was the coldest when a new one took its place (`ForgetsColdest`);
that `last_used` agrees with the hits (`LastUseOfHits`), on which that choice rests;
and that a save that returned can be loaded as it was until the next one begins or the
power goes too early; from then on, what loads from two files of one save is still a
store that a save was given (`RollsBack`). After a power loss no more is promised: without
`fsync` an older save may come back, a file may be cut, and the two files may be of two
saves although both returned.

*Run `episodic_rollback`* drops the condition: the module's docstring promises a
"versioned save so the whole store can roll back". `save` writes in place, and one that
stops between its files leaves the keys of one store with the metadata of another,
which `load` accepts. A power loss can do the same to two saves that returned.

*Run `episodic_decay`* checks the docstring of `consolidate`, "Decay is by AGE of last
use, not by hit-count alone". The code looks at the creation time and at `hits == 0`;
an episode recalled once is kept whatever the age of that recall.

*Proved* for any capacity and any number of calls, saves and failures: `StoreIsBounded`
(`StoreTypeOK`), `ArraysStayParallel`, `LastUseIsOfAHit`, `ColdestIsForgotten`,
`LoadRollsBack`. `StoreInv` says the same of memory and of both files, whatever was lost
between them: every list of metadata is `Proper` (within capacity, in the order of the
calls of `add`, each entry's times and hits `Sane`), and the pairing of keys and metadata
is broken only where the files are torn or the store was loaded from such (`StorePairs`).
The order is needed because `min()` prefers the first of equals: only if earlier means
older is the one that goes the oldest. That there is a coldest at all is
`ColdestIsColdest`, a least element of a lexicographic order, and what `consolidate`
keeps is described by an increasing enumeration of the indices that stay (`InOrder`)
instead of a filter, so that no induction is needed. An age (`decay_after_days`) is
assumed to be a natural.

### GpuOps — the Vulkan path

`held` is the set of handles in the structs of the program, `live` the objects the
driver has made: a failed creation must leave the two equal. `CtxCreate` and
`WeightLoad` go through `ContextPlan` and `WeightPlan`, the objects in the order the
code creates them, up to a failure anywhere; what is destroyed then is what
`gpu_ctx_destroy` and `gpu_weight_free` destroy. Each is one action, since one thread
calls and nobody else sees a half-built object. `Matmul`, `Record`, `Submit`,
`WaitFence` or `WaitFails`, and `CopyResult` are `gpu_matmul`; between them the device
takes the steps `Execute`, `Finish` and `Lose`. `WaitFails` is a wait that ends for want of
memory, which the code does not look at: the call returns while the device executes, what
it copies and what a later call's device work sees is anything, and freeing a weight in
use or recording over the command buffer leads to "undefined". A caller's `y` is zeroed or
holds the sum so far. A vector is its name. A y buffer is the list of the
products added to it since it was zeroed, because that is what `sgemm.comp` does with
`matmul`'s output. Where the code goes on after an error it does not look at, so does
the model; where that leaves Vulkan's rules (a memory object that cannot be mapped) the
program ends in the state "undefined", about which nothing is said. Recording is taken
to succeed.

*In run `serving`*: two weights and two inputs, two calls, four creations: a weight is
used after itself or after the other, and one is created again after a failure.
A submission refused by the driver leaves the caller waiting for a fence that nobody
signals. It shows that objects and handles agree whatever failed (`NothingLeaks`; a set
does not show an object destroyed a second time), that no buffer the device is using is
changed or destroyed unless the call ignored an error (`DeviceUndisturbed`), that a call
with a zeroed `y`, to which the driver reports no error and beside which nothing given up
before still executes, returns the product of its own input, once (`ResultIsProduct`), and that a call
whose submission was accepted returns (`MatmulReturns`).
*Fairness*: weak, of the caller's own steps, which wait for nothing but the fence, and
of the device: Vulkan requires that what was submitted completes or that the device is
lost in finite time.

*Run `gpu_fallback`* checks the header's "Returns 0 on success, -1 on error (caller
should fall back to CPU)". The results of the submit and of the wait are dropped, so a
lost device yields 0 and a zeroed vector.

*Run `gpu_sum`* checks the header's "y[N] += x[K] @ W[N×K]" and "Caller must zero
y[0..N-1] before the first accumulation". The code zeroes the device's y in every call and
copies it over the caller's: a sum is lost.

*Proved* for any weights, inputs and numbers of calls: `Typing`, `NoLeak`,
`DeviceIsUndisturbed`, `ResultIsRight`. The invariant `GpuInv` follows the call through
its steps: `Complete` says that a struct has all its objects or none, `CallKept` that
the call's weight is loaded and the command buffer is recorded for it, `Progress` how
far the device is at each `pc`, and with what in `xbuf` and `ybuf`. "No error was
reported" is needed in it because such an error ends the wait early.

### SlotCheckpoint — the sidecar

A slot is a state and a list of checkpoints. `SaveState`, `OpenSidecar` and
`WriteSidecar` are a save task: the state file (external, `llama_state_seq_save_file`)
is written, cut or left alone; the sidecar is truncated or cannot be opened; all, some
or none of its records are written. `Killed` may end the server between any two steps
and the slots start empty afterwards. The server runs its tasks one after the other on
one thread, so a restore is one action and no prompt is processed during a save.
`Loadable` is `slot_checkpoints_load`: all the records the header announces, and not
too many. The server around the patch is external: a prompt appends a checkpoint,
drops the oldest for it, and starts anew for another conversation. A state file is
taken to load if it is complete (same model and context), and a checkpoint to be smaller
than the 2^34 bytes that the load accepts. Losses of power are not modelled here: nothing
syncs these files either, and what a kill leaves is enough for the patch's own claim.

*In run `serving`*: two slots and one file, lists of up to two checkpoints, of
which one of one checkpoint is loaded (in the code 1024; that way the limit is met), three
prompts and two saves, so that a failure can follow a good save. It shows that a
file whose last save met no failure gives a slot the state that was saved, and its
checkpoints if they are no more than the load accepts, whatever the slot holds
(`RestoresSaved`). The save has no such limit: a longer list is written, and logged as
saved, but never comes back, and the slot keeps the checkpoints it has. It also shows
that a list is taken whole or not at all (`NeverPartial`), and that a sidecar is never newer than the state beside it (`SidecarNotNewer`):
checkpoints that do not belong to a state are at least not of its future.

*Run `slot_stale`* checks the patch's comment "a stale sidecar from an earlier save must
not survive". It survives when it cannot be opened and when the server ends between the
two files; the slot then gets the new state with the old list.

*Proved* for any slots, files and bounds: `Typing`, `RestoreBringsBack`,
`NeverRestoresAPart`, `SidecarIsNotNewer`. `SaveInv` and `WriteInv` say what a save has
done by each of its steps, and need that nothing else happens to its slot meanwhile;
`GivenInv` that a sidecar with as many records as it announces holds a saved list;
`SavedInv` what a save without failure left on disk, and that nothing but a later save
takes it away.

### Run `serving`: components that share no state

`SsmInplace`, `SlotCheckpoint`, `EpisodicStore` and `GpuOps` do not meet. `MCServing`
extends all four, chooses one of them at the start (`part`) and takes its steps only, so
that the state spaces add up instead of multiplying; the fairness of the run is that of
`GpuFairSpec`. Deadlock is not checked: each part stops at its bounds, and a program of
the GPU path may end "undefined" or waiting for a refused submission.

### The sequential programs: run `offline`

The remaining modules are single-threaded programs that share no state with each other
or with the rest. `MCOffline` composes them in the same way. None
of them waits for anything: they state no fairness and no liveness, and deadlock is not
checked because each part stops at its end or at its bound.

**W4A4Kit.** A matrix is a function on index pairs and a layout the sequence of those
pairs in the order they are stored (`Normal`, `Native`, `BNative`, `BKMajor` are
`common.py`'s); `Pack` makes bytes of nibbles. `EmitShape`, `EmitKernelId` and
`EmitKSweep` write a kit as `emit_shape`, `emit_kernelid` and `probe_ksweep.py` do, the
latter two with the bank whose column `n` sums to `n - N/2` (sparse or dense encoding).
`Damage` is one changed byte of one file, `Verify` what `verify_kit.py` finds, each
layout read back by its own inverse; `RunBoard` is a right or wrong answer of the board
in one of the ways the kit is to tell apart, and `Classify` names it. `CatchesDamage`:
the checks pass exactly the kits that are as written and whose products fit an int16;
the row-major int16 product, which nothing reads, aside. `DiagnosisTrue`: what
`classify_output.py` says happened did; a bank read with its nibbles swapped is left out of it. The vendor's sizes are divided by four with the
ratios kept; nibbles keep their width, an int16 has an int8's range, which products of
extreme values leave. One shape has `K` of a single tile, one an `N` that only two of
three tilings divide.

*Run `kit_swap`* checks what the packer (line 202), the classifier (line 11) and the tools'
README (line 431) say, that a kernel-id kit shows a swapped nibble order. It does not: both
nibbles of a byte belong to one kernel, a kernel is known by the sum of its column, and
such a bank is called correct.

*Proved* for any shapes, tilings, tile sizes, numbers of rows and word width that are
cut up evenly (`KitAssumption`): `DamageCaught`, `FaultsNamed`, `DiagnosisIsTrue`. The ground
is arithmetic: each layout and the position that `verify_kit.py` computes for an index
pair are inverse to each other (`NormalInverts`, `NativeInverts`, `BNativeInverts`,
`BKMajorInverts`), and the nibbles of a packed sequence are its elements. `Total` is a fold, so
its lemmas speak of the function the fold computes (`SumsAre`); that a sum is the same over
any matching of equal summands (`SameTotal`), that any summand may be taken first
(`TotalOfOneMore`), and what the encoders' columns sum to (`EncodedSumIs`, `DenseSumIs`) follow by
induction on the number of summands, with the sets of good numbers spelt out.
`KitInv` says that the directory is a kit as written but for at most one changed entry, of
the file named in `damage`, and that a verdict is `Failed` of it. A changed file
cannot fail to show: a layout of the bank or the input disagrees with the row-major one
at the element it holds, a changed product with the one computed again, and a change in
the row-major bank or input itself with every layout written beside it. `BoardInv` is the same of an
undamaged kernel-id kit that has been run. From it `FaultsNamed`: the readable forms give the
lanes back in one of the interpretations, so a bank read with its own tiling and nibble
order scores all lanes, and the tiling fault
and the fetch of one tile are named. The remaining part of `DiagnosisTrue`, that a bank
read with *another* tiling is not called correct, depends on the values the encoders chose:
a bank of zeros would look the same in any tiling. `TilingsTold` states just that as a fact of
the banks alone, without the board, the buffer or the classifier (of every bank with
more than one tile of `K`, in every wrong tiling some lane does not sum up its own column), and `DiagnosisIsTrue` takes it as a
hypothesis; `MCOffline` assumes it, with `KitAssumption`, as `KitValues`, so that TLC evaluates both
for the shapes of the run.

**W4A4Bank.** A file is a sequence of cells named by tensor and rank. A tool run is
`StartPack`, `PackLayers`, `OpenBank`, one `WriteTensor` each, `WriteIndex`; `PackFails` may
end it at a tensor or between the two files. `todo` is what is still to be written, and
`IsNext` the one whose turn it is: shard by shard, in each by name. Three linears over two shards, padding that
fills and that does not fill a tile, groups that divide and that do not, a GPTQ archive
for none, some or all tensors and with a group of its own, two runs over the same files.
`BankIndexed`: when the index is written, each tensor is in it once, at offsets where
its own cells lie in full, and nothing else is in the files. *Proved* for any tensors,
tiles, groups, padding and number of runs: `IndexLeadsToWeights`. `BankInv` says that
while tensors are written the index so far is `Indexed`: its spans lie one after the
other up to the end of the files, each filled by its own tensor's cells, and the tensors
in it are those no longer in `todo`. That a file which grows at its end keeps its earlier
spans, and that a span is what `SubSeq` cuts out, are lemmas of their own. The scales
agree with the group the index states, or are one per kernel, because the kits of `LAYERS`
were packed first and failed otherwise (`GroupsAgree`): their error is taken with the
scales read in groups of `--group`, which must divide `K` even where the weights come from
an archive. What this says of the widest of them holds of every narrower linear, so it
needs that the largest `K` occurs among `LAYERS`; `down_proj` is one of them and no linear
of a layer is wider. An archive is one that `quantize.py` can leave (`Archived`). The
index's text of the scales, "fp32 (N, K/32)", is fixed and wrong for other groups;
`BankIndexed` goes by the group and the offsets of the index.

**W4A4Gptq.** A column is the bag of errors taken out of it, a scale the columns it was
read from with the errors they had. Blocks of four columns against widths that
are a part of a block, a block, and more, and groups that divide the block, straddle it, or
exceed the row. `ErrorsOnce`: a column is rounded with each earlier column's error taken out
exactly once, with a scale of its own group, and given back with the scale it was
rounded with. *Proved* for every block, width and group: `ErrorsAreTakenOutOnce`. `GptqInv`
says which errors the matrix and the copy of the block hold on either side of `j` and of
the block's end, and that the scale current at `j` is the one stored for `j`'s group; for
that the lemmas on quotients say when two neighbouring columns are in one group.

**W4A4Calib.** An activation carries, for each layer passed, the linears that were
quantised when it passed. Three layers (so that the buffers are exchanged twice), two
samples, three linears. `CalibratedOnQuantized`: each linear is quantised from every
sample once, in order, as it comes out of the earlier layers after they were fully
quantised. `Outputs` accumulates again if the hooks are still in place, so taking them
out late would show. *Proved* for any number of layers, samples and linears:
`EachLayerOnQuantizedOnes`. `CalibInv` says, at each step of a layer, which buffer holds
the samples as they come out of the layers before (`Buffers`), that the Hessians hold the
samples run so far in their order (`Hessians`), and that what was packed was packed from
all of them (`Archive`).

**W4A4Fold.** A weight keeps the folds of its input side and its output side, in order.
Four runs of either tool in any order over two layers, two key heads serving two query
heads each. `SameFunction`: residual, heads and MLP rows are undone where they are read,
and each norm's gain is applied once and before the rotation. *Proved* for any number of
layers, heads and runs: `FunctionStaysSame`; `SameFunction` is inductive once the folds
are known to be sequences (`FoldTypes`).

**FlakyProbe.** A lane holds where its value came from; the programs see only the value.
`Emit` chooses the stride with all its assertions, `Dispatch` leaves lanes unwritten,
zero or displaced in one of the patterns the programs speak of, `DispatchLast` is the
warm-up test, `Disturb` and failing dispatches leave the device degraded, `HealthPre`
and `HealthPost` judge a health run. `VerdictTrue`: given a stride of at least `N`, a
lane is called what it is, and the warm-up verdict names a dispatch that really failed.
`HealthVerdictTrue` (an action property): a health verdict says exactly whether the
device is degraded when the health kit runs, whatever the lanes of the dead halves show,
of a device whose faults show in a live lane. It says nothing of what the dispatches
between two verdicts do to the device, nor of a reading without `health_pre`. Two generations, six
lanes in three blocks, and values of `k` that give a stride above and below `N` and none
at all. *Proved* for any shape, block, live half and number of generations:
`LanesAreCalledRight` and `GateIsRight`. The first rests on `GoldenPositive` (every golden
is above zero, so neither a zero nor the poison, once the stride exceeds the bases) and
`GoldensDiffer` (with a stride of at least `N` a value gives generation and lane); the
second on `HealthyIfLive` (the live halves of all blocks have their full number exactly
if no live lane is missing), for which the health shape must fill its blocks, as
`probe_flaky.py` asserts. `FlakyInv` carries these facts from the assertions to the
captures.

**NpuProbes.** One model of the three probes; `prog` says which runs. `Gate` retries the
verifier, `Prep` and `PrepFails` build a chain of up to three handles, `Run`, `RunFails`
and `EndMeasure` are a measurement; `n_curve_probe.py` has a second phase,
`m_curve_probe.py` keeps its weights over several measurements. `HandlesFreed`: the
library holds what the probe holds, and nothing between shapes or at the end.
`MeasuredClean`: a row is the least time of a full set of runs none of which failed.
*Proved* for any numbers: `NoHandleIsLost` (the property is inductive) and
`MeasurementsAreClean`, from `MeasureInv`: until a run fails, `best` is the least of the
runs so far, and after a failure there is none to report.

**RecurringIdentity.** Signals are points on a circle of six and a fold moves a centroid
any way towards the signal, which is enough for identities to drift into each other.
`NameIsFirstTruth`: whatever the drift, an identity bears the first name that ground
truth gave to one of its own sightings, and counts each of those once. An empty string
is a name that is not `None` and yet false, which the code treats in two ways. *Proved*
for any points, threshold and sightings: `NamesAreFirst`, from `IdentInv` (lists of equal
length, each label the one `NameOf` gives the sightings). Where the centroids are does
not matter to it.

**Cascade.** Readers answer nothing, something below or something above their threshold,
or raise. `ReachedCounted`: the figure "reached" of the last reader, its own count plus
the unresolved, is the number of events it ran on, and no event is counted twice or lost
unless a reader raised. *Proved* for any number of readers and events: `ReachIsCounted`.
`Counted` is a recursive function, whose existence and whose growth by one the lemmas
`SumsExist` and `SumOfOneMore` show from the least number at which they would fail;
`Settled` balances the counters while an event is being read.

**CartridgeRuntime.** The PEFT model is external; whether selecting an adapter enables
disabled layers is its own affair and left open. `NoOtherCartridge`: a
request for a cartridge is never answered by another one, and by the bare base only once
`use_base_only` was called. *Run `cartridge_asked`* checks what the module says, "switch
between them per request": after `use_base_only` the base may answer a request for a
cartridge, since nothing in the runtime enables the layers again. *Proved* for any
cartridges: `NoOtherAnswers`; what has to be added is that a model has an adapter selected that it has loaded, and that layers are
disabled only after `use_base_only` (`CartInv`).

## Bounds

Every bound is a constant named in its module and appears only in guards of the
environment's actions: submitting (`MaxSubmits`), creating a buffer (`MaxHandle`,
`Pages`, `MaxCreates`), starting a ubatch (`MaxBatches`), calling the store and the clock
(`MaxAdds`, `MaxHits`, `MaxTime`, `MaxSaves`), loading a weight and multiplying
(`MaxLoads`, `MaxCalls`), prompting and saving a slot (`MaxTurns`, `MaxSlotSaves`), starting a
W4A4 tool again (`BankRuns` of `W4A4Bank`, `Runs` of `W4A4Fold`), trying the gate (`Tries`, which is
the program's), observing a signal (`Sightings`), reading an event (`Events`). The theorems
hold for every value of them.

## What is proved and what is only checked

TLAPS checks the theorems of the eight `_proofs` modules. Between them they state every
safety property of the passing runs. They rest on the assumptions the modules
name, and nothing else:
 * that a sentinel is not a member of the set it stands outside of, that context and null
   are not weights, that lengths, bounds and numbers of runs are naturals, that sizes
   (capacity, block, tile, number of readers, lanes) are positive;
 * that the scan maps states to states, and that the set of threads is finite;
 * `CalibAssumption`: there are layers, samples and linears (`main` raises otherwise);
 * `BankAssumption`: the tensors are records of naturals, and one of the linears that get
   a kit has the largest `K`;
 * `FlakyAssumption`: the live half is not more than the block;
 * `DecayAssumption`: `decay_after_days` is an age, not negative;
 * `KitAssumption`: the emitted `K` and `N` are cut into whole tiles by `KTILE` and by some
   candidate, tiles hold whole bytes, and the largest kernel index fits an int16;
 * `TilingsTold`, for `DiagnosisIsTrue` only: the banks that `encode_sum` and
   `encode_sum_dense` produce for the shapes in question tell their tilings apart.

TLC evaluates the modules' assumptions on every run (those of the kits through
`KitValues`), and the instance it checks satisfies
those the theorems state themselves (a width is positive, a group a natural). Every
inductive invariant is spelt out in its proof module; the modules' constants stay
parameters, bounds included.

Only model-checked:
 * the liveness properties `SubmitReturns` and `MatmulReturns`
   (liveness under fairness is outside the proof system's reach);
 * `TilingsTold`, a statement about the values of generated banks in which no state occurs:
   what the two encoders and a wrong tiling sum up to depends on the remainders of the shape,
   and TLC evaluates it for each shape of the run;
 * the eight properties that are violated, each of which has a counterexample.

## Not modelled and why

Whole components:
 * *Tracer statistics, report, fd tracking*: unlocked arrays that only feed figures
   printed for a reader; the source promises nothing of their exactness that could be
   stated. `fread` attribution reads the table and prints.
 * *Router patches 11/12, grouped MoE gemm 01, LM head 03/09, tensor wiring 04-08/13*:
   a few lines each inside code that is not in the repository; on its loops and locks any
   property would rest.
 * *GEMM session, benchmarks*: one straight line of calls that ends in a printed figure.
 * *Training, grafting, GPU shaders, perplexity, rotation check, associative bank*:
   linear algebra and library calls; what is to be said of them is numerical.
 * *Kernel patch, documents*: no program.

Inside the modelled components: the contents of register command buffers (decoded text
only); the arithmetic of the scan (a parameter); embedding distances (any outcome); the
`semantic_fold` callback beyond its being called on episodes that stay unchanged;
Hessian, Cholesky factor and rounding of GPTQ, the choice of rotations and of smoothing
scales (names); figures computed from a measured time. Two requests at once on one GPU
context or one cartridge runtime are not modelled, because nothing in the repository
calls either from two threads.

## Remarks met while modelling

Where the code does something a reader of its comments might not expect, and no property
claims otherwise:
 * `classify_output.py` looks at row 0 only; an output written with a stride of two in
   row-major order reads as another layout or as unrecognised; an int32 buffer of one row is as long as an int16 buffer of
   two and is taken for that; with `K` of one tile several layouts coincide.
   `DiagnosisTrue` is stated for the cases the kit can tell apart.
 * `verify_kit.py` reads neither the row-major int16 product nor the scales and skips
   optional files that are missing; `CatchesDamage` names the files it covers.
 * A failure half-way through `--all` leaves an older index beside a truncated bank. A
   per-kernel GPTQ archive packed with `--group` is accepted, and its scales broadcast.
 * In `GPTQ.quantize` the comment at line 120 holds for groups that divide the block; a
   width that is no multiple of the group ends in an `IndexError` (`OutOfScales`).
 * `probe_flaky.py` asks for a stride above `N/2` (lines 82 and 85); below `N`, a row
   landing in another lane can look stale. `VerdictTrue` assumes the larger stride.
 * `n_curve_probe.py` ends in a `TypeError` if its first phase measured nothing; after a
   failed measurement no probe goes through its gate again.
 * `Cascade.read` runs the last reader twice when nobody was confident, and `cost_ms`
   omits the second run.
 * `CartridgeRuntime.generate` fails before the first cartridge is loaded, for the base
   alone too.
