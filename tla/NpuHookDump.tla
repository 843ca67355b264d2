---------------------------- MODULE NpuHookDump ----------------------------
(***************************************************************************)
(* The dump window of the NPU ioctl tracer (tools/tracing/npu_hook.c): the *)
(* SUBMIT handler as far as it counts submits, dumps register-command      *)
(* buffers and writes its log line.                                        *)
(*                                                                         *)
(* The tracer is preloaded under a process whose threads submit to the NPU *)
(* cores concurrently.  Its counters are plain ints, so every increment is *)
(* a load and a store that other threads can separate; the only lock is    *)
(* the one of the stdio stream.  A thread's program counter names the next *)
(* shared access of ioctl() and _dump_full_regcmd(); local computation     *)
(* (snprintf into the stack buffer) is folded into the access before it.   *)
(***************************************************************************)
EXTENDS Integers, FiniteSets

CONSTANTS
  Threads,     (* The threads of the traced process.                         *)
  Units,       (* What _subunit_name can return for a command buffer.        *)
  CnaUnits,    (* The units whose name starts with 'C'.                      *)
  RegcmdLen,   (* Registers in a unit's command buffer, regcfg_amount + 4.   *)
  EnvMax,      (* NPU_HOOK_DUMP_CNA / _DPU, per slot, as atoi returns it.    *)
  EnvSkip,     (* NPU_HOOK_DUMP_CNA_SKIP / _DPU_SKIP, per slot.              *)
  NoThread,    (* Owner of the stream when nobody holds it.                  *)
  MaxSubmits   (* Bound: submits of the whole run.                           *)

(* The two sets of window counters: _rcmd_*_cna and _rcmd_*_dpu. *)
Slots == {"cna", "dpu"}

ASSUME ThreadsAssumption == NoThread \notin Threads /\ IsFiniteSet(Threads)
ASSUME UnitsAssumption   == /\ Units # {}
                            /\ CnaUnits \subseteq Units
                            /\ RegcmdLen \in [Units -> Nat]
ASSUME EnvAssumption     == EnvMax \in [Slots -> Int] /\ EnvSkip \in [Slots -> Int]
ASSUME BoundAssumption   == MaxSubmits \in Nat

VARIABLES
  cntSubmit,   (* _cnt_submit                                                *)
  seen,        (* _rcmd_seen_*, per slot                                     *)
  dumped,      (* _rcmd_dumped_*, per slot                                   *)
  max,         (* _rcmd_max_*, per slot; -1 until the first submit           *)
  skip,        (* _rcmd_skip_*, per slot; -1 until the first submit          *)
  stdio,       (* the owner of stderr's lock                                 *)
  last,        (* the piece most recently written to stderr                  *)
  pc,          (* where each thread is                                       *)
  reg,         (* the value each thread last loaded from a counter           *)
  unit,        (* the unit of the buffer each thread is submitting           *)
  seq,         (* the submit number in the header of the thread's dump,      *)
               (* 0 when this submit has none                                *)
  entered,     (* History: increments of seen, per slot                      *)
  accepted,    (* History: dumps that passed both guards, per slot           *)
  unset,       (* History: a submit passed the skip test before skip was set *)
  declined,    (* History: a submit was turned away by the max test          *)
  submits      (* Submits begun                                              *)

counters == <<cntSubmit, seen, dumped, max, skip>>
local    == <<reg, unit, seq>>
history  == <<entered, accepted, unset, declined>>
vars     == <<counters, stdio, last, pc, local, history, submits>>

(* The counters a unit's dumps go through: `is_cna = (unit[0] == 'C')`. *)
SlotOf(u) == IF u \in CnaUnits THEN "cna" ELSE "dpu"
Slot(t)   == SlotOf(unit[t])

ClampNeg(n) == IF n < 0 THEN 0 ELSE n

(* Sizes in bytes of what goes into `char buf[8192]`: the header at its    *)
(* longest, one register line, and the end marker.                         *)
BufBytes    == 8192
HeaderBytes == 99
LineBytes   == 19
EndBytes    == 27

(* The end marker is appended iff nothing before it was cut and it fits. *)
EndFits(n) == HeaderBytes + LineBytes * n + EndBytes < BufBytes

Pieces == {"window", "start", "end", "cut", "line"}
Places == {"idle", "count", "checkmax", "setmax", "setskip", "clamp", "window",
           "loadseen", "storeseen", "checkskip", "checkcount", "loadcount",
           "storecount", "header", "lock", "writestart", "writeend", "unlock",
           "line"}

Init ==
  /\ cntSubmit = 0
  /\ seen      = [s \in Slots |-> 0]
  /\ dumped    = [s \in Slots |-> 0]
  /\ max       = [s \in Slots |-> -1]
  /\ skip      = [s \in Slots |-> -1]
  /\ stdio     = NoThread
  /\ last      = [thread |-> NoThread, piece |-> "line"]
  /\ pc        = [t \in Threads |-> "idle"]
  /\ reg       = [t \in Threads |-> 0]
  /\ unit      = [t \in Threads |-> CHOOSE u \in Units : TRUE]
  /\ seq       = [t \in Threads |-> 0]
  /\ entered   = [s \in Slots |-> 0]
  /\ accepted  = [s \in Slots |-> 0]
  /\ unset     = [s \in Slots |-> FALSE]
  /\ declined  = [s \in Slots |-> FALSE]
  /\ submits   = 0

Goto(t, from, to) == pc[t] = from /\ pc' = [pc EXCEPT ![t] = to]

-----------------------------------------------------------------------------
(* ioctl(): a SUBMIT came back from the driver.  _cnt_submit++ is a load   *)
(* and a store.                                                            *)

Submit(t) ==
  /\ submits < MaxSubmits
  /\ Goto(t, "idle", "count")
  /\ \E u \in Units : unit' = [unit EXCEPT ![t] = u]
  /\ reg' = [reg EXCEPT ![t] = cntSubmit]
  /\ seq' = [seq EXCEPT ![t] = 0]
  /\ submits' = submits + 1
  /\ UNCHANGED <<counters, stdio, last, history>>

(* After the store the handler resolves the buffers.  A buffer it cannot   *)
(* read is not dumped: straight to the log line.                           *)
CountSubmit(t) ==
  /\ \/ Goto(t, "count", "checkmax")
     \/ Goto(t, "count", "line")
  /\ cntSubmit' = reg[t] + 1
  /\ UNCHANGED <<seen, dumped, max, skip, stdio, last, local, history, submits>>

-----------------------------------------------------------------------------
(* _dump_full_regcmd: the window's bounds are read from the environment by *)
(* whichever thread finds max negative, max before skip.                   *)

CheckMax(t) ==
  /\ Goto(t, "checkmax", IF max[Slot(t)] < 0 THEN "setmax" ELSE "loadseen")
  /\ UNCHANGED <<counters, stdio, last, local, history, submits>>

SetMax(t) ==
  /\ Goto(t, "setmax", "setskip")
  /\ max' = [max EXCEPT ![Slot(t)] = EnvMax[Slot(t)]]
  /\ UNCHANGED <<cntSubmit, seen, dumped, skip, stdio, last, local, history, submits>>

SetSkip(t) ==
  /\ Goto(t, "setskip", "clamp")
  /\ skip' = [skip EXCEPT ![Slot(t)] = EnvSkip[Slot(t)]]
  /\ UNCHANGED <<cntSubmit, seen, dumped, max, stdio, last, local, history, submits>>

ClampWindow(t) ==
  /\ Goto(t, "clamp", "window")
  /\ max'  = [max  EXCEPT ![Slot(t)] = ClampNeg(@)]
  /\ skip' = [skip EXCEPT ![Slot(t)] = ClampNeg(@)]
  /\ UNCHANGED <<cntSubmit, seen, dumped, stdio, last, local, history, submits>>

(* Mutant: a write to stderr that does not wait for the stream. *)
EmitUnlocked(t, piece) == last' = [thread |-> t, piece |-> piece]

(* fprintf takes the stream's lock for the length of the call. *)
Emit(t, piece) ==
  /\ stdio = NoThread
  /\ last' = [thread |-> t, piece |-> piece]

PrintWindow(t) ==
  /\ Goto(t, "window", "loadseen")
  /\ Emit(t, "window")
  /\ UNCHANGED <<counters, stdio, local, history, submits>>

-----------------------------------------------------------------------------
(* The increment of seen and the two guards of the window.                 *)

LoadSeen(t) ==
  /\ Goto(t, "loadseen", "storeseen")
  /\ reg' = [reg EXCEPT ![t] = seen[Slot(t)]]
  /\ UNCHANGED <<counters, stdio, last, unit, seq, history, submits>>

StoreSeen(t) ==
  /\ Goto(t, "storeseen", "checkskip")
  /\ seen'    = [seen EXCEPT ![Slot(t)] = reg[t] + 1]
  /\ reg'     = [reg EXCEPT ![t] = reg[t] + 1]
  /\ entered' = [entered EXCEPT ![Slot(t)] = @ + 1]
  /\ UNCHANGED <<cntSubmit, dumped, max, skip, stdio, last, unit, seq,
                 accepted, unset, declined, submits>>

(* Mutant: `seen < skip`. *)
CheckSkipShort(t) ==
  /\ Goto(t, "checkskip", IF reg[t] < skip[Slot(t)] THEN "line" ELSE "checkcount")
  /\ UNCHANGED <<counters, stdio, last, local, history, submits>>

(* The race leaves the compiler free to compare the stored value it still  *)
(* holds, or to read seen again.                                           *)
CheckSkip(t) ==
  \E v \in {reg[t], seen[Slot(t)]} :
    /\ Goto(t, "checkskip", IF v <= skip[Slot(t)] THEN "line" ELSE "checkcount")
    /\ unset' = [unset EXCEPT ![Slot(t)] =
                   @ \/ (v > skip[Slot(t)] /\ skip[Slot(t)] < EnvSkip[Slot(t)])]
    /\ UNCHANGED <<counters, stdio, last, local, entered, accepted, declined, submits>>

(* Mutant: the count is taken before it is compared. *)
CheckCountFirst(t) ==
  LET s    == Slot(t)
      full == dumped[s] + 1 >= max[s]
  IN /\ Goto(t, "checkcount", IF full THEN "line" ELSE "loadcount")
     /\ reg'      = [reg EXCEPT ![t] = dumped[s]]
     /\ accepted' = [accepted EXCEPT ![s] = IF full THEN @ ELSE @ + 1]
     /\ declined' = [declined EXCEPT ![s] = @ \/ full]
     /\ UNCHANGED <<counters, stdio, last, unit, seq, entered, unset, submits>>

CheckCount(t) ==
  LET s    == Slot(t)
      full == dumped[s] >= max[s]
  IN /\ Goto(t, "checkcount", IF full THEN "line" ELSE "loadcount")
     /\ reg'      = [reg EXCEPT ![t] = dumped[s]]
     /\ accepted' = [accepted EXCEPT ![s] = IF full THEN @ ELSE @ + 1]
     /\ declined' = [declined EXCEPT ![s] = @ \/ full]
     /\ UNCHANGED <<counters, stdio, last, unit, seq, entered, unset, submits>>

(* The increment of count: the value loaded for the guard may be kept or read again. *)
LoadCount(t) ==
  /\ Goto(t, "loadcount", "storecount")
  /\ \E v \in {reg[t], dumped[Slot(t)]} : reg' = [reg EXCEPT ![t] = v]
  /\ UNCHANGED <<counters, stdio, last, unit, seq, history, submits>>

(* Mutant: the count goes down. *)
StoreCountDown(t) ==
  /\ Goto(t, "storecount", "header")
  /\ dumped' = [dumped EXCEPT ![Slot(t)] = reg[t] - 1]
  /\ UNCHANGED <<cntSubmit, seen, max, skip, stdio, last, local, history, submits>>

StoreCount(t) ==
  /\ Goto(t, "storecount", "header")
  /\ dumped' = [dumped EXCEPT ![Slot(t)] = reg[t] + 1]
  /\ UNCHANGED <<cntSubmit, seen, max, skip, stdio, last, local, history, submits>>

-----------------------------------------------------------------------------
(* The dump is built on the stack, its header with the submit counter as   *)
(* it is now, and written under flockfile.                                 *)

BuildHeader(t) ==
  /\ Goto(t, "header", "lock")
  /\ seq' = [seq EXCEPT ![t] = cntSubmit]
  /\ UNCHANGED <<counters, stdio, last, reg, unit, history, submits>>

Flockfile(t) ==
  /\ stdio = NoThread
  /\ Goto(t, "lock", "writestart")
  /\ stdio' = t
  /\ UNCHANGED <<counters, last, local, history, submits>>

WriteStart(t) ==
  /\ Goto(t, "writestart", "writeend")
  /\ last' = [thread |-> t, piece |-> "start"]
  /\ UNCHANGED <<counters, stdio, local, history, submits>>

WriteEnd(t) ==
  /\ Goto(t, "writeend", "unlock")
  /\ last' = [thread |-> t,
              piece  |-> IF EndFits(RegcmdLen[unit[t]]) THEN "end" ELSE "cut"]
  /\ UNCHANGED <<counters, stdio, local, history, submits>>

(* Mutant: the stream is left locked. *)
KeepLocked(t) ==
  /\ Goto(t, "unlock", "line")
  /\ UNCHANGED <<counters, stdio, last, local, history, submits>>

Funlockfile(t) ==
  /\ Goto(t, "unlock", "line")
  /\ stdio' = NoThread
  /\ UNCHANGED <<counters, last, local, history, submits>>

(* The compact SUBMIT line, numbered by _cnt_submit read once more. *)
SubmitLine(t) ==
  /\ Goto(t, "line", "idle")
  /\ Emit(t, "line")
  /\ UNCHANGED <<counters, stdio, local, history, submits>>

-----------------------------------------------------------------------------
InitWindow(t)  == CheckMax(t) \/ SetMax(t) \/ SetSkip(t) \/ ClampWindow(t) \/ PrintWindow(t)
PassWindow(t)  == LoadSeen(t) \/ StoreSeen(t) \/ CheckSkip(t) \/ CheckCount(t)
                  \/ LoadCount(t) \/ StoreCount(t)
WriteDump(t)   == BuildHeader(t) \/ Flockfile(t) \/ WriteStart(t) \/ WriteEnd(t) \/ Funlockfile(t)

(* What a thread does once its ioctl has returned from the driver. *)
Handle(t) == CountSubmit(t) \/ InitWindow(t) \/ PassWindow(t) \/ WriteDump(t) \/ SubmitLine(t)

(* All submits of the run are done: the process may exit. *)
Finished ==
  /\ submits = MaxSubmits
  /\ \A t \in Threads : pc[t] = "idle"
  /\ UNCHANGED vars

Next == (\E t \in Threads : Submit(t) \/ Handle(t)) \/ Finished

(* The scheduler runs every thread that can run; whether a thread submits  *)
(* again is the traced program's business.                                 *)
Fairness == \A t \in Threads : WF_vars(Handle(t))

Spec     == Init /\ [][Next]_vars
FairSpec == Spec /\ Fairness

-----------------------------------------------------------------------------
(* Properties                                                              *)

(* Every variable keeps its type; no counter of the tracer goes negative.  *)
TypeOK ==
  /\ cntSubmit \in Nat
  /\ seen   \in [Slots -> Nat]
  /\ dumped \in [Slots -> Nat]
  /\ max \in [Slots -> Int] /\ skip \in [Slots -> Int]
  /\ stdio \in Threads \cup {NoThread}
  /\ last \in [thread : Threads \cup {NoThread}, piece : Pieces]
  /\ pc   \in [Threads -> Places]
  /\ reg  \in [Threads -> Nat]
  /\ unit \in [Threads -> Units]
  /\ seq  \in [Threads -> Nat]
  /\ entered  \in [Slots -> Nat]
  /\ accepted \in [Slots -> Nat]
  /\ unset    \in [Slots -> BOOLEAN]
  /\ declined \in [Slots -> BOOLEAN]
  /\ submits \in Nat

(* A dump is never split by another thread's output, and one of at most    *)
(* 256 registers reaches its end marker (the comment over                  *)
(* _dump_full_regcmd: one START header, up to 256 lines, one END marker).  *)
DumpIntact ==
  [][ last.piece = "start" =>
        /\ last'.thread = last.thread
        /\ RegcmdLen[unit[last.thread]] <= 256 => last'.piece = "end" ]_last

(* Lost increments only ever widen the window: a submit is turned away as  *)
(* "dumped enough" only when NPU_HOOK_DUMP_* dumps have really been let in.*)
WindowFilled ==
  \A s \in Slots : declined[s] => accepted[s] >= ClampNeg(EnvMax[s])

(* Once skip is set no dump is let in before SKIP buffers have been seen.  *)
SkipRespected ==
  \A s \in Slots : accepted[s] > 0 /\ ~unset[s] => entered[s] > ClampNeg(EnvSkip[s])

(* Every submit returns to the traced program: nobody keeps the stream.    *)
SubmitReturns == \A t \in Threads : pc[t] # "idle" ~> pc[t] = "idle"

(* What the comment over _dump_full_regcmd promises of the window, "DUMPED *)
(* < MAX", and the tracer's README of the variable, "how many CNA regcmd   *)
(* buffers to dump".  Two threads that load count before either stores it  *)
(* exceed it.                                                              *)
DumpsWithinMax ==
  \A s \in Slots : accepted[s] <= ClampNeg(EnvMax[s])

-----------------------------------------------------------------------------
(* Inductive strengthenings of the safety properties                       *)

(* From its own store of max on, a thread finds max as the environment has *)
(* it: another thread can only store the same value again.                 *)
PastMax == {"setskip", "clamp", "window", "loadseen", "storeseen", "checkskip",
            "checkcount"}
BoundsInv ==
  /\ \A s \in Slots : EnvMax[s] >= 0 => max[s] \in {-1, EnvMax[s]}
  /\ \A t \in Threads : pc[t] \in PastMax /\ EnvMax[Slot(t)] >= 0
                          => max[Slot(t)] = EnvMax[Slot(t)]

(* seen lags behind the submits that incremented it, in memory and in the  *)
(* register of every thread between load and test.                         *)
SeenInv ==
  /\ \A s \in Slots : seen[s] <= entered[s]
  /\ \A t \in Threads :
       /\ pc[t] = "storeseen" => reg[t] <= entered[Slot(t)]
       /\ pc[t] = "checkskip" => /\ reg[t] <= entered[Slot(t)]
                                 /\ reg[t] >= 1 /\ seen[Slot(t)] >= 1
       /\ pc[t] = "checkcount" /\ ~unset[Slot(t)]
            => entered[Slot(t)] > ClampNeg(EnvSkip[Slot(t)])
  /\ SkipRespected

(* The threads that passed the max test and have not stored count yet.     *)
Bumping(s) == {t \in Threads : pc[t] \in {"loadcount", "storecount"} /\ Slot(t) = s}

(* count, in memory or loaded, leaves room for every increment under way.  *)
CountInv ==
  /\ \A s \in Slots : dumped[s] + Cardinality(Bumping(s)) <= accepted[s]
  /\ \A t \in Threads : pc[t] \in {"loadcount", "storecount"} =>
       reg[t] + Cardinality(Bumping(Slot(t))) <= accepted[Slot(t)]
  /\ WindowFilled

(* The stream belongs to the thread inside flockfile .. funlockfile, and a *)
(* dump whose start is out has its writer about to write the rest.         *)
StreamInv ==
  /\ \A t \in Threads : pc[t] \in {"writestart", "writeend", "unlock"} <=> stdio = t
  /\ last.piece = "start" => /\ last.thread \in Threads
                             /\ pc[last.thread] = "writeend"

=============================================================================
