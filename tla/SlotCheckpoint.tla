--------------------------- MODULE SlotCheckpoint ---------------------------
(***************************************************************************)
(* Saving and restoring a slot of the server with its context checkpoints  *)
(* (serving/patches/10-server-context-checkpoint-sidecar.patch).  The state*)
(* of a slot goes into one file, its checkpoints into a second one beside  *)
(* it, the sidecar.                                                        *)
(*                                                                         *)
(* The server handles its tasks one after the other; a save is three steps *)
(* because opening or writing a file may fail, and the server may be       *)
(* killed, between two of them.  A conversation is named by a number, and a*)
(* state or a checkpoint by its conversation and turn.                     *)
(***************************************************************************)
EXTENDS Integers, Sequences

CONSTANTS
  Slots,         (* The slots of the server.                                 *)
  Files,         (* The state files.                                         *)
  MaxCkpts,      (* Checkpoints a slot keeps.                                *)
  LoadLimit,     (* Checkpoints a sidecar may hold to be loaded (1024).      *)
  MaxTurns,      (* Bound: prompts processed.                                *)
  MaxSlotSaves   (* Bound: saves.                                            *)

ASSUME SlotAssumption ==
  /\ MaxCkpts \in Nat \ {0} /\ LoadLimit \in Nat
  /\ MaxTurns \in Nat /\ MaxSlotSaves \in Nat

VARIABLES
  slot,          (* The state and the checkpoints of each slot.              *)
  stateFile,     (* {v}: the file is complete; {}: missing or cut.           *)
  sidecar,       (* {v}: the file exists, cut or not; {}: it does not.       *)
  step,          (* "idle", "down", or the step a save is at                 *)
  save,          (* The slot and the file of the save.                       *)
  turns, slotSaves,  (* Prompts and saves so far.                            *)
  given,         (* History: the checkpoint lists saved to each file.        *)
  saved          (* History: {v}: the last save was of v and met no failure. *)

slotFiles   == <<stateFile, sidecar>>
slotHistory == <<given, saved>>
slotVars    == <<slot, stateFile, sidecar, step, save, turns, slotSaves, given, saved>>

State    == [conv : Nat, turn : Nat]
Empty    == [conv |-> 0, turn |-> 0]
SlotType == [state : State, ckpts : Seq(State)]
NewSlot  == [state |-> Empty, ckpts |-> << >>]

SlotInit ==
  /\ slot = [s \in Slots |-> NewSlot]
  /\ stateFile = [f \in Files |-> {}] /\ sidecar = [f \in Files |-> {}]
  /\ step = "idle"
  /\ save \in [slot : Slots, file : Files]
  /\ turns = 0 /\ slotSaves = 0
  /\ given = [f \in Files |-> {}] /\ saved = [f \in Files |-> {}]

-----------------------------------------------------------------------------
(* The server around the patch.                                            *)

(* A prompt that continues the conversation keeps the checkpoints, of which*)
(* the oldest makes room; another one starts without.                      *)
ProcessPrompt(s) ==
  /\ step = "idle" /\ turns < MaxTurns
  /\ \E new \in {[conv |-> slot[s].state.conv, turn |-> turns + 1],
                 [conv |-> turns + 1, turn |-> turns + 1]} :
       LET old  == IF new.conv = slot[s].state.conv THEN slot[s].ckpts ELSE << >>
           room == IF Len(old) < MaxCkpts THEN old ELSE Tail(old)
       IN slot' = [slot EXCEPT ![s] = [state |-> new, ckpts |-> Append(room, new)]]
  /\ turns' = turns + 1
  /\ UNCHANGED <<slotFiles, step, save, slotSaves, slotHistory>>

(* Checkpoints may be dropped. *)
DropCheckpoints(s) ==
  /\ step = "idle" /\ slot[s].ckpts # << >>
  /\ slot' = [slot EXCEPT ![s].ckpts = << >>]
  /\ UNCHANGED <<slotFiles, step, save, turns, slotSaves, slotHistory>>

Killed ==
  /\ step # "down"
  /\ step' = "down"
  /\ slot' = [s \in Slots |-> NewSlot]
  /\ UNCHANGED <<slotFiles, save, turns, slotSaves, slotHistory>>

ServerStart ==
  /\ step = "down"
  /\ step' = "idle"
  /\ UNCHANGED <<slot, slotFiles, save, turns, slotSaves, slotHistory>>

-----------------------------------------------------------------------------
(* Saving.                                                                 *)

StateSaved(f)  == stateFile' = [stateFile EXCEPT ![f] = {[by |-> slotSaves + 1,
                                                          state |-> slot[save'.slot].state]}]
StateFailed(f) == \/ stateFile' = [stateFile EXCEPT ![f] = {}]
                  \/ UNCHANGED stateFile

(* Mutant: the sidecar is written whether or not the state was. *)
SaveStateOrNot(s, f) ==
  /\ step = "idle" /\ slotSaves < MaxSlotSaves
  /\ save' = [slot |-> s, file |-> f]
  /\ slotSaves' = slotSaves + 1
  /\ step' = "open"
  /\ StateSaved(f) \/ StateFailed(f)
  /\ given' = [given EXCEPT ![f] = @ \cup {slot[s].ckpts}]
  /\ saved' = [saved EXCEPT ![f] = {}]
  /\ UNCHANGED <<slot, sidecar, turns>>

(* llama_state_seq_save_file: if it writes nothing, the file is cut or as  *)
(* it was and the sidecar is not touched.                                  *)
SaveState(s, f) ==
  /\ step = "idle" /\ slotSaves < MaxSlotSaves
  /\ save' = [slot |-> s, file |-> f]
  /\ slotSaves' = slotSaves + 1
  /\ \/ /\ StateSaved(f)
        /\ step' = "open"
        /\ given' = [given EXCEPT ![f] = @ \cup {slot[s].ckpts}]
        /\ saved' = [saved EXCEPT ![f] = {}]
     \/ /\ StateFailed(f)
        /\ step' = "idle"
        /\ saved' = [saved EXCEPT ![f] = IF stateFile' = stateFile THEN @ ELSE {}]
        /\ UNCHANGED given
  /\ UNCHANGED <<slot, sidecar, turns>>

Ckpts == slot[save.slot].ckpts

(* Mutant: the sidecar is opened without truncation. *)
OpenSidecarKeep ==
  /\ step = "open"
  /\ \/ /\ step' = "write"
        /\ IF sidecar[save.file] = {}
           THEN sidecar' = [sidecar EXCEPT ![save.file] =
                              {[by |-> slotSaves, count |-> -1, recs |-> << >>]}]
           ELSE UNCHANGED sidecar
     \/ /\ step' = "idle" /\ UNCHANGED sidecar
  /\ UNCHANGED <<slot, stateFile, save, turns, slotSaves, slotHistory>>

(* Mutant: a slot without checkpoints writes no sidecar. *)
OpenSidecarIfAny ==
  /\ step = "open"
  /\ IF Ckpts = << >>
     THEN /\ step' = "idle"
          /\ saved' = [saved EXCEPT ![save.file] = {slot[save.slot]}]
          /\ UNCHANGED sidecar
     ELSE /\ step' = "write"
          /\ sidecar' = [sidecar EXCEPT ![save.file] =
                           {[by |-> slotSaves, count |-> -1, recs |-> << >>]}]
          /\ UNCHANGED saved
  /\ UNCHANGED <<slot, stateFile, save, turns, slotSaves, given>>

(* slot_checkpoints_save: opening the file truncates it; if it cannot be   *)
(* opened a warning is all that happens.                                   *)
OpenSidecar ==
  /\ step = "open"
  /\ \/ /\ step' = "write"
        /\ sidecar' = [sidecar EXCEPT ![save.file] =
                         {[by |-> slotSaves, count |-> -1, recs |-> << >>]}]
     \/ /\ step' = "idle" /\ UNCHANGED sidecar
  /\ UNCHANGED <<slot, stateFile, save, turns, slotSaves, slotHistory>>

(* Header and records are written, however many, or some of them if the    *)
(* disk is full; which of the two only decides between two log lines.      *)
WriteSidecar ==
  /\ step = "write"
  /\ step' = "idle"
  /\ \E n \in 0 .. Len(Ckpts), c \in sidecar[save.file] :
       /\ sidecar' = [sidecar EXCEPT ![save.file] =
                        {[by |-> c.by, count |-> Len(Ckpts),
                          recs |-> c.recs \o SubSeq(Ckpts, 1, n)]}]
       /\ saved' = [saved EXCEPT ![save.file] =
                      IF n = Len(Ckpts) THEN {slot[save.slot]} ELSE {}]
  /\ UNCHANGED <<slot, stateFile, save, turns, slotSaves, given>>

-----------------------------------------------------------------------------
(* Restoring.                                                              *)

(* Mutant: what could be read is taken. *)
LoadablePartly(f) == {c \in sidecar[f] : c.count <= LoadLimit}

(* slot_checkpoints_load accepts a file that has all the records its header*)
(* announces, and announces no more than LoadLimit.                        *)
Loadable(f) == {c \in sidecar[f] : Len(c.recs) = c.count /\ c.count <= LoadLimit}

(* llama_state_seq_load_file, and then the checkpoints if they load; if    *)
(* not, those of the slot stay.  If the state does not load the prompt is  *)
(* cleared and nothing else.                                               *)
Restore(s, f) ==
  /\ step = "idle"
  /\ \/ /\ stateFile[f] = {}
        /\ slot' = [slot EXCEPT ![s].state = Empty]
     \/ \E v \in stateFile[f] :
          \/ /\ Loadable(f) = {}
             /\ slot' = [slot EXCEPT ![s].state = v.state]
          \/ \E c \in Loadable(f) :
               slot' = [slot EXCEPT ![s] = [state |-> v.state, ckpts |-> c.recs]]
  /\ UNCHANGED <<slotFiles, step, save, turns, slotSaves, slotHistory>>

ServePrompts == \E s \in Slots : ProcessPrompt(s) \/ DropCheckpoints(s)
SaveSlot     == (\E s \in Slots, f \in Files : SaveState(s, f)) \/ OpenSidecar \/ WriteSidecar
SlotNext     == ServePrompts \/ SaveSlot \/ Killed \/ ServerStart
                \/ \E s \in Slots, f \in Files : Restore(s, f)

SlotSpec == SlotInit /\ [][SlotNext]_slotVars

-----------------------------------------------------------------------------
(* Properties.                                                             *)

StateVersion == [by : Nat, state : State]
Sidecar      == [by : Nat, count : Nat \cup {-1}, recs : Seq(State)]

(* A file has at most one content, and neither a slot nor a sidecar holds  *)
(* more checkpoints than a slot keeps.                                     *)
SlotTypeOK ==
  /\ slot \in [Slots -> SlotType]
  /\ step \in {"idle", "down", "open", "write"}
  /\ save \in [slot : Slots, file : Files]
  /\ turns \in Nat /\ slotSaves \in Nat
  /\ stateFile \in [Files -> SUBSET StateVersion]
  /\ sidecar \in [Files -> SUBSET Sidecar]
  /\ given \in [Files -> SUBSET Seq(State)]
  /\ saved \in [Files -> SUBSET SlotType]
  /\ \A f \in Files : /\ \A v, w \in stateFile[f] : v = w
                      /\ \A c, d \in sidecar[f] : c = d
                      /\ \A c \in sidecar[f] : Len(c.recs) <= MaxCkpts
  /\ \A s \in Slots : Len(slot[s].ckpts) <= MaxCkpts

(* A restore from a file whose last save met no failure gives the slot the *)
(* state of that save, and its checkpoints if they are no more than the    *)
(* load accepts, whatever was saved, failed or killed before and whichever *)
(* checkpoints the slot has.  A longer list is saved and logged as saved   *)
(* but never comes back: the slot then keeps the checkpoints it has, which *)
(* may be another conversation's.                                          *)
RestoresSaved ==
  [][\A s \in Slots, f \in Files :
       Restore(s, f) =>
         \A w \in saved[f] :
           /\ slot'[s].state = w.state
           /\ slot'[s].ckpts = IF Len(w.ckpts) <= LoadLimit
                               THEN w.ckpts ELSE slot[s].ckpts]_slotVars

(* No failure and no kill makes a slot take a part of a list: after any    *)
(* restore its checkpoints are its own of before, or a whole list some save*)
(* to this file was given (slot_checkpoints_load, all or nothing).         *)
NeverPartial ==
  [][\A s \in Slots, f \in Files :
       Restore(s, f) => slot'[s].ckpts \in given[f] \cup {slot[s].ckpts}]_slotVars

(* The sidecar may be older than the state beside it but is never newer: no*)
(* restore gives a slot checkpoints that were taken after its state. (The  *)
(* sidecar is only written after a state was, patch line 80.)              *)
SidecarNotNewer ==
  \A f \in Files : \A v \in stateFile[f], c \in sidecar[f] : c.by <= v.by

(* "A stale sidecar from an earlier save must not survive": when no save is*)
(* going on, a state file and its sidecar come from the same save (comment *)
(* at patch lines 78-79).                                                  *)
NoStaleSidecar ==
  step \in {"idle", "down"} =>
    \A f \in Files : \A v \in stateFile[f], c \in sidecar[f] : c.by = v.by
=============================================================================
