------------------------ MODULE SlotCheckpoint_proofs ------------------------
(***************************************************************************)
(* Proofs about SlotCheckpoint, for any number of slots, files and         *)
(* checkpoints.                                                            *)
(***************************************************************************)
EXTENDS SlotCheckpoint, SequenceTheorems, TLAPS

(* A save that goes on has written the state; its slot is as it was.       *)
SaveInv ==
  step \in {"open", "write"} =>
    /\ Ckpts \in given[save.file]
    /\ saved[save.file] = {}
    /\ stateFile[save.file] # {}
    /\ \A v \in stateFile[save.file] :
         v.by = slotSaves /\ v.state = slot[save.slot].state

(* An opened sidecar is empty. *)
WriteInv ==
  step = "write" => \A c \in sidecar[save.file] : c.recs = << >>

(* Nothing on disk is of a save to come, and no sidecar newer than its state. *)
OrderInv ==
  \A f \in Files :
    /\ \A v \in stateFile[f] : v.by <= slotSaves
    /\ \A c \in sidecar[f] : c.by <= slotSaves
    /\ \A v \in stateFile[f], c \in sidecar[f] : c.by <= v.by

(* A sidecar that says it is complete holds a list that was saved. *)
GivenInv ==
  \A f \in Files : \A c \in sidecar[f] : Len(c.recs) = c.count => c.recs \in given[f]

(* A save without failure is on disk, with all its records. *)
SavedInv ==
  \A f \in Files : \A w \in saved[f] :
    /\ stateFile[f] # {} /\ sidecar[f] # {}
    /\ \A v \in stateFile[f] : v.state = w.state
    /\ \A c \in sidecar[f] : c.recs = w.ckpts /\ Len(c.recs) = c.count

SlotInv == SlotTypeOK /\ SaveInv /\ WriteInv /\ OrderInv /\ GivenInv /\ SavedInv

(* The records a write gets out are a list no longer than the slot's, and  *)
(* the slot's if it gets out all of them.                                  *)
LEMMA Written ==
  ASSUME NEW q \in Seq(State), NEW n \in 0 .. Len(q)
  PROVE  /\ << >> \o SubSeq(q, 1, n) \in Seq(State)
         /\ Len(<< >> \o SubSeq(q, 1, n)) = n
         /\ n = Len(q) => << >> \o SubSeq(q, 1, n) = q
<1>1. SubSeq(q, 1, n) \in Seq(State) /\ Len(SubSeq(q, 1, n)) = n
  BY SubSeqProperties, LenProperties
<1>2. << >> \o SubSeq(q, 1, n) = SubSeq(q, 1, n)
  BY <1>1, ConcatEmptySeq
<1>3. n = Len(q) => SubSeq(q, 1, n) = q
  BY SubSeqFull
<1> QED  BY <1>1, <1>2, <1>3

USE SlotAssumption

LEMMA InitInv == ASSUME SlotInit PROVE SlotInv
<1>1. SlotTypeOK
  BY EmptySeq, LenProperties DEF SlotInit, SlotTypeOK, SlotType, NewSlot, Empty, State, StateVersion, Sidecar
<1>2. SaveInv /\ WriteInv
  BY DEF SlotInit, SaveInv, WriteInv
<1>3. OrderInv /\ GivenInv /\ SavedInv
  BY DEF SlotInit, OrderInv, GivenInv, SavedInv
<1> QED  BY <1>1, <1>2, <1>3 DEF SlotInv

(* What happens while no save is going on, to the slots alone.             *)
LEMMA SlotsOnly ==
  ASSUME SlotInv, step \in {"idle", "down"},
         slot' \in [Slots -> SlotType], \A s \in Slots : Len(slot'[s].ckpts) <= MaxCkpts,
         turns' \in Nat, step' \in {"idle", "down"},
         UNCHANGED <<slotFiles, save, slotSaves, slotHistory>>
  PROVE  SlotInv'
<1> USE DEF slotFiles, slotHistory
<1>1. SlotTypeOK'
  BY DEF SlotInv, SlotTypeOK
<1>2. SaveInv' /\ WriteInv'
  BY DEF SaveInv, WriteInv
<1>3. OrderInv' /\ GivenInv' /\ SavedInv'
  BY DEF SlotInv, OrderInv, GivenInv, SavedInv
<1> QED  BY <1>1, <1>2, <1>3 DEF SlotInv

LEMMA PromptInv ==
  ASSUME SlotInv, NEW s \in Slots, ProcessPrompt(s)
  PROVE  SlotInv'
<1> PICK new \in {[conv |-> slot[s].state.conv, turn |-> turns + 1],
                  [conv |-> turns + 1, turn |-> turns + 1]} :
      LET old  == IF new.conv = slot[s].state.conv THEN slot[s].ckpts ELSE << >>
          room == IF Len(old) < MaxCkpts THEN old ELSE Tail(old)
      IN slot' = [slot EXCEPT ![s] = [state |-> new, ckpts |-> Append(room, new)]]
  BY DEF ProcessPrompt
<1> DEFINE old  == IF new.conv = slot[s].state.conv THEN slot[s].ckpts ELSE << >>
           room == IF Len(old) < MaxCkpts THEN old ELSE Tail(old)
<1>1. new \in State
  BY DEF SlotInv, SlotTypeOK, SlotType, State
<1>2. old \in Seq(State) /\ Len(old) <= MaxCkpts
  BY EmptySeq DEF SlotInv, SlotTypeOK, SlotType
<1>3. Len(old) \in Nat
  BY <1>2, LenProperties
<1>4. room \in Seq(State) /\ Len(room) < MaxCkpts /\ Len(room) \in Nat
  <2>1. CASE Len(old) < MaxCkpts
    BY <2>1, <1>2, <1>3
  <2>2. CASE ~(Len(old) < MaxCkpts)
    <3>1. old # << >>
      BY <2>2, EmptySeq
    <3> QED  BY <2>2, <3>1, <1>2, <1>3, HeadTailProperties
  <2> QED  BY <2>1, <2>2
<1>5. Append(room, new) \in Seq(State) /\ Len(Append(room, new)) <= MaxCkpts
  <2> HIDE DEF room
  <2> QED  BY <1>1, <1>4, AppendProperties
<1>6. slot' = [slot EXCEPT ![s] = [state |-> new, ckpts |-> Append(room, new)]]
  OBVIOUS
<1>7. slot' \in [Slots -> SlotType] /\ \A t \in Slots : Len(slot'[t].ckpts) <= MaxCkpts
  <2> HIDE DEF room
  <2> QED  BY <1>1, <1>5, <1>6 DEF SlotInv, SlotTypeOK, SlotType
<1> QED  BY <1>7, SlotsOnly DEF ProcessPrompt, SlotInv, SlotTypeOK

LEMMA DropInv ==
  ASSUME SlotInv, NEW s \in Slots, DropCheckpoints(s)
  PROVE  SlotInv'
<1>1. PICK none : none = << >>
  OBVIOUS
<1>2. none \in Seq(State) /\ Len(none) = 0
  BY <1>1, EmptySeq
<1>3. slot' = [slot EXCEPT ![s].ckpts = none]
  BY <1>1 DEF DropCheckpoints
<1>4. slot' \in [Slots -> SlotType] /\ \A t \in Slots : Len(slot'[t].ckpts) <= MaxCkpts
  <2>1. slot \in [Slots -> SlotType] /\ \A t \in Slots : Len(slot[t].ckpts) <= MaxCkpts
    BY DEF SlotInv, SlotTypeOK
  <2>2. slot' \in [Slots -> SlotType]
    BY <2>1, <1>2, <1>3 DEF SlotType
  <2>3. slot'[s].ckpts = none
    BY <2>1, <1>3 DEF SlotType
  <2>4. \A t \in Slots : t # s => slot'[t] = slot[t]
    BY <2>1, <1>3
  <2> QED  BY <2>1, <2>2, <2>3, <2>4, <1>2
<1> QED  BY <1>4, SlotsOnly DEF DropCheckpoints, SlotInv, SlotTypeOK

LEMMA StartInv == ASSUME SlotInv, ServerStart PROVE SlotInv'
BY SlotsOnly DEF ServerStart, SlotInv, SlotTypeOK

(* The server may be killed in the middle of a save: the files stay as the *)
(* save left them.                                                         *)
LEMMA KilledInv == ASSUME SlotInv, Killed PROVE SlotInv'
<1> USE DEF Killed, slotFiles, slotHistory
<1>1. SlotTypeOK'
  BY EmptySeq DEF SlotInv, SlotTypeOK, SlotType, NewSlot, Empty, State
<1>2. SaveInv' /\ WriteInv'
  BY DEF SaveInv, WriteInv
<1>3. OrderInv' /\ GivenInv' /\ SavedInv'
  BY DEF SlotInv, OrderInv, GivenInv, SavedInv
<1> QED  BY <1>1, <1>2, <1>3 DEF SlotInv

LEMMA RestoreInv ==
  ASSUME SlotInv, NEW s \in Slots, NEW f \in Files, Restore(s, f)
  PROVE  SlotInv'
<1>1. slot' \in [Slots -> SlotType] /\ \A t \in Slots : Len(slot'[t].ckpts) <= MaxCkpts
  <2> USE DEF SlotInv, SlotTypeOK, SlotType
  <2>1. CASE slot' = [slot EXCEPT ![s].state = Empty]
    <3>1. Empty \in State
      BY DEF Empty, State
    <3>2. slot' \in [Slots -> SlotType]
      BY <2>1, <3>1
    <3>3. slot'[s].ckpts = slot[s].ckpts
      BY <2>1
    <3> QED  BY <2>1, <3>2, <3>3
  <2>2. CASE \E v \in stateFile[f] : slot' = [slot EXCEPT ![s].state = v.state]
    BY <2>2 DEF StateVersion
  <2>3. CASE \E v \in stateFile[f], c \in Loadable(f) :
               slot' = [slot EXCEPT ![s] = [state |-> v.state, ckpts |-> c.recs]]
    BY <2>3 DEF StateVersion, Sidecar, Loadable
  <2> QED  BY <2>1, <2>2, <2>3 DEF Restore
<1> QED  BY <1>1, SlotsOnly DEF Restore, SlotInv, SlotTypeOK

LEMMA SaveStateInv ==
  ASSUME SlotInv, NEW s \in Slots, NEW f \in Files, SaveState(s, f)
  PROVE  SlotInv'
<1> DEFINE new == [by |-> slotSaves + 1, state |-> slot[s].state]
<1>1. save' = [slot |-> s, file |-> f] /\ slotSaves' = slotSaves + 1 /\ slotSaves \in Nat
  BY DEF SaveState, SlotInv, SlotTypeOK
<1>2. UNCHANGED <<slot, sidecar, turns>>
  BY DEF SaveState
<1>3. CASE /\ stateFile' = [stateFile EXCEPT ![f] = {new}]
           /\ step' = "open"
           /\ given' = [given EXCEPT ![f] = @ \cup {slot[s].ckpts}]
           /\ saved' = [saved EXCEPT ![f] = {}]
  <2>1. SlotTypeOK'
    BY <1>1, <1>2, <1>3 DEF SlotInv, SlotTypeOK, StateVersion, SlotType
  <2>2. SaveInv' /\ WriteInv'
    <3>1. /\ stateFile'[f] = {new} /\ saved'[f] = {}
          /\ given'[f] = given[f] \cup {slot[s].ckpts}
      BY <1>3 DEF SlotInv, SlotTypeOK
    <3>2. save'.slot = s /\ save'.file = f /\ slot' = slot
      BY <1>1, <1>2
    <3>3. Ckpts' = slot[s].ckpts
      BY <3>2 DEF Ckpts
    <3>4. Ckpts' \in given'[save'.file] /\ saved'[save'.file] = {}
      BY <3>1, <3>2, <3>3
    <3>5. stateFile'[save'.file] = {[by |-> slotSaves', state |-> slot'[save'.slot].state]}
      BY <1>1, <3>1, <3>2
    <3>6. SaveInv'
      BY <3>4, <3>5 DEF SaveInv
    <3> QED  BY <1>3, <3>6 DEF WriteInv
  <2>3. OrderInv'
    BY <1>1, <1>2, <1>3 DEF SlotInv, SlotTypeOK, OrderInv, StateVersion, Sidecar
  <2>4. GivenInv' /\ SavedInv'
    BY <1>1, <1>2, <1>3 DEF SlotInv, SlotTypeOK, GivenInv, SavedInv
  <2> QED  BY <2>1, <2>2, <2>3, <2>4 DEF SlotInv
<1>4. CASE /\ StateFailed(f)
           /\ step' = "idle"
           /\ saved' = [saved EXCEPT ![f] = IF stateFile' = stateFile THEN @ ELSE {}]
           /\ UNCHANGED given
  <2>1. SlotTypeOK'
    BY <1>1, <1>2, <1>4 DEF SlotInv, SlotTypeOK, StateFailed
  <2>2. SaveInv' /\ WriteInv'
    BY <1>4 DEF SaveInv, WriteInv
  <2>3. OrderInv'
    BY <1>1, <1>2, <1>4 DEF SlotInv, SlotTypeOK, OrderInv, StateFailed, StateVersion, Sidecar
  <2>4. GivenInv'
    BY <1>2, <1>4 DEF SlotInv, GivenInv
  <2>5. SavedInv'
    BY <1>2, <1>4 DEF SlotInv, SlotTypeOK, SavedInv, StateFailed
  <2> QED  BY <2>1, <2>2, <2>3, <2>4, <2>5 DEF SlotInv
<1> QED  BY <1>1, <1>3, <1>4 DEF SaveState, StateSaved

LEMMA OpenInv == ASSUME SlotInv, OpenSidecar PROVE SlotInv'
<1> DEFINE f     == save.file
           blank == [by |-> slotSaves, count |-> -1, recs |-> << >>]
<1>1. f \in Files /\ save.slot \in Slots /\ slotSaves \in Nat
  BY DEF SlotInv, SlotTypeOK
<1>2. UNCHANGED <<slot, stateFile, save, turns, slotSaves, slotHistory>> /\ step = "open"
  BY DEF OpenSidecar
<1>3. /\ Ckpts \in given[f] /\ saved[f] = {} /\ stateFile[f] # {}
      /\ \A v \in stateFile[f] : v.by = slotSaves /\ v.state = slot[save.slot].state
  BY <1>2 DEF SlotInv, SaveInv
<1>4. CASE step' = "write" /\ sidecar' = [sidecar EXCEPT ![f] = {blank}]
  <2>1. blank \in Sidecar /\ Len(blank.recs) = 0
    BY <1>1, EmptySeq DEF Sidecar
  <2>2. SlotTypeOK'
    BY <1>1, <1>2, <1>4, <2>1 DEF SlotInv, SlotTypeOK, slotHistory
  <2>3. SaveInv' /\ WriteInv'
    BY <1>1, <1>2, <1>3, <1>4 DEF SlotInv, SlotTypeOK, SaveInv, WriteInv, Ckpts, slotHistory
  <2>4. OrderInv'
    BY <1>1, <1>2, <1>3, <1>4 DEF SlotInv, SlotTypeOK, OrderInv
  <2>5. GivenInv' /\ SavedInv'
    BY <1>1, <1>2, <1>3, <1>4, <2>1 DEF SlotInv, SlotTypeOK, GivenInv, SavedInv, slotHistory
  <2> QED  BY <2>2, <2>3, <2>4, <2>5 DEF SlotInv
<1>5. CASE step' = "idle" /\ UNCHANGED sidecar
  <2>1. SlotTypeOK' /\ SaveInv' /\ WriteInv'
    BY <1>2, <1>5 DEF SlotInv, SlotTypeOK, SaveInv, WriteInv, slotHistory
  <2>2. OrderInv' /\ GivenInv' /\ SavedInv'
    BY <1>2, <1>5 DEF SlotInv, OrderInv, GivenInv, SavedInv, slotHistory
  <2> QED  BY <2>1, <2>2 DEF SlotInv
<1> QED  BY <1>4, <1>5 DEF OpenSidecar

LEMMA WriteSidecarInv == ASSUME SlotInv, WriteSidecar PROVE SlotInv'
<1> DEFINE f == save.file
<1>1. f \in Files /\ save.slot \in Slots /\ slotSaves \in Nat /\ Ckpts \in Seq(State)
      /\ Len(Ckpts) <= MaxCkpts
  BY DEF SlotInv, SlotTypeOK, SlotType, Ckpts
<1>2. UNCHANGED <<slot, stateFile, save, turns, slotSaves, given>> /\ step = "write" /\ step' = "idle"
  BY DEF WriteSidecar
<1>3. /\ Ckpts \in given[f] /\ stateFile[f] # {}
      /\ \A v \in stateFile[f] : v.by = slotSaves /\ v.state = slot[save.slot].state
  BY <1>2 DEF SlotInv, SaveInv
<1>4. PICK n \in 0 .. Len(Ckpts), c \in sidecar[f] :
        /\ sidecar' = [sidecar EXCEPT ![f] =
                         {[by |-> c.by, count |-> Len(Ckpts),
                           recs |-> c.recs \o SubSeq(Ckpts, 1, n)]}]
        /\ saved' = [saved EXCEPT ![f] =
                       IF n = Len(Ckpts) THEN {slot[save.slot]} ELSE {}]
  BY DEF WriteSidecar
<1> DEFINE recs == << >> \o SubSeq(Ckpts, 1, n)
           done == [by |-> c.by, count |-> Len(Ckpts), recs |-> recs]
<1>5. /\ c \in Sidecar /\ c.recs = << >> /\ c.by <= slotSaves
      /\ \A v \in stateFile[f] : c.by <= v.by
  BY <1>1, <1>2, <1>4 DEF SlotInv, SlotTypeOK, WriteInv, OrderInv
<1>6. Len(Ckpts) \in Nat
  BY <1>1, LenProperties
<1>7. recs \in Seq(State) /\ Len(recs) = n /\ (n = Len(Ckpts) => recs = Ckpts)
  BY <1>1, <1>4, Written
<1> HIDE DEF recs
<1>8. c.recs \o SubSeq(Ckpts, 1, n) = recs
  BY <1>5 DEF recs
<1>9. sidecar' = [sidecar EXCEPT ![f] = {done}] /\ done \in Sidecar
  BY <1>4, <1>5, <1>6, <1>7, <1>8 DEF Sidecar
<1>10. SlotTypeOK'
  <2>1. /\ sidecar' \in [Files -> SUBSET Sidecar]
        /\ \A g \in Files : g # f => sidecar'[g] = sidecar[g]
        /\ sidecar'[f] = {done}
    BY <1>1, <1>9 DEF SlotInv, SlotTypeOK
  <2>2. saved' \in [Files -> SUBSET SlotType]
    BY <1>1, <1>4 DEF SlotInv, SlotTypeOK
  <2>3. \A g \in Files : /\ \A d, e \in sidecar'[g] : d = e
                        /\ \A d \in sidecar'[g] : Len(d.recs) <= MaxCkpts
    <3>1. \A d \in {done} : Len(d.recs) <= MaxCkpts
      BY <1>1, <1>6, <1>7
    <3>2. \A g \in Files : g # f => /\ \A d, e \in sidecar[g] : d = e
                                   /\ \A d \in sidecar[g] : Len(d.recs) <= MaxCkpts
      BY DEF SlotInv, SlotTypeOK
    <3> QED  BY <2>1, <3>1, <3>2
  <2> QED  BY <2>1, <2>2, <2>3, <1>2 DEF SlotInv, SlotTypeOK
<1>11. SaveInv' /\ WriteInv'
  BY <1>2 DEF SaveInv, WriteInv
<1>12. OrderInv'
  BY <1>1, <1>2, <1>5, <1>9 DEF SlotInv, SlotTypeOK, OrderInv
<1>13. GivenInv'
  BY <1>1, <1>2, <1>3, <1>7, <1>9 DEF SlotInv, SlotTypeOK, GivenInv
<1>14. SavedInv'
  <2> SUFFICES ASSUME NEW g \in Files, NEW w \in saved'[g]
               PROVE  /\ stateFile'[g] # {} /\ sidecar'[g] # {}
                      /\ \A v \in stateFile'[g] : v.state = w.state
                      /\ \A d \in sidecar'[g] :
                           d.recs = w.ckpts /\ Len(d.recs) = d.count
    BY DEF SavedInv
  <2>1. CASE g = f
    <3>1. w = slot[save.slot] /\ n = Len(Ckpts)
      BY <2>1, <1>1, <1>4 DEF SlotInv, SlotTypeOK
    <3>2. sidecar'[g] = {done}
      BY <2>1, <1>1, <1>9 DEF SlotInv, SlotTypeOK
    <3> QED  BY <2>1, <3>1, <3>2, <1>2, <1>3, <1>7 DEF Ckpts
  <2>2. CASE g # f
    <3>1. w \in saved[g] /\ sidecar'[g] = sidecar[g]
      BY <2>2, <1>1, <1>4 DEF SlotInv, SlotTypeOK
    <3> QED  BY <3>1, <1>2 DEF SlotInv, SavedInv
  <2> QED  BY <2>1, <2>2
<1> QED  BY <1>10, <1>11, <1>12, <1>13, <1>14 DEF SlotInv

LEMMA StepInv == ASSUME SlotInv, [SlotNext]_slotVars PROVE SlotInv'
<1>1. ASSUME UNCHANGED slotVars PROVE SlotInv'
  BY <1>1 DEF slotVars, SlotInv, SlotTypeOK, SaveInv, WriteInv, OrderInv, GivenInv, SavedInv, Ckpts
<1>2. ASSUME SlotNext PROVE SlotInv'
  BY <1>2, PromptInv, DropInv, SaveStateInv, OpenInv, WriteSidecarInv, RestoreInv, KilledInv,
     StartInv DEF SlotNext, ServePrompts, SaveSlot
<1> QED  BY <1>1, <1>2

(* The invariant that carries the others.                                  *)
THEOREM Invariant == SlotSpec => []SlotInv
BY InitInv, StepInv, PTL DEF SlotSpec

(* The variables have their types; no slot or sidecar outgrows its bound.  *)
THEOREM Typing == SlotSpec => []SlotTypeOK
<1>1. SlotInv => SlotTypeOK
  BY DEF SlotInv
<1> QED  BY <1>1, Invariant, PTL

(* A sidecar is never newer than the state beside it.                      *)
THEOREM SidecarIsNotNewer == SlotSpec => []SidecarNotNewer
<1>1. SlotInv => SidecarNotNewer
  BY DEF SlotInv, OrderInv, SidecarNotNewer
<1> QED  BY <1>1, Invariant, PTL

(* What a save without failure stored is what a restore brings back, but   *)
(* for a list of checkpoints longer than the load accepts.                 *)
THEOREM RestoreBringsBack == SlotSpec => RestoresSaved
<1> DEFINE Kept(s, w) == /\ slot'[s].state = w.state
                         /\ slot'[s].ckpts = IF Len(w.ckpts) <= LoadLimit
                                             THEN w.ckpts ELSE slot[s].ckpts
<1>1. ASSUME SlotInv, NEW s \in Slots, NEW f \in Files, Restore(s, f), NEW w \in saved[f]
      PROVE  Kept(s, w)
  <2>1. /\ stateFile[f] # {} /\ sidecar[f] # {}
        /\ \A v \in stateFile[f] : v.state = w.state
        /\ \A c \in sidecar[f] : c.recs = w.ckpts /\ Len(c.recs) = c.count
    BY <1>1 DEF SlotInv, SavedInv
  <2>2. slot \in [Slots -> SlotType]
    BY <1>1 DEF SlotInv, SlotTypeOK
  <2>3. CASE Len(w.ckpts) <= LoadLimit
    <3>1. Loadable(f) # {} /\ \A c \in Loadable(f) : c.recs = w.ckpts
      BY <2>1, <2>3 DEF Loadable
    <3>2. slot'[s] = [state |-> w.state, ckpts |-> w.ckpts]
      BY <1>1, <2>1, <2>2, <3>1 DEF Restore
    <3> QED  BY <2>3, <3>2
  <2>4. CASE ~(Len(w.ckpts) <= LoadLimit)
    <3>1. Loadable(f) = {}
      BY <2>1, <2>4 DEF Loadable
    <3>2. slot' = [slot EXCEPT ![s].state = w.state]
      BY <1>1, <2>1, <3>1 DEF Restore
    <3>3. slot'[s].state = w.state /\ slot'[s].ckpts = slot[s].ckpts
      BY <2>2, <3>2 DEF SlotType
    <3> QED  BY <2>4, <3>3
  <2> QED  BY <2>3, <2>4
<1>2. SlotInv => [\A s \in Slots, f \in Files :
                   Restore(s, f) => \A w \in saved[f] : Kept(s, w)]_slotVars
  BY <1>1
<1> QED  BY <1>2, Invariant, PTL DEF RestoresSaved

(* A restore takes a whole list of checkpoints or none.                    *)
THEOREM NeverRestoresAPart == SlotSpec => NeverPartial
<1>1. ASSUME SlotInv, NEW s \in Slots, NEW f \in Files, Restore(s, f)
      PROVE  slot'[s].ckpts \in given[f] \cup {slot[s].ckpts}
  <2> USE DEF SlotInv, SlotTypeOK
  <2>1. CASE slot' = [slot EXCEPT ![s].state = Empty]
    BY <1>1, <2>1 DEF SlotType
  <2>2. CASE \E v \in stateFile[f] : slot' = [slot EXCEPT ![s].state = v.state]
    BY <1>1, <2>2 DEF SlotType
  <2>3. CASE \E v \in stateFile[f], c \in Loadable(f) :
               slot' = [slot EXCEPT ![s] = [state |-> v.state, ckpts |-> c.recs]]
    BY <1>1, <2>3 DEF Loadable, GivenInv
  <2> QED  BY <1>1, <2>1, <2>2, <2>3 DEF Restore
<1>2. SlotInv => [\A s \in Slots, f \in Files :
                   Restore(s, f) => slot'[s].ckpts \in given[f] \cup {slot[s].ckpts}]_slotVars
  BY <1>1
<1> QED  BY <1>2, Invariant, PTL DEF NeverPartial
==============================================================================
