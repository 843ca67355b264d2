------------------------------ MODULE Cascade ------------------------------
(***************************************************************************)
(* reference/perception/cascade.py: readers are tried cheapest first, and  *)
(* the first one confident enough answers.  When none is, the last reader  *)
(* runs once more and its second answer is given.                          *)
(*                                                                         *)
(* A reader's answer is "none", "low" or "high" (at its threshold), and it *)
(* may raise.                                                              *)
(***************************************************************************)
EXTENDS Integers, Sequences

CONSTANTS
  NReaders,      (* Number of readers                                        *)
  Events         (* Bound: events read                                       *)

(* The fall-through indexes the last reader. *)
ASSUME NReadersAssumption == NReaders \in Nat \ {0}

VARIABLES
  at,            (* The reader that runs next; 0 between events              *)
  resolvedBy,    (* Events by reader, and under the two other names          *)
  seen,          (* Events begun                                             *)
  ran,           (* Events for which the last reader ran (history)           *)
  raised         (* Events a reader raised on, and whether the last had run  *)

cascadeVars == <<at, resolvedBy, seen, ran, raised>>

Truth      == NReaders + 1
Unresolved == NReaders + 2
Resolved(x) == resolvedBy' = [resolvedBy EXCEPT ![x] = @ + 1]

CascadeInit ==
  /\ at = 0 /\ seen = 0 /\ ran = 0
  /\ resolvedBy = [x \in 1 .. Unresolved |-> 0]
  /\ raised = [early |-> 0, late |-> 0]

GroundTruth ==
  /\ at = 0 /\ seen < Events
  /\ seen' = seen + 1
  /\ Resolved(Truth)
  /\ UNCHANGED <<at, ran, raised>>

Begin ==
  /\ at = 0 /\ seen < Events
  /\ seen' = seen + 1 /\ at' = 1
  /\ UNCHANGED <<resolvedBy, ran, raised>>

(* Reader at answers; after the last one the fall-through runs it again.   *)
Ask(out) ==
  /\ at \in 1 .. NReaders
  /\ ran' = IF at = NReaders THEN ran + 1 ELSE ran
  /\ IF out = "high" THEN Resolved(at) /\ at' = 0
     ELSE at' = at + 1 /\ UNCHANGED resolvedBy
  /\ UNCHANGED <<seen, raised>>

(* Mutant: a second answer that is confident counts for the reader too.    *)
FallThroughCredited ==
  /\ at = NReaders + 1
  /\ resolvedBy' = [resolvedBy EXCEPT ![Unresolved] = @ + 1, ![NReaders] = @ + 1]
  /\ at' = 0
  /\ UNCHANGED <<seen, ran, raised>>

FallThrough ==
  /\ at = NReaders + 1
  /\ Resolved(Unresolved)
  /\ at' = 0
  /\ UNCHANGED <<seen, ran, raised>>

Raise ==
  /\ at > 0
  /\ at' = 0
  /\ ran' = IF at = NReaders THEN ran + 1 ELSE ran
  /\ raised' = IF at < NReaders THEN [raised EXCEPT !.early = @ + 1]
               ELSE [raised EXCEPT !.late = @ + 1]
  /\ UNCHANGED <<resolvedBy, seen>>

CascadeNext ==
  \/ GroundTruth \/ Begin \/ FallThrough \/ Raise
  \/ \E out \in {"none", "low", "high"} : Ask(out)

CascadeSpec == CascadeInit /\ [][CascadeNext]_cascadeVars

-----------------------------------------------------------------------------
(* Properties                                                              *)

Counted[n \in 0 .. Unresolved] == IF n = 0 THEN 0 ELSE resolvedBy[n] + Counted[n - 1]

(* Between events: "reached" of line 92, the last reader's count and the   *)
(* unresolved, is the number of events that reader ran on, but for those   *)
(* it raised on; and every event is counted once or was raised.            *)
ReachedCounted ==
  at = 0 =>
    /\ resolvedBy[NReaders] + resolvedBy[Unresolved] + raised.late = ran
    /\ Counted[Unresolved] + raised.early + raised.late = seen

=============================================================================
