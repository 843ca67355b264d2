----------------------------- MODULE NpuProbes -----------------------------
(***************************************************************************)
(* tools/npu-probes: chain_shape_probe.py, m_curve_probe.py and            *)
(* n_curve_probe.py time int8 matmuls through npu_mm.so.  All three gate   *)
(* on a verification run first, then measure shape after shape: prepare    *)
(* weights (a handle of the library), run several times, free.             *)
(*                                                                         *)
(* The library is external: it may refuse weights or a run at any time.    *)
(* A measurement is the least time of its runs, None if one failed.        *)
(***************************************************************************)
EXTENDS Integers, FiniteSets

CONSTANTS
  Tries,         (* Runs of the gate's verifier                              *)
  Chains,        (* TS of chain_shape_probe.py                               *)
  Reps,          (* REPS, ITERS                                              *)
  Shapes,        (* Number of shapes measured                                *)
  Times          (* Times a run may take; 0 is none recorded                 *)

None == -1

VARIABLES
  prog,          (* The probe running                                        *)
  pc,
  tries,         (* Runs of the gate so far                                  *)
  left,          (* Shapes left to measure                                   *)
  phase,         (* Of n_curve_probe.py                                      *)
  bestN,         (* Its best time of phase 1, standing for the N it is for   *)
  want,          (* Handles this measurement needs                           *)
  hs,            (* Handles the probe holds                                  *)
  lib,           (* Handles live in the library                              *)
  rep, best,     (* Runs done, and the least time                            *)
  runs,          (* Results of the runs of this measurement (history)        *)
  row            (* The last measurement that was not None, with its runs    *)

probesVars == <<prog, pc, tries, left, phase, bestN, want, hs, lib, rep, best, runs, row>>

ProbesInit ==
  /\ prog = "none" /\ pc = "start" /\ tries = 0
  /\ left = Shapes /\ phase = 1 /\ bestN = None /\ want = 0
  /\ hs = {} /\ lib = {} /\ rep = 0 /\ best = None /\ runs = {}
  /\ row = [time |-> None, runs |-> {}]

Start(p) ==
  /\ pc = "start"
  /\ prog' = p /\ pc' = "gate"
  /\ UNCHANGED <<tries, left, phase, bestN, want, hs, lib, rep, best, runs, row>>

(* One run of the verifier finds that many cores clean. *)
Gate(clean) ==
  /\ pc = "gate" /\ tries < Tries
  /\ tries' = tries + 1
  /\ pc' = IF clean = 3 THEN "shape" ELSE IF tries' = Tries THEN "aborted" ELSE "gate"
  /\ UNCHANGED <<prog, left, phase, bestN, want, hs, lib, rep, best, runs, row>>

(* The next shape; one beyond the feature budget is skipped by the probes  *)
(* that know the budget.  m_curve keeps its weights while M grows.         *)
NextShape(fits, T) ==
  /\ pc = "shape" /\ left > 0
  /\ prog = "chain" \/ T = 1
  /\ left' = left - 1
  /\ IF ~fits /\ prog # "m" THEN pc' = "shape" /\ UNCHANGED want
     ELSE IF prog = "n" /\ phase = 2 /\ bestN = None THEN pc' = "crashed" /\ UNCHANGED want
     ELSE pc' = "prep" /\ want' = T
  /\ UNCHANGED <<prog, tries, phase, bestN, hs, lib, rep, best, runs, row>>

Prep ==
  /\ pc = "prep" /\ Cardinality(hs) < want
  /\ LET h == CHOOSE x \in 1 .. want : x \notin lib
     IN lib' = lib \cup {h} /\ hs' = hs \cup {h}
  /\ UNCHANGED <<prog, pc, tries, left, phase, bestN, want, rep, best, runs, row>>

(* Mutant: the handles prepared before the one that failed are kept. *)
PrepFailsKeeping ==
  /\ pc = "prep" /\ Cardinality(hs) < want
  /\ hs' = {} /\ pc' = "shape"
  /\ UNCHANGED <<prog, tries, left, phase, bestN, want, lib, rep, best, runs, row>>

PrepFails ==
  /\ pc = "prep" /\ Cardinality(hs) < want
  /\ lib' = lib \ hs /\ hs' = {} /\ pc' = "shape"
  /\ UNCHANGED <<prog, tries, left, phase, bestN, want, rep, best, runs, row>>

(* A new measurement on the handles held.  chain_shape first runs once     *)
(* without timing.                                                         *)
Measure ==
  /\ pc = "prep" /\ Cardinality(hs) = want
  /\ pc' = IF prog = "chain" THEN "warm" ELSE "run"
  /\ rep' = 0 /\ best' = None /\ runs' = {}
  /\ UNCHANGED <<prog, tries, left, phase, bestN, want, hs, lib, row>>

Warm(ok) ==
  /\ pc = "warm"
  /\ pc' = IF ok THEN "run" ELSE "end"
  /\ UNCHANGED <<prog, tries, left, phase, bestN, want, hs, lib, rep, best, runs, row>>

Better(t) == IF best = None \/ t < best THEN t ELSE best

(* Mutant: the best of the runs before the one that failed is kept.        *)
RunFailsKeeping ==
  /\ pc = "run" /\ rep < Reps
  /\ pc' = "end"
  /\ rep' = rep + 1 /\ runs' = runs \cup {<<rep, None>>}
  /\ UNCHANGED <<prog, tries, left, phase, bestN, want, hs, lib, best, row>>

RunFails ==
  /\ pc = "run" /\ rep < Reps
  /\ best' = None /\ pc' = "end"
  /\ rep' = rep + 1 /\ runs' = runs \cup {<<rep, None>>}
  /\ UNCHANGED <<prog, tries, left, phase, bestN, want, hs, lib, row>>

(* The driver's time counts when there is one; chain_shape takes its own.  *)
Run(t) ==
  /\ pc = "run" /\ rep < Reps
  /\ prog = "chain" => t > 0
  /\ rep' = rep + 1 /\ runs' = runs \cup {<<rep, t>>}
  /\ best' = IF t > 0 THEN Better(t) ELSE best
  /\ pc' = IF rep' = Reps THEN "end" ELSE "run"
  /\ UNCHANGED <<prog, tries, left, phase, bestN, want, hs, lib, row>>

(* A row is printed; m_curve goes on to the next M on the same weights     *)
(* unless this one failed, the others free theirs.                         *)
EndMeasure(again) ==
  /\ pc = "end"
  /\ row' = IF best = None THEN row ELSE [time |-> best, runs |-> runs]
  /\ bestN' = IF prog = "n" /\ phase = 1 /\ best # None THEN best ELSE bestN
  /\ IF prog = "m" /\ again /\ best # None
     THEN pc' = "prep" /\ UNCHANGED <<hs, lib>>
     ELSE pc' = "shape" /\ hs' = {} /\ lib' = lib \ hs
  /\ UNCHANGED <<prog, tries, left, phase, want, rep, best, runs>>

Phase2 ==
  /\ pc = "shape" /\ left = 0 /\ prog = "n" /\ phase = 1
  /\ phase' = 2 /\ left' = Shapes
  /\ UNCHANGED <<prog, pc, tries, bestN, want, hs, lib, rep, best, runs, row>>

Finish ==
  /\ pc = "shape" /\ left = 0 /\ (prog = "n" => phase = 2)
  /\ pc' = "done"
  /\ UNCHANGED <<prog, tries, left, phase, bestN, want, hs, lib, rep, best, runs, row>>

ProbesNext ==
  \/ \E p \in {"chain", "m", "n"} : Start(p)
  \/ \E c \in 0 .. 3 : Gate(c)
  \/ \E fits \in BOOLEAN, T \in Chains : NextShape(fits, T)
  \/ Prep \/ PrepFails \/ Measure
  \/ \E ok \in BOOLEAN : Warm(ok)
  \/ RunFails \/ \E t \in Times : Run(t)
  \/ \E again \in BOOLEAN : EndMeasure(again)
  \/ Phase2 \/ Finish

ProbesSpec == ProbesInit /\ [][ProbesNext]_probesVars

-----------------------------------------------------------------------------
(* Properties                                                              *)

(* The library never holds weights that the probe has lost, and none when  *)
(* a shape is finished or the probe has ended, whichever step failed.      *)
HandlesFreed ==
  /\ lib = hs
  /\ pc \in {"start", "gate", "shape", "aborted", "crashed", "done"} => lib = {}

(* A row is the least time of a full set of runs, none of which failed.    *)
MeasuredClean ==
  row.time # None =>
    /\ {r[1] : r \in row.runs} = 0 .. Reps - 1
    /\ \A r \in row.runs : r[2] # None /\ (r[2] > 0 => row.time <= r[2])
    /\ \E r \in row.runs : r[2] = row.time

=============================================================================
