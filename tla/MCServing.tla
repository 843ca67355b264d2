----------------------------- MODULE MCServing ------------------------------
(* The components that serve a model and keep what it remembers: the patched *)
(* SSM scan, the server's slot files, the episodic store and the GPU         *)
(* products.  They share no state, so each runs in behaviours of its own     *)
(* (part), and the state spaces add up.                                      *)
EXTENDS SsmInplace, SlotCheckpoint, EpisodicStore, GpuOps

VARIABLE part                           (* The component that runs             *)

(* States of the SSM cache are numbers that record their history: sequence i *)
(* appends the digit i + 1 to the state it starts from, and a state that is  *)
(* scanned twice, or from a wrong row, shows it.                             *)
MCScan(i, s)   == (10 * s + i + 1) % 1000
MCState0(r, h) == r + 5
MCStates       == 0 .. 999

vars == <<part, ssmVars, slotVars, storeVars, gpuVars>>

Init ==
  /\ part \in {"ssm", "slots", "store", "gpu"}
  /\ SsmInit /\ SlotInit /\ StoreInit /\ GpuInit
  /\ part # "slots" => save.slot = CHOOSE s \in Slots : TRUE   (* or any other *)

SsmStep   == part = "ssm"   /\ SsmNext   /\ UNCHANGED <<part, slotVars, storeVars, gpuVars>>
SlotStep  == part = "slots" /\ SlotNext  /\ UNCHANGED <<part, ssmVars, storeVars, gpuVars>>
StoreStep == part = "store" /\ StoreNext /\ UNCHANGED <<part, ssmVars, slotVars, gpuVars>>

Gpu(A) == part = "gpu" /\ A /\ UNCHANGED <<part, ssmVars, slotVars, storeVars>>

Next == SsmStep \/ SlotStep \/ StoreStep \/ Gpu(GpuNext)

(* The fairness of GpuFairSpec. *)
Spec == Init /\ [][Next]_vars /\ WF_vars(Gpu(Proceed)) /\ WF_vars(Gpu(Serve))

=============================================================================
