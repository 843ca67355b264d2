------------------------------ MODULE MCOffline ------------------------------
(* The sequential programs beside the serving path: the W4A4 tools, the NPU *)
(* probes, and the reference scaffolds.  They share no state, so each runs  *)
(* in behaviours of its own (part), and the state spaces add up.            *)
EXTENDS MCW4A4Kit, W4A4Gptq, W4A4Calib, W4A4Fold, W4A4Bank, FlakyProbe,
        NpuProbes, RecurringIdentity, Cascade, CartridgeRuntime

VARIABLE part                           (* The program that runs               *)

(* What the theorems about the kits assume.                                 *)
ASSUME KitValues == KitAssumption /\ TilingsTold

(* Three linears in two shards; padding to 3 does not fill tiles of 2.  The *)
(* third, which gets no kit, has a K of its own.                            *)
MCTensors == <<[shard |-> 1, N |-> 2, K |-> 8], [shard |-> 2, N |-> 3, K |-> 2],
               [shard |-> 1, N |-> 5, K |-> 4]>>

MCLinearOrder == <<"q_proj", "o_proj", "down_proj">>

w4a4Vars  == <<kitVars, bankVars, gptqVars, calibVars, foldVars>>
toolVars  == <<w4a4Vars, flakyVars, probesVars>>
scaffVars == <<identVars, cascadeVars, cartVars>>
vars      == <<part, toolVars, scaffVars>>

Init ==
  /\ part \in {"kit", "bank", "gptq", "calib", "fold", "flaky", "probes",
               "identity", "cascade", "cartridges"}
  /\ KitInit /\ BankInit /\ GptqInit /\ CalibInit /\ FoldInit
  /\ FlakyInit /\ ProbesInit
  /\ IdentInit /\ CascadeInit /\ CartInit

Tool     == UNCHANGED <<part, scaffVars>>
Scaffold == UNCHANGED <<part, toolVars>>

KitStep   == part = "kit"    /\ KitNext   /\ Tool /\ UNCHANGED <<bankVars, gptqVars, calibVars, foldVars, flakyVars, probesVars>>
BankStep  == part = "bank"   /\ BankNext  /\ Tool /\ UNCHANGED <<kitVars, gptqVars, calibVars, foldVars, flakyVars, probesVars>>
GptqStep  == part = "gptq"   /\ GptqNext  /\ Tool /\ UNCHANGED <<kitVars, bankVars, calibVars, foldVars, flakyVars, probesVars>>
CalibStep == part = "calib"  /\ CalibNext /\ Tool /\ UNCHANGED <<kitVars, bankVars, gptqVars, foldVars, flakyVars, probesVars>>
FoldStep  == part = "fold"   /\ FoldNext  /\ Tool /\ UNCHANGED <<kitVars, bankVars, gptqVars, calibVars, flakyVars, probesVars>>
FlakyStep == part = "flaky"  /\ FlakyNext /\ Tool /\ UNCHANGED <<w4a4Vars, probesVars>>
ProbeStep == part = "probes" /\ ProbesNext /\ Tool /\ UNCHANGED <<w4a4Vars, flakyVars>>

IdentityStep   == part = "identity"   /\ IdentNext   /\ Scaffold /\ UNCHANGED <<cascadeVars, cartVars>>
CascadeStep    == part = "cascade"    /\ CascadeNext /\ Scaffold /\ UNCHANGED <<identVars, cartVars>>
CartridgesStep == part = "cartridges" /\ CartNext    /\ Scaffold /\ UNCHANGED <<identVars, cascadeVars>>

Next ==
  \/ KitStep \/ BankStep \/ GptqStep \/ CalibStep \/ FoldStep
  \/ FlakyStep \/ ProbeStep
  \/ IdentityStep \/ CascadeStep \/ CartridgesStep

Spec == Init /\ [][Next]_vars

=============================================================================
