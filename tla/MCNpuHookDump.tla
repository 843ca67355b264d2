--------------------------- MODULE MCNpuHookDump ---------------------------
(* The instances of NpuHookDump that TLC checks.  One CNA buffer is dumped *)
(* after one is skipped; an unknown unit counts as DPU and is dumped once,  *)
(* its negative NPU_HOOK_DUMP_DPU_SKIP clamped to 0.  108 + 4 registers   *)
(* is the CNA GEMM of docs/02; the unknown buffer is longer than the dump   *)
(* buffer holds.                                                           *)
EXTENDS NpuHookDump, TLC

MCUnits     == {"CNA", "?"}
MCCnaUnits  == {"CNA"}
MCRegcmdLen == ("CNA" :> 112) @@ ("?" :> 600)
MCEnvMax    == ("cna" :> 1) @@ ("dpu" :> 1)
MCEnvSkip   == ("cna" :> 1) @@ ("dpu" :> -1)
=============================================================================
