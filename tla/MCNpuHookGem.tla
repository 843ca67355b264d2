---------------------------- MODULE MCNpuHookGem ----------------------------
(* Two threads, a table of two entries, one place for mappings, and        *)
(* addresses few enough that new buffers are given those of destroyed ones.*)
EXTENDS NpuHookGem, TLC

Interchangeable == Permutations(Objs) \cup Permutations(Offsets) \cup Permutations(Threads)
=============================================================================
