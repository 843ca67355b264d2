------------------------------ MODULE W4A4Fold ------------------------------
(***************************************************************************)
(* tools/w4a4/rotate.py and smooth.py: rotations and per-channel scales    *)
(* are folded into the weights of a checkpoint, so that it stays the same  *)
(* function and the kernel has nothing more to do.                         *)
(*                                                                         *)
(* Of a weight the model keeps what was folded into its input and into its *)
(* output side, in order: R1, R2, the gain of a norm, or the scale of a    *)
(* channel block that one run of smooth.py chose.  A fold into the output  *)
(* of one weight is undone by the same folds into the inputs of those that *)
(* read it.  The attention and MLP between the weights (transformers) say  *)
(* which folds may stand where.                                            *)
(***************************************************************************)
EXTENDS Integers, Sequences

CONSTANTS
  Layers,        (* num_hidden_layers                                        *)
  NKV, Ratio,    (* num_key_value_heads, and query heads per kv head         *)
  Runs           (* Bound: runs of a tool                                    *)

VARIABLES
  run,           (* Tools run so far                                         *)
  tied,          (* tie_word_embeddings                                      *)
  gain,          (* gain[norm]: its weight is in the norm, not yet fused     *)
  input, output, (* Folds of each weight                                     *)
  heads          (* Folds per head of v_proj's output and o_proj's input     *)

foldVars == <<run, tied, gain, input, output, heads>>

Ls == 1 .. Layers
KV == 0 .. NKV - 1
QH == 0 .. NKV * Ratio - 1

Readers == ({"q_proj", "k_proj", "v_proj", "gate_proj", "up_proj"} \X Ls) \cup {<<"lm_head", 0>>}
Writers == ({"o_proj", "down_proj"} \X Ls) \cup {<<"embed", 0>>}
Weights == Readers \cup Writers
Norms   == ({"input", "post_attention"} \X Ls) \cup {<<"final", 0>>}

NormOf(w) ==
  CASE w[1] \in {"q_proj", "k_proj", "v_proj"} -> <<"input", w[2]>>
    [] w[1] \in {"gate_proj", "up_proj"}       -> <<"post_attention", w[2]>>
    [] w[1] = "lm_head"                        -> <<"final", 0>>

R1 == <<"R1", <<>>>>
R2 == <<"R2", <<>>>>
Gain(n) == <<"gain", n>>
Scale(l, h) == <<"scale", <<run, l, h>>>>   \* h = NKV: the one of the MLP

-----------------------------------------------------------------------------

FoldInit ==
  /\ run = 0 /\ tied = TRUE
  /\ gain = [n \in Norms |-> TRUE]
  /\ input = [w \in Weights |-> << >>] /\ output = [w \in Weights |-> << >>]
  /\ heads = [v |-> [x \in Ls \X KV |-> << >>], o |-> [x \in Ls \X QH |-> << >>]]

(* Mutant: the key heads of a group are taken for interleaved. *)
KvOfInterleaved(h) == h % NKV

(* The kv head that serves query head h (line 121 of smooth.py). *)
KvOf(h) == h \div Ratio

Fused(w) == input[w] \o (IF gain[NormOf(w)] THEN <<Gain(NormOf(w))>> ELSE << >>)

(* rotate.py.  lm_head starts from the embedding while the two are tied.   *)
Rotate(r2) ==
  /\ run < Runs
  /\ run' = run + 1
  /\ input' = [w \in Weights |->
                 IF w \in Readers THEN Append(Fused(w), R1) ELSE input[w]]
  /\ output' = [w \in Weights |-> IF w \in Writers THEN Append(output[w], R1) ELSE output[w]]
  /\ heads' = IF r2
              THEN [v |-> [x \in Ls \X KV |-> Append(heads.v[x], R2)],
                    o |-> [x \in Ls \X QH |-> Append(heads.o[x], R2)]]
              ELSE heads
  /\ gain' = [n \in Norms |-> FALSE]
  /\ tied' = FALSE

(* smooth.py: up_proj's rows and down_proj's columns, v_proj's rows and    *)
(* o_proj's columns.                                                       *)
Smooth ==
  /\ run < Runs
  /\ run' = run + 1
  /\ output' = [w \in Weights |->
                  IF w[1] = "up_proj" THEN Append(output[w], Scale(w[2], NKV)) ELSE output[w]]
  /\ input' = [w \in Weights |->
                 IF w[1] = "down_proj" THEN Append(input[w], Scale(w[2], NKV)) ELSE input[w]]
  /\ heads' = [v |-> [x \in Ls \X KV |-> Append(heads.v[x], Scale(x[1], x[2]))],
               o |-> [x \in Ls \X QH |-> Append(heads.o[x], Scale(x[1], KvOf(x[2])))]]
  /\ UNCHANGED <<tied, gain>>

FoldNext == (\E r2 \in BOOLEAN : Rotate(r2)) \/ Smooth

FoldSpec == FoldInit /\ [][FoldNext]_foldVars

-----------------------------------------------------------------------------
(* Properties                                                              *)

(* What is written to the residual is rotated alike, and what reads it     *)
(* undoes that and applies its norm's gain once, before the rotation.      *)
ResidualUndone ==
  LET residual == output[<<"embed", 0>>]
  IN /\ \A w \in Writers : output[w] = residual
     /\ \A w \in Readers : Fused(w) = <<Gain(NormOf(w))>> \o residual
     /\ tied => residual = << >> /\ gain[<<"final", 0>>]

(* Each query head's columns of o_proj undo the rows of its own kv head.   *)
HeadsUndone == \A l \in Ls, h \in QH : heads.o[<<l, h>>] = heads.v[<<l, h \div Ratio>>]

(* down_proj undoes up_proj, whose folds commute with the product they pass*)
(* through; what RoPE, the norms of q and k or silu see is untouched.      *)
RowsUndone ==
  \A l \in Ls :
    /\ input[<<"down_proj", l>>] = output[<<"up_proj", l>>]
    /\ \A i \in DOMAIN output[<<"up_proj", l>>] : output[<<"up_proj", l>>][i][1] = "scale"
    /\ \A n \in {"q_proj", "k_proj", "gate_proj"} : output[<<n, l>>] = << >>

(* After any sequence of runs the checkpoint is the function it was: each  *)
(* fold of rotate.py and smooth.py is undone where its result is read.     *)
SameFunction == ResidualUndone /\ HeadsUndone /\ RowsUndone

=============================================================================
