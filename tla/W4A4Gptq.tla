------------------------------ MODULE W4A4Gptq ------------------------------
(***************************************************************************)
(* tools/w4a4/quantize.py, GPTQ.quantize: the columns of a weight matrix   *)
(* are rounded one after the other, block by block, and each column's error*)
(* is taken out of the columns still to come: at once inside the block,    *)
(* when the block ends beyond it.                                          *)
(*                                                                         *)
(* Of a column's weights the model keeps which errors were taken out of    *)
(* them (a bag: column |-> how often), of a scale the columns it was read  *)
(* from, each with the errors it had then.                                 *)
(***************************************************************************)
EXTENDS Integers, FiniteSets

CONSTANTS
  Block,         (* BLOCK                                                    *)
  Widths,        (* Numbers of columns (in_features)                         *)
  Groups         (* Values of --group; 0 is one scale per kernel             *)

VARIABLES
  stage, cols, group,
  i0, j,         (* First column of the block, and the next column in it     *)
  W, W1,         (* The matrix, and the copy of the block worked on          *)
  E1,            (* Columns of the block whose error is known                *)
  curS, scales,  (* The current scale, and those stored by group             *)
  rounded        (* rounded[c]: weights and scale column c was rounded with  *)

gptqVars == <<stage, cols, group, i0, j, W, W1, E1, curS, scales, rounded>>

Cols == 0 .. cols - 1
i1 == IF i0 + Block < cols THEN i0 + Block ELSE cols
PerRow == group >= cols

NoErrors == [c \in Cols |-> 0]
Plus(e, S) == [c \in Cols |-> e[c] + (IF c \in S THEN 1 ELSE 0)]

(* The columns a scale is read from, with the errors they had.             *)
ScaleOf(w, S) == [c \in S |-> w[c]]

-----------------------------------------------------------------------------

GptqInit ==
  /\ stage = "idle" /\ cols = 0 /\ group = 0 /\ i0 = 0 /\ j = 0
  /\ W = << >> /\ W1 = << >> /\ E1 = {} /\ curS = << >> /\ scales = << >> /\ rounded = << >>

(* GPTQ.__init__, and quantize up to the loop.  A scale per kernel is read *)
(* from the whole row before any column is rounded.                        *)
StartQuantize(n, g) ==
  /\ stage = "idle"
  /\ cols' = n /\ group' = IF g > 0 THEN g ELSE n
  /\ W' = [c \in Cols' |-> NoErrors']
  /\ curS' = IF PerRow' THEN ScaleOf(W', Cols') ELSE << >>
  /\ scales' = IF PerRow' THEN [x \in {0} |-> curS'] ELSE << >>
  /\ stage' = "block"
  /\ UNCHANGED <<i0, j, W1, E1, rounded>>

StartBlock ==
  /\ stage = "block" /\ i0 < cols
  /\ W1' = [c \in i0 .. i1 - 1 |-> W[c]]
  /\ E1' = {} /\ j' = i0 /\ stage' = "column"
  /\ UNCHANGED <<cols, group, i0, W, curS, scales, rounded>>

(* The scale of a group is read at its first column from what the block    *)
(* shows of it; there is no place for the scale of a last, partial group.  *)
GroupStart(c) == ~PerRow /\ c % group = 0
ScaleFits(c)  == c \div group < cols \div group

(* Mutant: the group is read from the matrix the block was copied from.    *)
GroupScaleUncorrected(c) ==
  ScaleOf(W, {x \in DOMAIN W1 : x >= c /\ x < c + group})

GroupScale(c) == ScaleOf(W1, {x \in DOMAIN W1 : x >= c /\ x < c + group})

(* The columns of the block an error is taken out of at once.              *)
Later(c) == {x \in DOMAIN W1 : x >= c}

Column ==
  /\ stage = "column" /\ j < i1
  /\ GroupStart(j) => ScaleFits(j)
  /\ curS' = IF GroupStart(j) THEN GroupScale(j) ELSE curS
  /\ scales' = IF GroupStart(j)
               THEN [x \in DOMAIN scales \cup {j \div group} |->
                       IF x = j \div group THEN curS' ELSE scales[x]]
               ELSE scales
  /\ rounded' = [x \in 0 .. j |-> IF x = j THEN [from |-> W1[j], scale |-> curS'] ELSE rounded[x]]
  /\ W1' = [x \in DOMAIN W1 |-> IF x \in Later(j) THEN Plus(W1[x], {j}) ELSE W1[x]]
  /\ E1' = E1 \cup {j}
  /\ j' = j + 1
  /\ UNCHANGED <<stage, cols, group, i0, W>>

OutOfScales ==
  /\ stage = "column" /\ j < i1 /\ GroupStart(j) /\ ~ScaleFits(j)
  /\ stage' = "aborted"
  /\ UNCHANGED <<cols, group, i0, j, W, W1, E1, curS, scales, rounded>>

EndBlock ==
  /\ stage = "column" /\ j = i1
  /\ W' = [x \in Cols |-> IF x >= i1 THEN Plus(W[x], E1) ELSE W[x]]
  /\ i0' = i0 + Block /\ stage' = "block"
  /\ UNCHANGED <<cols, group, j, W1, E1, curS, scales, rounded>>

(* The scale each column is given back with. *)
Dequantised(c) == IF PerRow THEN curS ELSE scales[c \div group]

EndQuantize ==
  /\ stage = "block" /\ i0 >= cols
  /\ stage' = "done"
  /\ UNCHANGED <<cols, group, i0, j, W, W1, E1, curS, scales, rounded>>

GptqNext ==
  \/ \E n \in Widths, g \in Groups : StartQuantize(n, g)
  \/ StartBlock \/ Column \/ OutOfScales \/ EndBlock \/ EndQuantize

GptqSpec == GptqInit /\ [][GptqNext]_gptqVars

-----------------------------------------------------------------------------
(* Properties                                                              *)

(* A column is rounded with the errors of all earlier columns taken out    *)
(* once and no others; with a scale read, when its group began, from all   *)
(* columns of the group as they were corrected then (line 120, for groups  *)
(* that divide the block; per kernel, from the uncorrected row); and it is *)
(* given back with the scale it was rounded with.                          *)
ErrorsOnce ==
  stage \in {"block", "column", "done"} =>
    \A c \in DOMAIN rounded :
      LET first == IF PerRow THEN 0 ELSE (c \div group) * group
          grp   == IF PerRow THEN Cols ELSE first .. first + group - 1
          r     == rounded[c]
      IN /\ r.from = Plus(NoErrors, 0 .. c - 1)
         /\ Block % group = 0 \/ PerRow =>
              r.scale = [x \in grp |-> Plus(NoErrors, 0 .. first - 1)]
         /\ r.scale = Dequantised(c)

=============================================================================
