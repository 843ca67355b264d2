---------------------------- MODULE Tools_proofs ----------------------------
(* Proofs about the W4A4 tools and the NPU probes, for any block length,    *)
(* width, group, number of layers, heads, samples and tensors, lanes,       *)
(* generations, tries and shapes.                                           *)
EXTENDS W4A4Gptq, W4A4Fold, W4A4Calib, W4A4Bank, FlakyProbe, NpuProbes,
        SequenceTheorems, FiniteSetTheorems, TLAPS

-----------------------------------------------------------------------------
(* Arithmetic of groups: g columns each, column n in group n \div g.        *)

(* Quotient and remainder. *)
LEMMA Division ==
  ASSUME NEW g \in Nat \ {0}, NEW n \in Nat
  PROVE  /\ n \div g \in Nat /\ n % g \in 0 .. g - 1
         /\ n = g * (n \div g) + (n % g)
  BY Z3

(* A number below g * b + g has a quotient of at most b. *)
LEMMA QuotientLess ==
  ASSUME NEW g \in Nat \ {0}, NEW a \in Nat, NEW b \in Nat, NEW r \in Nat,
         g * a + r < g * b + g
  PROVE  a <= b
<1>1. SUFFICES ASSUME a >= b + 1 PROVE FALSE
  OBVIOUS
<1>2. g * a >= g * (b + 1)
  BY <1>1
<1>3. g * (b + 1) = g * b + g
  OBVIOUS
<1> QED
  BY <1>2, <1>3

(* A column that begins no group is in that of the column before it. *)
LEMMA GroupGoesOn ==
  ASSUME NEW g \in Nat \ {0}, NEW n \in Nat, n % g # 0
  PROVE  n > 0 /\ (n - 1) \div g = n \div g
<1>1. n > 0
  OBVIOUS
<1>2. n = g * (n \div g) + (n % g) /\ n \div g \in Nat /\ n % g \in 1 .. g - 1
  <2>1. n = g * (n \div g) + (n % g) /\ n \div g \in Nat /\ n % g \in 0 .. g - 1
    BY Division
  <2> QED
    BY <2>1
<1>3. n - 1 = g * ((n - 1) \div g) + ((n - 1) % g) /\ (n - 1) \div g \in Nat /\ (n - 1) % g \in 0 .. g - 1
  <2> DEFINE m == n - 1
  <2>1. m \in Nat
    BY <1>1
  <2> HIDE DEF m
  <2>2. m = g * (m \div g) + (m % g) /\ m \div g \in Nat /\ m % g \in 0 .. g - 1
    BY <2>1, Division
  <2> QED
    BY <2>2 DEF m
<1>4. (n - 1) \div g <= n \div g
  <2>1. g * ((n - 1) \div g) + ((n - 1) % g) < g * (n \div g) + g
    BY <1>2, <1>3
  <2> QED
    BY <1>2, <1>3, <2>1, QuotientLess
<1> DEFINE s == (n % g) - 1
<1>5. g * (n \div g) + s = g * ((n - 1) \div g) + ((n - 1) % g) /\ s \in 0 .. g - 1
  BY <1>2, <1>3
<1>6. n \div g <= (n - 1) \div g
  <2>1. g * (n \div g) + s < g * ((n - 1) \div g) + g
    BY <1>2, <1>3, <1>5
  <2> HIDE DEF s
  <2> QED
    BY <1>2, <1>3, <1>5, <2>1, QuotientLess
<1> QED
  BY <1>1, <1>2, <1>3, <1>4, <1>6

(* One that begins a group n is in no earlier column's, and the whole group  *)
(* lies before the next multiple of its size, and before m if it fits there.*)
LEMMA GroupBegins ==
  ASSUME NEW g \in Nat \ {0}, NEW n \in Nat, n % g = 0
  PROVE  /\ (n \div g) * g = n
         /\ \A c \in 0 .. n - 1 : c \div g # n \div g
         /\ \A m \in Nat : n < g * m => n + g <= g * m
         /\ \A m \in Nat : n \div g < m \div g => n + g <= m
<1>1. n = g * (n \div g) /\ n \div g \in Nat
  BY Division
<1>2. ASSUME NEW c \in 0 .. n - 1, c \div g = n \div g PROVE FALSE
  <2>1. c = g * (c \div g) + (c % g) /\ c % g \in 0 .. g - 1
    BY Division
  <2> QED
    BY <1>1, <1>2, <2>1
<1>3. ASSUME NEW a \in Nat, NEW m \in Nat, a < m PROVE g * a + g <= g * m
  <2>1. g * (a + 1) = g * a + g
    OBVIOUS
  <2>2. g * (a + 1) <= g * m
    BY <1>3
  <2> QED
    BY <2>1, <2>2
<1>4. ASSUME NEW m \in Nat, n < g * m PROVE n + g <= g * m
  <2>1. n \div g < m
    <3>1. SUFFICES ASSUME m <= n \div g PROVE FALSE
      BY <1>1
    <3>2. g * m <= g * (n \div g)
      BY <3>1, <1>1
    <3> QED
      BY <3>2, <1>1, <1>4
  <2> QED
    BY <1>1, <1>3, <2>1
<1>5. ASSUME NEW m \in Nat, n \div g < m \div g PROVE n + g <= m
  <2>1. m = g * (m \div g) + (m % g) /\ m \div g \in Nat /\ m % g \in Nat
    BY Division
  <2>2. n + g <= g * (m \div g)
    BY <1>1, <1>3, <1>5, <2>1
  <2> QED
    BY <2>1, <2>2
<1>6. (n \div g) * g = n
  BY <1>1
<1> QED
  BY <1>2, <1>4, <1>5, <1>6

-----------------------------------------------------------------------------
(* The inductive invariant                                                  *)

(* The errors of a column that those of columns 0 .. n - 1 were taken out of*)
(* once.                                                                    *)
Before(n) == [c \in Cols |-> IF c < n THEN 1 ELSE 0]

First(c) == (c \div group) * group
WholeGroup(f) == [x \in f .. f + group - 1 |-> Before(f)]

(* Columns 0 .. n - 1 are rounded. *)
Rounds(n) ==
  /\ DOMAIN rounded = 0 .. n - 1
  /\ \A c \in 0 .. n - 1 : rounded[c].from = Before(c)
  /\ PerRow =>
       /\ curS = [x \in Cols |-> Before(0)]
       /\ \A c \in 0 .. n - 1 : rounded[c].scale = curS
  /\ ~PerRow =>
       /\ \A c \in 0 .. n - 1 :
            c \div group \in DOMAIN scales /\ rounded[c].scale = scales[c \div group]
       /\ n > 0 => curS = rounded[n - 1].scale
       /\ Block % group = 0 => \A c \in 0 .. n - 1 : rounded[c].scale = WholeGroup(First(c))

Shape ==
  /\ cols \in Nat \ {0} /\ group \in Nat \ {0}
  /\ i0 \in Nat /\ \E q \in Nat : i0 = Block * q

Reached == IF i0 < cols THEN i0 ELSE cols

(* The matrix is corrected up to the block, the block up to the column.     *)
GptqInv ==
  /\ stage = "idle" => i0 = 0 /\ rounded = << >>
  /\ stage \in {"block", "column", "done"} => Shape
  /\ stage \in {"block", "column"} => \A c \in Cols : c >= i0 => W[c] = Before(i0)
  /\ stage = "block" => Rounds(Reached)
  /\ stage = "column" =>
       /\ i0 < cols /\ j \in i0 .. i1 /\ Rounds(j)
       /\ E1 = i0 .. j - 1 /\ DOMAIN W1 = i0 .. i1 - 1
       /\ \A x \in i0 .. i1 - 1 : x >= j => W1[x] = Before(j)
  /\ stage = "done" => Rounds(cols)

(* Taking errors out of a column, all at once, block by block or one by one. *)
LEMMA BeforeIsPlus ==
  ASSUME cols \in Nat
  PROVE  /\ NoErrors = Before(0)
         /\ \A n \in Nat : Plus(NoErrors, 0 .. n - 1) = Before(n)
         /\ \A a, b \in Nat : a <= b => Plus(Before(a), a .. b - 1) = Before(b)
         /\ \A a \in Nat : Plus(Before(a), {a}) = Before(a + 1)
<1> USE DEF Plus, NoErrors, Before, Cols
<1>1. NoErrors = Before(0)
  OBVIOUS
<1>2. ASSUME NEW n \in Nat PROVE Plus(NoErrors, 0 .. n - 1) = Before(n)
  OBVIOUS
<1>3. ASSUME NEW a \in Nat, NEW b \in Nat, a <= b
      PROVE  Plus(Before(a), a .. b - 1) = Before(b)
  BY <1>3
<1>4. ASSUME NEW a \in Nat PROVE Plus(Before(a), {a}) = Before(a + 1)
  OBVIOUS
<1> QED
  BY <1>1, <1>2, <1>3, <1>4

(* What all steps but StartQuantize leave as it was. *)
LEMMA Unchanged ==
  ASSUME UNCHANGED <<cols, group>>
  PROVE  /\ Cols' = Cols /\ PerRow' = PerRow /\ \A n : Before(n)' = Before(n)
         /\ \A n : WholeGroup(First(n))' = WholeGroup(First(n))
<1>1. Cols' = Cols /\ PerRow' = PerRow /\ \A n : Before(n)' = Before(n)
  BY DEF Cols, PerRow, Before
<1>2. \A n : WholeGroup(First(n))' = WholeGroup(First(n))
  BY <1>1 DEF WholeGroup, First, Before, Cols
<1> QED
  BY <1>1, <1>2

-----------------------------------------------------------------------------
(* One column                                                               *)

(* With a scale for the whole row the scale stays. *)
LEMMA ColumnPerRow ==
  ASSUME Block \in Nat \ {0}, GptqInv, Column, PerRow
  PROVE  Rounds(j)'
<1>1. Shape /\ j \in i0 .. i1 /\ Rounds(j) /\ j < i1 /\ W1[j] = Before(j)
  BY DEF GptqInv, Column, Shape, i1
<1>2. cols' = cols /\ group' = group /\ curS' = curS /\ j' = j + 1
  BY DEF Column, GroupStart
<1>3. rounded' = [x \in 0 .. j |-> IF x = j THEN [from |-> W1[j], scale |-> curS'] ELSE rounded[x]]
  BY DEF Column
<1>4. j \in Nat /\ j' - 1 = j /\ 0 .. j = (0 .. j - 1) \cup {j}
  BY <1>1, <1>2 DEF Shape
<1>5. DOMAIN rounded' = 0 .. j' - 1
  BY <1>3, <1>4
<1>6. \A c \in 0 .. j : rounded'[c].from = Before(c) /\ rounded'[c].scale = curS
  BY <1>1, <1>2, <1>3, <1>4 DEF Rounds
<1>7. curS = [x \in Cols |-> Before(0)]
  BY <1>1 DEF Rounds
<1>8. PerRow' /\ Cols' = Cols /\ \A n : Before(n)' = Before(n)
  BY <1>2, Unchanged
<1> QED
  BY <1>2, <1>4, <1>5, <1>6, <1>7, <1>8 DEF Rounds, Before

(* Inside a group the scale of the column before is used again. *)
LEMMA ColumnInGroup ==
  ASSUME Block \in Nat \ {0}, GptqInv, Column, ~PerRow, ~GroupStart(j)
  PROVE  Rounds(j)'
<1>1. Shape /\ j \in i0 .. i1 /\ Rounds(j) /\ j < i1 /\ W1[j] = Before(j)
  BY DEF GptqInv, Column, Shape, i1
<1>2. cols' = cols /\ group' = group /\ curS' = curS /\ scales' = scales /\ j' = j + 1
  BY DEF Column
<1>3. rounded' = [x \in 0 .. j |-> IF x = j THEN [from |-> W1[j], scale |-> curS'] ELSE rounded[x]]
  BY DEF Column
<1>4. j \in Nat /\ j' - 1 = j /\ 0 .. j = (0 .. j - 1) \cup {j}
  BY <1>1, <1>2 DEF Shape
<1>5. j > 0 /\ (j - 1) \div group = j \div group
  BY <1>1, <1>4, GroupGoesOn DEF GroupStart, Shape
<1>6. curS = rounded[j - 1].scale /\ j - 1 \in 0 .. j - 1
  BY <1>1, <1>4, <1>5 DEF Rounds
<1>7. DOMAIN rounded' = 0 .. j' - 1
  BY <1>3, <1>4
<1>8. \A c \in 0 .. j : rounded'[c].from = Before(c)
  BY <1>1, <1>3, <1>4 DEF Rounds
<1>9. rounded'[j].scale = rounded[j - 1].scale
      /\ \A c \in 0 .. j - 1 : rounded'[c].scale = rounded[c].scale
  BY <1>2, <1>3, <1>4, <1>6
<1>10. \A c \in 0 .. j : c \div group \in DOMAIN scales /\ rounded'[c].scale = scales[c \div group]
  <2>1. \A c \in 0 .. j - 1 :
          c \div group \in DOMAIN scales /\ rounded[c].scale = scales[c \div group]
    BY <1>1 DEF Rounds
  <2> QED
    BY <1>4, <1>5, <1>6, <1>9, <2>1
<1>11. Block % group = 0 => \A c \in 0 .. j : rounded'[c].scale = WholeGroup(First(c))
  <2>1. SUFFICES ASSUME Block % group = 0, NEW c \in 0 .. j
                 PROVE  rounded'[c].scale = WholeGroup(First(c))
    OBVIOUS
  <2>2. \A x \in 0 .. j - 1 : rounded[x].scale = WholeGroup(First(x))
    BY <1>1, <2>1 DEF Rounds
  <2>3. First(j - 1) = First(j)
    BY <1>5 DEF First
  <2> QED
    BY <1>4, <1>6, <1>9, <2>2, <2>3
<1>12. curS' = rounded'[j].scale
  BY <1>3, <1>4
<1>13. ~PerRow' /\ (\A n : Before(n)' = Before(n))
       /\ \A n : WholeGroup(First(n))' = WholeGroup(First(n))
  BY <1>2, Unchanged
<1> QED
  BY <1>2, <1>4, <1>7, <1>8, <1>10, <1>11, <1>12, <1>13 DEF Rounds

(* A group begins: its scale is new, and read from the whole group if groups*)
(* divide the block.                                                        *)
LEMMA ColumnNewGroup ==
  ASSUME Block \in Nat \ {0}, GptqInv, Column, ~PerRow, GroupStart(j)
  PROVE  Rounds(j)'
<1>1. Shape /\ j \in i0 .. i1 /\ Rounds(j) /\ j < i1 /\ W1[j] = Before(j)
  BY DEF GptqInv, Column, Shape, i1
<1>2. /\ cols' = cols /\ group' = group /\ curS' = GroupScale(j) /\ j' = j + 1
      /\ scales' = [x \in DOMAIN scales \cup {j \div group} |->
                      IF x = j \div group THEN curS' ELSE scales[x]]
  BY DEF Column
<1>3. rounded' = [x \in 0 .. j |-> IF x = j THEN [from |-> W1[j], scale |-> curS'] ELSE rounded[x]]
  BY DEF Column
<1>4. j \in Nat /\ j' - 1 = j /\ 0 .. j = (0 .. j - 1) \cup {j}
  BY <1>1, <1>2 DEF Shape
<1>5. group \in Nat \ {0} /\ cols \in Nat /\ j % group = 0 /\ j \div group < cols \div group
  BY <1>1 DEF GroupStart, Shape, Column, ScaleFits
<1>6. /\ First(j) = j
      /\ \A c \in 0 .. j - 1 : c \div group # j \div group
      /\ j + group <= cols
  BY <1>4, <1>5, GroupBegins DEF First
<1>7. DOMAIN rounded' = 0 .. j' - 1
  BY <1>3, <1>4
<1>8. \A c \in 0 .. j : rounded'[c].from = Before(c)
  BY <1>1, <1>3, <1>4 DEF Rounds
<1>9. rounded'[j].scale = curS' /\ \A c \in 0 .. j - 1 : rounded'[c].scale = rounded[c].scale
  BY <1>3, <1>4
<1>10. \A c \in 0 .. j : c \div group \in DOMAIN scales' /\ rounded'[c].scale = scales'[c \div group]
  <2>1. \A c \in 0 .. j - 1 :
          c \div group \in DOMAIN scales /\ rounded[c].scale = scales[c \div group]
    BY <1>1 DEF Rounds
  <2> QED
    BY <1>2, <1>4, <1>6, <1>9, <2>1
<1>11. Block % group = 0 => curS' = WholeGroup(j)
  <2>1. SUFFICES ASSUME Block % group = 0 PROVE curS' = WholeGroup(j)
    OBVIOUS
  <2>2. PICK q \in Nat : i0 = Block * q
    BY <1>1 DEF Shape
  <2>3. Block = group * (Block \div group) /\ Block \div group \in Nat
    <3>1. Block = group * (Block \div group) + (Block % group) /\ Block \div group \in Nat
      BY <1>5, Division
    <3> QED
      BY <1>5, <2>1, <3>1
  <2>4. i0 + Block = group * ((Block \div group) * (q + 1))
    <3> DEFINE b == Block \div group
    <3>1. i0 + Block = Block * (q + 1)
      BY <2>2
    <3>2. Block = group * b /\ b \in Nat
      BY <2>3
    <3> HIDE DEF b
    <3>3. (group * b) * (q + 1) = group * (b * (q + 1))
      BY <1>5, <3>2
    <3> QED
      BY <3>1, <3>2, <3>3 DEF b
  <2>5. j + group <= i0 + Block
    <3> DEFINE m == (Block \div group) * (q + 1)
    <3>1. j < i0 + Block
      BY <1>1 DEF i1, Shape
    <3>2. m \in Nat
      BY <2>3
    <3>3. i0 + Block = group * m
      BY <2>4
    <3> HIDE DEF m
    <3>4. j < group * m => j + group <= group * m
      BY <1>4, <1>5, <3>2, GroupBegins
    <3> QED
      BY <3>1, <3>3, <3>4
  <2>6. DOMAIN W1 = i0 .. i1 - 1 /\ \A x \in i0 .. i1 - 1 : x >= j => W1[x] = Before(j)
    BY DEF GptqInv, Column
  <2>7. {x \in DOMAIN W1 : x >= j /\ x < j + group} = j .. j + group - 1
    <3>1. i1 \in Nat /\ i0 \in Nat /\ i0 <= j /\ j + group <= i1
      BY <1>1, <1>6, <2>5 DEF i1, Shape
    <3>2. ASSUME NEW x \in j .. j + group - 1
          PROVE  x \in i0 .. i1 - 1 /\ x >= j /\ x < j + group
      BY <1>4, <1>5, <3>1
    <3>3. ASSUME NEW x \in i0 .. i1 - 1, x >= j, x < j + group PROVE x \in j .. j + group - 1
      BY <1>4, <1>5, <3>1, <3>3
    <3> QED
      BY <2>6, <3>2, <3>3
  <2>8. \A x \in j .. j + group - 1 : W1[x] = Before(j)
    BY <1>4, <1>5, <2>6, <2>7
  <2> QED
    BY <1>2, <2>7, <2>8 DEF GroupScale, ScaleOf, WholeGroup
<1>12. Block % group = 0 => \A c \in 0 .. j : rounded'[c].scale = WholeGroup(First(c))
  <2>1. SUFFICES ASSUME Block % group = 0, NEW c \in 0 .. j
                 PROVE  rounded'[c].scale = WholeGroup(First(c))
    OBVIOUS
  <2>2. \A x \in 0 .. j - 1 : rounded[x].scale = WholeGroup(First(x))
    BY <1>1, <2>1 DEF Rounds
  <2> QED
    BY <1>4, <1>6, <1>9, <1>11, <2>1, <2>2
<1>13. ~PerRow' /\ (\A n : Before(n)' = Before(n))
       /\ \A n : WholeGroup(First(n))' = WholeGroup(First(n))
  BY <1>2, Unchanged
<1> QED
  BY <1>2, <1>4, <1>7, <1>8, <1>9, <1>10, <1>12, <1>13 DEF Rounds

-----------------------------------------------------------------------------
(* All steps                                                                *)

(* quantize up to its loop (lines 85-108). *)
LEMMA StartKeeps ==
  ASSUME Block \in Nat \ {0}, Widths \subseteq Nat \ {0}, Groups \subseteq Nat,
         GptqInv, NEW n \in Widths, NEW g \in Groups, StartQuantize(n, g)
  PROVE  GptqInv'
<1>1. cols' \in Nat \ {0} /\ group' \in Nat \ {0} /\ i0' = 0 /\ rounded' = << >> /\ stage' = "block"
  BY DEF GptqInv, StartQuantize
<1>2. Shape'
  <2>1. 0 = Block * 0
    OBVIOUS
  <2> QED
    BY <1>1, <2>1 DEF Shape
<1>3. NoErrors' = Before(0)'
  <2>1. ASSUME NEW c \in Cols' PROVE (IF c < 0 THEN 1 ELSE 0) = 0
    BY <1>1 DEF Cols
  <2> QED
    BY <2>1, Zenon DEF NoErrors, Before
<1>4. W' = [c \in Cols' |-> Before(0)'] /\ Before(i0)' = Before(0)'
  BY <1>1, <1>3 DEF StartQuantize, Before
<1>5. PerRow' => curS' = [x \in Cols' |-> Before(0)']
  BY <1>4 DEF StartQuantize, ScaleOf
<1>6. Rounds(Reached)'
  <2>1. Reached' = 0 /\ DOMAIN rounded' = {} /\ 0 .. 0 - 1 = {}
    BY <1>1 DEF Reached
  <2> QED
    BY <1>5, <2>1 DEF Rounds, Before
<1> QED
  BY <1>1, <1>2, <1>4, <1>6 DEF GptqInv

(* The copy of a block is as corrected as the matrix (lines 110-115). *)
LEMMA StartBlockKeeps ==
  ASSUME Block \in Nat \ {0}, GptqInv, StartBlock
  PROVE  GptqInv'
<1>1. /\ Shape /\ i0 < cols /\ Rounds(i0)
      /\ \A c \in Cols : c >= i0 => W[c] = Before(i0)
  BY DEF GptqInv, StartBlock, Reached
<1>2. /\ UNCHANGED <<cols, group, i0, W, curS, scales, rounded>>
      /\ stage' = "column" /\ j' = i0 /\ E1' = {}
      /\ W1' = [c \in i0 .. i1 - 1 |-> W[c]]
  BY DEF StartBlock
<1>3. i1 \in Nat /\ i0 \in Nat /\ i0 < i1 /\ i1 <= cols /\ i0 .. i1 - 1 \subseteq Cols
  BY <1>1 DEF Shape, i1, Cols
<1>4. i1' = i1 /\ Shape' /\ Cols' = Cols /\ \A n : Before(n)' = Before(n)
  BY <1>1, <1>2 DEF i1, Shape, Cols, Before
<1>5. Rounds(j)'
  BY <1>1, <1>2, Unchanged DEF Rounds
<1>6. \A x \in i0 .. i1 - 1 : W1'[x] = Before(i0)
  BY <1>1, <1>2, <1>3 DEF Shape
<1>7. i0 .. i0 - 1 = {} /\ j' \in i0 .. i1 /\ DOMAIN W1' = i0 .. i1 - 1
  BY <1>2, <1>3
<1> QED
  BY <1>1, <1>2, <1>4, <1>5, <1>6, <1>7 DEF GptqInv, Before

(* A column's error goes out of the rest of its block (lines 117-133). *)
LEMMA ColumnKeeps ==
  ASSUME Block \in Nat \ {0}, GptqInv, Column
  PROVE  GptqInv'
<1>1. /\ Shape /\ j \in i0 .. i1 /\ i0 < cols /\ j < i1
      /\ \A c \in Cols : c >= i0 => W[c] = Before(i0)
      /\ E1 = i0 .. j - 1 /\ DOMAIN W1 = i0 .. i1 - 1
      /\ \A x \in i0 .. i1 - 1 : x >= j => W1[x] = Before(j)
  BY DEF GptqInv, Column
<1>2. Rounds(j)'
  BY ColumnPerRow, ColumnInGroup, ColumnNewGroup
<1>3. /\ UNCHANGED <<stage, cols, group, i0, W>> /\ stage = "column"
      /\ j' = j + 1 /\ E1' = E1 \cup {j}
      /\ W1' = [x \in DOMAIN W1 |-> IF x \in Later(j) THEN Plus(W1[x], {j}) ELSE W1[x]]
  BY DEF Column
<1>4. i1' = i1 /\ Shape' /\ Cols' = Cols /\ \A n : Before(n)' = Before(n)
  <2>1. j' \in Nat
    BY <1>1, <1>3 DEF Shape, i1
  <2> QED
    BY <1>1, <1>3, <2>1 DEF i1, Shape, Cols, Before
<1>5. i1 \in Nat /\ i0 \in Nat /\ j \in Nat
  BY <1>1 DEF Shape, i1
<1>6. j' \in i0 .. i1 /\ E1' = i0 .. j' - 1 /\ DOMAIN W1' = i0 .. i1 - 1
  BY <1>1, <1>3, <1>5
<1>7. ASSUME NEW x \in i0 .. i1 - 1, x >= j' PROVE W1'[x] = Before(j')
  <2>1. x >= j /\ x \in Later(j)
    BY <1>1, <1>3, <1>5, <1>7 DEF Later
  <2>2. Plus(Before(j), {j}) = Before(j + 1)
    BY <1>1, <1>5, BeforeIsPlus DEF Shape
  <2> QED
    BY <1>1, <1>3, <2>1, <2>2
<1>8. \A x \in i0 .. i1 - 1 : x >= j' => W1'[x] = Before(j)'
  BY <1>4, <1>7 DEF Before
<1> QED
  BY <1>1, <1>2, <1>3, <1>4, <1>6, <1>8 DEF GptqInv

(* A block's errors go out of the columns after it (line 136). *)
LEMMA EndBlockKeeps ==
  ASSUME Block \in Nat \ {0}, GptqInv, EndBlock
  PROVE  GptqInv'
<1>1. /\ Shape /\ i0 < cols /\ j = i1 /\ Rounds(i1) /\ E1 = i0 .. i1 - 1
      /\ \A c \in Cols : c >= i0 => W[c] = Before(i0)
  BY DEF GptqInv, EndBlock
<1>2. /\ UNCHANGED <<cols, group, curS, scales, rounded, j>>
      /\ stage' = "block" /\ i0' = i0 + Block
      /\ W' = [x \in Cols |-> IF x >= i1 THEN Plus(W[x], E1) ELSE W[x]]
  BY DEF EndBlock
<1>3. i1 \in Nat /\ i0 \in Nat /\ i0 <= i1 /\ cols \in Nat
  BY <1>1 DEF Shape, i1
<1>4. Shape'
  <2>1. PICK q \in Nat : i0 = Block * q
    BY <1>1 DEF Shape
  <2>2. i0 + Block = Block * (q + 1) /\ q + 1 \in Nat
    BY <2>1
  <2> QED
    BY <1>1, <1>2, <2>2 DEF Shape
<1>5. Cols' = Cols /\ \A n : Before(n)' = Before(n)
  BY <1>2 DEF Cols, Before
<1>6. Reached' = i1
  BY <1>1, <1>2 DEF Reached, i1, Shape
<1>7. Rounds(Reached)'
  BY <1>1, <1>2, <1>6, Unchanged DEF Rounds
<1>8. ASSUME NEW c \in Cols, c >= i0 + Block PROVE W'[c] = Before(i0 + Block)
  <2>1. i1 = i0 + Block /\ c >= i1 /\ c >= i0
    BY <1>1, <1>3, <1>8 DEF i1, Cols, Shape
  <2>2. Plus(Before(i0), i0 .. i1 - 1) = Before(i1)
    BY <1>3, BeforeIsPlus
  <2> QED
    BY <1>1, <1>2, <2>1, <2>2
<1>9. \A c \in Cols : c >= i0' => W'[c] = Before(i0)'
  BY <1>2, <1>5, <1>8 DEF Before
<1> QED
  BY <1>2, <1>4, <1>5, <1>7, <1>9 DEF GptqInv

(* The invariant says what ErrorsOnce does, of the columns rounded so far. *)
LEMMA InvImpliesErrorsOnce ==
  ASSUME Block \in Nat \ {0}, GptqInv
  PROVE  ErrorsOnce
<1>1. SUFFICES ASSUME stage \in {"block", "column", "done"}, NEW c \in DOMAIN rounded
               PROVE  LET first == IF PerRow THEN 0 ELSE First(c)
                          grp   == IF PerRow THEN Cols ELSE first .. first + group - 1
                          r     == rounded[c]
                      IN /\ r.from = Plus(NoErrors, 0 .. c - 1)
                         /\ Block % group = 0 \/ PerRow =>
                              r.scale = [x \in grp |-> Plus(NoErrors, 0 .. first - 1)]
                         /\ r.scale = Dequantised(c)
  BY DEF ErrorsOnce, First
<1>2. Shape
  BY <1>1 DEF GptqInv
<1>3. PICK n \in Nat : Rounds(n)
  BY <1>1, <1>2 DEF GptqInv, Reached, Shape, i1
<1>4. c \in 0 .. n - 1 /\ c \in Nat
  BY <1>1, <1>3 DEF Rounds
<1>5. \A m \in Nat : Plus(NoErrors, 0 .. m - 1) = Before(m)
  BY <1>2, BeforeIsPlus DEF Shape
<1>6. rounded[c].from = Plus(NoErrors, 0 .. c - 1)
  BY <1>3, <1>4, <1>5 DEF Rounds
<1>7. CASE PerRow
  <2>1. rounded[c].scale = curS /\ curS = [x \in Cols |-> Before(0)]
    BY <1>3, <1>4, <1>7 DEF Rounds
  <2>2. Plus(NoErrors, 0 .. 0 - 1) = Before(0)
    BY <1>5
  <2> QED
    BY <1>6, <1>7, <2>1, <2>2 DEF Dequantised
<1>8. CASE ~PerRow
  <2>1. First(c) \in Nat
    <3>1. c \div group \in Nat
      BY <1>2, <1>4, Division DEF Shape
    <3> QED
      BY <1>2, <3>1 DEF First, Shape
  <2>2. Plus(NoErrors, 0 .. First(c) - 1) = Before(First(c))
    BY <1>5, <2>1
  <2>3. rounded[c].scale = scales[c \div group]
    BY <1>3, <1>4, <1>8 DEF Rounds
  <2>4. Block % group = 0 => rounded[c].scale = WholeGroup(First(c))
    BY <1>3, <1>4, <1>8 DEF Rounds
  <2> QED
    BY <1>6, <1>8, <2>2, <2>3, <2>4 DEF Dequantised, WholeGroup
<1> QED
  BY <1>7, <1>8

(* GPTQ.quantize takes each column's error out of each later one once and   *)
(* gives it back with the scale it was rounded with.                        *)
THEOREM ErrorsAreTakenOutOnce ==
  ASSUME Block \in Nat \ {0}, Widths \subseteq Nat \ {0}, Groups \subseteq Nat
  PROVE  GptqSpec => []ErrorsOnce
<1>1. GptqInit => GptqInv
  BY DEF GptqInit, GptqInv
<1>2. GptqInv /\ [GptqNext]_gptqVars => GptqInv'
  <2> SUFFICES ASSUME GptqInv, [GptqNext]_gptqVars PROVE GptqInv'
    OBVIOUS
  <2>1. ASSUME NEW n \in Widths, NEW g \in Groups, StartQuantize(n, g) PROVE GptqInv'
    BY <2>1, StartKeeps
  <2>2. CASE StartBlock
    BY <2>2, StartBlockKeeps
  <2>3. CASE Column
    BY <2>3, ColumnKeeps
  <2>4. CASE OutOfScales
    BY <2>4 DEF OutOfScales, GptqInv
  <2>5. CASE EndBlock
    BY <2>5, EndBlockKeeps
  <2>6. CASE EndQuantize
    <3>1. Shape /\ Rounds(cols) /\ stage' = "done"
          /\ UNCHANGED <<cols, group, i0, j, curS, scales, rounded>>
      BY <2>6 DEF EndQuantize, GptqInv, Reached, Shape
    <3>2. Shape'
      BY <3>1 DEF Shape
    <3>3. Rounds(cols)'
      BY <3>1, Unchanged DEF Rounds
    <3> QED
      BY <3>1, <3>2, <3>3 DEF GptqInv
  <2>7. CASE UNCHANGED gptqVars
    BY <2>7 DEF gptqVars, GptqInv, Shape, Rounds, PerRow, Before, Cols, WholeGroup, First, Reached, i1
  <2> QED
    BY <2>1, <2>2, <2>3, <2>4, <2>5, <2>6, <2>7 DEF GptqNext
<1>3. GptqInv => ErrorsOnce
  BY InvImpliesErrorsOnce
<1> QED
  BY <1>1, <1>2, <1>3, PTL DEF GptqSpec

Folds == {R1, R2} \cup {Gain(n) : n \in Norms}
         \cup ({"scale"} \X {<<r, l, h>> : r \in Nat, l \in Ls, h \in Nat})

(* The folds of a weight are a sequence of folds.                           *)
FoldTypes ==
  /\ run \in Nat
  /\ gain \in [Norms -> BOOLEAN]
  /\ input \in [Weights -> Seq(Folds)] /\ output \in [Weights -> Seq(Folds)]

FoldInv == FoldTypes /\ SameFunction

-----------------------------------------------------------------------------
(* Sequences and heads                                                      *)

(* A fold at the front and one at the back. *)
LEMMA ConcatAppend ==
  ASSUME NEW S, NEW a \in S, NEW b \in S, NEW s \in Seq(S)
  PROVE  <<a>> \o Append(s, b) = Append(<<a>> \o s, b)
  OBVIOUS

(* Every query head has a kv head. *)
LEMMA KvOfHead ==
  ASSUME NKV \in Nat, Ratio \in Nat \ {0}, NEW h \in QH
  PROVE  h \div Ratio \in KV
<1>1. h = Ratio * (h \div Ratio) + (h % Ratio) /\ h \div Ratio \in Nat /\ h % Ratio \in Nat
  BY Z3 DEF QH
<1>2. h < NKV * Ratio
  BY DEF QH
<1>3. SUFFICES ASSUME h \div Ratio >= NKV PROVE FALSE
  BY <1>1 DEF KV
<1>4. Ratio * (h \div Ratio) >= Ratio * NKV
  BY <1>1, <1>3
<1>5. Ratio * NKV = NKV * Ratio
  OBVIOUS
<1> QED
  BY <1>1, <1>2, <1>4, <1>5

(* What reads the residual does so through a norm. *)
LEMMA ReaderHasNorm ==
  ASSUME NEW w \in Readers
  PROVE  NormOf(w) \in Norms
<1>1. CASE w = <<"lm_head", 0>>
  BY <1>1 DEF NormOf, Norms
<1>2. ASSUME NEW l \in Ls, w \in {<<"q_proj", l>>, <<"k_proj", l>>, <<"v_proj", l>>}
      PROVE  NormOf(w) \in Norms
  BY <1>2 DEF NormOf, Norms
<1>3. ASSUME NEW l \in Ls, w \in {<<"gate_proj", l>>, <<"up_proj", l>>}
      PROVE  NormOf(w) \in Norms
  BY <1>3 DEF NormOf, Norms
<1> QED
  BY <1>1, <1>2, <1>3 DEF Readers

(* down_proj writes the residual and up_proj reads it, among others. *)
LEMMA Kinds ==
  /\ Readers \subseteq Weights /\ Writers \subseteq Weights /\ <<"embed", 0>> \in Writers
  /\ \A l \in Ls : <<"down_proj", l>> \in Writers \ Readers /\ <<"up_proj", l>> \in Readers \ Writers
  /\ \A l \in Ls : \A n \in {"q_proj", "k_proj", "gate_proj"} : <<n, l>> \in Readers \ Writers
  /\ \A w \in Writers : w[1] # "up_proj"
  /\ \A w \in Readers : w[1] # "down_proj"
  BY DEF Readers, Writers, Weights

-----------------------------------------------------------------------------
(* The two tools                                                            *)

(* One run of rotate.py. *)
LEMMA RotateKeeps ==
  ASSUME NKV \in Nat, Ratio \in Nat \ {0}, FoldInv, NEW r2 \in BOOLEAN, Rotate(r2)
  PROVE  FoldInv'
<1> DEFINE residual == output[<<"embed", 0>>]
<1>1. /\ \A w \in Writers : output[w] = residual
      /\ \A w \in Readers : Fused(w) = <<Gain(NormOf(w))>> \o residual
  BY DEF FoldInv, SameFunction, ResidualUndone
<1>2. residual \in Seq(Folds) /\ R1 \in Folds
      /\ \A w \in Readers : Gain(NormOf(w)) \in Folds /\ NormOf(w) \in Norms
  BY Kinds, ReaderHasNorm DEF FoldInv, FoldTypes, Folds
<1>3. \A w \in Weights : input'[w] = IF w \in Readers THEN Append(Fused(w), R1) ELSE input[w]
  BY DEF Rotate
<1>4. \A w \in Weights : output'[w] = IF w \in Writers THEN Append(output[w], R1) ELSE output[w]
  BY DEF Rotate
<1>5. \A n \in Norms : gain'[n] = FALSE
  BY DEF Rotate
<1>6. ASSUME NEW w \in Readers
      PROVE  /\ input'[w] = <<Gain(NormOf(w))>> \o Append(residual, R1)
             /\ input'[w] \in Seq(Folds)
  <2>1. Append(<<Gain(NormOf(w))>> \o residual, R1) = <<Gain(NormOf(w))>> \o Append(residual, R1)
    BY <1>2, ConcatAppend
  <2>2. <<Gain(NormOf(w))>> \o Append(residual, R1) \in Seq(Folds)
    BY <1>2
  <2>3. w \in Weights
    BY Kinds
  <2>4. input'[w] = Append(Fused(w), R1)
    BY <1>3, <2>3
  <2>5. Fused(w) = <<Gain(NormOf(w))>> \o residual
    BY <1>1
  <2> QED
    BY <2>1, <2>2, <2>4, <2>5
<1>7. FoldTypes'
  <2>1. \A w \in Weights : input'[w] \in Seq(Folds)
    BY <1>3, <1>6 DEF FoldInv, FoldTypes
  <2>2. ASSUME NEW w \in Weights PROVE output'[w] \in Seq(Folds)
    <3>1. output[w] \in Seq(Folds)
      BY DEF FoldInv, FoldTypes
    <3>2. Append(output[w], R1) \in Seq(Folds)
      BY <1>2, <3>1
    <3> QED
      BY <1>4, <3>1, <3>2
  <2>3. /\ input' = [w \in Weights |-> input'[w]] /\ output' = [w \in Weights |-> output'[w]]
        /\ gain' \in [Norms -> BOOLEAN] /\ run' \in Nat
    BY DEF Rotate, FoldInv, FoldTypes
  <2>4. input' \in [Weights -> Seq(Folds)]
    BY <2>1, <2>3
  <2>5. output' \in [Weights -> Seq(Folds)]
    BY <2>2, <2>3
  <2> QED
    BY <2>3, <2>4, <2>5 DEF FoldTypes, Folds, Ls, Norms, Gain, R1, R2
<1>8. \A w \in Writers : output'[w] = Append(residual, R1)
  BY <1>1, <1>4, Kinds
<1>9. ASSUME NEW w \in Readers PROVE Fused(w)' = <<Gain(NormOf(w))>> \o Append(residual, R1)
  <2>1. Fused(w)' = input'[w] \o << >>
    BY <1>2, <1>5 DEF Fused
  <2>2. input'[w] \o << >> = input'[w]
    BY <1>6
  <2> QED
    BY <1>6, <2>1, <2>2
<1>10. ASSUME NEW l \in Ls, NEW h \in QH PROVE heads'.o[<<l, h>>] = heads'.v[<<l, h \div Ratio>>]
  <2>1. heads.o[<<l, h>>] = heads.v[<<l, h \div Ratio>>]
    BY DEF FoldInv, SameFunction, HeadsUndone
  <2>2. <<l, h \div Ratio>> \in Ls \X KV /\ <<l, h>> \in Ls \X QH
    BY KvOfHead
  <2>3. CASE r2
    BY <2>1, <2>2, <2>3 DEF Rotate
  <2>4. CASE ~r2
    BY <2>1, <2>4 DEF Rotate
  <2> QED
    BY <2>3, <2>4
<1>11. ASSUME NEW l \in Ls
       PROVE  /\ input'[<<"down_proj", l>>] = output'[<<"up_proj", l>>]
              /\ \A i \in DOMAIN output'[<<"up_proj", l>>] :
                   output'[<<"up_proj", l>>][i][1] = "scale"
              /\ \A n \in {"q_proj", "k_proj", "gate_proj"} : output'[<<n, l>>] = << >>
  <2>1. input'[<<"down_proj", l>>] = input[<<"down_proj", l>>]
    BY <1>3, Kinds
  <2>2. output'[<<"up_proj", l>>] = output[<<"up_proj", l>>]
    BY <1>4, Kinds
  <2>3. ASSUME NEW n \in {"q_proj", "k_proj", "gate_proj"}
        PROVE  output'[<<n, l>>] = output[<<n, l>>]
    <3>1. <<n, l>> \in Weights /\ <<n, l>> \notin Writers
      BY Kinds
    <3> QED
      BY <1>4, <3>1
  <2> QED
    BY <2>1, <2>2, <2>3 DEF FoldInv, SameFunction, RowsUndone
<1>12. tied' = FALSE
  BY DEF Rotate
<1>13. ResidualUndone'
  BY <1>8, <1>9, <1>12, Kinds DEF ResidualUndone
<1>14. HeadsUndone'
  BY <1>10 DEF HeadsUndone
<1>15. RowsUndone'
  BY <1>11 DEF RowsUndone
<1> QED
  BY <1>7, <1>13, <1>14, <1>15 DEF FoldInv, SameFunction

(* One run of smooth.py. *)
LEMMA SmoothKeeps ==
  ASSUME NKV \in Nat, Ratio \in Nat \ {0}, FoldInv, Smooth
  PROVE  FoldInv'
<1>1. \A w \in Weights :
        input'[w] = IF w[1] = "down_proj" THEN Append(input[w], Scale(w[2], NKV)) ELSE input[w]
  BY DEF Smooth
<1>2. \A w \in Weights :
        output'[w] = IF w[1] = "up_proj" THEN Append(output[w], Scale(w[2], NKV)) ELSE output[w]
  BY DEF Smooth
<1>3. tied' = tied /\ gain' = gain
  BY DEF Smooth
<1>4. ASSUME NEW l \in Ls PROVE Scale(l, NKV) \in Folds /\ Scale(l, NKV)[1] = "scale"
  BY DEF Scale, Folds, FoldInv, FoldTypes
<1>5. ASSUME NEW w \in Weights, w[1] \in {"down_proj", "up_proj"}
      PROVE  w[2] \in Ls
  BY <1>5 DEF Weights, Readers, Writers
<1>6. FoldTypes'
  <2>1. ASSUME NEW w \in Weights PROVE input'[w] \in Seq(Folds)
    <3>1. input[w] \in Seq(Folds)
      BY DEF FoldInv, FoldTypes
    <3>2. w[1] = "down_proj" => Append(input[w], Scale(w[2], NKV)) \in Seq(Folds)
      BY <1>4, <1>5, <3>1
    <3> QED
      BY <1>1, <3>1, <3>2
  <2>2. ASSUME NEW w \in Weights PROVE output'[w] \in Seq(Folds)
    <3>1. output[w] \in Seq(Folds)
      BY DEF FoldInv, FoldTypes
    <3>2. w[1] = "up_proj" => Append(output[w], Scale(w[2], NKV)) \in Seq(Folds)
      BY <1>4, <1>5, <3>1
    <3> QED
      BY <1>2, <3>1, <3>2
  <2>3. /\ input' = [w \in Weights |-> input'[w]] /\ output' = [w \in Weights |-> output'[w]]
        /\ gain' \in [Norms -> BOOLEAN] /\ run' \in Nat
    BY DEF Smooth, FoldInv, FoldTypes
  <2>4. input' \in [Weights -> Seq(Folds)]
    BY <2>1, <2>3
  <2>5. output' \in [Weights -> Seq(Folds)]
    BY <2>2, <2>3
  <2> QED
    BY <2>3, <2>4, <2>5 DEF FoldTypes, Folds, Ls, Norms, Gain, R1, R2
<1>7. /\ \A w \in Writers : output'[w] = output[w]
      /\ \A w \in Readers : input'[w] = input[w]
      /\ \A l \in Ls : \A n \in {"q_proj", "k_proj", "gate_proj"} :
           output'[<<n, l>>] = output[<<n, l>>]
  BY <1>1, <1>2, Kinds
<1>8. \A w \in Readers : Fused(w)' = Fused(w)
  BY <1>3, <1>7 DEF Fused
<1>9. ASSUME NEW l \in Ls, NEW h \in QH PROVE heads'.o[<<l, h>>] = heads'.v[<<l, h \div Ratio>>]
  <2>1. heads.o[<<l, h>>] = heads.v[<<l, h \div Ratio>>]
    BY DEF FoldInv, SameFunction, HeadsUndone
  <2>2. <<l, h \div Ratio>> \in Ls \X KV /\ <<l, h>> \in Ls \X QH
    BY KvOfHead
  <2>3. heads'.o[<<l, h>>] = Append(heads.o[<<l, h>>], Scale(l, h \div Ratio))
    BY <2>2 DEF Smooth, KvOf
  <2>4. heads'.v[<<l, h \div Ratio>>] = Append(heads.v[<<l, h \div Ratio>>], Scale(l, h \div Ratio))
    BY <2>2 DEF Smooth
  <2> QED
    BY <2>1, <2>3, <2>4
<1>10. ASSUME NEW l \in Ls
       PROVE  /\ input'[<<"down_proj", l>>] = output'[<<"up_proj", l>>]
              /\ \A i \in DOMAIN output'[<<"up_proj", l>>] :
                   output'[<<"up_proj", l>>][i][1] = "scale"
  <2> DEFINE s == output[<<"up_proj", l>>]
             e == Scale(l, NKV)
  <2>1. /\ s \in Seq(Folds) /\ input[<<"down_proj", l>>] = s
        /\ \A i \in DOMAIN s : s[i][1] = "scale"
    BY Kinds DEF FoldInv, FoldTypes, SameFunction, RowsUndone
  <2>2. input'[<<"down_proj", l>>] = Append(s, e) /\ output'[<<"up_proj", l>>] = Append(s, e)
    BY <1>1, <1>2, <2>1, Kinds
  <2>3. e \in Folds /\ e[1] = "scale"
    BY <1>4
  <2> HIDE DEF s, e
  <2>4. \A i \in DOMAIN Append(s, e) : Append(s, e)[i][1] = "scale"
    BY <2>1, <2>3
  <2> QED
    BY <2>2, <2>4
<1>11. ResidualUndone'
  BY <1>3, <1>7, <1>8, Kinds DEF FoldInv, SameFunction, ResidualUndone
<1>12. HeadsUndone'
  BY <1>9 DEF HeadsUndone
<1>13. RowsUndone'
  BY <1>7, <1>10 DEF RowsUndone, FoldInv, SameFunction
<1> QED
  BY <1>6, <1>11, <1>12, <1>13 DEF FoldInv, SameFunction

(* However often rotate.py and smooth.py are run, and in which order, the   *)
(* checkpoint stays the function it was.                                    *)
THEOREM FunctionStaysSame ==
  ASSUME NKV \in Nat, Ratio \in Nat \ {0}
  PROVE  FoldSpec => []SameFunction
<1>1. FoldInit => FoldInv
  <2> SUFFICES ASSUME FoldInit PROVE FoldInv
    OBVIOUS
  <2>1. FoldTypes
    BY DEF FoldInit, FoldTypes
  <2>2. \A w \in Weights : output[w] = << >> /\ input[w] = << >>
    BY DEF FoldInit
  <2>3. ASSUME NEW w \in Readers PROVE Fused(w) = <<Gain(NormOf(w))>> \o << >>
    <3>1. gain[NormOf(w)] /\ input[w] = << >>
      BY <2>2, Kinds, ReaderHasNorm DEF FoldInit
    <3>2. Fused(w) = << >> \o <<Gain(NormOf(w))>>
      BY <3>1 DEF Fused
    <3>3. \A g : << >> \o <<g>> = <<g>> \o << >>
      OBVIOUS
    <3> QED
      BY <3>2, <3>3
  <2>4. \A l \in Ls, h \in QH : heads.o[<<l, h>>] = heads.v[<<l, h \div Ratio>>]
    BY KvOfHead DEF FoldInit
  <2>5. gain[<<"final", 0>>]
    BY DEF FoldInit, Norms
  <2>6. output[<<"embed", 0>>] = << >>
    BY <2>2, Kinds
  <2>7. ResidualUndone
    BY <2>2, <2>3, <2>5, <2>6, Kinds DEF ResidualUndone
  <2>8. RowsUndone
    <3>1. ASSUME NEW l \in Ls
          PROVE  /\ input[<<"down_proj", l>>] = << >> /\ output[<<"up_proj", l>>] = << >>
                 /\ \A n \in {"q_proj", "k_proj", "gate_proj"} : output[<<n, l>>] = << >>
      BY <2>2, Kinds
    <3>2. DOMAIN << >> = {}
      OBVIOUS
    <3> QED
      BY <3>1, <3>2 DEF RowsUndone
  <2>9. SameFunction
    BY <2>4, <2>7, <2>8 DEF SameFunction, HeadsUndone
  <2> QED
    BY <2>1, <2>9 DEF FoldInv
<1>2. FoldInv /\ [FoldNext]_foldVars => FoldInv'
  <2> SUFFICES ASSUME FoldInv, [FoldNext]_foldVars PROVE FoldInv'
    OBVIOUS
  <2>1. ASSUME NEW r2 \in BOOLEAN, Rotate(r2) PROVE FoldInv'
    BY <2>1, RotateKeeps
  <2>2. CASE Smooth
    BY <2>2, SmoothKeeps
  <2>3. CASE UNCHANGED foldVars
    BY <2>3 DEF foldVars, FoldInv, FoldTypes, SameFunction, ResidualUndone, HeadsUndone, RowsUndone, Fused
  <2> QED
    BY <2>1, <2>2, <2>3 DEF FoldNext
<1>3. FoldInv => SameFunction
  BY DEF FoldInv
<1> QED
  BY <1>1, <1>2, <1>3, PTL DEF FoldSpec

-----------------------------------------------------------------------------
(* The calibration                                                          *)

(* What the first m samples are after n quantised layers.                   *)
Passed(n)   == [l \in 1 .. n |-> Linears]
After(x, n) == [sample |-> x, passed |-> Passed(n)]
Batch(m, n) == [x \in 1 .. m |-> After(x, n)]

IsBuffer(b) == b = [x \in Samples |-> b[x]]

CalibTypes ==
  /\ calibPc \in {"capture", "layer", "calibrate", "quantise", "outputs", "save", "saved"}
  /\ li \in 1 .. NLayers + 1 /\ sample \in 1 .. NSamples + 1
  /\ quant \in [1 .. NLayers -> SUBSET Linears]
  /\ IsBuffer(inps) /\ IsBuffer(outs)

(* Layers below li are quantised in full, those above not at all.           *)
Progress ==
  /\ \A l \in 1 .. NLayers : (l < li => quant[l] = Linears) /\ (l > li => quant[l] = {})
  /\ calibPc \in {"capture", "layer", "calibrate"} => li <= NLayers /\ quant[li] = {}
  /\ calibPc = "quantise" => li <= NLayers
  /\ calibPc = "outputs" => li <= NLayers /\ quant[li] = Linears
  /\ calibPc \in {"save", "saved"} => li = NLayers + 1

(* What is in the buffers and in the Hessians at each step.                 *)
Buffers ==
  /\ calibPc = "capture" =>
       li = 1 /\ cached = sample - 1 /\ \A x \in 1 .. sample - 1 : inps[x] = After(x, 0)
  /\ calibPc # "capture" => \A x \in Samples : inps[x] = After(x, li - 1)
  /\ calibPc = "outputs" => \A x \in 1 .. sample - 1 : outs[x] = After(x, li)

Hessians ==
  /\ hooked <=> calibPc = "calibrate"
  /\ calibPc = "calibrate" => hess = [n \in Linears |-> Batch(sample - 1, li - 1)]
  /\ calibPc = "quantise" => hess = [n \in Linears |-> Batch(NSamples, li - 1)]

Archive ==
  /\ DOMAIN packed = {k \in (1 .. NLayers) \X Linears : k[2] \in quant[k[1]]}
  /\ \A k \in DOMAIN packed : packed[k] = Batch(NSamples, k[1] - 1)

CalibInv == CalibTypes /\ Progress /\ Buffers /\ Hessians /\ Archive

(* One more layer, one more sample. *)
LEMMA PassedAppend ==
  ASSUME NEW n \in Nat
  PROVE  Append(Passed(n), Linears) = Passed(n + 1)
<1>1. Passed(n) \in Seq({Linears}) /\ Len(Passed(n)) = n
  BY DEF Passed
<1>2. /\ Append(Passed(n), Linears) \in Seq({Linears})
      /\ Len(Append(Passed(n), Linears)) = n + 1
  BY <1>1, AppendProperties
<1>3. /\ Passed(n + 1) \in Seq({Linears}) /\ Len(Passed(n + 1)) = n + 1
  BY DEF Passed
<1>4. \A l \in 1 .. n + 1 : Append(Passed(n), Linears)[l] = Passed(n + 1)[l]
  BY <1>1, AppendProperties DEF Passed
<1> QED
  BY <1>2, <1>3, <1>4, SeqEqual

LEMMA BatchAppend ==
  ASSUME NEW m \in Nat, NEW n
  PROVE  Append(Batch(m, n), After(m + 1, n)) = Batch(m + 1, n)
<1> DEFINE T == {After(x, n) : x \in Nat}
<1>1. Batch(m, n) \in Seq(T) /\ Len(Batch(m, n)) = m /\ After(m + 1, n) \in T
  BY DEF Batch
<1>2. /\ Batch(m + 1, n) \in Seq(T) /\ Len(Batch(m + 1, n)) = m + 1
      /\ \A x \in 1 .. m + 1 : Batch(m + 1, n)[x] = After(x, n)
      /\ \A x \in 1 .. m : Batch(m, n)[x] = After(x, n)
  BY DEF Batch
<1> HIDE DEF T
<1>3. /\ Append(Batch(m, n), After(m + 1, n)) \in Seq(T)
      /\ Len(Append(Batch(m, n), After(m + 1, n))) = m + 1
      /\ \A x \in 1 .. m : Append(Batch(m, n), After(m + 1, n))[x] = Batch(m, n)[x]
      /\ Append(Batch(m, n), After(m + 1, n))[m + 1] = After(m + 1, n)
  BY <1>1, AppendProperties
<1>4. \A x \in 1 .. m + 1 : Append(Batch(m, n), After(m + 1, n))[x] = Batch(m + 1, n)[x]
  BY <1>2, <1>3
<1> QED
  BY <1>2, <1>3, <1>4, SeqEqual

(* An empty Hessian, a sample through the current layer. *)
LEMMA NoHessIsBatch ==
  ASSUME NEW n
  PROVE  NoHess = [x \in Linears |-> Batch(0, n)]
<1>1. << >> = Batch(0, n)
  BY DEF Batch
<1> QED
  BY <1>1 DEF NoHess

LEMMA ForwardPasses ==
  ASSUME NEW x, NEW n \in Nat, quant[n + 1] = Linears
  PROVE  Forward(After(x, n), n + 1) = After(x, n + 1)
<1>1. Forward(After(x, n), n + 1) = [After(x, n) EXCEPT !.passed = Append(@, Linears)]
  BY DEF Forward
<1> QED
  BY <1>1, PassedAppend DEF After

LEMMA CaptureKeeps == ASSUME CalibInv, Capture PROVE CalibInv'
<1> USE CalibAssumption DEF Samples
<1>1. /\ calibPc = "capture" /\ calibPc' = "capture" /\ sample \in 1 .. NSamples
      /\ cached = sample - 1 /\ li = 1
      /\ inps' = [inps EXCEPT ![sample] = After(sample, 0)]
      /\ cached' = cached + 1 /\ sample' = sample + 1
  <2>1. Passed(0) = << >>
    BY DEF Passed
  <2>2. calibPc = "capture" /\ cached + 1 = sample /\ sample \in 1 .. NSamples
    BY DEF Capture, CalibInv, CalibTypes, Buffers
  <2> QED
    BY <2>1, <2>2 DEF Capture, CalibInv, Buffers, After
<1>2. UNCHANGED <<li, outs, hooked, hess, quant, packed>>
  BY DEF Capture
<1>3. IsBuffer(inps') /\ inps'[sample] = After(sample, 0)
      /\ \A x \in Samples \ {sample} : inps'[x] = inps[x]
  <2>1. IsBuffer(inps) /\ sample \in Samples
    BY <1>1 DEF CalibInv, CalibTypes
  <2> QED
    BY <1>1, <2>1 DEF IsBuffer
<1>4. CalibTypes' /\ Progress'
  BY <1>1, <1>2, <1>3 DEF CalibInv, CalibTypes, Progress
<1>5. Buffers'
  BY <1>1, <1>2, <1>3 DEF CalibInv, CalibTypes, Buffers
<1>6. Hessians' /\ Archive'
  BY <1>1, <1>2 DEF CalibInv, Hessians, Archive
<1> QED
  BY <1>4, <1>5, <1>6 DEF CalibInv

LEMMA HookKeeps == ASSUME CalibInv, Hook PROVE CalibInv'
<1> USE CalibAssumption DEF Samples
<1>1. /\ calibPc' = "calibrate" /\ sample' = 1 /\ hooked' = TRUE /\ hess' = NoHess
      /\ UNCHANGED <<li, cached, inps, outs, quant, packed>>
      /\ calibPc \in {"capture", "layer"} /\ (calibPc = "capture" => sample > NSamples)
  BY DEF Hook
<1>2. CalibTypes'
  BY <1>1 DEF CalibInv, CalibTypes
<1>3. Progress'
  BY <1>1 DEF CalibInv, Progress
<1>4. Buffers'
  BY <1>1 DEF CalibInv, CalibTypes, Buffers
<1>5. Hessians'
  BY <1>1, NoHessIsBatch DEF CalibInv, Hessians
<1>6. Archive'
  BY <1>1 DEF CalibInv, Archive
<1> QED
  BY <1>2, <1>3, <1>4, <1>5, <1>6 DEF CalibInv

LEMMA CalibrateKeeps == ASSUME CalibInv, Calibrate PROVE CalibInv'
<1> USE CalibAssumption DEF Samples
<1>1. /\ calibPc = "calibrate" /\ calibPc' = "calibrate" /\ sample \in 1 .. NSamples
      /\ sample' = sample + 1 /\ hess' = Seen(inps[sample])
      /\ UNCHANGED <<li, cached, inps, outs, hooked, quant, packed>>
  BY DEF Calibrate, CalibInv, CalibTypes
<1>2. hess' = [n \in Linears |-> Batch(sample, li - 1)]
  <2>1. inps[sample] = After(sample, li - 1) /\ hooked
        /\ \A n \in Linears : hess[n] = Batch(sample - 1, li - 1)
    BY <1>1 DEF CalibInv, Buffers, Hessians
  <2>2. Append(Batch(sample - 1, li - 1), After(sample, li - 1)) = Batch(sample, li - 1)
    <3>1. sample - 1 \in Nat /\ (sample - 1) + 1 = sample
      BY <1>1
    <3> QED
      BY <3>1, BatchAppend
  <2> QED
    BY <1>1, <2>1, <2>2 DEF Seen
<1>3. CalibTypes'
  BY <1>1 DEF CalibInv, CalibTypes
<1>4. Progress'
  BY <1>1 DEF CalibInv, Progress
<1>5. Buffers' /\ Archive'
  BY <1>1 DEF CalibInv, CalibTypes, Buffers, Archive
<1>6. Hessians'
  <2>1. sample' - 1 = sample
    BY <1>1
  <2>2. hooked'
    BY <1>1 DEF CalibInv, Hessians
  <2> QED
    BY <1>1, <1>2, <2>1, <2>2 DEF Hessians
<1> QED
  BY <1>3, <1>4, <1>5, <1>6 DEF CalibInv

LEMMA UnhookKeeps == ASSUME CalibInv, Unhook PROVE CalibInv'
<1> USE CalibAssumption DEF Samples
<1>1. /\ calibPc = "calibrate" /\ calibPc' = "quantise" /\ sample = NSamples + 1
      /\ hooked' = FALSE
      /\ UNCHANGED <<li, sample, cached, inps, outs, hess, quant, packed>>
  BY DEF Unhook, CalibInv, CalibTypes
<1>2. CalibTypes'
  BY <1>1 DEF CalibInv, CalibTypes
<1>3. Progress'
  BY <1>1 DEF CalibInv, Progress
<1>4. Buffers' /\ Archive'
  BY <1>1 DEF CalibInv, CalibTypes, Buffers, Archive
<1>5. Hessians'
  BY <1>1 DEF CalibInv, Hessians
<1> QED
  BY <1>2, <1>3, <1>4, <1>5 DEF CalibInv

LEMMA QuantiseKeeps == ASSUME CalibInv, Quantise PROVE CalibInv'
<1> USE CalibAssumption DEF Samples
<1>1. PICK i \in DOMAIN LinearOrder :
        /\ quant' = [quant EXCEPT ![li] = @ \cup {LinearOrder[i]}]
        /\ packed' = [k \in DOMAIN packed \cup {<<li, LinearOrder[i]>>} |->
                        IF k = <<li, LinearOrder[i]>> THEN hess[LinearOrder[i]] ELSE packed[k]]
  BY DEF Quantise
<1> DEFINE n == LinearOrder[i]
<1>2. /\ calibPc = "quantise" /\ sample' = 1
      /\ calibPc' = IF quant'[li] = Linears THEN "outputs" ELSE "quantise"
      /\ UNCHANGED <<li, cached, inps, outs, hooked, hess>>
  BY DEF Quantise
<1>3. n \in Linears /\ li \in 1 .. NLayers
  BY <1>2 DEF Linears, Range, CalibInv, CalibTypes, Progress
<1>4. /\ quant' = [quant EXCEPT ![li] = @ \cup {n}]
      /\ packed' = [k \in DOMAIN packed \cup {<<li, n>>} |->
                      IF k = <<li, n>> THEN hess[n] ELSE packed[k]]
  BY <1>1
<1> HIDE DEF n
<1>5. CalibTypes'
  BY <1>2, <1>3, <1>4 DEF CalibInv, CalibTypes
<1>6. Progress'
  BY <1>2, <1>3, <1>4 DEF CalibInv, CalibTypes, Progress
<1>7. Buffers' /\ Hessians'
  BY <1>2, <1>3 DEF CalibInv, CalibTypes, Buffers, Hessians
<1>8. Archive'
  <2>1. hess[n] = Batch(NSamples, li - 1)
    BY <1>2, <1>3 DEF CalibInv, Hessians
  <2>2. DOMAIN packed' = {k \in (1 .. NLayers) \X Linears : k[2] \in quant'[k[1]]}
    BY <1>3, <1>4 DEF CalibInv, CalibTypes, Archive
  <2>3. \A k \in DOMAIN packed' : packed'[k] = Batch(NSamples, k[1] - 1)
    BY <1>3, <1>4, <2>1 DEF CalibInv, Archive
  <2> QED
    BY <1>2, <2>2, <2>3 DEF Archive
<1> QED
  BY <1>5, <1>6, <1>7, <1>8 DEF CalibInv

LEMMA OutputsKeeps == ASSUME CalibInv, Outputs PROVE CalibInv'
<1> USE CalibAssumption DEF Samples
<1>1. /\ calibPc = "outputs" /\ calibPc' = "outputs" /\ sample \in 1 .. NSamples
      /\ sample' = sample + 1 /\ outs' = [outs EXCEPT ![sample] = Forward(inps[sample], li)]
      /\ UNCHANGED <<li, cached, inps, hooked, quant, packed>>
  BY DEF Outputs, CalibInv, CalibTypes
<1>2. Forward(inps[sample], li) = After(sample, li)
  <2>1. inps[sample] = After(sample, li - 1) /\ quant[li] = Linears /\ li \in 1 .. NLayers
    BY <1>1 DEF CalibInv, CalibTypes, Buffers, Progress
  <2>2. li - 1 \in Nat /\ (li - 1) + 1 = li
    BY <2>1
  <2> QED
    BY <2>1, <2>2, ForwardPasses
<1>3. IsBuffer(outs') /\ outs'[sample] = After(sample, li)
      /\ \A x \in Samples \ {sample} : outs'[x] = outs[x]
  <2>1. IsBuffer(outs) /\ sample \in Samples
    BY <1>1 DEF CalibInv, CalibTypes
  <2> QED
    BY <1>1, <1>2, <2>1 DEF IsBuffer
<1>4. CalibTypes' /\ Progress'
  BY <1>1, <1>3 DEF CalibInv, CalibTypes, Progress
<1>5. Buffers'
  BY <1>1, <1>2, <1>3 DEF CalibInv, CalibTypes, Buffers
<1>6. Hessians' /\ Archive'
  BY <1>1 DEF CalibInv, Hessians, Archive
<1> QED
  BY <1>4, <1>5, <1>6 DEF CalibInv

LEMMA SwapKeeps == ASSUME CalibInv, Swap PROVE CalibInv'
<1> USE CalibAssumption DEF Samples
<1>1. /\ calibPc = "outputs" /\ calibPc' = IF li < NLayers THEN "layer" ELSE "save"
      /\ sample = NSamples + 1 /\ li' = li + 1 /\ inps' = outs /\ outs' = inps
      /\ UNCHANGED <<sample, cached, hooked, hess, quant, packed>>
  BY DEF Swap, CalibInv, CalibTypes
<1>2. li \in 1 .. NLayers /\ quant[li] = Linears /\ li' - 1 = li
  BY <1>1 DEF CalibInv, CalibTypes, Progress
<1>3. CalibTypes'
  BY <1>1, <1>2 DEF CalibInv, CalibTypes
<1>4. Progress'
  BY <1>1, <1>2 DEF CalibInv, CalibTypes, Progress
<1>5. Buffers'
  BY <1>1, <1>2 DEF CalibInv, Buffers
<1>6. Hessians' /\ Archive'
  BY <1>1 DEF CalibInv, Hessians, Archive
<1> QED
  BY <1>3, <1>4, <1>5, <1>6 DEF CalibInv

(* quantize.py: for any number of layers, samples and linears, each linear  *)
(* is quantised from what comes out of the quantised layers before it, and  *)
(* none is missing from the archive that is saved.                          *)
THEOREM EachLayerOnQuantizedOnes == CalibSpec => []CalibratedOnQuantized
<1> USE CalibAssumption
<1>1. CalibInit => CalibInv
  <2> SUFFICES ASSUME CalibInit PROVE CalibInv
    OBVIOUS
  <2> USE DEF CalibInit, Samples
  <2>1. CalibTypes
    BY DEF CalibTypes, IsBuffer
  <2>2. Progress /\ Buffers /\ Hessians
    BY DEF Progress, Buffers, Hessians
  <2>3. Archive
    BY DEF Archive
  <2> QED
    BY <2>1, <2>2, <2>3 DEF CalibInv
<1>2. CalibInv /\ [CalibNext]_calibVars => CalibInv'
  <2> SUFFICES ASSUME CalibInv, [CalibNext]_calibVars PROVE CalibInv'
    OBVIOUS
  <2>1. CASE Save
    BY <2>1 DEF Save, CalibInv, CalibTypes, Progress, Buffers, Hessians, Archive,
                Samples
  <2>2. CASE UNCHANGED calibVars
    BY <2>2 DEF calibVars, CalibInv, CalibTypes, Progress, Buffers, Hessians, Archive,
                Samples
  <2> QED
    BY <2>1, <2>2, CaptureKeeps, HookKeeps, CalibrateKeeps, UnhookKeeps, QuantiseKeeps,
       OutputsKeeps, SwapKeeps DEF CalibNext
<1>3. CalibInv => CalibratedOnQuantized
  <2> SUFFICES ASSUME CalibInv PROVE CalibratedOnQuantized
    OBVIOUS
  <2>1. \A k \in DOMAIN packed : packed[k] = Batch(NSamples, k[1] - 1)
    BY DEF CalibInv, Archive
  <2>2. calibPc = "saved" => DOMAIN packed = (1 .. NLayers) \X Linears
    BY DEF CalibInv, Archive, Progress
  <2> QED
    BY <2>1, <2>2 DEF CalibratedOnQuantized, Batch, After, Passed, Samples
<1> QED
  BY <1>1, <1>2, <1>3, PTL DEF CalibSpec

-----------------------------------------------------------------------------
(* The bank                                                                 *)

Cell == All \X Nat
Line == [name : All, K : Nat, N : Nat, bankOffset : Nat, bankBytes : Nat,
         scaleOffset : Nat, scaleBytes : Nat]

BankTypes ==
  /\ bankPc \in {"idle", "layers", "open", "write", "done", "failed"}
  /\ args \in [nmult : Nat, group : Nat, npz : SUBSET All, npzGroup : Nat, all : BOOLEAN]
  /\ bankPc # "idle" => /\ args.nmult # 0 /\ args.npz \in {{}, Probed, All}
                        /\ \A t \in args.npz : Archived(args.npzGroup, Tensors[t].K)
  /\ todo \in SUBSET All
  /\ bank \in Seq(Cell) /\ bankScales \in Seq(Cell) /\ idx \in Seq(Line)

(* What main finds out from the linears of LAYERS holds of them all.        *)
GroupsAgree ==
  \A t \in All : ScalesPerKernel(GroupOf(t), Tensors[t].K)
                   \in {1, ScalesPerKernel(args.group, Tensors[t].K)}

(* A line of the index: where it begins, and what lies there in a file.     *)
LinesAdjoin(e) ==
  \A i \in 1 .. Len(e) :
    e[i].bankOffset = BankEnd(e, i - 1) /\ e[i].scaleOffset = ScaleEnd(e, i - 1)

HasSegment(file, o, cells) ==
  o + Len(cells) <= Len(file) /\ \A c \in 1 .. Len(cells) : file[o + c] = cells[c]

LineWritten(x) ==
  /\ x.bankBytes = Len(BankCells(x.name)) /\ x.scaleBytes = Len(ScaleCells(x.name))
  /\ x.N = Padded(Tensors[x.name].N, args.nmult) /\ x.K = Tensors[x.name].K
  /\ HasSegment(bank, x.bankOffset, BankCells(x.name))
  /\ HasSegment(bankScales, x.scaleOffset, ScaleCells(x.name))

Indexed ==
  /\ args.all /\ GroupsAgree
  /\ {idx[i].name : i \in 1 .. Len(idx)} = All \ todo /\ Len(idx) = Cardinality(All \ todo)
  /\ off = Len(bank) /\ BankEnd(idx, Len(idx)) = Len(bank)
  /\ soff = Len(bankScales) /\ ScaleEnd(idx, Len(idx)) = Len(bankScales)
  /\ LinesAdjoin(idx)
  /\ \A i \in 1 .. Len(idx) : LineWritten(idx[i])

BankInv ==
  /\ BankTypes
  /\ bankPc = "open" => args.all /\ GroupsAgree
  /\ bankPc = "write" => Indexed
  /\ bankPc = "done" /\ args.all =>
       Indexed /\ todo = {} /\ index = [tensors |-> idx, group |-> args.group, total |-> off]

(* Padded kernels and the cells of a tensor. *)
LEMMA PaddedIsNat ==
  ASSUME NEW n \in Nat, NEW m \in Nat \ {0}
  PROVE  Padded(n, m) \in Nat
<1>1. (n + m - 1) \div m \in Nat
  BY Division
<1> QED
  BY <1>1 DEF Padded

LEMMA CellsOfTensor ==
  ASSUME BankTypes, bankPc # "idle", NEW t \in All
  PROVE  /\ Tensors[t].N \in Nat /\ Tensors[t].K \in Nat
         /\ Padded(Tensors[t].N, args.nmult) \in Nat
         /\ BankCells(t) \in Seq(Cell) /\ ScaleCells(t) \in Seq(Cell)
         /\ Len(ScaleCells(t)) = Padded(Tensors[t].N, args.nmult)
                                   * ScalesPerKernel(GroupOf(t), Tensors[t].K)
<1> DEFINE P == Padded(Tensors[t].N, args.nmult)
           K == Tensors[t].K
<1>1. Tensors[t].N \in Nat /\ K \in Nat
  <2>1. Tensors \in Seq(Tensor)
    BY BankAssumption
  <2>2. t \in 1 .. Len(Tensors)
    BY <2>1 DEF All
  <2>3. Tensors[t] \in Tensor
    BY <2>1, <2>2, ElementOfSeq
  <2> QED
    BY <2>3 DEF Tensor
<1>2. P \in Nat /\ args.nmult \in Nat \ {0} /\ GroupOf(t) \in Nat
  BY <1>1, PaddedIsNat DEF BankTypes, GroupOf
<1> HIDE DEF P, K
<1>3. P \div NTile \in Nat
  BY <1>2, BankAssumption, Division
<1>4. ScalesPerKernel(GroupOf(t), K) \in Nat
  <2>1. CASE GroupOf(t) = 0 \/ GroupOf(t) >= K
    BY <2>1 DEF ScalesPerKernel
  <2>2. CASE ~(GroupOf(t) = 0 \/ GroupOf(t) >= K)
    BY <1>1, <1>2, <2>2, Division DEF ScalesPerKernel
  <2> QED
    BY <2>1, <2>2
<1>5. (P \div NTile) * K \in Nat /\ P * ScalesPerKernel(GroupOf(t), K) \in Nat
  BY <1>1, <1>2, <1>3, <1>4
<1>6. \A n \in Nat : Cells(t, n) \in Seq(Cell) /\ Len(Cells(t, n)) = n
  BY DEF Cells, Cell
<1>7. /\ BankCells(t) = Cells(t, (P \div NTile) * K)
      /\ ScaleCells(t) = Cells(t, P * ScalesPerKernel(GroupOf(t), K))
  BY DEF BankCells, ScaleCells, P, K
<1>8. /\ BankCells(t) \in Seq(Cell) /\ ScaleCells(t) \in Seq(Cell)
      /\ Len(ScaleCells(t)) = P * ScalesPerKernel(GroupOf(t), K)
  BY <1>5, <1>6, <1>7
<1> QED
  BY <1>1, <1>2, <1>8 DEF P, K

(* A file that grows keeps its segments and ends with the new one.          *)
LEMMA SegmentKept ==
  ASSUME NEW S, NEW file \in Seq(S), NEW more \in Seq(S), NEW o \in Nat,
         NEW cells \in Seq(S), HasSegment(file, o, cells)
  PROVE  HasSegment(file \o more, o, cells)
<1>1. Len(file) \in Nat /\ Len(more) \in Nat /\ Len(cells) \in Nat
  OBVIOUS
<1>2. \A c \in 1 .. Len(cells) : o + c \in 1 .. Len(file)
  BY <1>1 DEF HasSegment
<1>3. /\ Len(file \o more) = Len(file) + Len(more)
      /\ \A i \in 1 .. Len(file) : (file \o more)[i] = file[i]
  BY <1>1, ConcatProperties
<1> QED
  BY <1>1, <1>2, <1>3 DEF HasSegment

LEMMA SegmentAdded ==
  ASSUME NEW S, NEW file \in Seq(S), NEW cells \in Seq(S)
  PROVE  HasSegment(file \o cells, Len(file), cells)
<1>1. Len(file) \in Nat /\ Len(cells) \in Nat
  OBVIOUS
<1>2. /\ Len(file \o cells) = Len(file) + Len(cells)
      /\ \A i \in 1 .. Len(file) + Len(cells) :
           (file \o cells)[i] = IF i <= Len(file) THEN file[i] ELSE cells[i - Len(file)]
  BY ConcatProperties
<1>3. ASSUME NEW c \in 1 .. Len(cells) PROVE (file \o cells)[Len(file) + c] = cells[c]
  <2>1. /\ Len(file) + c \in 1 .. Len(file) + Len(cells) /\ ~(Len(file) + c <= Len(file))
        /\ (Len(file) + c) - Len(file) = c
    BY <1>1
  <2> QED
    BY <1>2, <2>1
<1> QED
  BY <1>1, <1>2, <1>3 DEF HasSegment

LEMMA SegmentIsSubSeq ==
  ASSUME NEW S, NEW file \in Seq(S), NEW o \in Nat, NEW cells \in Seq(S),
         HasSegment(file, o, cells)
  PROVE  SubSeq(file, o + 1, o + Len(cells)) = cells
<1> DEFINE n == Len(cells)
           s == SubSeq(file, o + 1, o + n)
<1>1. n \in Nat /\ Len(file) \in Nat /\ o + n <= Len(file)
  BY DEF HasSegment
<1>2. \A i \in o + 1 .. o + n : file[i] \in S
  BY <1>1
<1>3. /\ s \in Seq(S) /\ Len(s) = IF o + 1 <= o + n THEN (o + n) - (o + 1) + 1 ELSE 0
      /\ \A i \in 1 .. (o + n) - (o + 1) + 1 : s[i] = file[(o + 1) + i - 1]
  <2>1. o + 1 \in Int /\ o + n \in Int
    BY <1>1
  <2> HIDE DEF n
  <2> QED
    BY <1>2, <2>1, SubSeqProperties
<1> HIDE DEF s
<1>4. Len(s) = n
  BY <1>1, <1>3
<1>5. ASSUME NEW i \in 1 .. n PROVE s[i] = cells[i]
  <2>1. i \in 1 .. (o + n) - (o + 1) + 1 /\ (o + 1) + i - 1 = o + i
    BY <1>1
  <2> QED
    BY <1>3, <2>1 DEF HasSegment
<1>6. s = cells
  BY <1>3, <1>4, <1>5, SeqEqual
<1> QED
  BY <1>6 DEF s

LEMMA SameArgs ==
  ASSUME args' = args
  PROVE  /\ GroupsAgree' = GroupsAgree
         /\ \A t \in All : BankCells(t)' = BankCells(t) /\ ScaleCells(t)' = ScaleCells(t)
BY DEF GroupsAgree, GroupOf, BankCells, ScaleCells

LEMMA IndexedKept ==
  ASSUME Indexed, UNCHANGED <<args, todo, bank, bankScales, idx, off, soff>>, BankTypes
  PROVE  Indexed'
<1>1. ASSUME NEW i \in 1 .. Len(idx) PROVE idx[i].name \in All
  <2>1. idx[i] \in Line
    BY ElementOfSeq DEF BankTypes
  <2> QED
    BY <2>1 DEF Line
<1>2. ASSUME NEW i \in 1 .. Len(idx) PROVE LineWritten(idx[i])'
  BY <1>1, SameArgs DEF Indexed, LineWritten
<1>3. LinesAdjoin(idx)'
  BY DEF Indexed, LinesAdjoin
<1> QED
  BY <1>2, <1>3, SameArgs DEF Indexed

LEMMA StartPackKeeps ==
  ASSUME BankInv, NEW a, StartPack(a),
         a \in [nmult : NMults, group : BankGroups, npz : {{}, Probed, All},
                npzGroup : BankGroups, all : BOOLEAN]
  PROVE  BankInv'
<1>1. bankPc' = "layers" /\ args' = a /\ UNCHANGED <<todo, bank, bankScales, idx>>
  BY DEF StartPack
<1>2. /\ a.nmult \in Nat /\ a.nmult # 0 /\ a.npz \in {{}, Probed, All}
      /\ \A t \in a.npz : Archived(a.npzGroup, Tensors[t].K)
      /\ a \in [nmult : Nat, group : Nat, npz : SUBSET All, npzGroup : Nat, all : BOOLEAN]
  BY BankAssumption DEF All, StartPack
<1> QED
  BY <1>1, <1>2 DEF BankInv, BankTypes

(* Two groups that divide K into as many parts, and more than one, are one. *)
LEMMA SameParts ==
  ASSUME NEW K \in Nat \ {0}, NEW g \in 1 .. K, NEW h \in 1 .. K - 1,
         K % g = 0, K % h = 0, K \div h = K \div g
  PROVE  g = h
<1>1. K = g * (K \div g) /\ K = h * (K \div h) /\ K \div g \in Nat
  BY Division
<1>2. K \div g # 0
  BY <1>1
<1> DEFINE q == K \div g
<1>3. q \in Nat \ {0} /\ g * q = h * q
  BY <1>1, <1>2
<1> HIDE DEF q
<1>4. ASSUME g < h PROVE FALSE
  <2>1. (g + 1) * q <= h * q /\ (g + 1) * q = g * q + q
    BY <1>3, <1>4
  <2> QED
    BY <1>3, <2>1
<1>5. ASSUME h < g PROVE FALSE
  <2>1. (h + 1) * q <= g * q /\ (h + 1) * q = h * q + q
    BY <1>3, <1>5
  <2> QED
    BY <1>3, <2>1
<1> QED
  BY <1>4, <1>5

(* main finds a linear of LAYERS whose K is no smaller, and with it whether *)
(* the archive's group is --group, or one for every kernel.                 *)
LEMMA ProbedSpeakForAll ==
  ASSUME BankTypes, bankPc # "idle", \A p \in Probed : Dequantises(p)
  PROVE  GroupsAgree
<1> SUFFICES ASSUME NEW t \in All
             PROVE  ScalesPerKernel(GroupOf(t), Tensors[t].K)
                      \in {1, ScalesPerKernel(args.group, Tensors[t].K)}
  BY DEF GroupsAgree
<1>1. PICK p \in Probed : Tensors[t].K <= Tensors[p].K
  BY BankAssumption DEF All
<1>2. p \in All /\ args.npz \in {{}, Probed, All}
  BY <1>1, BankAssumption DEF All, BankTypes
<1>3. CASE t \notin args.npz
  BY <1>3 DEF GroupOf
<1>4. CASE t \in Probed
  BY <1>4 DEF Dequantises
<1>5. CASE args.npz = All
  <2> DEFINE K == Tensors[p].K
             k == Tensors[t].K
             G == args.npzGroup
             g == args.group
  <2>1. K \in Nat \ {0} /\ k \in Nat \ {0} /\ k <= K /\ G \in Nat /\ g \in Nat
    <3>1. Tensors \in Seq(Tensor)
      BY BankAssumption
    <3>2. t \in 1 .. Len(Tensors) /\ p \in 1 .. Len(Tensors)
      BY <1>2, <3>1 DEF All
    <3>3. Tensors[t] \in Tensor /\ Tensors[p] \in Tensor
      BY <3>1, <3>2, ElementOfSeq
    <3> QED
      BY <1>1, <3>3 DEF Tensor, BankTypes
  <2>2. /\ G \in 1 .. K - 1 => K % G = 0
        /\ g = 0 \/ K % g = 0
        /\ ScalesPerKernel(G, K) \in {1, ScalesPerKernel(g, K)}
    BY <1>1, <1>2, <1>5 DEF BankTypes, Archived, Dequantises, GroupOf
  <2>3. GroupOf(t) = G
    BY <1>5 DEF GroupOf
  <2> HIDE DEF K, k, G, g
  <2>4. CASE G = 0 \/ G >= K
    <3>1. G = 0 \/ G >= k
      BY <2>1, <2>4
    <3> QED
      BY <2>3, <3>1 DEF ScalesPerKernel, G, k
  <2>5. CASE G \in 1 .. K - 1
    <3>1. K % G = 0 /\ ScalesPerKernel(G, K) = K \div G
      BY <2>1, <2>2, <2>5 DEF ScalesPerKernel
    <3>2. K \div G # 1
      <4>1. K = G * (K \div G)
        BY <2>1, <2>5, <3>1, Division
      <4> QED
        BY <2>1, <2>5, <4>1
    <3>3. ScalesPerKernel(g, K) = K \div G
      BY <2>2, <3>1, <3>2
    <3>4. g \in 1 .. K - 1 /\ K % g = 0 /\ K \div g = K \div G
      BY <2>1, <2>2, <3>2, <3>3 DEF ScalesPerKernel
    <3>5. g = G
      <4>1. K \in Nat \ {0} /\ g \in 1 .. K /\ K \div G = K \div g
        BY <2>1, <3>4
      <4> QED
        BY <2>5, <3>1, <3>4, <4>1, SameParts, Zenon
    <3> QED
      BY <2>3, <3>5 DEF G, g
  <2> QED
    BY <2>1, <2>4, <2>5
<1> QED
  BY <1>2, <1>3, <1>4, <1>5

LEMMA PackLayersKeeps == ASSUME BankInv, PackLayers PROVE BankInv'
<1>1. /\ bankPc = "layers" /\ UNCHANGED <<args, todo, bank, bankScales, idx>>
      /\ bankPc' = IF \E t \in Probed : ~Quantises(t) \/ ~Dequantises(t) THEN "failed"
                   ELSE IF args.all THEN "open" ELSE "done"
  BY DEF PackLayers
<1>2. BankTypes'
  BY <1>1 DEF BankInv, BankTypes
<1>3. ASSUME bankPc' = "open" PROVE args'.all /\ GroupsAgree'
  <2>1. args.all /\ \A p \in Probed : Dequantises(p)
    BY <1>1, <1>3
  <2>2. BankTypes /\ bankPc # "idle"
    BY <1>1 DEF BankInv
  <2>3. GroupsAgree
    BY <2>1, <2>2, ProbedSpeakForAll
  <2> QED
    BY <1>1, <2>1, <2>3, SameArgs
<1>4. bankPc' # "write" /\ (bankPc' = "done" => ~args'.all)
  BY <1>1
<1> QED
  BY <1>2, <1>3, <1>4 DEF BankInv

LEMMA OpenBankKeeps == ASSUME BankInv, OpenBank PROVE BankInv'
<1>1. /\ bankPc = "open" /\ bankPc' = "write" /\ args' = args
      /\ bank' = << >> /\ bankScales' = << >> /\ idx' = << >>
      /\ off' = 0 /\ soff' = 0 /\ todo' = All
  BY DEF OpenBank
<1>2. BankTypes'
  BY <1>1 DEF BankInv, BankTypes
<1>3. args'.all /\ GroupsAgree'
  BY <1>1, SameArgs DEF BankInv
<1>4. /\ {idx'[i].name : i \in 1 .. Len(idx')} = All \ todo'
      /\ Len(idx') = Cardinality(All \ todo')
  BY <1>1, FS_EmptySet
<1>5. BankEnd(idx', Len(idx')) = 0 /\ ScaleEnd(idx', Len(idx')) = 0 /\ Len(bank') = 0
      /\ Len(bankScales') = 0 /\ Len(idx') = 0
  BY <1>1 DEF BankEnd, ScaleEnd
<1>6. Indexed'
  BY <1>1, <1>3, <1>4, <1>5 DEF Indexed, LinesAdjoin
<1> QED
  BY <1>1, <1>2, <1>6 DEF BankInv

LEMMA WriteTensorKeeps == ASSUME BankInv, WriteTensor PROVE BankInv'
<1>1. PICK t \in todo :
        /\ bank' = bank \o BankCells(t) /\ bankScales' = bankScales \o ScaleCells(t)
        /\ idx' = Append(idx, Entry(t))
        /\ off' = off + BankAdvance(t) /\ soff' = soff + Len(ScaleCells(t))
        /\ todo' = todo \ {t}
  BY DEF WriteTensor
<1>2. bankPc = "write" /\ bankPc' = "write" /\ args' = args /\ BankTypes /\ Indexed
  BY DEF WriteTensor, BankInv
<1>3. t \in All
  BY <1>1, <1>2 DEF BankTypes
<1>4. /\ BankCells(t) \in Seq(Cell) /\ ScaleCells(t) \in Seq(Cell)
      /\ Len(BankCells(t)) \in Nat /\ Len(ScaleCells(t)) \in Nat
      /\ Tensors[t].K \in Nat /\ Padded(Tensors[t].N, args.nmult) \in Nat
  BY <1>2, <1>3, CellsOfTensor
<1>5. /\ bank \in Seq(Cell) /\ bankScales \in Seq(Cell) /\ idx \in Seq(Line)
      /\ off = Len(bank) /\ soff = Len(bankScales) /\ off \in Nat /\ soff \in Nat
  BY <1>2 DEF BankTypes, Indexed
<1> DEFINE x == Entry(t)
           n == Len(idx)
<1>6. /\ x \in Line
      /\ x.name = t /\ x.K = Tensors[t].K /\ x.N = Padded(Tensors[t].N, args.nmult)
      /\ x.bankOffset = Len(bank) /\ x.bankBytes = Len(BankCells(t))
      /\ x.scaleOffset = Len(bankScales) /\ x.scaleBytes = Len(ScaleCells(t))
  BY <1>3, <1>4, <1>5 DEF Entry, Line, BankAdvance
<1>7. /\ idx' = Append(idx, x) /\ n \in Nat
      /\ idx' \in Seq(Line) /\ Len(idx') = n + 1 /\ idx'[n + 1] = x
      /\ \A i \in 1 .. n : idx'[i] = idx[i]
  <2>1. idx' = Append(idx, x) /\ n \in Nat
    BY <1>1, <1>5
  <2> QED
    BY <1>5, <1>6, <2>1, AppendProperties
<1> HIDE DEF x, n
<1>8. /\ bank' \in Seq(Cell) /\ Len(bank') = Len(bank) + Len(BankCells(t))
      /\ bankScales' \in Seq(Cell) /\ Len(bankScales') = Len(bankScales) + Len(ScaleCells(t))
  BY <1>1, <1>4, <1>5, ConcatProperties
<1>9. BankTypes'
  BY <1>1, <1>2, <1>7, <1>8 DEF BankTypes
<1>10. args'.all /\ GroupsAgree'
  BY <1>2, SameArgs DEF Indexed
<1>11. /\ {idx'[i].name : i \in 1 .. Len(idx')} = All \ todo'
       /\ Len(idx') = Cardinality(All \ todo')
  <2>1. {idx[i].name : i \in 1 .. n} = All \ todo /\ n = Cardinality(All \ todo)
    BY <1>2 DEF Indexed, n
  <2>2. All \ todo' = (All \ todo) \cup {t} /\ t \notin All \ todo
    BY <1>1, <1>3
  <2>3. IsFiniteSet(All \ todo)
    <3>1. All = 1 .. Len(Tensors) /\ Len(Tensors) \in Nat
      BY BankAssumption DEF All
    <3>2. IsFiniteSet(All)
      BY <3>1, FS_Interval
    <3> QED
      BY <3>2, FS_Difference
  <2>4. Cardinality(All \ todo') = n + 1
    BY <2>1, <2>2, <2>3, FS_AddElement
  <2>5. {idx'[i].name : i \in 1 .. n + 1} = {idx'[i].name : i \in 1 .. n} \cup {idx'[n + 1].name}
    BY <1>7
  <2>6. {idx'[i].name : i \in 1 .. n} = {idx[i].name : i \in 1 .. n}
    BY <1>7
  <2> QED
    BY <1>6, <1>7, <2>1, <2>2, <2>4, <2>5, <2>6
<1>12. /\ off' = Len(bank') /\ BankEnd(idx', Len(idx')) = Len(bank')
       /\ soff' = Len(bankScales') /\ ScaleEnd(idx', Len(idx')) = Len(bankScales')
  <2>1. n + 1 # 0
    BY <1>7
  <2> QED
    BY <1>1, <1>4, <1>5, <1>6, <1>7, <1>8, <2>1 DEF BankAdvance, BankEnd, ScaleEnd
<1>13. LinesAdjoin(idx')
  <2>1. /\ BankEnd(idx, n) = Len(bank) /\ ScaleEnd(idx, n) = Len(bankScales)
        /\ LinesAdjoin(idx)
    BY <1>2 DEF Indexed, n
  <2>2. \A i \in 0 .. n : BankEnd(idx', i) = BankEnd(idx, i) /\ ScaleEnd(idx', i) = ScaleEnd(idx, i)
    BY <1>7 DEF BankEnd, ScaleEnd
  <2>3. ASSUME NEW i \in 1 .. Len(idx')
        PROVE  /\ idx'[i].bankOffset = BankEnd(idx', i - 1)
               /\ idx'[i].scaleOffset = ScaleEnd(idx', i - 1)
    <3>1. CASE i \in 1 .. n
      <4>1. i - 1 \in 0 .. n
        BY <1>7, <3>1
      <4> QED
        BY <1>7, <2>1, <2>2, <3>1, <4>1 DEF LinesAdjoin, n
    <3>2. CASE i = n + 1
      <4>1. i - 1 = n /\ n \in 0 .. n
        BY <1>7, <3>2
      <4> QED
        BY <1>6, <1>7, <2>1, <2>2, <3>2, <4>1
    <3> QED
      BY <1>7, <3>1, <3>2
  <2> QED
    BY <2>3 DEF LinesAdjoin
<1>14. ASSUME NEW i \in 1 .. Len(idx') PROVE LineWritten(idx[i])'
  <2>1. CASE i \in 1 .. n
    <3>1. /\ idx[i] \in Line /\ LineWritten(idx[i]) /\ idx'[i] = idx[i]
      BY <1>2, <1>5, <1>7, <2>1, ElementOfSeq DEF Indexed, n
    <3>2. /\ idx[i].name \in All /\ idx[i].bankOffset \in Nat /\ idx[i].scaleOffset \in Nat
      BY <3>1 DEF Line
    <3>3. /\ BankCells(idx[i].name) \in Seq(Cell) /\ ScaleCells(idx[i].name) \in Seq(Cell)
      BY <1>2, <3>2, CellsOfTensor
    <3>4. /\ HasSegment(bank', idx[i].bankOffset, BankCells(idx[i].name))
          /\ HasSegment(bankScales', idx[i].scaleOffset, ScaleCells(idx[i].name))
      BY <1>1, <1>4, <1>5, <3>1, <3>2, <3>3, SegmentKept DEF LineWritten
    <3> QED
      BY <1>2, <3>1, <3>2, <3>4, SameArgs DEF LineWritten
  <2>2. CASE i = n + 1
    <3>1. /\ HasSegment(bank', Len(bank), BankCells(t))
          /\ HasSegment(bankScales', Len(bankScales), ScaleCells(t))
      BY <1>1, <1>4, <1>5, SegmentAdded
    <3> QED
      BY <1>2, <1>3, <1>6, <1>7, <2>2, <3>1, SameArgs DEF LineWritten
  <2> QED
    BY <1>7, <2>1, <2>2
<1>15. Indexed'
  BY <1>10, <1>11, <1>12, <1>13, <1>14 DEF Indexed
<1> QED
  BY <1>2, <1>9, <1>15 DEF BankInv

LEMMA PackFailsKeeps == ASSUME BankInv, PackFails PROVE BankInv'
<1>1. PICK t \in todo : UNCHANGED bank \/ bank' = bank \o BankCells(t)
  BY DEF PackFails
<1>2. /\ bankPc = "write" /\ bankPc' = "failed" /\ UNCHANGED <<args, todo, bankScales, idx>>
      /\ BankTypes
  BY DEF PackFails, BankInv
<1>3. bank' \in Seq(Cell)
  <2>1. t \in All /\ bank \in Seq(Cell)
    BY <1>2 DEF BankTypes
  <2>2. BankCells(t) \in Seq(Cell)
    BY <1>2, <2>1, CellsOfTensor
  <2> QED
    BY <1>1, <2>1, <2>2, ConcatProperties
<1> QED
  BY <1>2, <1>3 DEF BankInv, BankTypes

LEMMA WriteIndexKeeps == ASSUME BankInv, WriteIndex PROVE BankInv'
<1>1. /\ bankPc = "write" /\ bankPc' = "done" /\ todo = {}
      /\ index' = [tensors |-> idx, group |-> args.group, total |-> off]
      /\ UNCHANGED <<args, todo, bank, bankScales, idx, off, soff>>
  BY DEF WriteIndex
<1>2. Indexed'
  BY <1>1, IndexedKept DEF BankInv
<1> QED
  BY <1>1, <1>2 DEF BankInv, BankTypes

LEMMA BankInvHolds == BankSpec => []BankInv
<1>1. BankInit => BankInv
  BY DEF BankInit, BankInv, BankTypes, NoArgs
<1>2. BankInv /\ [BankNext]_bankVars => BankInv'
  <2> SUFFICES ASSUME BankInv, [BankNext]_bankVars PROVE BankInv'
    OBVIOUS
  <2>1. ASSUME NEW n \in NMults, NEW g \in BankGroups, NEW h \in BankGroups,
               NEW npz \in {{}, Probed, All}, NEW all \in BOOLEAN,
               StartPack([nmult |-> n, group |-> g, npz |-> npz, npzGroup |-> h, all |-> all])
        PROVE  BankInv'
    <3> DEFINE a == [nmult |-> n, group |-> g, npz |-> npz, npzGroup |-> h, all |-> all]
    <3>1. a \in [nmult : NMults, group : BankGroups, npz : {{}, Probed, All},
                 npzGroup : BankGroups, all : BOOLEAN]
      OBVIOUS
    <3>2. StartPack(a)
      BY <2>1
    <3> HIDE DEF a
    <3> QED
      BY <3>1, <3>2, StartPackKeeps
  <2>2. CASE UNCHANGED bankVars
    <3>1. UNCHANGED <<bankPc, args, todo, bank, bankScales, idx, off, soff, index>>
      BY <2>2 DEF bankVars
    <3>2. BankTypes' /\ (Indexed => Indexed') /\ (GroupsAgree => GroupsAgree')
      BY <3>1, IndexedKept, SameArgs DEF BankInv, BankTypes
    <3> QED
      BY <3>1, <3>2 DEF BankInv
  <2> QED
    BY <2>1, <2>2, PackLayersKeeps, OpenBankKeeps, WriteTensorKeeps, PackFailsKeeps,
       WriteIndexKeeps DEF BankNext
<1> QED
  BY <1>1, <1>2, PTL DEF BankSpec

(* pack_rk3588.py: for any linears, shards, padding and groups, the index   *)
(* that a finished run leaves leads to each linear's own weights and scales,*)
(* in groups of --group or one per kernel, provided that a linear of LAYERS *)
(* has the largest K.                                                       *)
THEOREM IndexLeadsToWeights == BankSpec => []BankIndexed
<1>1. BankInv => BankIndexed
  <2> SUFFICES ASSUME BankInv, bankPc = "done", args.all PROVE BankIndexed
    BY DEF BankIndexed
  <2>1. /\ BankTypes /\ Indexed /\ todo = {}
        /\ index.tensors = idx /\ index.group = args.group /\ index.total = off
    BY DEF BankInv
  <2>2. DOMAIN idx = 1 .. Len(idx)
    BY <2>1 DEF BankTypes
  <2>3. /\ {idx[i].name : i \in DOMAIN idx} = All /\ Len(idx) = Cardinality(All)
        /\ off = Len(bank) /\ BankEnd(idx, Len(idx)) = Len(bank)
        /\ ScaleEnd(idx, Len(idx)) = Len(bankScales)
    <3>1. All \ todo = All
      BY <2>1
    <3> QED
      BY <2>1, <2>2, <3>1 DEF Indexed
  <2>4. ASSUME NEW i \in DOMAIN idx
        PROVE  /\ idx[i].bankOffset = BankEnd(idx, i - 1)
               /\ idx[i].scaleOffset = ScaleEnd(idx, i - 1)
               /\ SubSeq(bank, idx[i].bankOffset + 1, idx[i].bankOffset + idx[i].bankBytes)
                    = BankCells(idx[i].name)
               /\ SubSeq(bankScales, idx[i].scaleOffset + 1,
                         idx[i].scaleOffset + idx[i].scaleBytes) = ScaleCells(idx[i].name)
               /\ idx[i].scaleBytes \in
                    {idx[i].N, idx[i].N * ScalesPerKernel(args.group, idx[i].K)}
    <3>1. idx[i] \in Line /\ LineWritten(idx[i])
      BY <2>1, <2>2, ElementOfSeq DEF BankTypes, Indexed
    <3>2. idx[i].name \in All /\ idx[i].bankOffset \in Nat /\ idx[i].scaleOffset \in Nat
      BY <3>1 DEF Line
    <3> DEFINE t == idx[i].name
               P == Padded(Tensors[t].N, args.nmult)
    <3>3. /\ BankCells(t) \in Seq(Cell) /\ ScaleCells(t) \in Seq(Cell) /\ P \in Nat
          /\ Len(ScaleCells(t)) = P * ScalesPerKernel(GroupOf(t), Tensors[t].K)
      BY <2>1, <3>2, CellsOfTensor
    <3>4. /\ idx[i].bankBytes = Len(BankCells(t)) /\ idx[i].scaleBytes = Len(ScaleCells(t))
          /\ idx[i].N = P /\ idx[i].K = Tensors[t].K
          /\ HasSegment(bank, idx[i].bankOffset, BankCells(t))
          /\ HasSegment(bankScales, idx[i].scaleOffset, ScaleCells(t))
      BY <3>1 DEF LineWritten
    <3>5. ScalesPerKernel(GroupOf(t), Tensors[t].K)
            \in {1, ScalesPerKernel(args.group, Tensors[t].K)}
      BY <2>1, <3>2 DEF Indexed, GroupsAgree
    <3> HIDE DEF t, P
    <3>6. bank \in Seq(Cell) /\ bankScales \in Seq(Cell)
      BY <2>1 DEF BankTypes
    <3>7. /\ SubSeq(bank, idx[i].bankOffset + 1, idx[i].bankOffset + idx[i].bankBytes)
               = BankCells(t)
          /\ SubSeq(bankScales, idx[i].scaleOffset + 1,
                    idx[i].scaleOffset + idx[i].scaleBytes) = ScaleCells(t)
      <4>1. SubSeq(bank, idx[i].bankOffset + 1, idx[i].bankOffset + Len(BankCells(t)))
              = BankCells(t)
        BY <3>2, <3>3, <3>4, <3>6, SegmentIsSubSeq
      <4>2. SubSeq(bankScales, idx[i].scaleOffset + 1,
                   idx[i].scaleOffset + Len(ScaleCells(t))) = ScaleCells(t)
        BY <3>2, <3>3, <3>4, <3>6, SegmentIsSubSeq
      <4> QED
        BY <3>4, <4>1, <4>2
    <3>8. idx[i].scaleBytes \in {idx[i].N, idx[i].N * ScalesPerKernel(args.group, idx[i].K)}
      BY <3>3, <3>4, <3>5
    <3>9. idx[i].bankOffset = BankEnd(idx, i - 1) /\ idx[i].scaleOffset = ScaleEnd(idx, i - 1)
      BY <2>1, <2>2 DEF Indexed, LinesAdjoin
    <3> QED
      BY <3>7, <3>8, <3>9 DEF t
  <2> QED
    BY <2>1, <2>3, <2>4 DEF BankIndexed
<1> QED
  BY <1>1, BankInvHolds, PTL

-----------------------------------------------------------------------------
(* The handles                                                              *)

(* The NPU probes lose no handle, whichever step fails.                     *)
THEOREM NoHandleIsLost == ProbesSpec => []HandlesFreed
<1>1. ProbesInit => HandlesFreed
  BY DEF ProbesInit, HandlesFreed
<1>2. HandlesFreed /\ [ProbesNext]_probesVars => HandlesFreed'
  <2> SUFFICES ASSUME HandlesFreed, [ProbesNext]_probesVars PROVE HandlesFreed'
    OBVIOUS
  <2> USE DEF HandlesFreed
  <2>1. ASSUME NEW p \in {"chain", "m", "n"}, Start(p) PROVE HandlesFreed'
    BY <2>1 DEF Start
  <2>2. ASSUME NEW c \in 0 .. 3, Gate(c) PROVE HandlesFreed'
    BY <2>2 DEF Gate
  <2>3. ASSUME NEW fits \in BOOLEAN, NEW T \in Chains, NextShape(fits, T) PROVE HandlesFreed'
    BY <2>3 DEF NextShape
  <2>4. CASE Prep
    BY <2>4 DEF Prep
  <2>5. CASE PrepFails
    BY <2>5 DEF PrepFails
  <2>6. CASE Measure
    BY <2>6 DEF Measure
  <2>7. ASSUME NEW ok \in BOOLEAN, Warm(ok) PROVE HandlesFreed'
    BY <2>7 DEF Warm
  <2>8. CASE RunFails
    BY <2>8 DEF RunFails
  <2>9. ASSUME NEW t \in Times, Run(t) PROVE HandlesFreed'
    BY <2>9 DEF Run
  <2>10. ASSUME NEW again \in BOOLEAN, EndMeasure(again) PROVE HandlesFreed'
    BY <2>10 DEF EndMeasure
  <2>11. CASE Phase2
    BY <2>11 DEF Phase2
  <2>12. CASE Finish
    BY <2>12 DEF Finish
  <2>13. CASE UNCHANGED probesVars
    BY <2>13 DEF probesVars
  <2> QED
    BY <2>1, <2>2, <2>3, <2>4, <2>5, <2>6, <2>7, <2>8, <2>9, <2>10, <2>11, <2>12, <2>13 DEF ProbesNext
<1> QED
  BY <1>1, <1>2, PTL DEF ProbesSpec

-----------------------------------------------------------------------------
(* The measurements                                                         *)

(* t is the least time recorded by the runs R, numbered from 0 to n - 1, or *)
(* None if none recorded one.                                               *)
Least(t, R, n) ==
  /\ {r[1] : r \in R} = 0 .. n - 1
  /\ \A r \in R : r[2] \in Nat /\ (r[2] > 0 => t \in Nat /\ t <= r[2])
  /\ t # None => \E r \in R : r[2] = t

(* The runs of the measurement going on have all succeeded so far; one that *)
(* failed has left no time to report.                                       *)
MeasureInv ==
  /\ rep \in Nat
  /\ pc = "warm" => rep = 0 /\ best = None /\ runs = {}
  /\ pc = "run" => Least(best, runs, rep)
  /\ pc = "end" /\ best # None => Least(best, runs, Reps)
  /\ row.time # None => Least(row.time, row.runs, Reps)

(* One more run, of a time t or 0. *)
LEMMA LeastExtends ==
  ASSUME NEW b, NEW R, NEW n \in Nat, NEW t \in Nat, Least(b, R, n),
         NEW c, c = IF t > 0 THEN (IF b = None \/ t < b THEN t ELSE b) ELSE b
  PROVE  Least(c, R \cup {<<n, t>>}, n + 1)
<1> DEFINE S == R \cup {<<n, t>>}
<1>1. {r[1] : r \in S} = 0 .. (n + 1) - 1
  <2>1. {r[1] : r \in S} = {r[1] : r \in R} \cup {n}
    <3>1. <<n, t>>[1] = n
      OBVIOUS
    <3>2. {r[1] : r \in {<<n, t>>}} = {n}
      BY <3>1
    <3> QED
      BY <3>2
  <2>2. (0 .. n - 1) \cup {n} = 0 .. (n + 1) - 1
    OBVIOUS
  <2> QED
    BY <2>1, <2>2 DEF Least
<1>2. ASSUME NEW r \in S PROVE r[2] \in Nat /\ (r[2] > 0 => c \in Nat /\ c <= r[2])
  <2>1. CASE r \in R
    <3>1. r[2] \in Nat /\ (r[2] > 0 => b \in Nat /\ b <= r[2])
      BY <2>1 DEF Least
    <3> QED
      BY <3>1, SMT DEF None
  <2>2. CASE r = <<n, t>>
    <3>1. r[2] = t
      BY <2>2
    <3>2. b # None => b \in Nat
      BY DEF Least
    <3> QED
      BY <3>1, <3>2, SMT DEF None
  <2> QED
    BY <2>1, <2>2
<1>3. c # None => \E r \in S : r[2] = c
  <2>1. CASE c = t
    <3>1. <<n, t>> \in S /\ <<n, t>>[2] = c
      BY <2>1
    <3> QED
      BY <3>1
  <2>2. CASE c = b
    BY <2>2 DEF Least
  <2> QED
    BY <2>1, <2>2
<1> QED
  BY <1>1, <1>2, <1>3 DEF Least

(* What the probes report is the least time of a full set of runs, none of  *)
(* which failed.                                                            *)
THEOREM MeasurementsAreClean ==
  ASSUME Reps \in Nat, Times \subseteq Nat
  PROVE  ProbesSpec => []MeasuredClean
<1>1. ProbesInit => MeasureInv
  BY DEF ProbesInit, MeasureInv
<1>2. MeasureInv /\ [ProbesNext]_probesVars => MeasureInv'
  <2> SUFFICES ASSUME MeasureInv, [ProbesNext]_probesVars PROVE MeasureInv'
    OBVIOUS
  <2>1. ASSUME NEW p \in {"chain", "m", "n"}, Start(p) PROVE MeasureInv'
    BY <2>1 DEF MeasureInv, Start
  <2>2. ASSUME NEW c \in 0 .. 3, Gate(c) PROVE MeasureInv'
    BY <2>2 DEF MeasureInv, Gate
  <2>3. ASSUME NEW fits \in BOOLEAN, NEW T \in Chains, NextShape(fits, T) PROVE MeasureInv'
    BY <2>3 DEF MeasureInv, NextShape
  <2>4. CASE Prep
    BY <2>4 DEF MeasureInv, Prep
  <2>5. CASE PrepFails
    BY <2>5 DEF MeasureInv, PrepFails
  <2>6. CASE Measure
    <3>1. Least(None, {}, 0)
      BY DEF Least
    <3> QED
      BY <2>6, <3>1 DEF MeasureInv, Measure
  <2>7. ASSUME NEW ok \in BOOLEAN, Warm(ok) PROVE MeasureInv'
    <3>1. Least(None, {}, 0)
      BY DEF Least
    <3> QED
      BY <2>7, <3>1 DEF MeasureInv, Warm
  <2>8. CASE RunFails
    BY <2>8 DEF MeasureInv, RunFails
  <2>9. ASSUME NEW t \in Times, Run(t) PROVE MeasureInv'
    <3>1. t \in Nat /\ rep \in Nat /\ rep < Reps /\ Least(best, runs, rep)
      BY <2>9 DEF MeasureInv, Run
    <3>2. best' = IF t > 0 THEN (IF best = None \/ t < best THEN t ELSE best) ELSE best
      BY <2>9 DEF Run, Better
    <3>3. Least(best', runs \cup {<<rep, t>>}, rep + 1)
      BY <3>1, <3>2, LeastExtends
    <3>4. rep' = rep + 1 /\ runs' = runs \cup {<<rep, t>>} /\ row' = row
      BY <2>9 DEF Run
    <3>5. pc' = IF rep + 1 = Reps THEN "end" ELSE "run"
      BY <2>9 DEF Run
    <3>6. rep' \in Nat
      BY <3>1, <3>4
    <3> QED
      BY <3>3, <3>4, <3>5, <3>6 DEF MeasureInv
  <2>10. ASSUME NEW again \in BOOLEAN, EndMeasure(again) PROVE MeasureInv'
    <3>1. pc' \in {"prep", "shape"} /\ rep' = rep
      BY <2>10 DEF EndMeasure
    <3>2. row'.time # None => Least(row'.time, row'.runs, Reps)
      BY <2>10 DEF MeasureInv, EndMeasure
    <3> QED
      BY <3>1, <3>2 DEF MeasureInv
  <2>11. CASE Phase2
    BY <2>11 DEF MeasureInv, Phase2
  <2>12. CASE Finish
    BY <2>12 DEF MeasureInv, Finish
  <2>13. CASE UNCHANGED probesVars
    BY <2>13 DEF MeasureInv, probesVars
  <2> QED
    BY <2>1, <2>2, <2>3, <2>4, <2>5, <2>6, <2>7, <2>8, <2>9, <2>10, <2>11, <2>12, <2>13 DEF ProbesNext
<1>3. MeasureInv => MeasuredClean
  BY DEF MeasureInv, MeasuredClean, Least, None
<1> QED
  BY <1>1, <1>2, <1>3, PTL DEF ProbesSpec

-----------------------------------------------------------------------------
(* The stride and the goldens of the fault probe                            *)

(* They are what they are in one way only. *)
LEMMA DivisionUnique ==
  ASSUME NEW g \in Nat \ {0}, NEW n \in Nat, NEW q \in Nat, NEW r \in 0 .. g - 1,
         n = g * q + r
  PROVE  n \div g = q /\ n % g = r
<1> DEFINE p == n \div g
<1>1. p \in Nat /\ n % g \in 0 .. g - 1 /\ n = g * p + (n % g)
  BY Division
<1> HIDE DEF p
<1>2. ~(p > q)
  <2>1. SUFFICES ASSUME p >= q + 1 PROVE FALSE
    BY <1>1
  <2>2. g * p >= g * (q + 1) /\ g * (q + 1) = g * q + g
    BY <1>1, <2>1
  <2> QED
    BY <1>1, <2>2
<1>3. ~(q > p)
  <2>1. SUFFICES ASSUME q >= p + 1 PROVE FALSE
    BY <1>1
  <2>2. g * q >= g * (p + 1) /\ g * (p + 1) = g * p + g
    BY <1>1, <2>1
  <2> QED
    BY <1>1, <2>2
<1>4. p = q
  BY <1>1, <1>2, <1>3
<1> QED
  BY <1>1, <1>4 DEF p

(* A set of integers that has a bound and a member has a maximum. *)
LEMMA MaxOfBounded ==
  ASSUME NEW S \in SUBSET Int, S # {}, NEW b \in Int, \A y \in S : y <= b
  PROVE  Max(S) \in S /\ \A y \in S : Max(S) >= y
<1> DEFINE T == {b - y : y \in S}
<1>1. T \in SUBSET Nat /\ T # {}
  <2>1. \A y \in S : b - y \in Nat
    OBVIOUS
  <2> QED
    BY <2>1
<1>2. PICK x \in T : \A y \in T : x <= y
  <2> HIDE DEF T
  <2>1. PICK x \in T : \A y \in T : ~(<<y, x>> \in OpToRel(<, Nat))
    <3>1. IsWellFoundedOn(OpToRel(<, Nat), Nat)
      BY Zenon, NatLessThanWellFounded
    <3> QED
      BY <1>1, <3>1, WFMin, Zenon
  <2>2. \A y \in T : ~(y < x)
    BY <1>1, <2>1 DEF OpToRel
  <2> QED
    BY <1>1, <2>2
<1>3. PICK m \in S : x = b - m
  BY <1>2
<1>4. \A y \in S : m >= y
  <2> SUFFICES ASSUME NEW y \in S PROVE m >= y
    OBVIOUS
  <2>1. b - y \in T
    OBVIOUS
  <2> HIDE DEF T
  <2>2. b - m <= b - y
    BY <1>2, <1>3, <2>1
  <2>3. m \in Int /\ y \in Int
    OBVIOUS
  <2> QED
    BY <2>2, <2>3
<1> HIDE DEF T
<1> QED
  BY <1>3, <1>4, Zenon DEF Max

LEMMA BaseBound ==
  /\ BMax \in Nat
  /\ \A n \in Lanes : Base(n) \in Int /\ -BMax <= Base(n)
<1> DEFINE A(n) == IF Base(n) < 0 THEN -Base(n) ELSE Base(n)
           S == {A(n) : n \in Lanes}
           b == N + (N \div 2)
<1>1. N \in Nat \ {0} /\ N \div 2 \in Nat
  BY FlakyAssumption
<1>2. \A n \in Lanes : Base(n) \in Int /\ A(n) \in Nat /\ A(n) <= b
  BY <1>1 DEF Lanes, Base
<1>3. S \in SUBSET Int /\ S # {} /\ \A y \in S : y <= b
  <2>1. 0 \in Lanes
    BY <1>1 DEF Lanes
  <2> QED
    BY <1>2, <2>1
<1>4. Max(S) \in S /\ \A y \in S : Max(S) >= y
  <2>1. b \in Int
    BY <1>1
  <2> HIDE DEF S, b
  <2> QED
    BY <1>3, <2>1, MaxOfBounded
<1>5. BMax = Max(S)
  BY DEF BMax
<1>6. BMax \in Nat
  <2>1. PICK n \in Lanes : Max(S) = A(n)
    BY <1>4
  <2> QED
    BY <1>2, <1>5, <2>1
<1>7. ASSUME NEW n \in Lanes PROVE Base(n) \in Int /\ -BMax <= Base(n)
  <2>1. BMax >= A(n)
    BY <1>4, <1>5
  <2> QED
    BY <1>2, <1>6, <2>1
<1> QED
  BY <1>6, <1>7

(* The stride that main settles on is a number beyond the bases. *)
LEMMA StrideIsNat ==
  ASSUME NEW k \in Ks, Fitted(k) > BMax
  PROVE  RoundDown(Fitted(k)) \in Nat
<1>1. Fitted(k) \in Int
  <2>1. \A a \in Int, b \in Int : Min({a, b}) \in {a, b}
    <3> SUFFICES ASSUME NEW a \in Int, NEW b \in Int PROVE Min({a, b}) \in {a, b}
      OBVIOUS
    <3>1. \E x \in {a, b} : \A y \in {a, b} : x =< y
      OBVIOUS
    <3> QED
      BY <3>1, Zenon DEF Min
  <2>2. 8 * k \in Int /\ Cap \in Int /\ TagMax \in Int /\ Gens \in Nat \ {0} /\ BMax \in Int
    BY FlakyAssumption, BaseBound
  <2>3. Min({8 * k, Cap}) \in Int
    BY <2>1, <2>2
  <2>4. (Min({8 * k, Cap}) - BMax) \div Gens \in Int
    BY <2>2, <2>3
  <2> QED
    BY <2>1, <2>2, <2>4 DEF Fitted
<1> DEFINE S == {p \in Powers : p <= Fitted(k)}
           b == 16384
<1>2. S \in SUBSET Nat /\ 1 \in S /\ \A y \in S : y <= b
  BY <1>1, BaseBound DEF Powers
<1>3. Max(S) \in S
  <2>1. S \in SUBSET Int /\ S # {} /\ b \in Int
    BY <1>2
  <2> HIDE DEF S, b
  <2> QED
    BY <1>2, <2>1, MaxOfBounded
<1> QED
  BY <1>2, <1>3 DEF RoundDown

(* Goldens are positive, and with a stride of at least N no two lanes of    *)
(* any generations have the same.                                           *)
LEMMA GoldenPositive ==
  ASSUME NEW t \in Nat, t > BMax, NEW g \in Gen, NEW n \in Lanes
  PROVE  Golden(t, g, n) \in Int /\ Golden(t, g, n) > 0
<1>1. g \in Nat
  BY FlakyAssumption DEF Gen
<1>2. t * (g + 1) \in Nat /\ t * (g + 1) >= t
  <2>1. t * (g + 1) = t * g + t /\ t * g \in Nat
    BY <1>1
  <2> QED
    BY <2>1
<1> QED
  BY <1>2, BaseBound DEF Golden

LEMMA GoldensDiffer ==
  ASSUME NEW t \in Nat, t >= N, NEW g \in Gen, NEW h \in Gen,
         NEW n \in Lanes, NEW m \in Lanes, Golden(t, g, n) = Golden(t, h, m)
  PROVE  g = h /\ n = m
<1>1. /\ g \in Nat /\ h \in Nat /\ N \in Nat /\ n \in Nat /\ m \in Nat
      /\ n < N /\ m < N /\ N \div 2 \in Nat
  BY FlakyAssumption DEF Gen, Lanes
<1>2. n + t * g = m + t * h
  <2>1. t * (g + 1) = t * g + t /\ t * (h + 1) = t * h + t /\ t * g \in Nat /\ t * h \in Nat
    BY <1>1
  <2> QED
    BY <1>1, <2>1 DEF Golden, Base
<1>3. ~(g > h)
  <2>1. SUFFICES ASSUME g >= h + 1 PROVE FALSE
    BY <1>1
  <2>2. t * g >= t * (h + 1) /\ t * (h + 1) = t * h + t /\ t * g \in Nat /\ t * h \in Nat
    BY <1>1, <2>1
  <2> QED
    BY <1>1, <1>2, <2>2
<1>4. ~(h > g)
  <2>1. SUFFICES ASSUME h >= g + 1 PROVE FALSE
    BY <1>1
  <2>2. t * h >= t * (g + 1) /\ t * (g + 1) = t * g + t /\ t * g \in Nat /\ t * h \in Nat
    BY <1>1, <2>1
  <2> QED
    BY <1>1, <1>2, <2>2
<1>5. g = h
  BY <1>1, <1>3, <1>4
<1>6. t * g \in Nat
  BY <1>1
<1> QED
  BY <1>1, <1>2, <1>5, <1>6

-----------------------------------------------------------------------------
(* The health gate                                                          *)

Blocks   == 0 .. HN \div WBlock - 1
LiveOf(S, b) == {n \in S : n \div WBlock = b /\ n % WBlock < Half}

(* The shape fills its blocks.                                              *)
LEMMA BlocksAreWhole ==
  ASSUME HN % (3 * WBlock) = 0
  PROVE  /\ HN \div WBlock \in Nat \ {0}
         /\ HN = WBlock * (HN \div WBlock)
<1> DEFINE q == HN \div (3 * WBlock)
<1>1. HN \in Nat \ {0} /\ WBlock \in Nat \ {0} /\ 3 * WBlock \in Nat \ {0}
  BY FlakyAssumption
<1>2. q \in Nat /\ HN = (3 * WBlock) * q + 0
  BY <1>1, Division
<1> HIDE DEF q
<1>3. HN = WBlock * (3 * q) + 0 /\ 3 * q \in Nat /\ 0 \in 0 .. WBlock - 1
  BY <1>1, <1>2
<1>4. HN \div WBlock = 3 * q
  BY <1>1, <1>3, DivisionUnique
<1> QED
  BY <1>1, <1>3, <1>4

LEMMA LiveLanesOfBlock ==
  ASSUME HN % (3 * WBlock) = 0, NEW b \in Blocks
  PROVE  IsFiniteSet(LiveOf(HLanes, b)) /\ Cardinality(LiveOf(HLanes, b)) = Half
<1>1. /\ HN \in Nat \ {0} /\ WBlock \in Nat \ {0} /\ Half \in Nat \ {0} /\ Half <= WBlock
      /\ b \in Nat /\ b + 1 <= HN \div WBlock /\ HN \div WBlock \in Nat
      /\ HN = WBlock * (HN \div WBlock)
  BY BlocksAreWhole, FlakyAssumption DEF Blocks
<1> DEFINE s == WBlock * b
           I == s .. s + Half - 1
<1>2. s \in Nat /\ s + WBlock <= HN
  <2> DEFINE c == HN \div WBlock
  <2>1. c \in Nat /\ b + 1 <= c /\ HN = WBlock * c
    BY <1>1
  <2> HIDE DEF c
  <2>2. WBlock * (b + 1) <= WBlock * c /\ WBlock * (b + 1) = WBlock * b + WBlock
    BY <1>1, <2>1
  <2> QED
    BY <1>1, <2>1, <2>2
<1>3. LiveOf(HLanes, b) \subseteq I
  <2> SUFFICES ASSUME NEW n \in HLanes, n \div WBlock = b, n % WBlock < Half PROVE n \in I
    BY DEF LiveOf
  <2> DEFINE r == n % WBlock
  <2>1. n \in Nat
    BY <1>1 DEF HLanes
  <2>2. n = WBlock * (n \div WBlock) + r /\ r \in 0 .. WBlock - 1
    BY <1>1, <2>1, Division
  <2>3. r < Half /\ n = s + r
    BY <2>2
  <2> HIDE DEF r, s
  <2> QED
    BY <1>1, <1>2, <2>1, <2>2, <2>3
<1>4. I \subseteq LiveOf(HLanes, b)
  <2> SUFFICES ASSUME NEW n \in I PROVE n \in LiveOf(HLanes, b)
    OBVIOUS
  <2> DEFINE r == n - s
  <2>1. n \in Nat /\ n < HN /\ r \in 0 .. WBlock - 1 /\ r < Half /\ n = s + r
    BY <1>1, <1>2
  <2>2. n = WBlock * b + r
    BY <2>1
  <2> HIDE DEF r, s
  <2>3. n \div WBlock = b /\ n % WBlock = r
    BY <1>1, <2>1, <2>2, DivisionUnique
  <2> QED
    BY <1>1, <2>1, <2>3 DEF LiveOf, HLanes
<1>5. LiveOf(HLanes, b) = I
  BY <1>3, <1>4
<1>6. IsFiniteSet(I) /\ Cardinality(I) = Half
  <2>1. /\ s \in Int /\ s + Half - 1 \in Int /\ ~(s > s + Half - 1)
        /\ (s + Half - 1) - s + 1 = Half
    BY <1>1, <1>2
  <2> HIDE DEF s
  <2> QED
    BY <2>1, FS_Interval
<1> QED
  BY <1>5, <1>6

(* It passes exactly the readings in which every live lane is right. *)
LEMMA HealthyIfLive ==
  ASSUME HN % (3 * WBlock) = 0, NEW S \in SUBSET HLanes
  PROVE  /\ HealthVerdict(S) \in {"healthy", "degraded"}
         /\ HealthVerdict(S) = "degraded" <=> ~(HLive \subseteq S)
<1>1. /\ HN \in Nat \ {0} /\ WBlock \in Nat \ {0}
      /\ HN \div WBlock \in Nat \ {0} /\ HN = WBlock * (HN \div WBlock)
  BY BlocksAreWhole, FlakyAssumption
<1> DEFINE V == {Cardinality(LiveOf(S, b)) : b \in Blocks}
<1>2. HealthVerdict(S) = IF V = {Half} THEN "healthy" ELSE "degraded"
  BY DEF HealthVerdict, LiveOf, Blocks
<1>3. ASSUME HLive \subseteq S PROVE V = {Half}
  <2>1. \A b \in Blocks : LiveOf(S, b) = LiveOf(HLanes, b)
    BY <1>3 DEF LiveOf, HLive
  <2>2. \A b \in Blocks : Cardinality(LiveOf(S, b)) = Half
    BY <2>1, LiveLanesOfBlock
  <2>3. 0 \in Blocks
    BY <1>1 DEF Blocks
  <2> QED
    BY <2>2, <2>3
<1>4. ASSUME V = {Half} PROVE HLive \subseteq S
  <2> SUFFICES ASSUME NEW n \in HLive PROVE n \in S
    OBVIOUS
  <2> DEFINE b == n \div WBlock
  <2>1. n \in HLanes /\ n \in Nat /\ n < HN /\ n % WBlock < Half
    BY <1>1 DEF HLive, HLanes
  <2>2. b \in Blocks
    <3> DEFINE c == HN \div WBlock
               r == n % WBlock
    <3>1. b \in Nat /\ n = WBlock * b + r /\ r \in 0 .. WBlock - 1
      BY <1>1, <2>1, Division
    <3>2. c \in Nat /\ HN = WBlock * c
      BY <1>1
    <3> HIDE DEF b, c, r
    <3>3. ~(b >= c)
      <4>1. SUFFICES ASSUME b >= c PROVE FALSE
        OBVIOUS
      <4>2. WBlock * b >= WBlock * c
        BY <1>1, <3>1, <3>2, <4>1
      <4> QED
        BY <1>1, <2>1, <3>1, <3>2, <4>2
    <3> QED
      BY <3>1, <3>2, <3>3 DEF Blocks, c
  <2>3. n \in LiveOf(HLanes, b)
    BY <2>1 DEF LiveOf
  <2> HIDE DEF b
  <2>4. Cardinality(LiveOf(S, b)) = Half
    BY <1>4, <2>2
  <2>5. IsFiniteSet(LiveOf(HLanes, b)) /\ Cardinality(LiveOf(HLanes, b)) = Half
    BY <2>2, LiveLanesOfBlock
  <2>6. LiveOf(S, b) \in SUBSET LiveOf(HLanes, b)
    BY DEF LiveOf
  <2>7. LiveOf(HLanes, b) = LiveOf(S, b)
    BY <2>4, <2>5, <2>6, FS_Subset
  <2> QED
    BY <2>3, <2>7 DEF LiveOf
<1> QED
  BY <1>2, <1>3, <1>4

-----------------------------------------------------------------------------
(* What the device shows                                                    *)

Origins == {Unwritten, Zero} \cup {Row(g, n) : g \in Gen, n \in Lanes}
LaneBuffers == [Lanes -> Origins]

LEMMA OriginsDiffer ==
  /\ Unwritten # Zero
  /\ \A g, n : /\ Row(g, n) # Unwritten /\ Row(g, n) # Zero
               /\ Row(g, n).gen = g /\ Row(g, n).lane = n
<1>1. Unwritten.from = "none" /\ Zero.from = "zero"
  BY DEF Unwritten, Zero
<1>2. \A g, n : Row(g, n).from = "row" /\ Row(g, n).gen = g /\ Row(g, n).lane = n
  BY DEF Row
<1> QED
  BY <1>1, <1>2

(* A dispatch leaves every lane with an origin. *)
LEMMA OutcomesAreBuffers ==
  ASSUME NEW b \in LaneBuffers, NEW g \in Gen
  PROVE  Outcomes(b, g) \subseteq LaneBuffers /\ LaneBuffers # {}
<1>1. N \in Nat \ {0}
  BY FlakyAssumption
<1>2. \A n \in Lanes : Row(g, n) \in Origins
  BY DEF Origins
<1>3. ASSUME NEW S, NEW o \in LaneBuffers PROVE Written(b, g, S, o) \in LaneBuffers
  BY <1>2, <1>3 DEF Written, LaneBuffers
<1>4. [n \in Lanes |-> Zero] \in LaneBuffers
  BY DEF LaneBuffers, Origins
<1>5. ASSUME NEW d \in 1 .. N - 1 PROVE [n \in Lanes |-> Row(g, (n + d) % N)] \in LaneBuffers
  <2>1. \A n \in Lanes : (n + d) % N \in Lanes
    BY <1>1, <1>5 DEF Lanes
  <2> QED
    BY <1>2, <2>1 DEF LaneBuffers
<1>6. SUFFICES ASSUME NEW o \in Outcomes(b, g) PROVE o \in LaneBuffers
  BY <1>4
<1>7. \/ o = Written(b, g, {}, b)
      \/ \E S \in FaultyLanes :
           \/ o = Written(b, g, S, b) \/ o = Written(b, g, S, [n \in Lanes |-> Zero])
           \/ \E d \in 1 .. N - 1 : o = Written(b, g, S, [n \in Lanes |-> Row(g, (n + d) % N)])
  BY <1>6 DEF Outcomes
<1> QED
  BY <1>3, <1>4, <1>5, <1>7

-----------------------------------------------------------------------------
(* The procedure                                                            *)

(* Once main has passed its assertions the goldens are positive and the     *)
(* health shape fills its blocks; before that nothing was captured.         *)
FlakyInv ==
  /\ tag \in Nat
  /\ flakyPc \in {"emit", "aborted", "ready", "void", "measured"}
  /\ flakyPc \in {"emit", "aborted"} => caps = << >>
  /\ flakyPc \notin {"emit", "aborted"} => tag > BMax /\ HN % (3 * WBlock) = 0
  /\ buf \in LaneBuffers
  /\ caps \in Seq(LaneBuffers) /\ Len(caps) <= Gens

LEMMA FlakyInvHolds == FlakySpec => []FlakyInv
<1>1. FlakyInit => FlakyInv
  <2> SUFFICES ASSUME FlakyInit PROVE FlakyInv
    OBVIOUS
  <2>1. buf \in LaneBuffers
    BY DEF FlakyInit, LaneBuffers, Origins
  <2>2. Len(<< >>) = 0 /\ << >> \in Seq(LaneBuffers) /\ Gens \in Nat
    BY FlakyAssumption
  <2> QED
    BY <2>1, <2>2 DEF FlakyInit, FlakyInv
<1>2. FlakyInv /\ [FlakyNext]_flakyVars => FlakyInv'
  <2> SUFFICES ASSUME FlakyInv, [FlakyNext]_flakyVars PROVE FlakyInv'
    OBVIOUS
  <2>1. ASSUME NEW k \in Ks, NEW dense \in BOOLEAN, Emit(k, dense) PROVE FlakyInv'
    <3> DEFINE t == IF Fitted(k) > BMax THEN RoundDown(Fitted(k)) ELSE 0
    <3>1. t \in Nat
      BY StrideIsNat
    <3>2. /\ \/ Accepted(k, t) /\ flakyPc' = "ready" /\ tag' = t
             \/ flakyPc' = "aborted" /\ tag' = 0
          /\ flakyPc = "emit" /\ UNCHANGED <<buf, caps>>
      BY <2>1 DEF Emit
    <3> HIDE DEF t
    <3>3. Accepted(k, t) => t > BMax /\ HN % (3 * WBlock) = 0
      BY DEF Accepted
    <3> QED
      BY <3>1, <3>2, <3>3 DEF FlakyInv
  <2>2. CASE Disturb
    BY <2>2 DEF Disturb, FlakyInv
  <2>3. CASE HealthPre
    BY <2>3 DEF HealthPre, FlakyInv
  <2>4. CASE Dispatch
    <3>1. Len(caps) \in Gen /\ Len(caps) + 1 <= Gens
      BY <2>4, FlakyAssumption DEF Dispatch, FlakyInv, Gen
    <3>2. buf' \in LaneBuffers
      BY <2>4, <3>1, OutcomesAreBuffers DEF Dispatch, FlakyInv
    <3>3. caps' \in Seq(LaneBuffers) /\ Len(caps') = Len(caps) + 1
      BY <2>4, <3>2 DEF Dispatch, FlakyInv
    <3> QED
      BY <2>4, <3>1, <3>2, <3>3 DEF Dispatch, FlakyInv
  <2>5. CASE DispatchLast
    <3>1. 0 \in Gen
      BY FlakyAssumption DEF Gen
    <3>2. buf' \in LaneBuffers
      BY <2>5, <3>1, OutcomesAreBuffers DEF DispatchLast, FlakyInv
    <3> QED
      BY <2>5, <3>2 DEF DispatchLast, FlakyInv
  <2>6. CASE HealthPost
    BY <2>6 DEF HealthPost, FlakyInv
  <2>7. CASE UNCHANGED flakyVars
    BY <2>7 DEF flakyVars, FlakyInv
  <2> QED
    BY <2>1, <2>2, <2>3, <2>4, <2>5, <2>6, <2>7 DEF FlakyNext
<1> QED
  BY <1>1, <1>2, PTL DEF FlakySpec

(* A health verdict tells a degraded device from one with the known fault,  *)
(* whatever the dead lanes of the reading show (classify_flaky.py, the live *)
(* half of every block): it is degraded exactly if the device is when the   *)
(* health kit runs, for every device whose faults show in a live lane.      *)
THEOREM GateIsRight == FlakySpec => HealthVerdictTrue
<1> DEFINE Step == /\ pre' # pre   => (pre' = "degraded" <=> degraded)
                   /\ post' # post => (post' = "degraded" <=> degraded)
<1>1. FlakyInv /\ [FlakyNext]_flakyVars => [Step]_flakyVars
  <2> SUFFICES ASSUME FlakyInv, FlakyNext PROVE Step
    OBVIOUS
  <2>1. ASSUME HN % (3 * WBlock) = 0, NEW v \in Verdicts PROVE v = "degraded" <=> degraded
    <3>1. PICK S \in SUBSET HLanes : HealthReading(S) /\ v = HealthVerdict(S)
      BY <2>1 DEF Verdicts
    <3>2. v = "degraded" <=> ~(HLive \subseteq S)
      BY <2>1, <3>1, HealthyIfLive
    <3> QED
      BY <3>1, <3>2 DEF HealthReading
  <2>2. CASE HealthPre
    BY <2>1, <2>2 DEF HealthPre, FlakyInv
  <2>3. CASE HealthPost
    BY <2>1, <2>3 DEF HealthPost, FlakyInv
  <2>4. CASE UNCHANGED <<pre, post>>
    BY <2>4
  <2>5. HealthPre \/ HealthPost \/ UNCHANGED <<pre, post>>
    BY DEF FlakyNext, Emit, Disturb, Dispatch, DispatchLast
  <2> QED
    BY <2>2, <2>3, <2>4, <2>5
<1> QED
  BY <1>1, FlakyInvHolds, PTL DEF FlakySpec, HealthVerdictTrue

(* The number of lanes of a capture that read right.                        *)
LEMMA RightCounts ==
  ASSUME NEW c
  PROVE  /\ Right(c) \in Nat /\ Right(c) <= N
         /\ (\A n \in Lanes : c[n] = Row(0, n)) => Right(c) = N
<1> DEFINE R == {n \in Lanes : Val(c[n]) = Golden(tag, 0, n)}
<1>1. N \in Nat \ {0} /\ 0 \in Int /\ N - 1 \in Int /\ ~(0 > N - 1) /\ N - 1 - 0 + 1 = N
  BY FlakyAssumption
<1>2. IsFiniteSet(Lanes) /\ Cardinality(Lanes) = N
  BY <1>1, FS_Interval DEF Lanes
<1>3. R \in SUBSET Lanes
  OBVIOUS
<1>4. (\A n \in Lanes : c[n] = Row(0, n)) => R = Lanes
  BY OriginsDiffer DEF Val
<1>5. Right(c) = Cardinality(R)
  BY DEF Right
<1> HIDE DEF R
<1>6. IsFiniteSet(R) /\ Cardinality(R) <= N
  BY <1>2, <1>3, FS_Subset
<1>7. Cardinality(R) \in Nat
  BY <1>6, FS_CardinalityType
<1> QED
  BY <1>2, <1>4, <1>5, <1>6, <1>7

(* With a stride of at least N every lane of every capture is called what   *)
(* happened to it, from its value alone; and a failure that the warm-up     *)
(* test calls real is one of the last dispatch, one it calls warm-up one of *)
(* the first.                                                               *)
THEOREM LanesAreCalledRight == FlakySpec => []VerdictTrue
<1>1. FlakyInv => VerdictTrue
  <2> SUFFICES ASSUME FlakyInv, tag >= N PROVE
        /\ \A i \in DOMAIN caps, n \in Lanes : Category(i - 1, n) = Happened(i - 1, n)
        /\ flakyPc = "measured" =>
             /\ WarmUp = "real"    => \E n \in Lanes : last0[n] # Row(0, n)
             /\ WarmUp = "warm-up" => \E n \in Lanes : caps[1][n] # Row(0, n)
    BY DEF VerdictTrue
  <2>1. ASSUME NEW i \in DOMAIN caps, NEW n \in Lanes
        PROVE  Category(i - 1, n) = Happened(i - 1, n)
    <3> DEFINE g == i - 1
               o == caps[i][n]
    <3>1. g \in Gen /\ g + 1 = i /\ tag \in Nat /\ tag > BMax
      BY FlakyAssumption DEF FlakyInv, Gen
    <3>2. o \in Origins
      BY DEF FlakyInv, LaneBuffers
    <3>3. Category(g, n) = LET v == Val(o) IN
            IF v = 0 THEN "zero"
            ELSE IF v = Poison THEN "unwritten"
            ELSE IF v = Golden(tag, g, n) THEN "correct"
            ELSE IF \E h \in Gen \ {g} : v = Golden(tag, h, n) THEN "stale"
            ELSE "garbage"
      BY <3>1 DEF Category
    <3>4. Happened(g, n) =
            IF o = Unwritten THEN "unwritten"
            ELSE IF o = Zero THEN "zero"
            ELSE IF o = Row(g, n) THEN "correct"
            ELSE IF o.lane = n THEN "stale"
            ELSE "garbage"
      BY <3>1 DEF Happened
    <3> HIDE DEF g, o
    <3>5. Poison \in Int /\ Poison < 0
      BY FlakyAssumption DEF Poison
    <3>6. \A h \in Gen, m \in Lanes : Golden(tag, h, m) \in Int /\ Golden(tag, h, m) > 0
      BY <3>1, GoldenPositive
    <3>7. ASSUME o = Unwritten PROVE Category(g, n) = Happened(g, n)
      <4>1. Val(o) = Poison /\ Poison # 0
        BY <3>5, <3>7, OriginsDiffer DEF Val
      <4>2. Poison # Golden(tag, g, n)
        BY <3>1, <3>5, <3>6
      <4>3. \A f \in Gen : Poison # Golden(tag, f, n)
        BY <3>5, <3>6
      <4>4. o # Zero /\ o # Row(g, n)
        BY <3>7, OriginsDiffer
      <4>5. Category(g, n) = "unwritten"
        BY <3>3, <4>1, <4>2, <4>3
      <4>6. Happened(g, n) = "unwritten"
        BY <3>4, <3>7
      <4> QED
        BY <4>5, <4>6
    <3>8. ASSUME o = Zero PROVE Category(g, n) = Happened(g, n)
      <4>1. Val(o) = 0 /\ o # Unwritten
        BY <3>8, OriginsDiffer DEF Val
      <4>2. Category(g, n) = "zero"
        BY <3>3, <4>1
      <4>3. Happened(g, n) = "zero"
        BY <3>4, <3>8, <4>1
      <4> QED
        BY <4>2, <4>3
    <3>9. ASSUME NEW h \in Gen, NEW m \in Lanes, o = Row(h, m)
          PROVE  Category(g, n) = Happened(g, n)
      <4>1. Val(o) = Golden(tag, h, m)
        BY <3>9, OriginsDiffer DEF Val
      <4>2. Val(o) # 0 /\ Val(o) # Poison
        BY <3>5, <3>6, <4>1
      <4>3. o # Unwritten /\ o # Zero /\ o.lane = m
        BY <3>9, OriginsDiffer
      <4>4. \A f \in Gen : Val(o) = Golden(tag, f, n) <=> f = h /\ m = n
        BY <3>1, <4>1, GoldensDiffer
      <4>5. o = Row(g, n) <=> g = h /\ m = n
        BY <3>9, OriginsDiffer
      <4>6. CASE g = h /\ m = n
        <5>1. Category(g, n) = "correct"
          BY <3>1, <3>3, <4>2, <4>4, <4>6
        <5>2. Happened(g, n) = "correct"
          BY <3>4, <4>3, <4>5, <4>6
        <5> QED
          BY <5>1, <5>2
      <4>7. CASE g # h /\ m = n
        BY <3>1, <3>3, <3>4, <4>2, <4>3, <4>4, <4>5, <4>7
      <4>8. CASE m # n
        BY <3>1, <3>3, <3>4, <4>2, <4>3, <4>4, <4>5, <4>8
      <4> QED
        BY <4>6, <4>7, <4>8
    <3>10. Category(g, n) = Happened(g, n)
      BY <3>2, <3>7, <3>8, <3>9 DEF Origins
    <3> QED
      BY <3>10 DEF g
  <2>2. N \in Nat
    BY FlakyAssumption
  <2>3. ASSUME WarmUp = "real" PROVE \E n \in Lanes : last0[n] # Row(0, n)
    BY <2>2, <2>3, RightCounts DEF WarmUp
  <2>4. ASSUME WarmUp = "warm-up" PROVE \E n \in Lanes : caps[1][n] # Row(0, n)
    BY <2>2, <2>4, RightCounts DEF WarmUp
  <2> QED
    BY <2>1, <2>3, <2>4
<1> QED
  BY <1>1, FlakyInvHolds, PTL

=============================================================================
