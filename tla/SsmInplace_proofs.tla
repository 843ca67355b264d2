-------------------------- MODULE SsmInplace_proofs --------------------------
(***************************************************************************)
(* Proofs about SsmInplace: for a cache of any size, any number of worker  *)
(* threads, any ubatch and any state update, evaluating in place has the   *)
(* effect of scanning into the result and copying.                         *)
(***************************************************************************)
EXTENDS SsmInplace, TLAPS

(* What the fields of a ubatch are. *)
LEMMA BatchFields ==
  ASSUME NEW b \in Batches
  PROVE  /\ b.head \in Nat /\ b.ns \in Nat /\ b.nrs \in Nat
         /\ 1 <= b.ns /\ b.ns <= b.nrs /\ b.head + b.nrs <= NumRows
         /\ b.ids \in [0 .. b.nrs - 1 -> Rows]
<1>1. PICK n \in 1 .. NumRows :
        b \in [head : 0 .. NumRows - n, ns : 1 .. n, nrs : {n}, ids : [0 .. n - 1 -> Rows]]
  BY DEF Batches, Abstract!Batches, Abstract!Rows, Rows
<1>2. QED
  BY <1>1, RowsAssumption

(* The ubatch being evaluated and the rows it names. *)
LEMMA BatchRows ==
  ASSUME SsmTypeOK, node # "none"
  PROVE  /\ batch.head \in Nat /\ batch.ns \in Nat /\ batch.nrs \in Nat
         /\ batch.ns <= batch.nrs
         /\ \A i \in 0 .. batch.nrs - 1 :
              i \in Rows /\ batch.head + i \in Rows /\ batch.ids[i] \in Rows
<1>1. batch \in Batches
  BY DEF SsmTypeOK
<1>2. QED
  BY <1>1, BatchFields, RowsAssumption DEF Rows

(* Writing one slice of one row changes nothing else. *)
LEMMA SetSlice ==
  ASSUME NEW f \in [Rows -> [Slices -> States]],
         NEW a \in Rows, NEW h \in Slices, NEW s \in States
  PROVE  /\ [f EXCEPT ![a][h] = s] \in [Rows -> [Slices -> States]]
         /\ \A r \in Rows, g \in Slices :
              [f EXCEPT ![a][h] = s][r][g] = IF r = a /\ g = h THEN s ELSE f[r][g]
<1>1. [f[a] EXCEPT ![h] = s] \in [Slices -> States]
  OBVIOUS
<1>2. \A g \in Slices : [f[a] EXCEPT ![h] = s][g] = IF g = h THEN s ELSE f[a][g]
  OBVIOUS
<1> DEFINE v == [f[a] EXCEPT ![h] = s]
           f2 == [f EXCEPT ![a] = v]
<1>3. v \in [Slices -> States] /\ \A g \in Slices : v[g] = IF g = h THEN s ELSE f[a][g]
  BY <1>1, <1>2
<1>4. f2 \in [Rows -> [Slices -> States]] /\ \A r \in Rows : f2[r] = IF r = a THEN v ELSE f[r]
  <2> HIDE DEF v
  <2>1. QED
    BY <1>3
<1>5. f2 = [f EXCEPT ![a][h] = s]
  OBVIOUS
<1>6. QED
  BY <1>3, <1>4, <1>5

(* What scanning one sequence does to every slice. *)
LEMMA ScanEffect ==
  ASSUME SsmTypeOK, NEW h \in Slices, ScanSequence(h)
  PROVE  LET i == nxt[h]
             s == Scan(i, rows[batch.ids[i]][h])
         IN /\ node = "scan" /\ i \in Seqs(batch)
            /\ rows' \in [Rows -> [Slices -> States]]
            /\ dst'  \in [Rows -> [Slices -> States]]
            /\ nxt'  \in [Slices -> Nat]
            /\ \A g \in Slices : nxt'[g] = IF g = h THEN i + 1 ELSE nxt[g]
            /\ \A r \in Rows, g \in Slices :
                 /\ rows'[r][g] = IF Direct /\ r = batch.head + i /\ g = h
                                  THEN s ELSE rows[r][g]
                 /\ dst'[r][g] = IF ~Direct /\ r = i /\ g = h THEN s ELSE dst[r][g]
<1> DEFINE i == nxt[h]
           src == rows[batch.ids[i]][h]
           s == Scan(i, src)
<1>1. node = "scan" /\ i \in Nat /\ i < batch.ns /\ node # "none"
  BY DEF ScanSequence, SsmTypeOK
<1>2. i \in 0 .. batch.nrs - 1 /\ i \in Seqs(batch)
  BY <1>1, BatchRows DEF Seqs
<1>3. i \in Rows /\ batch.head + i \in Rows /\ batch.ids[i] \in Rows
  BY <1>1, <1>2, BatchRows
<1>4. src \in States
  BY <1>3 DEF SsmTypeOK
<1>5. s \in States
  <2> HIDE DEF src, i
  <2>1. QED
    BY <1>3, <1>4, StateAssumption DEF Rows
<1>6. nxt' \in [Slices -> Nat] /\ \A g \in Slices : nxt'[g] = IF g = h THEN i + 1 ELSE nxt[g]
  BY <1>1 DEF ScanSequence, SsmTypeOK
<1>7. CASE Direct
  <2>1. rows' = [rows EXCEPT ![batch.head + i][h] = s] /\ dst' = dst
    BY <1>7 DEF ScanSequence
  <2>2. QED
    <3> HIDE DEF s, i
    <3>1. rows \in [Rows -> [Slices -> States]] /\ dst \in [Rows -> [Slices -> States]]
      BY DEF SsmTypeOK
    <3>2. /\ rows' \in [Rows -> [Slices -> States]]
          /\ \A r \in Rows, g \in Slices :
               rows'[r][g] = IF r = batch.head + i /\ g = h THEN s ELSE rows[r][g]
      BY <2>1, <3>1, <1>3, <1>5, SetSlice
    <3>3. QED
      BY <1>1, <1>2, <1>6, <1>7, <2>1, <3>1, <3>2 DEF s, i
<1>8. CASE ~Direct
  <2>1. dst' = [dst EXCEPT ![i][h] = s] /\ rows' = rows
    BY <1>8 DEF ScanSequence
  <2>2. QED
    <3> HIDE DEF s, i
    <3>1. rows \in [Rows -> [Slices -> States]] /\ dst \in [Rows -> [Slices -> States]]
      BY DEF SsmTypeOK
    <3>2. /\ dst' \in [Rows -> [Slices -> States]]
          /\ \A r \in Rows, g \in Slices :
               dst'[r][g] = IF r = i /\ g = h THEN s ELSE dst[r][g]
      BY <2>1, <3>1, <1>3, <1>5, SetSlice
    <3>3. QED
      BY <1>1, <1>2, <1>6, <1>8, <2>1, <3>1, <3>2 DEF s, i
<1>9. QED
  BY <1>7, <1>8

(* What copying one state back does to every slice. *)
LEMMA CopyEffect ==
  ASSUME SsmTypeOK, NEW h \in Slices, CopyBack(h)
  PROVE  LET i == back[h]
         IN /\ node = "scan" /\ i \in Seqs(batch)
            /\ rows' \in [Rows -> [Slices -> States]]
            /\ back' \in [Slices -> Nat]
            /\ \A g \in Slices : back'[g] = IF g = h THEN i + 1 ELSE back[g]
            /\ \A r \in Rows, g \in Slices :
                 rows'[r][g] = IF r = batch.head + i /\ g = h
                               THEN dst[i][h] ELSE rows[r][g]
<1> DEFINE i == back[h]
           s == dst[i][h]
<1>1. node = "scan" /\ i \in Nat /\ i < batch.ns /\ node # "none"
  BY DEF CopyBack, SsmTypeOK
<1>2. i \in 0 .. batch.nrs - 1 /\ i \in Seqs(batch)
  BY <1>1, BatchRows DEF Seqs
<1>3. i \in Rows /\ batch.head + i \in Rows
  BY <1>1, <1>2, BatchRows
<1>4. s \in States
  BY <1>3 DEF SsmTypeOK
<1>5. back' \in [Slices -> Nat] /\ \A g \in Slices : back'[g] = IF g = h THEN i + 1 ELSE back[g]
  BY <1>1 DEF CopyBack, SsmTypeOK
<1>6. rows' = [rows EXCEPT ![batch.head + i][h] = s]
  BY DEF CopyBack
<1> HIDE DEF s, i
<1>7. /\ rows' \in [Rows -> [Slices -> States]]
      /\ \A r \in Rows, g \in Slices :
           rows'[r][g] = IF r = batch.head + i /\ g = h THEN s ELSE rows[r][g]
  BY <1>3, <1>4, <1>6, SetSlice DEF SsmTypeOK
<1>8. QED
  BY <1>1, <1>2, <1>5, <1>7 DEF s, i

(* The typing half of the induction. *)
LEMMA TypeStep == SsmTypeOK /\ [SsmNext]_ssmVars => SsmTypeOK'
<1> SUFFICES ASSUME SsmTypeOK, [SsmNext]_ssmVars PROVE SsmTypeOK'
  OBVIOUS
<1>1. CASE BuildGraph
  <2>1. batch' \in Batches /\ 1 <= batch'.ns /\ batch'.ns \in Nat /\ inplace' \in BOOLEAN
    BY <1>1, BatchFields DEF BuildGraph, MayBeInplace
  <2>2. nxt' \in [Slices -> Nat] /\ back' \in [Slices -> Nat]
        /\ \A h \in Slices : nxt'[h] = 0 /\ back'[h] = 0
    BY <1>1 DEF BuildGraph
  <2>3. QED
    BY <1>1, <2>1, <2>2 DEF BuildGraph, SsmTypeOK
<1>2. ASSUME NEW h \in Slices, ScanSequence(h) PROVE SsmTypeOK'
  <2>1. node = "scan" /\ nxt[h] \in Nat /\ nxt[h] < batch.ns /\ batch.ns \in Nat
    BY <1>2, BatchRows DEF ScanSequence, SsmTypeOK
  <2>2. \A g \in Slices : nxt'[g] = IF g = h THEN nxt[h] + 1 ELSE nxt[g]
    BY <1>2, ScanEffect
  <2>3. \A g \in Slices : nxt'[g] <= batch.ns /\ back[g] <= nxt'[g]
    BY <2>1, <2>2 DEF SsmTypeOK
  <2>4. QED
    BY <1>2, <2>3, ScanEffect DEF ScanSequence, SsmTypeOK
<1>3. ASSUME NEW h \in Slices, CopyBack(h) PROVE SsmTypeOK'
  <2>1. \A g \in Slices : back'[g] <= nxt[g]
    BY <1>3, CopyEffect DEF CopyBack, SsmTypeOK
  <2>2. QED
    BY <1>3, <2>1, CopyEffect DEF CopyBack, SsmTypeOK
<1>4. CASE ScanDone
  BY <1>4 DEF ScanDone, SsmTypeOK, work
<1>5. CASE CopyExtra
  <2>1. \A r \in Rows : r - batch.head \in batch.ns .. batch.nrs - 1
          => batch.ids[r - batch.head] \in Rows
    BY <1>5, BatchRows DEF CopyExtra, Rows
  <2>2. rows' \in [Rows -> [Slices -> States]]
    BY <1>5, <2>1 DEF CopyExtra, SsmTypeOK
  <2>3. QED
    BY <1>5, <2>2 DEF CopyExtra, SsmTypeOK, work
<1>6. CASE StoreStates
  <2>1. \A r \in Rows : r - batch.head \in Seqs(batch) => r - batch.head \in Rows
    BY <1>6, BatchRows DEF StoreStates, Rows, Seqs
  <2>2. rows' \in [Rows -> [Slices -> States]]
    BY <1>6, <2>1 DEF StoreStates, SsmTypeOK
  <2>3. QED
    BY <1>6, <2>2 DEF StoreStates, SsmTypeOK, work
<1>7. CASE UNCHANGED ssmVars
  BY <1>7 DEF ssmVars, work, SsmTypeOK
<1>8. QED
  BY <1>1, <1>2, <1>3, <1>4, <1>5, <1>6, <1>7 DEF SsmNext, EvaluateGraph

LEMMA TypeInit == SsmInit => SsmTypeOK
<1> SUFFICES ASSUME SsmInit PROVE SsmTypeOK
  OBVIOUS
<1>1. \A r \in Rows : [h \in Slices |-> State0(r, h)] \in [Slices -> States]
  BY StateAssumption DEF Rows
<1>2. rows \in [Rows -> [Slices -> States]]
  <2> DEFINE row(r) == [h \in Slices |-> State0(r, h)]
  <2>1. rows = [r \in Rows |-> row(r)] /\ \A r \in Rows : row(r) \in [Slices -> States]
    BY <1>1 DEF SsmInit
  <2> HIDE DEF row
  <2>2. QED
    BY <2>1
<1>3. nxt \in [Slices -> Nat] /\ back \in [Slices -> Nat]
  BY DEF SsmInit
<1>4. QED
  BY <1>2, <1>3 DEF SsmInit, SsmTypeOK

(* Every slice holds a state, and a worker copies back no state it has not *)
(* computed.                                                               *)
THEOREM Typing == SsmSpec => []SsmTypeOK
<1>1. QED
  BY TypeInit, TypeStep, PTL DEF SsmSpec

(***************************************************************************)
(* The invariant of the graph's evaluation.                                *)
(***************************************************************************)

(* The source row of the sequence a worker scans next is untouched: a row  *)
(* the worker has already overwritten is no later sequence's source unless *)
(* the ubatch is aliased, and then the worker has overwritten none.        *)
LEMMA SourceUntouched ==
  ASSUME SsmTypeOK, SsmInv, node = "scan", NEW h \in Slices, nxt[h] < batch.ns
  PROVE  rows[batch.ids[nxt[h]]][h] = base[batch.ids[nxt[h]]][h]
<1> DEFINE i == nxt[h]
           src == batch.ids[i]
<1>1. i \in Nat /\ i \in Seqs(batch) /\ i \in 0 .. batch.nrs - 1 /\ batch.ns \in Nat
      /\ batch.head \in Nat
  BY BatchRows DEF SsmTypeOK, Seqs
<1>2. src \in Rows /\ src \in Int
  BY <1>1, BatchRows DEF Rows
<1>3. rows[src][h] = IF src - batch.head \in 0 .. Moved(h) - 1
                     THEN NewState(src - batch.head, h) ELSE base[src][h]
  BY <1>2 DEF SsmInv, ScanInv
<1>4. ~(src - batch.head \in 0 .. Moved(h) - 1)
  <2>1. CASE Direct
    <3>1. src = batch.head + i \/ src < batch.head \/ src >= batch.head + batch.ns
      BY <2>1, <1>1, <1>2 DEF Direct, Aliased
    <3>2. QED
      BY <2>1, <3>1, <1>1, <1>2 DEF Moved
  <2>2. CASE ~Direct
    <3>1. back[h] = 0
      BY <2>2, <1>1 DEF SsmInv, ScanInv, SsmTypeOK
    <3>2. QED
      BY <2>2, <3>1, <1>1, <1>2 DEF Moved
  <2>3. QED
    BY <2>1, <2>2
<1>5. QED
  BY <1>3, <1>4

LEMMA ScanKeeps ==
  ASSUME SsmTypeOK, SsmInv, NEW h \in Slices, ScanSequence(h)
  PROVE  SsmInv'
<1> DEFINE i == nxt[h]
<1>1. /\ node = "scan" /\ node' = "scan" /\ batch' = batch /\ inplace' = inplace
      /\ back' = back /\ base' = base /\ nxt[h] < batch.ns
  BY DEF ScanSequence
<1>2. i \in Nat /\ i \in Seqs(batch) /\ batch.head \in Nat /\ batch.ns \in Nat
      /\ \A r \in Rows : r \in Int
  BY <1>1, BatchRows DEF SsmTypeOK, Seqs, Rows
<1>3. Scan(i, rows[batch.ids[i]][h]) = NewState(i, h)
  BY <1>1, SourceUntouched DEF NewState
<1>4. \A j, g : NewState(j, g)' = NewState(j, g)
  BY <1>1 DEF NewState
<1>5. Direct' = Direct /\ Seqs(batch)' = Seqs(batch) /\ Aliased(batch)' = Aliased(batch)
  BY <1>1 DEF Direct, Seqs, Aliased
<1>6. \A g \in Slices : nxt'[g] = IF g = h THEN i + 1 ELSE nxt[g]
  BY ScanEffect
<1>7. \A r \in Rows, g \in Slices :
        /\ rows'[r][g] = IF Direct /\ r = batch.head + i /\ g = h
                         THEN NewState(i, h) ELSE rows[r][g]
        /\ dst'[r][g] = IF ~Direct /\ r = i /\ g = h THEN NewState(i, h) ELSE dst[r][g]
  BY <1>3, ScanEffect
<1>8. ASSUME NEW g \in Slices
      PROVE  back'[g] > 0 => inplace /\ Aliased(batch) /\ nxt'[g] = batch.ns
  BY <1>1, <1>2, <1>6, <1>8 DEF SsmInv, ScanInv, SsmTypeOK
<1>9. ASSUME NEW g \in Slices, ~Direct, NEW j \in 0 .. nxt'[g] - 1
      PROVE  dst'[j][g] = NewState(j, g)
  <2>1. nxt[g] \in Nat /\ j \in Nat
    BY <1>2, <1>6 DEF SsmTypeOK
  <2>2. nxt'[g] <= batch.ns
    BY <1>1, <1>2, <1>6 DEF SsmTypeOK
  <2>3. j \in Rows
    BY <1>1, <1>2, <2>1, <2>2, BatchRows, <1>6 DEF SsmTypeOK
  <2>4. CASE g = h /\ j = i
    BY <2>3, <2>4, <1>7, <1>9
  <2>5. CASE ~(g = h /\ j = i)
    <3>1. j \in 0 .. nxt[g] - 1
      BY <2>1, <2>5, <1>2, <1>6
    <3>2. QED
      BY <3>1, <2>3, <2>5, <1>1, <1>7, <1>9 DEF SsmInv, ScanInv
  <2>6. QED
    BY <2>4, <2>5
<1>10. ASSUME NEW g \in Slices, NEW r \in Rows
       PROVE  rows'[r][g] = IF r - batch.head \in 0 .. Moved(g)' - 1
                            THEN NewState(r - batch.head, g) ELSE base[r][g]
  <2>1. rows[r][g] = IF r - batch.head \in 0 .. Moved(g) - 1
                     THEN NewState(r - batch.head, g) ELSE base[r][g]
    BY <1>1 DEF SsmInv, ScanInv
  <2>2. Moved(g)' = IF Direct /\ g = h THEN i + 1 ELSE Moved(g)
    BY <1>1, <1>5, <1>6 DEF Moved
  <2>3. CASE Direct /\ g = h
    <3>1. Moved(g) = i /\ Moved(g)' = i + 1
      BY <2>2, <2>3 DEF Moved
    <3>2. r = batch.head + i => r - batch.head = i
      BY <1>2
    <3>3. QED
      BY <3>1, <3>2, <2>1, <2>3, <1>2, <1>7
  <2>4. CASE ~(Direct /\ g = h)
    BY <2>1, <2>2, <2>4, <1>7
  <2>5. QED
    BY <2>3, <2>4
<1>11. ScanInv'
  BY <1>1, <1>4, <1>5, <1>8, <1>9, <1>10 DEF ScanInv
<1>12. QED
  BY <1>1, <1>11 DEF SsmInv, StoredInv

LEMMA CopyKeeps ==
  ASSUME SsmTypeOK, SsmInv, NEW h \in Slices, CopyBack(h)
  PROVE  SsmInv'
<1> DEFINE i == back[h]
<1>1. /\ node = "scan" /\ node' = "scan" /\ batch' = batch /\ inplace' = inplace
      /\ nxt' = nxt /\ base' = base /\ dst' = dst
      /\ nxt[h] = batch.ns /\ inplace /\ Aliased(batch) /\ i < batch.ns
  BY DEF CopyBack
<1>2. i \in Nat /\ i \in 0 .. nxt[h] - 1 /\ batch.head \in Nat /\ batch.ns \in Nat
      /\ \A r \in Rows : r \in Int
  BY <1>1, BatchRows DEF SsmTypeOK, Rows
<1>3. ~Direct /\ ~Direct'
  BY <1>1 DEF Direct, Aliased, Seqs
<1>4. \A j, g : NewState(j, g)' = NewState(j, g)
  BY <1>1 DEF NewState
<1>5. Aliased(batch)' = Aliased(batch)
  BY <1>1 DEF Seqs, Aliased
<1>6. dst[i][h] = NewState(i, h)
  BY <1>1, <1>2, <1>3 DEF SsmInv, ScanInv
<1>7. \A g \in Slices : back'[g] = IF g = h THEN i + 1 ELSE back[g]
  BY CopyEffect
<1>8. \A r \in Rows, g \in Slices :
        rows'[r][g] = IF r = batch.head + i /\ g = h THEN NewState(i, h) ELSE rows[r][g]
  BY <1>6, CopyEffect
<1>9. ASSUME NEW g \in Slices
      PROVE  /\ back'[g] > 0 => inplace /\ Aliased(batch) /\ nxt[g] = batch.ns
             /\ \A j \in 0 .. nxt[g] - 1 : dst[j][g] = NewState(j, g)
  BY <1>1, <1>3, <1>7, <1>9 DEF SsmInv, ScanInv
<1>10. ASSUME NEW g \in Slices, NEW r \in Rows
       PROVE  rows'[r][g] = IF r - batch.head \in 0 .. Moved(g)' - 1
                            THEN NewState(r - batch.head, g) ELSE base[r][g]
  <2>1. rows[r][g] = IF r - batch.head \in 0 .. back[g] - 1
                     THEN NewState(r - batch.head, g) ELSE base[r][g]
    BY <1>1, <1>3 DEF SsmInv, ScanInv, Moved
  <2>2. Moved(g)' = IF g = h THEN i + 1 ELSE back[g]
    BY <1>3, <1>7 DEF Moved
  <2>3. CASE g = h
    <3>1. r = batch.head + i => r - batch.head = i
      BY <1>2
    <3>2. QED
      BY <3>1, <2>1, <2>2, <2>3, <1>2, <1>8
  <2>4. CASE g # h
    BY <2>1, <2>2, <2>4, <1>8
  <2>5. QED
    BY <2>3, <2>4
<1>11. ScanInv'
  BY <1>1, <1>4, <1>5, <1>9, <1>10 DEF ScanInv
<1>12. QED
  BY <1>1, <1>11 DEF SsmInv, StoredInv

(* At the barrier every worker's states are in the cache, or in the result *)
(* if the update is not in place.                                          *)
LEMMA ScanDoneKeeps ==
  ASSUME SsmTypeOK, SsmInv, ScanDone
  PROVE  SsmInv'
<1>1. /\ node = "scan" /\ node' = "extra" /\ rows' = rows /\ dst' = dst
      /\ batch' = batch /\ inplace' = inplace /\ base' = base
  BY DEF ScanDone, work
<1>2. \A j, g : NewState(j, g)' = NewState(j, g)
  BY <1>1 DEF NewState
<1>3. Seqs(batch) = 0 .. batch.ns - 1 /\ batch.ns \in Nat
  BY <1>1, BatchRows DEF Seqs
<1>4. ASSUME NEW h \in Slices
      PROVE  /\ nxt[h] = batch.ns
             /\ Moved(h) = IF inplace THEN batch.ns ELSE 0
  <2>1. nxt[h] = batch.ns /\ (inplace /\ Aliased(batch) => back[h] = batch.ns)
    BY DEF ScanDone, WorkerDone
  <2>2. ~inplace => back[h] = 0
    BY <1>1 DEF SsmInv, ScanInv, SsmTypeOK
  <2>3. QED
    BY <2>1, <2>2 DEF Moved, Direct
<1>5. ASSUME ~inplace, NEW h \in Slices, NEW j \in Seqs(batch)
      PROVE  dst[j][h] = NewState(j, h)
  BY <1>1, <1>3, <1>4, <1>5 DEF SsmInv, ScanInv, Direct
<1>6. ASSUME NEW h \in Slices, NEW r \in Rows
      PROVE  rows[r][h] = IF inplace /\ r - batch.head \in Seqs(batch)
                          THEN NewState(r - batch.head, h) ELSE base[r][h]
  <2>1. rows[r][h] = IF r - batch.head \in 0 .. Moved(h) - 1
                     THEN NewState(r - batch.head, h) ELSE base[r][h]
    BY <1>1 DEF SsmInv, ScanInv
  <2>2. CASE inplace
    BY <2>1, <2>2, <1>3, <1>4
  <2>3. CASE ~inplace
    <3>1. 0 .. Moved(h) - 1 = {}
      BY <2>3, <1>4
    <3>2. QED
      BY <2>1, <2>3, <3>1
  <2>4. QED
    BY <2>2, <2>3
<1>7. StoredInv'
  BY <1>1, <1>2, <1>5, <1>6 DEF StoredInv, Seqs
<1>8. QED
  BY <1>1, <1>7 DEF SsmInv, ScanInv

(* The moved rows take their state from the cache before the ubatch: an    *)
(* in-place ubatch moves none, and otherwise no row has changed yet.       *)
LEMMA CopyExtraKeeps ==
  ASSUME SsmTypeOK, SsmInv, CopyExtra
  PROVE  SsmInv'
<1>1. /\ node = "extra" /\ node' = "store" /\ dst' = dst
      /\ batch' = batch /\ inplace' = inplace /\ base' = base
  BY DEF CopyExtra, work
<1>2. \A j, g : NewState(j, g)' = NewState(j, g)
  BY <1>1 DEF NewState
<1>3. /\ batch.head \in Nat /\ batch.ns \in Nat /\ batch.nrs \in Nat
      /\ \A r \in Rows : r \in Int
      /\ Seqs(batch) = 0 .. batch.ns - 1
  BY <1>1, BatchRows DEF Rows, Seqs
<1>4. ASSUME NEW h \in Slices, NEW r \in Rows
      PROVE  rows'[r][h] = IF inplace /\ r - batch.head \in Seqs(batch)
                           THEN NewState(r - batch.head, h)
                           ELSE IF r - batch.head \in batch.ns .. batch.nrs - 1
                                THEN base[batch.ids[r - batch.head]][h]
                                ELSE base[r][h]
  <2>1. CASE r - batch.head \in batch.ns .. batch.nrs - 1
    <3>1. ~inplace /\ r - batch.head \notin Seqs(batch)
      BY <1>1, <1>3, <2>1 DEF SsmInv
    <3>2. batch.ids[r - batch.head] \in Rows
      BY <1>1, <1>3, <2>1, BatchRows
    <3>3. rows'[r][h] = rows[batch.ids[r - batch.head]][h]
      BY <2>1 DEF CopyExtra
    <3>4. QED
      BY <1>1, <2>1, <3>1, <3>2, <3>3 DEF SsmInv, StoredInv
  <2>2. CASE r - batch.head \notin batch.ns .. batch.nrs - 1
    <3>1. rows'[r] = rows[r]
      BY <2>2 DEF CopyExtra
    <3>2. QED
      BY <1>1, <2>2, <3>1 DEF SsmInv, StoredInv
  <2>3. QED
    BY <2>1, <2>2
<1>5. StoredInv'
  BY <1>1, <1>2, <1>4 DEF SsmInv, StoredInv, Seqs
<1>6. QED
  BY <1>1, <1>5 DEF SsmInv, ScanInv

LEMMA InvStep == SsmTypeOK /\ SsmInv /\ [SsmNext]_ssmVars => SsmInv'
<1> SUFFICES ASSUME SsmTypeOK, SsmInv, [SsmNext]_ssmVars PROVE SsmInv'
  OBVIOUS
<1>1. CASE BuildGraph
  <2>1. /\ node' = "scan" /\ rows' = rows /\ base' = rows
        /\ \A h \in Slices : nxt'[h] = 0 /\ back'[h] = 0
    BY <1>1 DEF BuildGraph
  <2>2. inplace' => batch'.nrs = batch'.ns
    BY <1>1 DEF BuildGraph, MayBeInplace
  <2>3. \A h \in Slices : Moved(h)' = 0
    BY <2>1 DEF Moved
  <2>4. ScanInv'
    BY <2>1, <2>3 DEF ScanInv
  <2>5. QED
    BY <2>1, <2>2, <2>4 DEF SsmInv, StoredInv
<1>2. ASSUME NEW h \in Slices, ScanSequence(h) PROVE SsmInv'
  BY <1>2, ScanKeeps
<1>3. ASSUME NEW h \in Slices, CopyBack(h) PROVE SsmInv'
  BY <1>3, CopyKeeps
<1>4. CASE ScanDone
  BY <1>4, ScanDoneKeeps
<1>5. CASE CopyExtra
  BY <1>5, CopyExtraKeeps
<1>6. CASE StoreStates
  BY <1>6 DEF StoreStates, work, SsmInv, ScanInv, StoredInv
<1>7. CASE UNCHANGED ssmVars
  BY <1>7 DEF ssmVars, work, SsmInv, ScanInv, StoredInv, Direct, Moved, NewState, Seqs, Aliased
<1>8. QED
  BY <1>1, <1>2, <1>3, <1>4, <1>5, <1>6, <1>7 DEF SsmNext, EvaluateGraph

THEOREM Correct == SsmSpec => [](SsmTypeOK /\ SsmInv)
<1>1. SsmInit => SsmInv
  BY DEF SsmInit, SsmInv, ScanInv, StoredInv
<1>2. QED
  BY <1>1, TypeInit, TypeStep, InvStep, PTL DEF SsmSpec

(* No worker, whatever the others have done, reads a state that has        *)
(* already been replaced.                                                  *)
THEOREM SourceIsIntact == SsmSpec => []SourceIntact
<1>1. SsmTypeOK /\ SsmInv => SourceIntact
  BY SourceUntouched DEF SourceIntact
<1>2. QED
  BY <1>1, Correct, PTL

(***************************************************************************)
(* Refinement.  A ubatch takes effect when its last node has run; until    *)
(* then the abstract cache is the one the ubatch began with.               *)
(***************************************************************************)

(* After the last node every slice of every row is what the abstract       *)
(* ubatch computes.                                                        *)
LEMMA StoredRow ==
  ASSUME SsmTypeOK, SsmInv, StoreStates, NEW r \in Rows, NEW h \in Slices
  PROVE  rows'[r][h] = IF r - batch.head \in Seqs(batch)
                       THEN NewState(r - batch.head, h)
                       ELSE IF r - batch.head \in batch.ns .. batch.nrs - 1
                            THEN base[batch.ids[r - batch.head]][h]
                            ELSE base[r][h]
<1>1. node = "store"
  BY DEF StoreStates
<1>2. rows[r][h] = IF inplace /\ r - batch.head \in Seqs(batch)
                   THEN NewState(r - batch.head, h)
                   ELSE IF r - batch.head \in batch.ns .. batch.nrs - 1
                        THEN base[batch.ids[r - batch.head]][h]
                        ELSE base[r][h]
  BY <1>1 DEF SsmInv, StoredInv
<1>3. CASE inplace
  BY <1>2, <1>3 DEF StoreStates
<1>4. CASE ~inplace
  <2>1. rows'[r] = IF r - batch.head \in Seqs(batch) THEN dst[r - batch.head] ELSE rows[r]
    BY <1>4 DEF StoreStates
  <2>2. r - batch.head \in Seqs(batch) => dst[r - batch.head][h] = NewState(r - batch.head, h)
    BY <1>1, <1>4 DEF SsmInv, StoredInv
  <2>3. QED
    BY <1>2, <1>4, <2>1, <2>2
<1>5. QED
  BY <1>3, <1>4

LEMMA StoreEvaluates ==
  ASSUME SsmTypeOK, SsmInv, StoreStates
  PROVE  rows' = [r \in Rows |->
                    IF r - batch.head \in 0 .. batch.ns - 1
                    THEN [h \in Slices |-> Scan(r - batch.head, base[batch.ids[r - batch.head]][h])]
                    ELSE IF r - batch.head \in batch.ns .. batch.nrs - 1
                         THEN base[batch.ids[r - batch.head]]
                         ELSE base[r]]
<1> DEFINE new(r) == IF r - batch.head \in 0 .. batch.ns - 1
                     THEN [h \in Slices |-> Scan(r - batch.head, base[batch.ids[r - batch.head]][h])]
                     ELSE IF r - batch.head \in batch.ns .. batch.nrs - 1
                          THEN base[batch.ids[r - batch.head]]
                          ELSE base[r]
<1>1. node = "store" /\ rows' \in [Rows -> [Slices -> States]]
  <2>1. SsmTypeOK'
    BY TypeStep DEF SsmNext, EvaluateGraph
  <2>2. QED
    BY <2>1 DEF StoreStates, SsmTypeOK
<1>2. ASSUME NEW r \in Rows PROVE rows'[r] = new(r)
  <2>1. rows'[r] \in [Slices -> States]
    BY <1>1
  <2>2. CASE r - batch.head \in 0 .. batch.ns - 1
    <3>1. \A h \in Slices : rows'[r][h] = Scan(r - batch.head, base[batch.ids[r - batch.head]][h])
      BY <2>2, StoredRow DEF Seqs, NewState
    <3>2. QED
      BY <2>1, <2>2, <3>1
  <2>3. CASE r - batch.head \notin 0 .. batch.ns - 1 /\ r - batch.head \in batch.ns .. batch.nrs - 1
    <3>1. base[batch.ids[r - batch.head]] \in [Slices -> States]
      <4>1. r - batch.head \in 0 .. batch.nrs - 1
        BY <1>1, <2>3, BatchRows DEF Rows
      <4>2. QED
        BY <1>1, <4>1, BatchRows DEF SsmTypeOK
    <3>2. \A h \in Slices : rows'[r][h] = base[batch.ids[r - batch.head]][h]
      BY <2>3, StoredRow DEF Seqs
    <3>3. QED
      BY <2>1, <2>3, <3>1, <3>2
  <2>4. CASE r - batch.head \notin 0 .. batch.ns - 1 /\ r - batch.head \notin batch.ns .. batch.nrs - 1
    <3>1. base[r] \in [Slices -> States]
      BY DEF SsmTypeOK
    <3>2. \A h \in Slices : rows'[r][h] = base[r][h]
      BY <2>4, StoredRow DEF Seqs
    <3>3. QED
      BY <2>1, <2>4, <3>1, <3>2
  <2>5. QED
    BY <2>2, <2>3, <2>4
<1>3. rows' = [r \in Rows |-> new(r)]
  <2> HIDE DEF new
  <2>1. QED
    BY <1>1, <1>2
<1>4. QED
  BY <1>3

(* However the workers interleave and wherever the states come from,       *)
(* evaluating a ubatch has the effect of scanning into the result and      *)
(* copying: the in-place update is invisible.                              *)
THEOREM InplaceImplementsCopy == SsmSpec => ImplementsCopy
<1> DEFINE bar == IF node = "none" THEN rows ELSE base
<1>1. SsmInit => Abstract!Init
  BY DEF SsmInit, Abstract!Init, Abstract!Rows, Rows
<1>2. SsmTypeOK /\ SsmInv /\ [SsmNext]_ssmVars => [Abstract!Evaluate]_bar
  <2> SUFFICES ASSUME SsmTypeOK, SsmInv, [SsmNext]_ssmVars PROVE Abstract!Evaluate \/ UNCHANGED bar
    OBVIOUS
  <2>1. CASE BuildGraph \/ UNCHANGED ssmVars
    BY <2>1 DEF BuildGraph, ssmVars
  <2>2. ASSUME NEW h \in Slices, ScanSequence(h) \/ CopyBack(h) PROVE UNCHANGED bar
    BY <2>2 DEF ScanSequence, CopyBack
  <2>3. CASE ScanDone \/ CopyExtra
    BY <2>3 DEF ScanDone, CopyExtra, work
  <2>4. CASE StoreStates
    <3>1. batch \in Batches /\ node = "store" /\ node' = "none"
      BY <2>4 DEF SsmTypeOK, StoreStates
    <3>2. rows' = Abstract!After(batch)
      BY <2>4, <3>1, StoreEvaluates DEF Abstract!After, Abstract!Rows, Rows
    <3>3. QED
      BY <3>1, <3>2 DEF Abstract!Evaluate, Batches
  <2> QED
    BY <2>1, <2>2, <2>3, <2>4 DEF EvaluateGraph, SsmNext
<1>3. QED
  BY <1>1, <1>2, Correct, PTL DEF SsmSpec, ImplementsCopy, Abstract!Spec

(* No step of an evaluation touches a row the ubatch does not own.         *)
THEOREM OnlyOwnedRowsChange == SsmSpec => OnlyOwnedRows
<1> DEFINE Owned == \A r \in Rows : rows'[r] # rows[r] => r - batch.head \in 0 .. batch.nrs - 1
<1>1. SsmTypeOK /\ [SsmNext]_ssmVars => [Owned]_rows
  <2> SUFFICES ASSUME SsmTypeOK, [SsmNext]_ssmVars, NEW r \in Rows, rows'[r] # rows[r]
               PROVE  r - batch.head \in 0 .. batch.nrs - 1
    OBVIOUS
  <2>1. ASSUME NEW h \in Slices, ScanSequence(h) PROVE r - batch.head \in 0 .. batch.nrs - 1
    <3>1. nxt[h] \in 0 .. batch.nrs - 1 /\ batch.head \in Nat /\ batch.nrs \in Nat
      <4>1. node # "none" /\ nxt[h] \in Nat /\ nxt[h] < batch.ns
        BY <2>1 DEF ScanSequence, SsmTypeOK
      <4>2. QED
        BY <4>1, BatchRows
    <3>2. r = batch.head + nxt[h]
      BY <2>1 DEF ScanSequence, SsmTypeOK
    <3>3. QED
      BY <3>1, <3>2
  <2>2. ASSUME NEW h \in Slices, CopyBack(h) PROVE r - batch.head \in 0 .. batch.nrs - 1
    <3>1. back[h] \in 0 .. batch.nrs - 1 /\ batch.head \in Nat /\ batch.nrs \in Nat
      <4>1. node # "none" /\ back[h] \in Nat /\ back[h] < batch.ns
        BY <2>2 DEF CopyBack, SsmTypeOK
      <4>2. QED
        BY <4>1, BatchRows
    <3>2. r = batch.head + back[h]
      BY <2>2 DEF CopyBack, SsmTypeOK
    <3>3. QED
      BY <3>1, <3>2
  <2>3. CASE CopyExtra
    <3>1. r - batch.head \in batch.ns .. batch.nrs - 1
      BY <2>3 DEF CopyExtra, SsmTypeOK
    <3>2. QED
      BY <2>3, <3>1, BatchRows DEF CopyExtra
  <2>4. CASE StoreStates
    <3>1. r - batch.head \in Seqs(batch)
      BY <2>4 DEF StoreStates, SsmTypeOK
    <3>2. QED
      BY <2>4, <3>1, BatchRows DEF StoreStates, Seqs
  <2>5. CASE BuildGraph \/ ScanDone \/ UNCHANGED ssmVars
    BY <2>5 DEF BuildGraph, ScanDone, ssmVars
  <2> QED
    BY <2>1, <2>2, <2>3, <2>4, <2>5 DEF EvaluateGraph, SsmNext
<1>2. QED
  BY <1>1, Typing, PTL DEF SsmSpec, OnlyOwnedRows

=============================================================================
