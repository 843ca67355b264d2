-------------------------- MODULE Reference_proofs --------------------------
(* Proofs about the reference scaffolds, for any number of episodes,       *)
(* identities, readers and cartridges.                                     *)
EXTENDS EpisodicStore, RecurringIdentity, Cascade, CartridgeRuntime,
        FiniteSetTheorems, SequenceTheorems, TLAPS

(* A set of naturals that is not empty has a least member. *)
LEMMA Least ==
  ASSUME NEW T \in SUBSET Nat, T # {}
  PROVE  \E x \in T : \A y \in T : x <= y
<1>1. PICK x \in T : \A y \in T : ~(<<y, x>> \in OpToRel(<, Nat))
  <2>1. IsWellFoundedOn(OpToRel(<, Nat), Nat)
    BY Zenon, NatLessThanWellFounded
  <2> QED
    BY <2>1, WFMin, Zenon
<1>2. \A y \in T : ~(y < x)
  BY <1>1 DEF OpToRel
<1> QED
  BY <1>2

-----------------------------------------------------------------------------
(* The episodic store: lists *)

LEMMA RemoveAtProperties ==
  ASSUME NEW S, NEW s \in Seq(S), NEW i \in 1 .. Len(s)
  PROVE  /\ RemoveAt(s, i) \in Seq(S) /\ Len(RemoveAt(s, i)) = Len(s) - 1
         /\ \A j \in 1 .. Len(s) - 1 : RemoveAt(s, i)[j] = IF j < i THEN s[j] ELSE s[j + 1]
<1> DEFINE a == SubSeq(s, 1, i - 1)
           b == SubSeq(s, i + 1, Len(s))
<1>0. Len(s) \in Nat /\ i \in Int /\ i - 1 \in Int /\ i + 1 \in Int /\ 1 \in Int
  OBVIOUS
<1>1. /\ a \in Seq(S) /\ Len(a) = i - 1
      /\ \A j \in 1 .. i - 1 : a[j] = s[j]
  <2>1. \A j \in 1 .. i - 1 : s[j] \in S
    OBVIOUS
  <2>2. /\ a \in Seq(S) /\ Len(a) = (IF 1 <= i - 1 THEN i - 1 - 1 + 1 ELSE 0)
        /\ \A j \in 1 .. i - 1 - 1 + 1 : a[j] = s[1 + j - 1]
    BY <1>0, <2>1, SubSeqProperties
  <2> HIDE DEF a
  <2> QED
    BY <1>0, <2>2
<1>2. /\ b \in Seq(S) /\ Len(b) = Len(s) - i
      /\ \A j \in 1 .. Len(s) - i : b[j] = s[i + j]
  <2>1. \A j \in i + 1 .. Len(s) : s[j] \in S
    OBVIOUS
  <2>2. /\ b \in Seq(S) /\ Len(b) = (IF i + 1 <= Len(s) THEN Len(s) - (i + 1) + 1 ELSE 0)
        /\ \A j \in 1 .. Len(s) - (i + 1) + 1 : b[j] = s[i + 1 + j - 1]
    BY <1>0, <2>1, SubSeqProperties
  <2> HIDE DEF b
  <2> QED
    BY <1>0, <2>2
<1>3. RemoveAt(s, i) = a \o b
  BY DEF RemoveAt
<1> HIDE DEF a, b
<1>4. /\ a \o b \in Seq(S) /\ Len(a \o b) = Len(a) + Len(b)
      /\ \A j \in 1 .. Len(a) + Len(b) : (a \o b)[j] = IF j <= Len(a) THEN a[j] ELSE b[j - Len(a)]
  BY <1>1, <1>2, ConcatProperties
<1> QED
  BY <1>0, <1>1, <1>2, <1>3, <1>4

(* Of the episodes of a list one is colder than all others. *)
LEMMA ColdestIsColdest ==
  ASSUME meta \in Seq(Episode), meta # << >>
  PROVE  Coldest \in DOMAIN meta /\ \A j \in DOMAIN meta \ {Coldest} : ColderThan(Coldest, j)
<1> DEFINE D == DOMAIN meta
<1>1. D = 1 .. Len(meta) /\ D # {} /\ Len(meta) \in Nat
  OBVIOUS
<1>2. \A i \in D : meta[i].hits \in Nat /\ meta[i].used \in Nat
  <2> SUFFICES ASSUME NEW i \in D PROVE meta[i].hits \in Nat /\ meta[i].used \in Nat
    OBVIOUS
  <2>1. meta[i] \in Episode
    BY <1>1, ElementOfSeq
  <2> QED
    BY <2>1 DEF Episode
<1> DEFINE H == {meta[i].hits : i \in D}
<1>3. PICK a \in D : \A j \in D : meta[a].hits <= meta[j].hits
  <2>1. H \in SUBSET Nat /\ H # {}
    BY <1>1, <1>2
  <2>2. PICK h \in H : \A y \in H : h <= y
    <3> HIDE DEF H
    <3> QED
      BY <2>1, Least
  <2> QED
    BY <2>2
<1> DEFINE D2 == {i \in D : meta[i].hits = meta[a].hits}
           U == {meta[i].used : i \in D2}
<1>4. PICK b \in D2 : \A j \in D2 : meta[b].used <= meta[j].used
  <2>1. U \in SUBSET Nat /\ U # {}
    BY <1>2, <1>3
  <2>2. PICK u \in U : \A y \in U : u <= y
    <3> HIDE DEF U
    <3> QED
      BY <2>1, Least
  <2> QED
    BY <2>2
<1> DEFINE D3 == {i \in D2 : meta[i].used = meta[b].used}
<1>5. PICK c \in D3 : \A j \in D3 : c <= j
  <2>1. D3 \in SUBSET Nat /\ D3 # {}
    BY <1>1, <1>4
  <2> HIDE DEF D3
  <2> QED
    BY <2>1, Least
<1>6. \A j \in D \ {c} : ColderThan(c, j)
  <2> SUFFICES ASSUME NEW j \in D, j # c PROVE ColderThan(c, j)
    OBVIOUS
  <2>1. /\ c \in Nat /\ j \in Nat
        /\ meta[c].hits \in Nat /\ meta[c].used \in Nat
        /\ meta[j].hits \in Nat /\ meta[j].used \in Nat
    BY <1>1, <1>2
  <2>2. meta[c].hits = meta[a].hits /\ meta[a].hits <= meta[j].hits
    BY <1>3
  <2>3. CASE meta[j].hits # meta[c].hits
    BY <2>1, <2>2, <2>3 DEF ColderThan
  <2>4. CASE meta[j].hits = meta[c].hits
    <3>1. j \in D2 /\ meta[c].used <= meta[j].used
      BY <1>4, <2>2, <2>4
    <3>2. CASE meta[j].used # meta[c].used
      BY <2>1, <2>4, <3>1, <3>2 DEF ColderThan
    <3>3. CASE meta[j].used = meta[c].used
      <4>1. c <= j
        BY <1>5, <3>1, <3>3
      <4> QED
        BY <2>1, <2>4, <3>3, <4>1 DEF ColderThan
    <3> QED
      BY <3>2, <3>3
  <2> QED
    BY <2>3, <2>4
<1>7. \E i \in DOMAIN meta : \A j \in DOMAIN meta \ {i} : ColderThan(i, j)
  BY <1>6
<1> QED
  BY <1>7, Zenon DEF Coldest

(* An enumeration of indices of a list of n.                               *)
LEMMA InOrderProperties ==
  ASSUME NEW n \in Nat, NEW S \in SUBSET (1 .. n), NEW f \in InOrder(S)
  PROVE  /\ Cardinality(S) \in Nat /\ Cardinality(S) <= n
         /\ f \in [1 .. Cardinality(S) -> S]
         /\ \A x, y \in DOMAIN f : x < y => f[x] < f[y]
         /\ \A i \in S : \E x \in DOMAIN f : f[x] = i
<1>1. IsFiniteSet(1 .. n) /\ Cardinality(1 .. n) = n
  BY FS_Interval
<1>2. IsFiniteSet(S) /\ Cardinality(S) <= n
  BY <1>1, FS_Subset
<1>3. Cardinality(S) \in Nat
  BY <1>2, FS_CardinalityType
<1> QED
  BY <1>2, <1>3 DEF InOrder

-----------------------------------------------------------------------------
(* The episodic store: its invariant *)

Sane(m, c) ==
  /\ m.hits > 0 <=> m.used > 0
  /\ m.used <= c /\ m.t <= c
  /\ m.hits > 0 => m.used >= m.t

(* A list of metadata that the store may have been given: within capacity, *)
(* in the order of the calls of add, of which there were a, by the time c. *)
Proper(ms, a, c) ==
  /\ ms \in Seq(Episode) /\ Len(ms) <= Capacity
  /\ \A i \in DOMAIN ms : ms[i].ep < a /\ Sane(ms[i], c)
  /\ \A i, j \in DOMAIN ms : i < j => ms[i].ep < ms[j].ep

(* Memory and files are proper, and no file is of a save to come. *)
StoreTypes ==
  /\ clock \in Nat \ {0} /\ adds \in Nat /\ saves \in Nat
  /\ keys \in Seq(Nat) /\ Proper(meta, adds, clock)
  /\ \A k \in keysFile \cup keysDisk :
       k.by \in Nat /\ k.by <= saves /\ k.val \in Seq(Nat)
  /\ \A m \in storeFile \cup storeDisk :
       m.by \in Nat /\ m.by <= saves /\ Proper(m.val, adds, clock)
  /\ stage \in {"idle", "keys", "dumps", "store", "down"}
  /\ mixed \in BOOLEAN

(* Only files of two saves break the pairing of keys with metadata: two    *)
(* files of one save, on the disk or on their way to it, are what it was   *)
(* given.                                                                  *)
StorePairs ==
  /\ ~mixed => Aligned(keys, meta)
  /\ \A k \in keysFile \cup keysDisk, m \in storeFile \cup storeDisk :
       k.by = m.by /\ k.by # 0 => Aligned(k.val, m.val) /\ <<k.val, m.val>> \in versions

Saving == stage \in {"keys", "dumps", "store"}

(* A save under way has written its keys, and no metadata yet. *)
SaveUnderWay ==
  Saving =>
    /\ saves > 0 /\ <<keys, meta>> \in versions /\ lastSave = {}
    /\ \A m \in storeFile \cup storeDisk : m.by < saves
    /\ \A k \in keysFile \cup keysDisk : k.by = saves => k.val = keys
    /\ stage \in {"dumps", "store"} => \A k \in keysFile : k.val = keys

(* The files hold what the last save was given. *)
LastSaved == \A v \in lastSave, k \in keysFile, m \in storeFile : <<k.val, m.val>> = v

StoreInv == StoreTypes /\ StorePairs /\ SaveUnderWay /\ LastSaved

(* A proper list stays one.                                                *)
LEMMA ProperLater ==
  ASSUME NEW ms, NEW a \in Nat, NEW c \in Nat, NEW b \in Nat, NEW d \in Nat,
         Proper(ms, a, c), a <= b, c <= d
  PROVE  Proper(ms, b, d)
<1>1. \A i \in DOMAIN ms : ms[i] \in Episode
  BY ElementOfSeq DEF Proper
<1>2. \A i \in DOMAIN ms : /\ ms[i].ep \in Nat /\ ms[i].hits \in Nat
                           /\ ms[i].used \in Nat /\ ms[i].t \in Nat
  BY <1>1 DEF Episode
<1>3. ASSUME NEW i \in DOMAIN ms PROVE ms[i].ep < b /\ Sane(ms[i], d)
  BY <1>2 DEF Proper, Sane
<1> QED
  BY <1>3 DEF Proper

LEMMA AddKeepsProper ==
  ASSUME StoreInv, Add
  PROVE  /\ StoreTypes' /\ (~mixed => Aligned(keys', meta'))
         /\ adds' = adds + 1
         /\ \A i \in DOMAIN meta :
              \/ \E j \in DOMAIN meta' : meta'[j] = meta[i]
              \/ /\ Full /\ i = Coldest /\ Coldest \in DOMAIN meta
                 /\ \A j \in DOMAIN meta \ {Coldest} : ColderThan(Coldest, j)
                 /\ Len(meta') = Capacity
<1> DEFINE ks == IF Full THEN RemoveAt(keys, Coldest) ELSE keys
           ms == IF Full THEN RemoveAt(meta, Coldest) ELSE meta
<1>1. /\ keys \in Seq(Nat) /\ meta \in Seq(Episode) /\ Len(meta) <= Capacity
      /\ adds \in Nat /\ clock \in Nat \ {0} /\ Capacity \in Nat \ {0}
      /\ Proper(meta, adds, clock) /\ Len(meta) \in Nat
  BY CapacityAssumption DEF StoreInv, StoreTypes, Proper
<1>2. PICK t \in 1 .. clock :
        /\ keys' = Append(ks, adds)
        /\ meta' = Append(ms, [ep |-> adds, t |-> t, hits |-> 0, used |-> 0])
  BY DEF Add
<1>3. /\ adds' = adds + 1 /\ clock' = clock /\ stage' = stage /\ mixed' = mixed
      /\ UNCHANGED <<keysFile, storeFile, keysDisk, storeDisk, saves>>
      /\ Full => Coldest <= Len(keys)
  BY DEF Add, files, disk, history
<1> DEFINE new == [ep |-> adds, t |-> t, hits |-> 0, used |-> 0]
<1>4. new \in Episode /\ new.ep = adds /\ Sane(new, clock)
  BY <1>1 DEF Episode, Sane
<1> HIDE DEF new
(* What is left of the list. *)
<1>5. /\ Proper(ms, adds, clock) /\ ks \in Seq(Nat) /\ Len(ms) + 1 <= Capacity
      /\ ~mixed => Aligned(ks, ms)
      /\ \A i \in DOMAIN meta :
           \/ \E j \in DOMAIN ms : ms[j] = meta[i]
           \/ /\ Full /\ i = Coldest /\ Coldest \in DOMAIN meta
              /\ \A j \in DOMAIN meta \ {Coldest} : ColderThan(Coldest, j)
              /\ Len(ms) + 1 = Capacity
  <2>1. CASE ~Full
    BY <1>1, <2>1 DEF Full, StoreInv, StorePairs
  <2>2. CASE Full
    <3> DEFINE e == Coldest
    <3>1. Len(meta) = Capacity /\ meta # << >>
      BY <1>1, <2>2 DEF Full
    <3>2. e \in 1 .. Len(meta) /\ \A j \in DOMAIN meta \ {e} : ColderThan(e, j)
      BY <1>1, <3>1, ColdestIsColdest
    <3>3. e \in 1 .. Len(keys)
      BY <1>1, <1>3, <2>2, <3>2
    <3> HIDE DEF e
    <3>4. ks = RemoveAt(keys, e) /\ ms = RemoveAt(meta, e)
      BY <2>2 DEF e
    <3>5. /\ ms \in Seq(Episode) /\ Len(ms) = Len(meta) - 1
          /\ \A j \in 1 .. Len(meta) - 1 : ms[j] = IF j < e THEN meta[j] ELSE meta[j + 1]
      BY <1>1, <3>2, <3>4, RemoveAtProperties
    <3>6. /\ ks \in Seq(Nat) /\ Len(ks) = Len(keys) - 1
          /\ \A j \in 1 .. Len(keys) - 1 : ks[j] = IF j < e THEN keys[j] ELSE keys[j + 1]
      BY <1>1, <3>3, <3>4, RemoveAtProperties
    <3> HIDE DEF ks, ms
    <3>7. Proper(ms, adds, clock)
      <4>1. \A i, j \in DOMAIN meta : i < j => meta[i].ep < meta[j].ep
        BY <1>1 DEF Proper
      <4>2. \A i \in DOMAIN meta : meta[i].ep < adds /\ Sane(meta[i], clock)
        BY <1>1 DEF Proper
      <4>3. DOMAIN ms = 1 .. Len(meta) - 1 /\ DOMAIN meta = 1 .. Len(meta) /\ e \in Nat
        BY <1>1, <3>2, <3>5
      <4>4. ASSUME NEW i \in DOMAIN ms PROVE ms[i].ep < adds /\ Sane(ms[i], clock)
        <5>1. i \in DOMAIN meta /\ i + 1 \in DOMAIN meta /\ ms[i] \in {meta[i], meta[i + 1]}
          BY <1>1, <3>5, <4>3
        <5> QED
          BY <4>2, <5>1
      <4>5. ASSUME NEW i \in DOMAIN ms, NEW j \in DOMAIN ms, i < j
            PROVE  ms[i].ep < ms[j].ep
        <5> DEFINE i2 == IF i < e THEN i ELSE i + 1
                   j2 == IF j < e THEN j ELSE j + 1
        <5>1. i2 \in DOMAIN meta /\ j2 \in DOMAIN meta /\ i2 < j2
          BY <1>1, <4>3, <4>5
        <5>2. ms[i] = meta[i2] /\ ms[j] = meta[j2]
          BY <3>5, <4>3
        <5> HIDE DEF i2, j2
        <5> QED
          BY <4>1, <5>1, <5>2
      <4>6. Len(ms) <= Capacity
        BY <1>1, <3>5
      <4> QED
        BY <3>5, <4>4, <4>5, <4>6 DEF Proper
    <3>8. ASSUME ~mixed PROVE Aligned(ks, ms)
      <4>1. Len(keys) = Len(meta) /\ \A i \in 1 .. Len(meta) : keys[i] = meta[i].ep
        BY <1>1, <3>8 DEF StoreInv, StorePairs, Aligned
      <4>2. ASSUME NEW j \in DOMAIN ms PROVE ks[j] = ms[j].ep
        <5>1. j \in 1 .. Len(meta) - 1 /\ j \in 1 .. Len(keys) - 1
          BY <3>5, <4>1
        <5>2. CASE j < e
          <6>1. j \in 1 .. Len(meta)
            BY <1>1, <5>1
          <6>2. ks[j] = keys[j] /\ ms[j] = meta[j]
            BY <3>5, <3>6, <5>1, <5>2
          <6> QED
            BY <4>1, <6>1, <6>2
        <5>3. CASE ~(j < e)
          <6>1. j + 1 \in 1 .. Len(meta)
            BY <1>1, <5>1
          <6>2. ks[j] = keys[j + 1] /\ ms[j] = meta[j + 1]
            BY <3>5, <3>6, <5>1, <5>3
          <6> QED
            BY <4>1, <6>1, <6>2
        <5> QED
          BY <5>2, <5>3
      <4> QED
        BY <3>5, <3>6, <4>1, <4>2 DEF Aligned
    <3>9. ASSUME NEW i \in DOMAIN meta, i # e PROVE \E j \in DOMAIN ms : ms[j] = meta[i]
      <4>1. i \in 1 .. Len(meta) /\ DOMAIN ms = 1 .. Len(meta) - 1
        BY <1>1, <3>5
      <4>2. CASE i < e
        <5>1. i \in 1 .. Len(meta) - 1
          BY <1>1, <3>2, <4>1, <4>2
        <5> QED
          BY <3>5, <4>1, <4>2, <5>1
      <4>3. CASE i > e
        <5>1. i - 1 \in 1 .. Len(meta) - 1 /\ ~(i - 1 < e) /\ i - 1 + 1 = i
          BY <1>1, <3>2, <4>1, <4>3
        <5> QED
          BY <3>5, <4>1, <5>1
      <4> QED
        BY <3>2, <3>9, <4>1, <4>2, <4>3
    <3>10. Len(ms) + 1 = Capacity
      BY <1>1, <3>1, <3>5
    <3>11. ASSUME NEW i \in DOMAIN meta
           PROVE \/ \E j \in DOMAIN ms : ms[j] = meta[i]
                 \/ /\ Full /\ i = Coldest /\ Coldest \in DOMAIN meta
                    /\ \A j \in DOMAIN meta \ {Coldest} : ColderThan(Coldest, j)
                    /\ Len(ms) + 1 = Capacity
      <4>1. CASE i = e
        BY <2>2, <3>2, <3>10, <4>1 DEF e
      <4> QED
        BY <3>9, <4>1
    <3> QED
      BY <1>1, <3>6, <3>7, <3>8, <3>10, <3>11
  <2> QED
    BY <2>1, <2>2
<1> HIDE DEF ks, ms
<1>6. /\ ms \in Seq(Episode) /\ Len(ms) \in Nat /\ ks \in Seq(Nat)
      /\ keys' = Append(ks, adds) /\ meta' = Append(ms, new)
  BY <1>2, <1>5 DEF Proper, new
<1>7. /\ meta' \in Seq(Episode) /\ Len(meta') = Len(ms) + 1
      /\ \A i \in 1 .. Len(ms) : meta'[i] = ms[i]
      /\ meta'[Len(ms) + 1] = new
      /\ DOMAIN meta' = 1 .. Len(ms) + 1 /\ DOMAIN ms = 1 .. Len(ms)
  BY <1>4, <1>6, AppendProperties
<1>8. /\ keys' \in Seq(Nat) /\ Len(keys') = Len(ks) + 1
      /\ \A i \in 1 .. Len(ks) : keys'[i] = ks[i]
      /\ keys'[Len(ks) + 1] = adds
  BY <1>1, <1>6, AppendProperties
<1>9. Proper(meta', adds + 1, clock)
  <2>1. Proper(ms, adds + 1, clock)
    BY <1>1, <1>5, ProperLater
  <2>2. ASSUME NEW i \in DOMAIN meta' PROVE meta'[i].ep < adds + 1 /\ Sane(meta'[i], clock)
    <3>1. CASE i \in 1 .. Len(ms)
      BY <1>7, <2>1, <3>1 DEF Proper
    <3>2. CASE i = Len(ms) + 1
      BY <1>1, <1>4, <1>7, <3>2
    <3> QED
      BY <1>6, <1>7, <3>1, <3>2
  <2>3. ASSUME NEW i \in DOMAIN meta', NEW j \in DOMAIN meta', i < j
        PROVE  meta'[i].ep < meta'[j].ep
    <3>1. i \in 1 .. Len(ms) /\ meta'[i] = ms[i]
      BY <1>6, <1>7, <2>3
    <3>2. CASE j \in 1 .. Len(ms)
      BY <1>5, <1>7, <2>3, <3>1, <3>2 DEF Proper
    <3>3. CASE j = Len(ms) + 1
      BY <1>4, <1>5, <1>7, <3>1, <3>3 DEF Proper
    <3> QED
      BY <1>6, <1>7, <3>2, <3>3
  <2>4. Len(meta') <= Capacity
    BY <1>5, <1>7
  <2> QED
    BY <1>7, <2>2, <2>3, <2>4 DEF Proper
<1>10. StoreTypes'
  <2>1. \A m \in storeFile \cup storeDisk : Proper(m.val, adds + 1, clock)
    BY <1>1, ProperLater DEF StoreInv, StoreTypes
  <2>2. Proper(meta, adds, clock)' = Proper(meta', adds', clock')
    BY DEF Proper, Sane
  <2>3. \A m : Proper(m, adds', clock') = Proper(m, adds + 1, clock)
    BY <1>3
  <2> QED
    BY <1>1, <1>3, <1>8, <1>9, <2>1, <2>3 DEF StoreInv, StoreTypes
<1>11. ASSUME ~mixed PROVE Aligned(keys', meta')
  <2>1. Len(ks) = Len(ms) /\ \A i \in 1 .. Len(ms) : ks[i] = ms[i].ep
    BY <1>5, <1>7, <1>11 DEF Aligned
  <2>2. ASSUME NEW i \in DOMAIN meta' PROVE keys'[i] = meta'[i].ep
    <3>1. CASE i \in 1 .. Len(ms)
      BY <1>7, <1>8, <2>1, <3>1
    <3>2. CASE i = Len(ms) + 1
      <4>1. keys'[i] = adds /\ meta'[i] = new
        BY <1>7, <1>8, <2>1, <3>2
      <4> QED
        BY <1>4, <4>1
    <3>3. i \in 1 .. Len(ms) \/ i = Len(ms) + 1
      BY <1>6, <1>7
    <3> QED
      BY <3>1, <3>2, <3>3
  <2> QED
    BY <1>7, <1>8, <2>1, <2>2 DEF Aligned
<1>12. ASSUME NEW i \in DOMAIN meta
       PROVE \/ \E j \in DOMAIN meta' : meta'[j] = meta[i]
             \/ /\ Full /\ i = Coldest /\ Coldest \in DOMAIN meta
                /\ \A j \in DOMAIN meta \ {Coldest} : ColderThan(Coldest, j)
                /\ Len(meta') = Capacity
  <2>1. ASSUME NEW j \in DOMAIN ms, ms[j] = meta[i] PROVE \E l \in DOMAIN meta' : meta'[l] = meta[i]
    <3>1. j \in DOMAIN meta' /\ meta'[j] = meta[i]
      BY <1>6, <1>7, <2>1
    <3> QED
      BY <3>1
  <2> QED
    BY <1>5, <1>7, <2>1
<1> QED
  BY <1>3, <1>10, <1>11, <1>12

LEMMA RecallKeepsProper ==
  ASSUME StoreInv, Recall
  PROVE  /\ StoreTypes' /\ (Aligned(keys, meta) => Aligned(keys', meta'))
         /\ \A i \in DOMAIN meta : i \in DOMAIN meta' /\ meta'[i].ep = meta[i].ep
<1>1. PICK T \in SUBSET (DOMAIN meta) : meta' = Touch(T)
  BY DEF Recall
<1>2. /\ keys' = keys /\ stage' = stage /\ clock' = clock /\ adds' = adds /\ mixed' = mixed
      /\ UNCHANGED <<keysFile, storeFile, keysDisk, storeDisk, saves>>
  BY DEF Recall, files, disk, history
<1>3. /\ clock \in Nat \ {0} /\ adds \in Nat /\ Proper(meta, adds, clock)
      /\ meta \in Seq(Episode) /\ Len(meta) \in Nat /\ DOMAIN meta = 1 .. Len(meta)
  BY DEF StoreInv, StoreTypes, Proper
<1>4. ASSUME NEW i \in DOMAIN meta
      PROVE  /\ meta'[i] \in Episode /\ meta'[i].ep = meta[i].ep /\ Sane(meta'[i], clock)
  <2> DEFINE m == meta[i]
             h == [m EXCEPT !.hits = @ + 1, !.used = clock]
  <2>1. m \in Episode /\ Sane(m, clock)
    BY <1>3, ElementOfSeq DEF Proper
  <2>2. meta'[i] = IF i \in T THEN h ELSE m
    BY <1>1 DEF Touch
  <2> HIDE DEF m
  <2>3. /\ m.ep \in Nat /\ m.t \in Nat /\ m.hits \in Nat /\ m.used \in Nat
    BY <2>1 DEF Episode
  <2>4. h \in Episode /\ h.ep = m.ep /\ h.t = m.t /\ h.hits = m.hits + 1 /\ h.used = clock
    <3>1. m \in [ep : Nat, t : Nat, hits : Nat, used : Nat]
      BY <2>1, Zenon DEF Episode
    <3>2. m.hits + 1 \in Nat /\ clock \in Nat
      BY <1>3, <2>3
    <3> QED
      BY <3>1, <3>2 DEF Episode
  <2> HIDE DEF h
  <2>5. Sane(h, clock)
    BY <1>3, <2>1, <2>3, <2>4 DEF Sane
  <2> QED
    BY <2>1, <2>2, <2>4, <2>5 DEF m
<1>5. DOMAIN meta' = DOMAIN meta /\ meta' = [i \in 1 .. Len(meta) |-> meta'[i]]
  BY <1>1, <1>3 DEF Touch
<1>6. meta' \in Seq(Episode) /\ Len(meta') = Len(meta)
  <2>1. meta' \in [1 .. Len(meta) -> Episode]
    BY <1>3, <1>4, <1>5
  <2> QED
    BY <1>3, <2>1
<1>7. Proper(meta', adds, clock)
  BY <1>3, <1>4, <1>5, <1>6 DEF Proper
<1>8. StoreTypes'
  <2>1. \A m : Proper(m, adds', clock') = Proper(m, adds, clock)
    BY <1>2
  <2> QED
    BY <1>2, <1>7, <2>1 DEF StoreInv, StoreTypes
<1>9. Aligned(keys, meta) => Aligned(keys', meta')
  BY <1>2, <1>4, <1>5, <1>6 DEF Aligned
<1> QED
  BY <1>4, <1>5, <1>8, <1>9

LEMMA ConsolidateKeepsProper ==
  ASSUME StoreInv, NEW d \in DecayDays, Consolidate(d)
  PROVE  /\ StoreTypes' /\ (Aligned(keys, meta) => Aligned(keys', meta'))
         /\ adds' = adds
         /\ \A i \in DOMAIN meta :
              \/ \E j \in DOMAIN meta' : meta'[j] = meta[i]
              \/ meta[i].hits = 0 /\ meta[i].t < clock
<1> DEFINE S == Stays(clock - d)
           c == Cardinality(S)
<1>1. PICK kept \in InOrder(S) :
        /\ \A n \in DOMAIN kept : kept[n] \in DOMAIN keys
        /\ meta' = [n \in DOMAIN kept |-> meta[kept[n]]]
        /\ keys' = [n \in DOMAIN kept |-> keys[kept[n]]]
  BY DEF Consolidate
<1>2. /\ stage' = stage /\ clock' = clock /\ adds' = adds /\ mixed' = mixed
      /\ UNCHANGED <<keysFile, storeFile, keysDisk, storeDisk, saves>>
  BY DEF Consolidate, files, disk, history
<1>3. /\ clock \in Nat \ {0} /\ adds \in Nat /\ Proper(meta, adds, clock) /\ keys \in Seq(Nat)
      /\ meta \in Seq(Episode) /\ Len(meta) \in Nat /\ DOMAIN meta = 1 .. Len(meta)
      /\ Len(meta) <= Capacity /\ Capacity \in Nat
  BY CapacityAssumption DEF StoreInv, StoreTypes, Proper
<1>4. S \in SUBSET (1 .. Len(meta))
  BY <1>3 DEF Stays
<1>5. ASSUME NEW i \in DOMAIN meta, i \notin S PROVE meta[i].hits = 0 /\ meta[i].t < clock
  <2>1. meta[i] \in Episode
    BY <1>3, ElementOfSeq
  <2>2. meta[i].t \in Nat
    BY <2>1 DEF Episode
  <2>3. meta[i].hits = 0 /\ meta[i].t < clock - d
    BY <1>5 DEF Stays, Cold
  <2> QED
    BY <1>3, <2>2, <2>3, DecayAssumption
<1> HIDE DEF S
<1>6. /\ c \in Nat /\ c <= Len(meta) /\ kept \in [1 .. c -> S] /\ DOMAIN kept = 1 .. c
      /\ \A x, y \in DOMAIN kept : x < y => kept[x] < kept[y]
      /\ \A i \in S : \E x \in DOMAIN kept : kept[x] = i
  BY <1>3, <1>4, InOrderProperties
<1> HIDE DEF c
<1>7. \A n \in 1 .. c : kept[n] \in DOMAIN meta /\ meta[kept[n]] \in Episode
  BY <1>3, <1>4, <1>6, ElementOfSeq
<1>8. meta' \in Seq(Episode) /\ Len(meta') = c /\ DOMAIN meta' = 1 .. c
  <2>1. meta' \in [1 .. c -> Episode]
    BY <1>1, <1>6, <1>7
  <2> QED
    BY <1>6, <2>1
<1>9. keys' \in Seq(Nat) /\ Len(keys') = c
  <2>1. \A n \in 1 .. c : keys[kept[n]] \in Nat
    BY <1>1, <1>3, <1>6
  <2>2. keys' \in [1 .. c -> Nat]
    BY <1>1, <1>6, <2>1
  <2> QED
    BY <1>6, <2>2
<1>10. \A n \in 1 .. c : meta'[n] = meta[kept[n]] /\ keys'[n] = keys[kept[n]]
  BY <1>1, <1>6
<1>11. Proper(meta', adds, clock)
  <2>1. Len(meta') <= Capacity
    BY <1>3, <1>6, <1>8
  <2>2. ASSUME NEW i \in DOMAIN meta' PROVE meta'[i].ep < adds /\ Sane(meta'[i], clock)
    BY <1>3, <1>7, <1>8, <1>10 DEF Proper
  <2>3. ASSUME NEW i \in DOMAIN meta', NEW j \in DOMAIN meta', i < j
        PROVE  meta'[i].ep < meta'[j].ep
    <3>1. kept[i] < kept[j] /\ kept[i] \in DOMAIN meta /\ kept[j] \in DOMAIN meta
      BY <1>6, <1>7, <1>8, <2>3
    <3>2. meta[kept[i]].ep < meta[kept[j]].ep
      BY <1>3, <3>1 DEF Proper
    <3> QED
      BY <1>8, <1>10, <3>2
  <2> QED
    BY <1>8, <2>1, <2>2, <2>3 DEF Proper
<1>12. StoreTypes'
  <2>1. \A m : Proper(m, adds', clock') = Proper(m, adds, clock)
    BY <1>2
  <2> QED
    BY <1>2, <1>3, <1>9, <1>11, <2>1 DEF StoreInv, StoreTypes
<1>13. ASSUME Aligned(keys, meta) PROVE Aligned(keys', meta')
  BY <1>7, <1>8, <1>9, <1>10, <1>13 DEF Aligned
<1>14. ASSUME NEW i \in DOMAIN meta
       PROVE  \/ \E j \in DOMAIN meta' : meta'[j] = meta[i]
              \/ meta[i].hits = 0 /\ meta[i].t < clock
  <2>1. CASE i \in S
    BY <1>6, <1>8, <1>10, <2>1
  <2> QED
    BY <1>5, <2>1
<1> QED
  BY <1>2, <1>12, <1>13, <1>14

(* The steps of a save, the kernel's, the failures and the load. *)
LEMMA SaveKeysKeeps == ASSUME StoreInv, SaveKeys PROVE StoreInv'
<1>1. /\ stage = "idle" /\ stage' = "keys" /\ keysFile' = {} /\ saves' = saves + 1
      /\ versions' = versions \cup {<<keys, meta>>} /\ lastSave' = {}
      /\ UNCHANGED <<keys, meta, storeFile, keysDisk, storeDisk, clock, adds, mixed>>
  BY DEF SaveKeys, memory, disk
<1>2. saves \in Nat
  BY DEF StoreInv, StoreTypes
<1>3. StoreTypes'
  BY <1>1, <1>2 DEF StoreInv, StoreTypes
<1>4. StorePairs'
  BY <1>1 DEF StoreInv, StorePairs, Aligned
<1>5. SaveUnderWay'
  BY <1>1, <1>2 DEF StoreInv, StoreTypes, SaveUnderWay, Saving
<1>6. LastSaved'
  BY <1>1 DEF LastSaved
<1> QED
  BY <1>3, <1>4, <1>5, <1>6 DEF StoreInv

LEMMA KeysSavedKeeps == ASSUME StoreInv, KeysSaved PROVE StoreInv'
<1> DEFINE new == [by |-> Tag, val |-> keys]
<1>1. /\ stage = "keys" /\ stage' = "dumps" /\ keysFile' = {new}
      /\ UNCHANGED <<keys, meta, storeFile, keysDisk, storeDisk, clock, adds, saves,
                     versions, lastSave, mixed>>
  BY DEF KeysSaved, memory, disk, history
<1>2. saves \in Nat /\ saves > 0 /\ keys \in Seq(Nat) /\ mixed \in BOOLEAN
  BY <1>1 DEF StoreInv, StoreTypes, SaveUnderWay, Saving
<1>3. new.val = keys /\ new.by \in Nat /\ new.by <= saves /\ (new.by # 0 => new.by = saves)
  BY <1>2 DEF Tag
<1>4. \A m \in storeFile \cup storeDisk : m.by < saves /\ m.by \in Nat
  BY <1>1 DEF StoreInv, StoreTypes, SaveUnderWay, Saving
<1> HIDE DEF new
<1>5. StoreTypes'
  BY <1>1, <1>2, <1>3 DEF StoreInv, StoreTypes
<1>6. StorePairs'
  BY <1>1, <1>2, <1>3, <1>4 DEF StoreInv, StorePairs, Aligned
<1>7. SaveUnderWay'
  BY <1>1, <1>3 DEF StoreInv, SaveUnderWay, Saving
<1>8. LastSaved'
  BY <1>1 DEF StoreInv, SaveUnderWay, Saving, LastSaved
<1> QED
  BY <1>5, <1>6, <1>7, <1>8 DEF StoreInv

LEMMA SaveStoreKeeps == ASSUME StoreInv, SaveStore PROVE StoreInv'
<1>1. /\ stage = "dumps" /\ stage' = "store" /\ storeFile' = {}
      /\ UNCHANGED <<keys, meta, keysFile, keysDisk, storeDisk, clock, adds, saves,
                     versions, lastSave, mixed>>
  BY DEF SaveStore, memory, disk, history
<1> QED
  BY <1>1 DEF StoreInv, StoreTypes, StorePairs, SaveUnderWay, Saving, LastSaved, Aligned

LEMMA StoreSavedKeeps == ASSUME StoreInv, StoreSaved PROVE StoreInv'
<1> DEFINE new == [by |-> Tag, val |-> meta]
<1>1. /\ stage = "store" /\ stage' = "idle" /\ storeFile' = {new}
      /\ lastSave' = {<<keys, meta>>}
      /\ UNCHANGED <<keys, meta, keysFile, keysDisk, storeDisk, clock, adds, saves,
                     versions, mixed>>
  BY DEF StoreSaved, memory, disk
<1>2. saves \in Nat /\ saves > 0 /\ Proper(meta, adds, clock) /\ mixed \in BOOLEAN
  BY <1>1 DEF StoreInv, StoreTypes, SaveUnderWay, Saving
<1>3. /\ new.val = meta /\ new.by \in Nat /\ new.by <= saves
      /\ new.by # 0 => new.by = saves /\ Aligned(keys, meta)
  BY <1>2 DEF Tag, StoreInv, StorePairs
<1>4. /\ <<keys, meta>> \in versions
      /\ \A k \in keysFile \cup keysDisk : k.by = saves => k.val = keys
      /\ \A k \in keysFile : k.val = keys
  BY <1>1 DEF StoreInv, SaveUnderWay, Saving
<1> HIDE DEF new
<1>5. StoreTypes'
  BY <1>1, <1>2, <1>3 DEF StoreInv, StoreTypes
<1>6. StorePairs'
  BY <1>1, <1>3, <1>4 DEF StoreInv, StorePairs, Aligned
<1>7. SaveUnderWay' /\ LastSaved'
  BY <1>1, <1>3, <1>4 DEF SaveUnderWay, Saving, LastSaved
<1> QED
  BY <1>5, <1>6, <1>7 DEF StoreInv

LEMMA WriteBackKeeps == ASSUME StoreInv, WriteBack PROVE StoreInv'
<1>1. /\ keysDisk' \in {keysDisk, keysFile} /\ storeDisk' \in {storeDisk, storeFile}
      /\ UNCHANGED <<keys, meta, stage, keysFile, storeFile, clock, adds, saves, versions,
                     lastSave, mixed>>
  BY DEF WriteBack, memory, files, history
<1>2. /\ keysFile' \cup keysDisk' \subseteq keysFile \cup keysDisk
      /\ storeFile' \cup storeDisk' \subseteq storeFile \cup storeDisk
  BY <1>1
<1>3. StoreTypes'
  BY <1>1, <1>2 DEF StoreInv, StoreTypes
<1>4. StorePairs'
  BY <1>1, <1>2 DEF StoreInv, StorePairs, Aligned
<1>5. SaveUnderWay' /\ LastSaved'
  BY <1>1, <1>2 DEF StoreInv, SaveUnderWay, Saving, LastSaved
<1> QED
  BY <1>3, <1>4, <1>5 DEF StoreInv

LEMMA DownKeeps == ASSUME StoreInv, ProcessEnds \/ PowerLoss PROVE StoreInv'
<1>1. /\ keys' = << >> /\ meta' = << >> /\ stage' = "down" /\ mixed' = FALSE
      /\ UNCHANGED <<keysDisk, storeDisk, clock, adds, saves, versions>>
  BY DEF ProcessEnds, PowerLoss, Down, disk
<1>2. /\ keysFile' \in {keysFile, keysDisk} /\ storeFile' \in {storeFile, storeDisk}
      /\ lastSave' = {} \/ (lastSave' = lastSave /\ UNCHANGED <<keysFile, storeFile>>)
  BY DEF ProcessEnds, PowerLoss, files, disk
<1>3. /\ keysFile' \cup keysDisk' \subseteq keysFile \cup keysDisk
      /\ storeFile' \cup storeDisk' \subseteq storeFile \cup storeDisk
  BY <1>1, <1>2
<1>4. Proper(<< >>, adds, clock) /\ << >> \in Seq(Nat)
  BY CapacityAssumption DEF Proper
<1>5. StoreTypes'
  BY <1>1, <1>3, <1>4 DEF StoreInv, StoreTypes
<1>6. StorePairs'
  BY <1>1, <1>3 DEF StoreInv, StorePairs, Aligned
<1>7. SaveUnderWay' /\ LastSaved'
  BY <1>1, <1>2 DEF StoreInv, SaveUnderWay, Saving, LastSaved
<1> QED
  BY <1>5, <1>6, <1>7 DEF StoreInv

LEMMA LoadKeeps == ASSUME StoreInv, Load PROVE StoreInv'
<1>1. /\ stage' = "idle"
      /\ UNCHANGED <<keysFile, storeFile, keysDisk, storeDisk, clock, adds, saves, versions,
                     lastSave>>
  BY DEF Load, files, disk
<1>2. PICK k \in keysFile, m \in storeFile :
        keys' = k.val /\ meta' = m.val /\ mixed' = (k.by # m.by \/ k.by = 0)
  BY DEF Load
<1>3. StoreTypes'
  <2>1. Proper(m.val, adds, clock) /\ k.val \in Seq(Nat)
    BY DEF StoreInv, StoreTypes
  <2>2. mixed' \in BOOLEAN
    BY <1>2
  <2> QED
    BY <1>1, <1>2, <2>1, <2>2 DEF StoreInv, StoreTypes
<1>4. StorePairs'
  <2>1. ~mixed' => Aligned(keys', meta')
    BY <1>2 DEF StoreInv, StorePairs
  <2> QED
    BY <1>1, <2>1 DEF StoreInv, StorePairs, Aligned
<1>5. SaveUnderWay' /\ LastSaved'
  BY <1>1 DEF StoreInv, SaveUnderWay, Saving, LastSaved
<1> QED
  BY <1>3, <1>4, <1>5 DEF StoreInv

LEMMA StoreInvHolds == StoreSpec => []StoreInv
<1>1. StoreInit => StoreInv
  <2> SUFFICES ASSUME StoreInit PROVE StoreInv
    OBVIOUS
  <2>1. /\ keys = << >> /\ meta = << >> /\ clock = 1 /\ adds = 0 /\ saves = 0
        /\ keysFile = {} /\ storeFile = {} /\ keysDisk = {} /\ storeDisk = {}
        /\ stage = "idle" /\ lastSave = {} /\ mixed = FALSE
    BY DEF StoreInit
  <2>2. Proper(<< >>, 0, 1) /\ << >> \in Seq(Nat) /\ 1 \in Nat \ {0} /\ 0 \in Nat
    BY CapacityAssumption DEF Proper
  <2>3. StoreTypes
    BY <2>1, <2>2 DEF StoreTypes
  <2> QED
    BY <2>1, <2>3 DEF StoreInv, StoreTypes, StorePairs, SaveUnderWay, Saving, LastSaved, Aligned
<1>2. StoreInv /\ [StoreNext]_storeVars => StoreInv'
  <2> SUFFICES ASSUME StoreInv, [StoreNext]_storeVars PROVE StoreInv'
    OBVIOUS
  <2>0. /\ clock \in Nat \ {0} /\ adds \in Nat /\ Proper(meta, adds, clock)
        /\ mixed \in BOOLEAN /\ saves \in Nat /\ keys \in Seq(Nat)
    BY DEF StoreInv, StoreTypes
(* The operations leave the files and what is said of them alone. *)
  <2>1. ASSUME StoreTypes', ~mixed => Aligned(keys', meta'), stage = "idle",
               UNCHANGED <<stage, files, disk, history>>
        PROVE  StoreInv'
    BY <2>1 DEF StoreInv, StorePairs, SaveUnderWay, Saving, LastSaved, Aligned, files, disk,
                history
  <2>2. CASE Add
    <3>1. stage = "idle" /\ UNCHANGED <<stage, files, disk, history>>
      BY <2>2 DEF Add
    <3> QED
      BY <2>1, <2>2, <3>1, AddKeepsProper
  <2>3. CASE Recall
    <3>1. stage = "idle" /\ UNCHANGED <<stage, files, disk, history>>
      BY <2>3 DEF Recall
    <3>2. StoreTypes' /\ (~mixed => Aligned(keys', meta'))
      BY <2>3, RecallKeepsProper DEF StoreInv, StorePairs
    <3> QED
      BY <2>1, <3>1, <3>2
  <2>4. ASSUME NEW d \in DecayDays, Consolidate(d) PROVE StoreInv'
    <3>1. stage = "idle" /\ UNCHANGED <<stage, files, disk, history>>
      BY <2>4 DEF Consolidate
    <3>2. StoreTypes' /\ (~mixed => Aligned(keys', meta'))
      BY <2>4, ConsolidateKeepsProper DEF StoreInv, StorePairs
    <3> QED
      BY <2>1, <3>1, <3>2
  <2>6. CASE SaveKeys
    BY <2>6, SaveKeysKeeps
  <2>7. CASE KeysSaved
    BY <2>7, KeysSavedKeeps
  <2>8. CASE SaveStore
    BY <2>8, SaveStoreKeeps
  <2>9. CASE StoreSaved
    BY <2>9, StoreSavedKeeps
  <2>10. CASE SaveRaises
    BY <2>10 DEF SaveRaises, memory, files, disk, history, StoreInv, StoreTypes, StorePairs,
                 SaveUnderWay, Saving, LastSaved, Aligned
  <2>11. CASE ProcessEnds \/ PowerLoss
    BY <2>11, DownKeeps
  <2>12. CASE Start
    BY <2>12 DEF Start, memory, files, disk, history, StoreInv, StoreTypes, StorePairs,
                 SaveUnderWay, Saving, LastSaved, Aligned
  <2>13. CASE Load
    BY <2>13, LoadKeeps
  <2>14. CASE Tick
    <3>1. clock' = clock + 1 /\ UNCHANGED <<keys, meta, stage, files, disk, adds, history>>
      BY <2>14 DEF Tick, memory
    <3>2. \A m : Proper(m, adds, clock) => Proper(m, adds, clock + 1)
      BY <2>0, ProperLater
    <3>3. StoreTypes'
      BY <2>0, <3>1, <3>2 DEF StoreInv, StoreTypes, files, disk, history
    <3> QED
      BY <3>1, <3>3 DEF StoreInv, StorePairs, SaveUnderWay, Saving, LastSaved, Aligned, files,
                        disk, history
  <2>15. CASE WriteBack
    BY <2>15, WriteBackKeeps
  <2>16. CASE UNCHANGED storeVars
    BY <2>16 DEF storeVars, StoreInv, StoreTypes, StorePairs, SaveUnderWay, Saving, LastSaved,
                 Aligned
  <2> QED
    BY <2>2, <2>3, <2>4, <2>6, <2>7, <2>8, <2>9, <2>10, <2>11, <2>12, <2>13, <2>14, <2>15,
       <2>16
    DEF StoreNext, Operate, Save, Fail
<1> QED
  BY <1>1, <1>2, PTL DEF StoreSpec

(* EpisodicStore: types, and the store stays within its capacity, for any  *)
(* capacity and any sequence of calls, saves, power losses and loads.      *)
THEOREM StoreIsBounded == StoreSpec => []StoreTypeOK
<1>1. StoreInv => StoreTypeOK
  BY DEF StoreInv, StoreTypes, Proper, StoreTypeOK
<1> QED
  BY <1>1, StoreInvHolds, PTL

(* EpisodicStore's two arrays: row i of keys is the key that the episode   *)
(* of meta[i] was added with, unless the store was loaded from two saves.  *)
THEOREM ArraysStayParallel == StoreSpec => []Parallel
<1>1. StoreInv => Parallel
  BY DEF StoreInv, StorePairs, Parallel
<1> QED
  BY <1>1, StoreInvHolds, PTL

(* recall's last_used is the time of the last hit.                         *)
THEOREM LastUseIsOfAHit == StoreSpec => []LastUseOfHits
<1>1. StoreInv => LastUseOfHits
  BY Zenon DEF StoreInv, StoreTypes, Proper, Sane, LastUseOfHits
<1> QED
  BY <1>1, StoreInvHolds, PTL

(* _evict_one and consolidate: what the store forgets was the coldest, or  *)
(* was never used and is old.                                              *)
THEOREM ColdestIsForgotten == StoreSpec => ForgetsColdest
<1> DEFINE Gone(i) == \A j \in DOMAIN meta' : meta'[j].ep # meta[i].ep
           Fair(i) == \/ adds' = adds /\ meta[i].hits = 0 /\ meta[i].t < clock
                      \/ /\ adds' = adds + 1 /\ Len(meta') = Capacity
                         /\ \A j \in DOMAIN meta \ {i} : Warmer(meta[j], meta[i])
<1>1. StoreInv /\ [StoreNext]_storeVars => [Operate /\ ~mixed => \A i \in DOMAIN meta : Gone(i) => Fair(i)]_storeVars
  <2> SUFFICES ASSUME StoreInv, Operate, NEW i \in DOMAIN meta, Gone(i) PROVE Fair(i)
    OBVIOUS
  <2>1. CASE Add
    <3>1. /\ adds' = adds + 1 /\ Len(meta') = Capacity
          /\ i = Coldest /\ \A j \in DOMAIN meta \ {i} : ColderThan(i, j)
      BY <2>1, AddKeepsProper
    <3>2. ASSUME NEW j \in DOMAIN meta \ {i} PROVE Warmer(meta[j], meta[i])
      <4>1. ColderThan(i, j)
        BY <3>1
      <4>2. i < j => meta[i].ep < meta[j].ep
        BY DEF StoreInv, StoreTypes, Proper
      <4>3. meta[i] \in Episode /\ meta[j] \in Episode
        BY ElementOfSeq DEF StoreInv, StoreTypes, Proper
      <4>4. /\ meta[i].hits \in Nat /\ meta[i].used \in Nat /\ meta[i].ep \in Nat
            /\ meta[j].hits \in Nat /\ meta[j].used \in Nat /\ meta[j].ep \in Nat
        BY <4>3 DEF Episode
      <4> QED
        BY <4>1, <4>2, <4>4 DEF ColderThan, Warmer
    <3> QED
      BY <3>1, <3>2
  <2>2. CASE Recall
    BY <2>2, RecallKeepsProper
  <2>3. ASSUME NEW d \in DecayDays, Consolidate(d) PROVE Fair(i)
    BY <2>3, ConsolidateKeepsProper
  <2> QED
    BY <2>1, <2>2, <2>3 DEF Operate
<1> QED
  BY <1>1, StoreInvHolds, PTL DEF StoreSpec, ForgetsColdest

(* save and load: a load from two files of one save gives a store that a   *)
(* save was given, and after a save that returned, until the next one or a *)
(* power loss before both files are on the disk, the one it was given.     *)
THEOREM LoadRollsBack == StoreSpec => RollsBack
<1>1. StoreInv /\ [StoreNext]_storeVars
        => [Load => /\ ~mixed' => memory' \in versions
                    /\ \A v \in lastSave : memory' = v]_storeVars
  <2> SUFFICES ASSUME StoreInv, Load
               PROVE  (~mixed' => memory' \in versions) /\ \A v \in lastSave : memory' = v
    OBVIOUS
  <2>1. PICK k \in keysFile, m \in storeFile :
          keys' = k.val /\ meta' = m.val /\ mixed' = (k.by # m.by \/ k.by = 0)
    BY DEF Load
  <2>2. memory' = <<k.val, m.val>>
    BY <2>1 DEF memory
  <2>3. ~mixed' => <<k.val, m.val>> \in versions
    BY <2>1 DEF StoreInv, StorePairs
  <2>4. \A v \in lastSave : <<k.val, m.val>> = v
    BY DEF StoreInv, LastSaved
  <2> QED
    BY <2>2, <2>3, <2>4, Zenon
<1> QED
  BY <1>1, StoreInvHolds, PTL DEF StoreSpec, RollsBack

-----------------------------------------------------------------------------
(* Recurring identities *)

Labels == Truths \cup {NoName, EmptyName}

(* The label that NameIsFirstTruth gives an identity of sightings h.       *)
NameOf(h) ==
  IF Named(h) # {} THEN h[CHOOSE k \in Named(h) : \A m \in Named(h) : k <= m] ELSE h[1]

(* The first of a set of naturals is the one CHOOSE finds. *)
LEMMA ChooseFirst ==
  ASSUME NEW T \in SUBSET Nat, NEW x \in T, \A y \in T : x <= y
  PROVE  (CHOOSE k \in T : \A m \in T : k <= m) = x
<1> DEFINE c == CHOOSE k \in T : \A m \in T : k <= m
<1>1. c \in T /\ \A m \in T : c <= m
  BY Zenon
<1>2. c <= x /\ x <= c
  BY <1>1
<1> HIDE DEF c
<1>3. c = x
  BY <1>1, <1>2
<1> QED
  BY <1>3 DEF c

(* A further sighting gives a name only where there is none. *)
LEMMA NameOfAppend ==
  ASSUME NEW h \in Seq(Labels), h # << >>, NEW t \in Labels
  PROVE  NameOf(Append(h, t)) =
           IF t \notin {NoName, EmptyName} /\ NameOf(h) \in {NoName, EmptyName}
           THEN t ELSE NameOf(h)
<1> DEFINE g == Append(h, t)
<1>1. /\ DOMAIN h = 1 .. Len(h) /\ Len(h) \in Nat \ {0}
      /\ DOMAIN g = 1 .. Len(h) + 1
      /\ g[Len(h) + 1] = t /\ \A i \in 1 .. Len(h) : g[i] = h[i]
  BY AppendProperties
<1> HIDE DEF g
<1>2. Named(g) = Named(h) \cup {k \in {Len(h) + 1} : t \notin {NoName, EmptyName}}
  BY <1>1 DEF Named
<1>3. Named(h) \in SUBSET Nat /\ Named(g) \in SUBSET Nat
  BY <1>1 DEF Named
<1>4. CASE Named(h) # {}
  <2>1. PICK x \in Named(h) : \A y \in Named(h) : x <= y
    BY <1>3, <1>4, Least
  <2>2. x \in Named(g) /\ \A y \in Named(g) : x <= y
    BY <1>1, <1>2, <2>1 DEF Named
  <2>3. NameOf(h) = h[x] /\ NameOf(g) = g[x]
    BY <1>3, <2>1, <2>2, ChooseFirst DEF NameOf
  <2>4. x \in 1 .. Len(h) /\ h[x] \notin {NoName, EmptyName}
    BY <1>1, <2>1 DEF Named
  <2> QED
    BY <1>1, <2>3, <2>4 DEF g
<1>5. CASE Named(h) = {}
  <2>1. NameOf(h) = h[1] /\ h[1] \in {NoName, EmptyName} /\ g[1] = h[1]
    BY <1>1, <1>5 DEF NameOf, Named
  <2>2. CASE t \in {NoName, EmptyName}
    <3>1. NameOf(g) = g[1]
      BY <1>2, <1>5, <2>2 DEF NameOf
    <3> QED
      BY <2>1, <2>2, <3>1 DEF g
  <2>3. CASE t \notin {NoName, EmptyName}
    <3>1. Named(g) = {Len(h) + 1}
      BY <1>2, <1>5, <2>3
    <3>2. NameOf(g) = g[Len(h) + 1]
      BY <1>1, <1>3, <3>1, ChooseFirst DEF NameOf
    <3> QED
      BY <1>1, <2>1, <2>3, <3>2 DEF g
  <2> QED
    BY <2>2, <2>3
<1> QED
  BY <1>4, <1>5

(* One sighting, whatever its ground truth. *)
LEMMA NameOfOne ==
  ASSUME NEW t \in Labels
  PROVE  NameOf(<<t>>) = t
<1>1. Named(<<t>>) = {} \/ Named(<<t>>) = {1}
  BY DEF Named
<1>2. CASE Named(<<t>>) = {1}
  BY <1>2, ChooseFirst DEF NameOf
<1> QED
  BY <1>1, <1>2 DEF NameOf

(* The lists have one entry per identity, which has been seen; as far as   *)
(* centroids goes nothing is needed, wherever they are.                    *)
IdentTypes ==
  /\ count \in Seq(Nat) /\ label \in Seq(Labels) /\ heard \in Seq(Seq(Labels))
  /\ Len(count) = Len(heard) /\ Len(label) = Len(heard)
  /\ \A i \in DOMAIN heard : heard[i] # << >>

NamesKept ==
  \A i \in 1 .. Len(heard) : label[i] = NameOf(heard[i]) /\ count[i] = Len(heard[i])

IdentInv == IdentTypes /\ NamesKept

LEMMA NewKeepsNames ==
  ASSUME IdentInv, NEW p, NEW t \in Labels, New(p, t)
  PROVE  IdentInv'
<1>1. /\ count' = Append(count, 1) /\ label' = Append(label, t)
      /\ heard' = Append(heard, <<t>>)
  BY DEF New
<1>2. <<t>> \in Seq(Labels) /\ <<t>> # << >> /\ Len(<<t>>) = 1
  OBVIOUS
<1>3. IdentTypes'
  BY <1>1, <1>2, AppendProperties DEF IdentInv, IdentTypes
<1>4. ASSUME NEW i \in 1 .. Len(heard')
      PROVE  label'[i] = NameOf(heard'[i]) /\ count'[i] = Len(heard'[i])
  <2>1. i \in 1 .. Len(heard) \/ i = Len(heard) + 1
    BY <1>1, <1>2 DEF IdentInv, IdentTypes
  <2>2. CASE i \in 1 .. Len(heard)
    BY <1>1, <1>2, <2>2, AppendProperties DEF IdentInv, IdentTypes, NamesKept
  <2>3. CASE i = Len(heard) + 1
    <3>1. label'[i] = t /\ count'[i] = 1 /\ heard'[i] = <<t>>
      BY <1>1, <1>2, <2>3, AppendProperties DEF IdentInv, IdentTypes
    <3> QED
      BY <1>2, <3>1, NameOfOne
  <2> QED
    BY <2>1, <2>2, <2>3
<1>5. NamesKept'
  BY <1>4 DEF NamesKept, NameOf, Named
<1> QED
  BY <1>3, <1>5 DEF IdentInv

LEMMA FoldKeepsNames ==
  ASSUME IdentInv, NEW p, NEW t \in Labels, Fold(p, t)
  PROVE  IdentInv'
<1> DEFINE i == Best(p)
<1>1. /\ count' = [count EXCEPT ![i] = @ + 1]
      /\ label' = [label EXCEPT ![i] = LabelAfter(i, t)]
      /\ heard' = [heard EXCEPT ![i] = Append(@, t)]
  BY DEF Fold
<1> HIDE DEF i
<1>2. CASE i \notin 1 .. Len(heard)
  <2>1. count' = count /\ label' = label /\ heard' = heard
    BY <1>1, <1>2 DEF IdentInv, IdentTypes
  <2> QED
    BY <2>1 DEF IdentInv, IdentTypes, NamesKept
<1>3. CASE i \in 1 .. Len(heard)
  <2>1. /\ heard[i] \in Seq(Labels) /\ heard[i] # << >>
        /\ label[i] \in Labels /\ count[i] \in Nat
        /\ label[i] = NameOf(heard[i]) /\ count[i] = Len(heard[i])
    <3>1. heard[i] \in Seq(Labels) /\ heard[i] # << >>
      <4>1. heard \in Seq(Seq(Labels)) /\ DOMAIN heard = 1 .. Len(heard)
        BY DEF IdentInv, IdentTypes
      <4>2. heard[i] \in Seq(Labels)
        BY <1>3, <4>1, ElementOfSeq, Zenon
      <4>3. heard[i] # << >>
        BY <1>3, <4>1, Zenon DEF IdentInv, IdentTypes
      <4> QED
        BY <4>2, <4>3
    <3>2. label[i] \in Labels /\ count[i] \in Nat
      BY <1>3 DEF IdentInv, IdentTypes
    <3>3. label[i] = NameOf(heard[i]) /\ count[i] = Len(heard[i])
      BY <1>3, Zenon DEF IdentInv, NamesKept
    <3> QED
      BY <3>1, <3>2, <3>3
  <2>2. /\ Append(heard[i], t) \in Seq(Labels) /\ Append(heard[i], t) # << >>
        /\ Len(Append(heard[i], t)) = count[i] + 1
    BY <2>1
  <2>3. LabelAfter(i, t) \in Labels /\ LabelAfter(i, t) = NameOf(Append(heard[i], t))
    BY <2>1, NameOfAppend DEF LabelAfter
  <2>4. IdentTypes'
    BY <1>1, <1>3, <2>1, <2>2, <2>3 DEF IdentInv, IdentTypes
  <2>5. ASSUME NEW k \in 1 .. Len(heard')
        PROVE  label'[k] = NameOf(heard'[k]) /\ count'[k] = Len(heard'[k])
    <3>1. k \in 1 .. Len(heard)
      BY <1>1, <1>3, <2>2 DEF IdentInv, IdentTypes
    <3>2. CASE k = i
      BY <1>1, <1>3, <2>2, <2>3, <3>2 DEF IdentInv, IdentTypes
    <3>3. CASE k # i
      BY <1>1, <3>1, <3>3 DEF IdentInv, IdentTypes, NamesKept
    <3> QED
      BY <3>2, <3>3
  <2>6. NamesKept'
    BY <2>5 DEF NamesKept, NameOf, Named
  <2> QED
    BY <2>4, <2>6 DEF IdentInv
<1> QED
  BY <1>2, <1>3

LEMMA IdentInvHolds == IdentSpec => []IdentInv
<1>1. IdentInit => IdentInv
  BY DEF IdentInit, IdentInv, IdentTypes, NamesKept
<1>2. IdentInv /\ [IdentNext]_identVars => IdentInv'
  <2> SUFFICES ASSUME IdentInv, [IdentNext]_identVars PROVE IdentInv'
    OBVIOUS
  <2>1. ASSUME NEW p \in Points, NEW t \in Labels, New(p, t) \/ Fold(p, t)
        PROVE  IdentInv'
    BY <2>1, NewKeepsNames, FoldKeepsNames
  <2>2. CASE UNCHANGED identVars
    BY <2>2 DEF identVars, IdentInv, IdentTypes, NamesKept
  <2> QED
    BY <2>1, <2>2 DEF IdentNext, Labels
<1> QED
  BY <1>1, <1>2, PTL DEF IdentSpec

(* RecurringIdentity.observe: for any signals, threshold and labels, an    *)
(* identity bears the first name among its own sightings.                  *)
THEOREM NamesAreFirst == IdentSpec => []NameIsFirstTruth
<1>1. IdentInv => NameIsFirstTruth
  <2> SUFFICES ASSUME IdentInv PROVE NameIsFirstTruth
    OBVIOUS
  <2>1. DOMAIN label = 1 .. Len(heard)
    BY DEF IdentInv, IdentTypes
  <2>2. \A i \in DOMAIN label : label[i] = NameOf(heard[i]) /\ count[i] = Len(heard[i])
    BY <2>1 DEF IdentInv, NamesKept
  <2> QED
    BY <2>2, Zenon DEF NameIsFirstTruth, NameOf
<1> QED
  BY <1>1, IdentInvHolds, PTL

-----------------------------------------------------------------------------
(* The cascade *)

(* What Counted adds up, for any counts a.                                 *)
Adds(S, a, n) == S = [k \in 0 .. n |-> IF k = 0 THEN 0 ELSE a[k] + S[k - 1]]
Sums(a, n) == CHOOSE S : Adds(S, a, n)

(* There is such a function: otherwise there is a least n without one.     *)
LEMMA SumsExist ==
  ASSUME NEW n \in Nat, NEW a \in [1 .. n -> Nat]
  PROVE  Adds(Sums(a, n), a, n) /\ Sums(a, n) \in [0 .. n -> Nat]
<1> DEFINE Good(S, m) == /\ S \in [0 .. m -> Nat]
                         /\ \A k \in 0 .. m : S[k] = IF k = 0 THEN 0 ELSE a[k] + S[k - 1]
           Bad == {m \in 0 .. n : ~ \E S : Good(S, m)}
<1>1. Bad = {}
  <2>1. SUFFICES ASSUME Bad # {} PROVE FALSE
    OBVIOUS
  <2>2. PICK m \in Bad : \A y \in Bad : m <= y
    <3>1. Bad \in SUBSET Nat
      OBVIOUS
    <3> HIDE DEF Bad
    <3> QED
      BY <2>1, <3>1, Least
  <2>3. m # 0
    <3>1. Good([k \in 0 .. 0 |-> 0], 0)
      OBVIOUS
    <3> QED
      BY <3>1
  <2>4. m - 1 \in 0 .. n /\ m - 1 \notin Bad
    <3>1. m \in 1 .. n
      BY <2>2, <2>3
    <3>2. m - 1 \in 0 .. n /\ ~(m <= m - 1)
      BY <3>1
    <3> HIDE DEF Bad
    <3> QED
      BY <2>2, <3>2
  <2>5. PICK S : Good(S, m - 1)
    BY <2>4
  <2>6. Good([k \in 0 .. m |-> IF k = m THEN a[m] + S[m - 1] ELSE S[k]], m)
    <3>1. m \in 1 .. n /\ a[m] \in Nat
      BY <2>2, <2>3
    <3>2. S[m - 1] \in Nat /\ \A k \in 0 .. m - 1 : S[k] \in Nat
      BY <2>5, <3>1
    <3> DEFINE G == [k \in 0 .. m |-> IF k = m THEN a[m] + S[m - 1] ELSE S[k]]
    <3>3. \A k \in 0 .. m : G[k] = IF k = m THEN a[m] + S[m - 1] ELSE S[k]
      OBVIOUS
    <3>4. G \in [0 .. m -> Nat]
      BY <3>1, <3>2
    <3> HIDE DEF G
    <3>5. \A k \in 0 .. m : G[k] = IF k = 0 THEN 0 ELSE a[k] + G[k - 1]
      BY <2>5, <3>1, <3>3
    <3> QED
      BY <3>4, <3>5 DEF G
  <2> QED
    BY <2>2, <2>6
<1>2. PICK S : Good(S, n)
  <2>1. n \in 0 .. n
    OBVIOUS
  <2>2. n \notin Bad
    BY <1>1, Zenon
  <2> QED
    BY <2>1, <2>2
<1>3. Adds(S, a, n)
  BY <1>2 DEF Adds
<1>4. Adds(Sums(a, n), a, n)
  BY <1>3 DEF Sums
<1> DEFINE R == Sums(a, n)
<1> HIDE DEF R
<1>5. /\ DOMAIN R = 0 .. n /\ R = [k \in 0 .. n |-> R[k]]
      /\ \A k \in 0 .. n : R[k] = IF k = 0 THEN 0 ELSE a[k] + R[k - 1]
  BY <1>4 DEF R, Adds
<1>6. \A k \in 0 .. n : R[k] \in Nat
  <2> DEFINE D == {k \in 0 .. n : R[k] \notin Nat}
  <2>1. SUFFICES ASSUME D # {} PROVE FALSE
    OBVIOUS
  <2>2. PICK m \in D : \A y \in D : m <= y
    <3>1. D \in SUBSET Nat
      OBVIOUS
    <3> HIDE DEF D
    <3> QED
      BY <2>1, <3>1, Least
  <2>3. m \in 1 .. n
    BY <1>5, <2>2
  <2>4. m - 1 \in 0 .. n /\ R[m - 1] \in Nat
    BY <2>2, <2>3
  <2>5. R[m] = a[m] + R[m - 1] /\ a[m] \in Nat /\ R[m] \notin Nat
    <3>1. R[m] \notin Nat
      BY <2>2
    <3>2. a[m] \in Nat
      BY <2>3
    <3>3. m \in 0 .. n /\ m # 0
      BY <2>3
    <3>4. \A k \in 0 .. n : k # 0 => R[k] = a[k] + R[k - 1]
      BY <1>5
    <3> QED
      BY <3>1, <3>2, <3>3, <3>4
  <2> QED
    BY <2>4, <2>5
<1>7. R \in [0 .. n -> Nat]
  BY <1>5, <1>6
<1> QED
  BY <1>4, <1>7 DEF R

(* One more event under x is one more in all. *)
LEMMA SumOfOneMore ==
  ASSUME NEW n \in Nat, NEW a \in [1 .. n -> Nat], NEW x \in 1 .. n
  PROVE  Sums([a EXCEPT ![x] = @ + 1], n)[n] = Sums(a, n)[n] + 1
<1> DEFINE b == [a EXCEPT ![x] = @ + 1]
           R == Sums(a, n)
           Q == Sums(b, n)
           Up(k) == IF k < x THEN 0 ELSE 1
<1>1. b \in [1 .. n -> Nat] /\ \A k \in 1 .. n : b[k] = IF k = x THEN a[k] + 1 ELSE a[k]
  OBVIOUS
<1>2. /\ R \in [0 .. n -> Nat] /\ Q \in [0 .. n -> Nat]
      /\ \A k \in 0 .. n : R[k] = IF k = 0 THEN 0 ELSE a[k] + R[k - 1]
      /\ \A k \in 0 .. n : Q[k] = IF k = 0 THEN 0 ELSE b[k] + Q[k - 1]
  <2>1. Adds(R, a, n) /\ R \in [0 .. n -> Nat]
    BY SumsExist
  <2>2. Adds(Q, b, n) /\ Q \in [0 .. n -> Nat]
    BY <1>1, SumsExist
  <2> HIDE DEF R, Q, b
  <2> QED
    BY <2>1, <2>2 DEF Adds
<1> HIDE DEF R, Q, b
<1>3. \A k \in 0 .. n : Q[k] = R[k] + Up(k)
  <2> DEFINE D == {k \in 0 .. n : Q[k] # R[k] + Up(k)}
  <2>1. SUFFICES ASSUME D # {} PROVE FALSE
    OBVIOUS
  <2>2. PICK m \in D : \A y \in D : m <= y
    <3>1. D \in SUBSET Nat
      OBVIOUS
    <3> HIDE DEF D
    <3> QED
      BY <2>1, <3>1, Least
  <2>3. m \in 1 .. n
    BY <1>2, <2>2
  <2>4. m - 1 \in 0 .. n /\ Q[m - 1] = R[m - 1] + Up(m - 1)
    BY <2>2, <2>3
  <2>5. /\ Q[m] = b[m] + Q[m - 1] /\ R[m] = a[m] + R[m - 1]
        /\ R[m - 1] \in Nat /\ a[m] \in Nat /\ Q[m] # R[m] + Up(m)
    BY <1>2, <2>2, <2>3, <2>4
  <2> QED
    BY <1>1, <2>3, <2>4, <2>5
<1>4. n \in 0 .. n /\ Q[n] = R[n] + 1
  BY <1>3
<1> QED
  BY <1>4 DEF R, Q, b

(* Nothing counted yet. *)
LEMMA SumOfNone ==
  ASSUME NEW n \in Nat
  PROVE  Sums([x \in 1 .. n |-> 0], n)[n] = 0
<1> DEFINE a == [x \in 1 .. n |-> 0]
           R == Sums(a, n)
<1>1. /\ R \in [0 .. n -> Nat]
      /\ \A k \in 0 .. n : R[k] = IF k = 0 THEN 0 ELSE a[k] + R[k - 1]
  <2>1. Adds(R, a, n) /\ R \in [0 .. n -> Nat]
    BY SumsExist
  <2> HIDE DEF R, a
  <2> QED
    BY <2>1 DEF Adds
<1> HIDE DEF R
<1>2. \A k \in 0 .. n : R[k] = 0
  <2> DEFINE D == {k \in 0 .. n : R[k] # 0}
  <2>1. SUFFICES ASSUME D # {} PROVE FALSE
    OBVIOUS
  <2>2. PICK m \in D : \A y \in D : m <= y
    <3>1. D \in SUBSET Nat
      OBVIOUS
    <3> HIDE DEF D
    <3> QED
      BY <2>1, <3>1, Least
  <2> QED
    BY <1>1, <2>2
<1> QED
  BY <1>2 DEF R

CascadeTypes ==
  /\ at \in 0 .. NReaders + 1
  /\ resolvedBy \in [1 .. Unresolved -> Nat]
  /\ seen \in Nat /\ ran \in Nat
  /\ raised \in [early : Nat, late : Nat]

(* The last reader's count with the unresolved, and everything counted.    *)
LastCount == resolvedBy[NReaders] + resolvedBy[Unresolved]
AllCount  == Counted[Unresolved]

(* While an event is read it is neither counted nor raised, and once the   *)
(* last reader has answered without confidence it has run on one event     *)
(* more than were settled.                                                 *)
Settled ==
  /\ LastCount + raised.late + (IF at = NReaders + 1 THEN 1 ELSE 0) = ran
  /\ AllCount + raised.early + raised.late + (IF at = 0 THEN 0 ELSE 1) = seen

CascadeInv == CascadeTypes /\ Settled

LEMMA CountedIsSum ==
  /\ Counted = Sums(resolvedBy, Unresolved)
  /\ Counted' = Sums(resolvedBy', Unresolved)
BY Zenon DEF Counted, Sums, Adds

LEMMA CountsAreNat ==
  ASSUME CascadeTypes
  PROVE  LastCount \in Nat /\ AllCount \in Nat
<1>1. Unresolved \in Nat /\ NReaders \in 1 .. Unresolved /\ Unresolved \in 0 .. Unresolved
  BY NReadersAssumption DEF Unresolved
<1>2. Counted \in [0 .. Unresolved -> Nat]
  BY <1>1, CountedIsSum, SumsExist DEF CascadeTypes
<1> QED
  BY <1>1, <1>2 DEF CascadeTypes, LastCount, AllCount, Unresolved

(* Counting an event under x. *)
LEMMA ResolvedAddsOne ==
  ASSUME CascadeTypes, NEW x \in 1 .. Unresolved, Resolved(x)
  PROVE  /\ resolvedBy' \in [1 .. Unresolved -> Nat]
         /\ LastCount' = LastCount + (IF x \in {NReaders, Unresolved} THEN 1 ELSE 0)
         /\ AllCount' = AllCount + 1
<1>1. /\ Unresolved \in Nat /\ Unresolved' = Unresolved /\ NReaders # Unresolved
      /\ NReaders \in 1 .. Unresolved /\ Unresolved \in 1 .. Unresolved
  BY NReadersAssumption DEF Unresolved
<1>2. resolvedBy' = [resolvedBy EXCEPT ![x] = @ + 1] /\ resolvedBy \in [1 .. Unresolved -> Nat]
  BY DEF Resolved, CascadeTypes
<1>3. Counted'[Unresolved] = Counted[Unresolved] + 1
  BY <1>1, <1>2, CountedIsSum, SumOfOneMore
<1>4. /\ resolvedBy'[x] = resolvedBy[x] + 1 /\ resolvedBy' \in [1 .. Unresolved -> Nat]
      /\ \A y \in 1 .. Unresolved \ {x} : resolvedBy'[y] = resolvedBy[y]
  BY <1>2
<1>5. /\ resolvedBy'[NReaders] = resolvedBy[NReaders] + (IF x = NReaders THEN 1 ELSE 0)
      /\ resolvedBy'[Unresolved] = resolvedBy[Unresolved] + (IF x = Unresolved THEN 1 ELSE 0)
      /\ resolvedBy[NReaders] \in Nat /\ resolvedBy[Unresolved] \in Nat
  BY <1>1, <1>2, <1>4
<1>6. LastCount' = LastCount + (IF x \in {NReaders, Unresolved} THEN 1 ELSE 0)
  <2>1. LastCount' = resolvedBy'[NReaders] + resolvedBy'[Unresolved]
    BY <1>1 DEF LastCount
  <2>2. CASE x = NReaders
    BY <1>1, <1>5, <2>1, <2>2 DEF LastCount
  <2>3. CASE x # NReaders
    BY <1>1, <1>5, <2>1, <2>3 DEF LastCount
  <2> QED
    BY <2>2, <2>3
<1>7. AllCount' = AllCount + 1
  BY <1>1, <1>3 DEF AllCount
<1> QED
  BY <1>4, <1>6, <1>7

LEMMA NothingCounted ==
  ASSUME resolvedBy' = resolvedBy
  PROVE  LastCount' = LastCount /\ AllCount' = AllCount
BY CountedIsSum DEF LastCount, AllCount, Unresolved

LEMMA CascadeInvHolds == CascadeSpec => []CascadeInv
<1> USE NReadersAssumption
<1>0. Unresolved = NReaders + 2 /\ Unresolved' = Unresolved
  BY DEF Unresolved
<1>1. CascadeInit => CascadeInv
  <2> SUFFICES ASSUME CascadeInit PROVE CascadeInv
    OBVIOUS
  <2>1. AllCount = 0
    BY <1>0, CountedIsSum, SumOfNone DEF CascadeInit, AllCount
  <2> QED
    BY <1>0, <2>1 DEF CascadeInit, CascadeInv, CascadeTypes, Settled, LastCount
<1>2. CascadeInv /\ [CascadeNext]_cascadeVars => CascadeInv'
  <2> SUFFICES ASSUME CascadeInv, [CascadeNext]_cascadeVars PROVE CascadeInv'
    OBVIOUS
  <2>0. /\ CascadeTypes /\ LastCount \in Nat /\ AllCount \in Nat
        /\ raised.early \in Nat /\ raised.late \in Nat
    BY CountsAreNat DEF CascadeInv, CascadeTypes
  <2> USE DEF CascadeInv, Settled
  <2>1. CASE GroundTruth
    <3>1. at = 0 /\ at' = 0 /\ seen' = seen + 1 /\ ran' = ran /\ raised' = raised
      BY <2>1 DEF GroundTruth
    <3>2. Truth \in 1 .. Unresolved /\ Truth \notin {NReaders, Unresolved} /\ Resolved(Truth)
      BY <1>0, <2>1 DEF Truth, GroundTruth
    <3>3. LastCount' = LastCount /\ AllCount' = AllCount + 1
      BY <2>0, <3>2, ResolvedAddsOne
    <3>4. resolvedBy' \in [1 .. Unresolved -> Nat]
      BY <2>0, <3>2, ResolvedAddsOne
    <3>5. CascadeTypes'
      BY <1>0, <2>0, <3>1, <3>4 DEF CascadeTypes
    <3> QED
      BY <2>0, <3>1, <3>3, <3>5
  <2>2. CASE Begin
    <3>1. /\ at = 0 /\ at' = 1 /\ seen' = seen + 1 /\ ran' = ran /\ raised' = raised
          /\ resolvedBy' = resolvedBy
      BY <2>2 DEF Begin
    <3>2. LastCount' = LastCount /\ AllCount' = AllCount
      BY <3>1, NothingCounted
    <3>3. CascadeTypes'
      BY <1>0, <2>0, <3>1 DEF CascadeTypes
    <3> QED
      BY <2>0, <3>1, <3>2, <3>3
  <2>3. ASSUME NEW out \in {"none", "low", "high"}, Ask(out) PROVE CascadeInv'
    <3>1. /\ at \in 1 .. NReaders /\ seen' = seen /\ raised' = raised
          /\ ran' = ran + (IF at = NReaders THEN 1 ELSE 0)
      BY <2>0, <2>3 DEF Ask, CascadeTypes
    <3>2. CASE out = "high"
      <4>1. at' = 0 /\ Resolved(at) /\ at \in 1 .. Unresolved /\ at # Unresolved
        BY <1>0, <2>3, <3>1, <3>2 DEF Ask
      <4>2. LastCount' = LastCount + (IF at = NReaders THEN 1 ELSE 0) /\ AllCount' = AllCount + 1
        BY <2>0, <4>1, ResolvedAddsOne
      <4>3. resolvedBy' \in [1 .. Unresolved -> Nat]
        BY <2>0, <4>1, ResolvedAddsOne
      <4>4. CascadeTypes'
        BY <1>0, <2>0, <3>1, <4>1, <4>3 DEF CascadeTypes
      <4>5. CASE at = NReaders
        BY <2>0, <3>1, <4>1, <4>2, <4>4, <4>5
      <4>6. CASE at # NReaders
        BY <2>0, <3>1, <4>1, <4>2, <4>4, <4>6
      <4> QED
        BY <4>5, <4>6
    <3>3. CASE out # "high"
      <4>1. at' = at + 1 /\ resolvedBy' = resolvedBy
        BY <2>3, <3>3 DEF Ask
      <4>2. LastCount' = LastCount /\ AllCount' = AllCount
        BY <4>1, NothingCounted
      <4>3. CascadeTypes'
        BY <1>0, <2>0, <3>1, <4>1 DEF CascadeTypes
      <4> QED
        BY <2>0, <3>1, <4>1, <4>2, <4>3
    <3> QED
      BY <3>2, <3>3
  <2>4. CASE FallThrough
    <3>1. at = NReaders + 1 /\ at' = 0 /\ seen' = seen /\ ran' = ran /\ raised' = raised
      BY <2>4 DEF FallThrough
    <3>2. Unresolved \in 1 .. Unresolved /\ Resolved(Unresolved)
      BY <1>0, <2>4 DEF FallThrough
    <3>3. LastCount' = LastCount + 1 /\ AllCount' = AllCount + 1
      BY <2>0, <3>2, ResolvedAddsOne
    <3>4. resolvedBy' \in [1 .. Unresolved -> Nat]
      BY <2>0, <3>2, ResolvedAddsOne
    <3>5. CascadeTypes'
      BY <1>0, <2>0, <3>1, <3>4 DEF CascadeTypes
    <3> QED
      BY <2>0, <3>1, <3>3, <3>5
  <2>5. CASE Raise
    <3>1. /\ at \in 1 .. NReaders + 1 /\ at' = 0 /\ seen' = seen
          /\ resolvedBy' = resolvedBy
          /\ ran' = ran + (IF at = NReaders THEN 1 ELSE 0)
      BY <2>0, <2>5 DEF Raise, CascadeTypes
    <3>2. LastCount' = LastCount /\ AllCount' = AllCount
      BY <3>1, NothingCounted
    <3>3. CASE at < NReaders
      <4>1. /\ raised' \in [early : Nat, late : Nat]
            /\ raised'.early = raised.early + 1 /\ raised'.late = raised.late
        <5>1. raised' = [raised EXCEPT !.early = @ + 1]
          BY <2>5, <3>3 DEF Raise
        <5>2. raised \in [early : Nat, late : Nat] /\ raised.early + 1 \in Nat
          BY <2>0 DEF CascadeTypes
        <5> QED
          BY <5>1, <5>2
      <4>2. CascadeTypes'
        BY <1>0, <2>0, <3>1, <4>1 DEF CascadeTypes
      <4> QED
        BY <2>0, <3>1, <3>2, <3>3, <4>1, <4>2
    <3>4. CASE ~(at < NReaders)
      <4>1. /\ raised' \in [early : Nat, late : Nat]
            /\ raised'.early = raised.early /\ raised'.late = raised.late + 1
        <5>1. raised' = [raised EXCEPT !.late = @ + 1]
          BY <2>5, <3>4 DEF Raise
        <5>2. raised \in [early : Nat, late : Nat] /\ raised.late + 1 \in Nat
          BY <2>0 DEF CascadeTypes
        <5> QED
          BY <5>1, <5>2
      <4>2. CascadeTypes'
        BY <1>0, <2>0, <3>1, <4>1 DEF CascadeTypes
      <4> QED
        BY <2>0, <3>1, <3>2, <3>4, <4>1, <4>2
    <3> QED
      BY <3>3, <3>4
  <2>6. CASE UNCHANGED cascadeVars
    <3>1. /\ at' = at /\ seen' = seen /\ ran' = ran /\ raised' = raised
          /\ resolvedBy' = resolvedBy
      BY <2>6 DEF cascadeVars
    <3>2. LastCount' = LastCount /\ AllCount' = AllCount
      BY <3>1, NothingCounted
    <3> QED
      BY <1>0, <2>0, <3>1, <3>2 DEF CascadeTypes
  <2> QED
    BY <2>1, <2>2, <2>3, <2>4, <2>5, <2>6 DEF CascadeNext
<1> QED
  BY <1>1, <1>2, PTL DEF CascadeSpec

(* Cascade.read: for any number of readers and events, every event is      *)
(* counted once or was raised, and "reached" is where the last reader ran. *)
THEOREM ReachIsCounted == CascadeSpec => []ReachedCounted
<1>1. CascadeInv => ReachedCounted
  <2> SUFFICES ASSUME CascadeInv, at = 0 PROVE ReachedCounted
    BY DEF ReachedCounted
  <2>1. LastCount \in Nat /\ AllCount \in Nat /\ raised.late \in Nat /\ raised.early \in Nat
    BY CountsAreNat DEF CascadeInv, CascadeTypes
  <2>2. LastCount + raised.late = ran /\ AllCount + raised.early + raised.late = seen
    BY <2>1, NReadersAssumption DEF CascadeInv, Settled
  <2> QED
    BY <2>2 DEF ReachedCounted, LastCount, AllCount
<1> QED
  BY <1>1, CascadeInvHolds, PTL

-----------------------------------------------------------------------------
(* Cartridges *)

(* Once there is a model an adapter that it has is selected, and layers are*)
(* off only after use_base_only, which needs a model.                      *)
CartInv ==
  /\ Model => active \in loaded
  /\ disabled => generic
  /\ generic => Model
  /\ disabled \in BOOLEAN /\ generic \in BOOLEAN
  /\ NoOtherCartridge

LEMMA CartInvHolds == CartSpec => []CartInv
<1>1. CartInit => CartInv
  <2> SUFFICES ASSUME CartInit PROVE CartInv
    OBVIOUS
  <2>1. answer.asked = NoCartridge /\ answer.from = NoCartridge
    BY DEF CartInit
  <2>2. loaded = {} /\ disabled = FALSE /\ generic = FALSE
    BY DEF CartInit
  <2> QED
    BY <2>1, <2>2, Zenon DEF CartInv, NoOtherCartridge, Model
<1>2. CartInv /\ [CartNext]_cartVars => CartInv'
  <2> SUFFICES ASSUME CartInv, [CartNext]_cartVars PROVE CartInv'
    OBVIOUS
  <2> USE DEF CartInv, NoOtherCartridge, Model
  <2>1. ASSUME NEW n \in Cartridges, LoadCartridge(n) PROVE CartInv'
    BY <2>1 DEF LoadCartridge
  <2>2. ASSUME NEW n \in Cartridges, Use(n) PROVE CartInv'
    <3>1. n \in loaded /\ active' = n /\ disabled' \in {disabled, FALSE}
      BY <2>2 DEF Use, Selected
    <3>2. loaded' = loaded /\ generic' = generic /\ answer' = answer
      BY <2>2 DEF Use
    <3>3. disabled' = disabled \/ disabled' = FALSE
      BY <3>1
    <3>4. disabled' \in BOOLEAN /\ (disabled' => generic')
      <4>1. CASE disabled' = disabled
        BY <3>2, <4>1
      <4>2. CASE disabled' = FALSE
        BY <4>2
      <4> QED
        BY <3>3, <4>1, <4>2
    <3> QED
      BY <3>1, <3>2, <3>4
  <2>3. CASE UseBaseOnly
    BY <2>3 DEF UseBaseOnly
  <2>4. ASSUME NEW c \in Cartridges \cup {NoCartridge}, Generate(c) PROVE CartInv'
    <3>1. CASE c = NoCartridge
      BY <2>4, <3>1 DEF Generate
    <3>2. CASE c # NoCartridge
      BY <2>4, <3>2 DEF Generate, Selected
    <3> QED
      BY <3>1, <3>2
  <2>5. CASE UNCHANGED cartVars
    BY <2>5 DEF cartVars
  <2> QED
    BY <2>1, <2>2, <2>3, <2>4, <2>5 DEF CartNext
<1> QED
  BY <1>1, <1>2, PTL DEF CartSpec

(* CartridgeRuntime.generate answers from the cartridge it was asked for,  *)
(* or from the base after use_base_only, for any cartridges.               *)
THEOREM NoOtherAnswers == CartSpec => []NoOtherCartridge
<1>1. CartInv => NoOtherCartridge
  BY DEF CartInv
<1> QED
  BY <1>1, CartInvHolds, PTL

=============================================================================
