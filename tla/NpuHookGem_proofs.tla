-------------------------- MODULE NpuHookGem_proofs --------------------------
(***************************************************************************)
(* Proofs about NpuHookGem: in a table of any size, for programs of any    *)
(* number of threads and buffers, a lookup never returns a stale entry for *)
(* an address of a buffer that exists, and only an overlapping store spoils*)
(* the user address of a big one.                                          *)
(***************************************************************************)
EXTENDS NpuHookGem, TLAPS, WellFoundedInduction

(* A set of numbers has a least one. *)
LEMMA Least ==
  ASSUME NEW S \in SUBSET Nat, S # {}
  PROVE  \E i \in S : \A j \in S : i <= j
<1> DEFINE R == OpToRel(<, Nat)
<1>1. IsWellFoundedOn(R, Nat)
  BY NatLessThanWellFounded
<1>2. PICK i \in S : \A j \in S : ~(<<j, i>> \in R)
  <2> HIDE DEF R
  <2>1. QED
    BY <1>1, WFMin
<1>3. \A a, b \in Nat : a < b => <<a, b>> \in R
  BY DEF OpToRel
<1> HIDE DEF R
<1>4. i \in Nat
  OBVIOUS
<1>5. ASSUME NEW j \in S PROVE i <= j
  <2>1. j \in Nat /\ ~(<<j, i>> \in R)
    BY <1>2
  <2>2. j < i => <<j, i>> \in R
    BY <1>3, <1>4, <2>1
  <2>3. ~(j < i)
    BY <2>1, <2>2
  <2>4. QED
    BY <1>4, <2>1, <2>3
<1>6. QED
  BY <1>5

(* The search loops return 0 or the first match. *)
LEMMA FirstOfIsFirst ==
  ASSUME NEW S \in SUBSET Slots
  PROVE  /\ S = {} => FirstOf(S) = 0
         /\ S # {} => FirstOf(S) \in S /\ \A j \in S : FirstOf(S) <= j
<1>1. S \in SUBSET Nat
  BY GemAssumption DEF Slots
<1>2. S # {} => \E i \in S : \A j \in S : i <= j
  BY <1>1, Least
<1>3. QED
  BY <1>2 DEF FirstOf

(* A search finds the entry of handle h, or none if h is beyond the table, *)
(* when every other match comes after it or is about to be rewritten.      *)
LEMMA Search ==
  ASSUME NEW S \in SUBSET Slots, NEW h \in Handles,
         h \in Slots => h \in S,
         \A j \in S : j < h => j \in fresh
  PROVE  FirstOf(S) \in {Entry(h)} \cup fresh
<1>1. h \in Nat /\ \A j \in S : j \in Nat /\ j <= MaxGems
  BY GemAssumption DEF Slots, Handles
<1>2. CASE h \in Slots
  <2>1. FirstOf(S) \in S /\ FirstOf(S) <= h
    BY <1>2, FirstOfIsFirst
  <2>2. FirstOf(S) \in Nat
    BY <1>1, <2>1
  <2>3. FirstOf(S) = h \/ FirstOf(S) < h
    BY <1>1, <2>1, <2>2
  <2>4. QED
    BY <1>2, <2>1, <2>3 DEF Entry
<1>3. CASE h \notin Slots
  <2>1. \A j \in S : j < h
    BY <1>1, <1>3, GemAssumption DEF Slots, Handles
  <2>2. QED
    BY <1>3, <2>1, FirstOfIsFirst DEF Entry
<1>4. QED
  BY <1>2, <1>3

LEMMA LookupFollows == TypeOK /\ GemInv => LookupFindsLive
<1> SUFFICES ASSUME TypeOK, GemInv, NEW h \in Live \ fresh
             PROVE  /\ \A p \in Span(buffer[h]) : ByIova(p) \in {Entry(h)} \cup fresh
                    /\ ByObj(buffer[h].obj) \in {Entry(h)} \cup fresh
  BY DEF LookupFindsLive
<1>1. h \in Handles /\ h \in Live /\ buffer[h] \in Buffer
  BY DEF Live, TypeOK
<1>2. ASSUME NEW p \in Span(buffer[h]) PROVE ByIova(p) \in {Entry(h)} \cup fresh
  <2> DEFINE S == {i \in Slots : gems[i].dma # 0 /\ p \in Span(gems[i])}
  <2>1. h \in Slots => h \in S
    BY <1>1 DEF GemInv, Recorded, Span, Buffer
  <2>2. \A j \in S : j < h => j \in fresh
    BY <1>1 DEF GemInv, LowerApart
  <2>3. S \in SUBSET Slots
    OBVIOUS
  <2> HIDE DEF S
  <2>4. FirstOf(S) \in {Entry(h)} \cup fresh
    BY <1>1, <2>1, <2>2, <2>3, Search
  <2>5. QED
    BY <2>4 DEF S, ByIova
<1>3. ByObj(buffer[h].obj) \in {Entry(h)} \cup fresh
  <2> DEFINE S == {i \in Slots : gems[i].obj = buffer[h].obj}
  <2>1. h \in Slots => h \in S
    BY <1>1 DEF GemInv, Recorded
  <2>2. \A j \in S : j < h => j \in fresh
    BY <1>1 DEF GemInv, LowerApart
  <2>3. S \in SUBSET Slots
    OBVIOUS
  <2> HIDE DEF S
  <2>4. FirstOf(S) \in {Entry(h)} \cup fresh
    BY <1>1, <2>1, <2>2, <2>3, Search
  <2>5. QED
    BY <2>4 DEF S, ByObj
<1>4. QED
  BY <1>2, <1>3

(***************************************************************************)
(* What the steps do to the table.                                         *)
(***************************************************************************)

(* Storing a user address changes nothing else. *)
LEMMA StoreUvaEffect ==
  ASSUME gems \in [Slots -> Slot], NEW n \in Slots, NEW a \in Addrs \cup {None},
         StoreUva(n, a)
  PROVE  /\ gems' \in [Slots -> Slot]
         /\ gems'[n].uva = a
         /\ \A i \in Slots :
              /\ i # n => gems'[i] = gems[i]
              /\ gems'[i].obj = gems[i].obj /\ gems'[i].dma = gems[i].dma
              /\ gems'[i].size = gems[i].size /\ gems'[i].off = gems[i].off
<1> DEFINE v == [gems[n] EXCEPT !.uva = a]
<1>1. gems[n] \in Slot
  OBVIOUS
<1>2. /\ v \in Slot /\ v.uva = a /\ v.obj = gems[n].obj /\ v.dma = gems[n].dma
      /\ v.size = gems[n].size /\ v.off = gems[n].off
  BY <1>1 DEF Slot
<1>3. gems' = [gems EXCEPT ![n] = v]
  BY DEF StoreUva
<1> HIDE DEF v
<1>4. QED
  BY <1>2, <1>3

(* What recording a new buffer does to the table. *)
LEMMA MemCreateEffect ==
  ASSUME TypeOK, NEW h \in Handles, MemCreate(h)
  PROVE  /\ h \in Live /\ h \in fresh /\ fresh' = fresh \ {h}
         /\ gems' \in [Slots -> Slot]
         /\ \A i \in Slots :
              /\ i = h => /\ gems'[i].obj = buffer[h].obj /\ gems'[i].dma = buffer[h].dma
                          /\ gems'[i].size = buffer[h].size
              /\ i # h => gems'[i] = gems[i]
              /\ gems'[i].off = gems[i].off /\ gems'[i].uva = gems[i].uva
<1>1. h \in Live /\ h \in fresh /\ fresh' = fresh \ {h} /\ buffer[h] \in Buffer
  BY DEF MemCreate, TypeOK, Live
<1>2. CASE h \notin Slots
  BY <1>1, <1>2 DEF MemCreate, TypeOK
<1>3. CASE h \in Slots
  <2> DEFINE e == [gems[h] EXCEPT !.obj = buffer[h].obj, !.dma = buffer[h].dma, !.size = buffer[h].size]
  <2>1. gems[h] \in Slot
    BY <1>3 DEF TypeOK
  <2>2. /\ e \in Slot /\ e.obj = buffer[h].obj /\ e.dma = buffer[h].dma
        /\ e.size = buffer[h].size /\ e.off = gems[h].off /\ e.uva = gems[h].uva
    <3> DEFINE b == buffer[h]
    <3>1. b.obj \in Objs /\ b.dma \in Nat /\ b.size \in Nat
      BY <1>1, GemAssumption DEF Buffer
    <3> HIDE DEF b
    <3>2. e = [gems[h] EXCEPT !.obj = b.obj, !.dma = b.dma, !.size = b.size]
      BY DEF b
    <3> HIDE DEF e
    <3>3. /\ e.obj = b.obj /\ e.dma = b.dma /\ e.size = b.size
          /\ e.off = gems[h].off /\ e.uva = gems[h].uva
      BY <2>1, <3>2 DEF Slot
    <3>4. e \in Slot
      BY <2>1, <3>1, <3>2 DEF Slot
    <3>5. QED
      BY <3>3, <3>4 DEF b
  <2>3. gems' = [gems EXCEPT ![h] = e]
    BY <1>3 DEF MemCreate, TypeOK
  <2> HIDE DEF e
  <2>4. QED
    BY <1>1, <1>3, <2>2, <2>3 DEF TypeOK
<1>4. QED
  BY <1>2, <1>3

LEMMA MemMapEffect ==
  ASSUME TypeOK, NEW h \in Handles, MemMap(h)
  PROVE  /\ h \in Live \ fresh /\ located' = located \cup {h}
         /\ gems' \in [Slots -> Slot]
         /\ \A i \in Slots :
              /\ gems'[i].obj = gems[i].obj /\ gems'[i].dma = gems[i].dma
              /\ gems'[i].size = gems[i].size /\ gems'[i].uva = gems[i].uva
              /\ gems'[i].off = IF i = h THEN buffer[h].off ELSE gems[i].off
<1>1. h \in Live \ fresh /\ located' = located \cup {h} /\ buffer[h] \in Buffer
  BY DEF MemMap, TypeOK, Live
<1>2. CASE h \notin Slots
  BY <1>1, <1>2 DEF MemMap, TypeOK
<1>3. CASE h \in Slots
  <2> DEFINE e == [gems[h] EXCEPT !.off = buffer[h].off]
  <2>1. gems[h] \in Slot
    BY <1>3 DEF TypeOK
  <2>2. /\ e \in Slot /\ e.obj = gems[h].obj /\ e.dma = gems[h].dma
        /\ e.size = gems[h].size /\ e.off = buffer[h].off /\ e.uva = gems[h].uva
    BY <1>1, <2>1, GemAssumption DEF Slot, Buffer
  <2>3. gems' = [gems EXCEPT ![h] = e]
    BY <1>3 DEF MemMap, TypeOK
  <2> HIDE DEF e
  <2>4. QED
    BY <1>1, <1>3, <2>2, <2>3 DEF TypeOK
<1>4. QED
  BY <1>2, <1>3

LEMMA DriverCreateEffect ==
  ASSUME TypeOK, DriverCreate
  PROVE  \E h \in Handles \ Live, b \in Buffer :
           /\ \A g \in Handles \ Live : h <= g
           /\ \A g \in Live : Distinct(b, buffer[g])
           /\ buffer' \in [Handles -> Buffer \cup {NoBuffer}]
           /\ \A g \in Handles : buffer'[g] = IF g = h THEN b ELSE buffer[g]
           /\ Live' = Live \cup {h}
           /\ fresh' = fresh \cup {h}
           /\ located' = located \ {h}
           /\ UNCHANGED <<gems, map>>
<1>1. PICK h \in Handles \ Live, b \in Buffer :
        /\ \A g \in Handles \ Live : h <= g
        /\ \A g \in Live : Distinct(b, buffer[g])
        /\ buffer' = [buffer EXCEPT ![h] = b]
        /\ fresh' = fresh \cup {h}
        /\ located' = located \ {h}
  BY DEF DriverCreate
<1>2. b # NoBuffer
  BY GemAssumption DEF Buffer, NoBuffer
<1>3. buffer' \in [Handles -> Buffer \cup {NoBuffer}]
      /\ \A g \in Handles : buffer'[g] = IF g = h THEN b ELSE buffer[g]
  BY <1>1 DEF TypeOK
<1>4. Live' = Live \cup {h}
  BY <1>1, <1>2, <1>3 DEF Live
<1>5. QED
  BY <1>1, <1>3, <1>4 DEF DriverCreate, hook

LEMMA MemDestroyEffect ==
  ASSUME TypeOK, NEW h \in Handles, MemDestroy(h)
  PROVE  /\ h \in Live \ fresh /\ map[h] = None
         /\ buffer' \in [Handles -> Buffer \cup {NoBuffer}]
         /\ \A g \in Handles : buffer'[g] = IF g = h THEN NoBuffer ELSE buffer[g]
         /\ Live' = Live \ {h}
         /\ UNCHANGED <<gems, map, fresh, located>>
<1>1. buffer' = [buffer EXCEPT ![h] = NoBuffer]
  BY DEF MemDestroy
<1>2. buffer' \in [Handles -> Buffer \cup {NoBuffer}]
      /\ \A g \in Handles : buffer'[g] = IF g = h THEN NoBuffer ELSE buffer[g]
  BY <1>1 DEF TypeOK
<1>3. QED
  BY <1>2 DEF MemDestroy, hook, Live

(***************************************************************************)
(* What the steps leave of the invariant.                                  *)
(***************************************************************************)

(* A step that neither creates, records nor destroys a buffer. *)
LEMMA BuffersKept ==
  ASSUME TypeOK, GemInv, UNCHANGED <<buffer, fresh>>,
         \A i \in Slots : /\ gems'[i].obj = gems[i].obj /\ gems'[i].dma = gems[i].dma
                          /\ gems'[i].size = gems[i].size
  PROVE  Live' = Live /\ Apart' /\ Recorded' /\ LowerApart'
<1>1. Live' = Live
  BY DEF Live
<1>2. \A i \in Slots : Span(gems'[i]) = Span(gems[i])
  BY DEF Span
<1>3. Apart'
  BY <1>1 DEF GemInv, Apart
<1>4. Recorded'
  BY <1>1 DEF GemInv, Recorded
<1>5. LowerApart'
  BY <1>1, <1>2 DEF GemInv, LowerApart
<1>6. QED
  BY <1>1, <1>3, <1>4, <1>5

(* A step that writes no more than user addresses, and no driver state. *)
LEMMA TableKept ==
  ASSUME TypeOK, GemInv, UNCHANGED driver,
         \A i \in Slots : /\ gems'[i].obj = gems[i].obj /\ gems'[i].dma = gems[i].dma
                          /\ gems'[i].size = gems[i].size /\ gems'[i].off = gems[i].off
  PROVE  /\ Live' = Live /\ Mapped' = Mapped
         /\ Apart' /\ Recorded' /\ LowerApart' /\ MapLocated' /\ FreshUnlocated'
<1>1. UNCHANGED <<buffer, map, fresh, located>>
  BY DEF driver
<1>2. Live' = Live /\ Apart' /\ Recorded' /\ LowerApart'
  BY <1>1, BuffersKept
<1>3. Mapped' = Mapped
  BY <1>1, <1>2 DEF Mapped
<1>4. MapLocated' /\ FreshUnlocated'
  BY <1>1, <1>2 DEF GemInv, MapLocated, FreshUnlocated
<1>5. QED
  BY <1>2, <1>3, <1>4

LEMMA GotoEffect ==
  ASSUME TypeOK, NEW t \in Threads, NEW from, NEW to \in Places, Goto(t, from, to)
  PROVE  /\ pc' \in [Threads -> Places] /\ pc[t] = from /\ pc'[t] = to
         /\ \A u \in Threads \ {t} : pc'[u] = pc[u]
<1>1. QED
  BY DEF Goto, TypeOK

(* What a thread's step leaves to the other threads. *)
Others(t) ==
  /\ pc' \in [Threads -> Places] /\ named' \in [Threads -> Handles \cup {0}]
  /\ idx' \in [Threads -> Nat] /\ line' \in [Threads -> Vma]
  /\ \A u \in Threads \ {t} : pc'[u] = pc[u] /\ named'[u] = named[u] /\ idx'[u] = idx[u]

AtEntry(t, h) == pc[t] \in {"note", "record"} /\ named[t] = h /\ idx[t] <= h

WorkingAt(t) ==
  /\ pc[t] = "append" => idx[t] \in 0 .. MaxVmas - 1
  /\ pc[t] = "note" => idx[t] # 0
  /\ pc[t] \in {"test", "resolve", "store", "regs", "record"} => idx[t] \in Slots
  /\ pc[t] \in {"note", "record"} => named[t] \in Mapped \ fresh /\ named[t] \in located

LEMMA WorkingKept ==
  ASSUME TypeOK, GemInv, NEW t \in Threads, Others(t), WorkingAt(t)', UNCHANGED <<fresh, located>>,
         Mapped \subseteq Mapped'
  PROVE  Working'
<1>1. ASSUME NEW u \in Threads PROVE WorkingAt(u)'
  <2>1. CASE u = t
    BY <2>1
  <2>2. CASE u # t
    <3>1. pc'[u] = pc[u] /\ named'[u] = named[u] /\ idx'[u] = idx[u]
      BY <2>2 DEF Others
    <3>2. WorkingAt(u)
      BY DEF GemInv, Working, WorkingAt
    <3>3. QED
      BY <3>1, <3>2 DEF WorkingAt
  <2>3. QED
    BY <2>1, <2>2
<1>2. QED
  BY <1>1 DEF Working, WorkingAt

(* A step of a thread that stores no user address: it goes by no entry of  *)
(* the buffer it notes, and turns to store to an entry only if that has no *)
(* address yet or matches the buffer it notes.                             *)
LEMMA QuietKeeps ==
  ASSUME TypeOK, GemInv, NEW t \in Threads, UNCHANGED <<gems, driver, raced>>,
         Others(t), WorkingAt(t)',
         \A h \in Slots : AtEntry(t, h) => AtEntry(t, h)',
         \A h \in Slots : Pending(t)' /\ idx'[t] = h =>
            \/ Pending(t) /\ idx[t] = h
            \/ gems[h].uva = None
            \/ pc'[t] = "record" /\ Matches(h, named'[t])
  PROVE  GemInv'
<1>1. UNCHANGED <<buffer, map, fresh, located>>
  BY DEF driver
<1>2. /\ Live' = Live /\ Mapped' = Mapped
      /\ Apart' /\ Recorded' /\ LowerApart' /\ MapLocated' /\ FreshUnlocated'
  BY TableKept
<1>3. Working'
  BY <1>1, <1>2, WorkingKept
<1>4. \A h \in Slots : Noting(h) => Noting(h)'
  BY DEF Noting, AtEntry, Others
<1>5. BigUvaCurrent'
  BY <1>1, <1>2, <1>4 DEF GemInv, BigUvaCurrent
<1>6. NoneToSpoil'
  <2> SUFFICES ASSUME NEW h \in ((Live \ fresh) \cap Slots) \ raced, NEW u \in Threads,
                      map[h] # None, buffer[h].size >= Big, ~Noting(h)', Pending(u)', idx'[u] = h
               PROVE  FALSE
    BY <1>1, <1>2 DEF NoneToSpoil
  <2>1. ~Noting(h)
    BY <1>4
  <2>2. ~(Pending(u) /\ idx[u] = h)
    BY <2>1 DEF GemInv, NoneToSpoil
  <2>3. u = t
    BY <2>2 DEF Others, Pending
  <2>4. gems[h].uva # None
    BY <2>1 DEF GemInv, BigUvaCurrent
  <2>5. pc'[t] = "record" /\ Matches(h, named'[t])
    BY <2>2, <2>3, <2>4
  <2>6. named'[t] \in Live /\ named'[t] # h
    <3>1. named'[t] \in Mapped
      BY <1>2, <2>5 DEF WorkingAt
    <3>2. named'[t] # h
      <4>1. h <= h
        BY GemAssumption DEF Slots
      <4>2. QED
        BY <2>3, <2>5, <4>1 DEF Noting
    <3>3. QED
      BY <3>1, <3>2 DEF Mapped
  <2>7. gems[h].off = buffer[h].off
    BY DEF GemInv, MapLocated, Live
  <2>8. buffer[h].off # buffer[named'[t]].off
    BY <2>6 DEF GemInv, Apart, Distinct
  <2>9. QED
    BY <2>5, <2>7, <2>8 DEF Matches
<1>7. QED
  BY <1>2, <1>3, <1>5, <1>6 DEF GemInv

(* The new buffer has the lowest free handle: every entry before its own   *)
(* belongs to a buffer that exists.                                        *)
LEMMA DriverCreateKeeps ==
  ASSUME TypeOK, GemInv, DriverCreate
  PROVE  TypeOK' /\ GemInv'
<1>0. TypeOK'
  <2>1. creates' \in Nat /\ UNCHANGED <<gems, vmas, count, scanned, map, pc, named, idx, line, raced>>
    BY DEF DriverCreate, TypeOK, hook, thread
  <2>2. /\ buffer' \in [Handles -> Buffer \cup {NoBuffer}]
        /\ fresh' \subseteq Live' /\ located' \subseteq Handles
    BY DriverCreateEffect DEF TypeOK
  <2>3. QED
    BY <2>1, <2>2 DEF TypeOK
<1>1. PICK h \in Handles \ Live, b \in Buffer :
        /\ \A g \in Handles \ Live : h <= g
        /\ \A g \in Live : Distinct(b, buffer[g])
        /\ \A g \in Handles : buffer'[g] = IF g = h THEN b ELSE buffer[g]
        /\ Live' = Live \cup {h}
        /\ fresh' = fresh \cup {h}
        /\ located' = located \ {h}
        /\ UNCHANGED <<gems, map>>
  BY DriverCreateEffect
<1>2. Live \subseteq Handles /\ fresh \subseteq Live /\ h \notin fresh /\ map[h] = None
  BY <1>1 DEF TypeOK, Live, GemInv, MapLocated
<1>3. \A g \in Live : g # h /\ buffer'[g] = buffer[g]
  BY <1>1, <1>2
<1>4. Apart'
  <2>1. \A g \in Live : Distinct(buffer[g], b)
    BY <1>1 DEF Distinct
  <2>2. QED
    BY <1>1, <1>2, <1>3, <2>1 DEF GemInv, Apart
<1>5. Recorded'
  BY <1>1, <1>2, <1>3 DEF GemInv, Recorded
<1>6. LowerApart'
  <2> SUFFICES ASSUME NEW g \in Live', NEW j \in Slots, j < g, j \notin fresh'
               PROVE  /\ gems[j].obj # buffer'[g].obj
                      /\ Span(gems[j]) \cap Span(buffer'[g]) = {}
    BY <1>1 DEF LowerApart
  <2>1. CASE g \in Live
    BY <2>1, <1>1, <1>3 DEF GemInv, LowerApart
  <2>2. CASE g = h
    <3>1. j \in Handles
      BY <2>2, <1>1, GemAssumption DEF Slots, Handles
    <3>2. j \in Live /\ j \in Live \ fresh
      BY <3>1, <2>2, <1>1, GemAssumption DEF Slots, Handles
    <3>3. /\ gems[j].obj = buffer[j].obj /\ gems[j].dma = buffer[j].dma
          /\ gems[j].size = buffer[j].size
      BY <3>2 DEF GemInv, Recorded
    <3>4. Distinct(b, buffer[j])
      BY <3>2, <1>1
    <3>5. buffer'[g] = b
      BY <2>2, <1>1
    <3>6. QED
      BY <3>3, <3>4, <3>5 DEF Distinct, Span
  <2>3. QED
    BY <2>1, <2>2, <1>1
<1>7. UNCHANGED <<pc, named, idx, raced>>
  BY DEF DriverCreate, thread
<1>8. MapLocated' /\ BigUvaCurrent' /\ NoneToSpoil'
  <2>1. Live' \ fresh' = Live \ fresh
    BY <1>1, <1>2
  <2>2. \A g \in Live \ fresh : g # h /\ g \in Handles /\ buffer'[g] = buffer[g]
                                /\ (g \in located' <=> g \in located)
    BY <1>1, <1>2, <1>3
  <2>3. MapLocated'
    BY <1>1, <1>2, <2>1, <2>2 DEF GemInv, MapLocated
  <2>4. \A g \in Handles : Noting(g)' <=> Noting(g)
    BY <1>7 DEF Noting
  <2>5. BigUvaCurrent'
    BY <1>1, <1>7, <2>1, <2>2, <2>4 DEF GemInv, BigUvaCurrent
  <2>6. NoneToSpoil'
    BY <1>1, <1>7, <2>1, <2>2, <2>4 DEF GemInv, NoneToSpoil, Pending
  <2>7. QED
    BY <2>3, <2>5, <2>6
<1>9. FreshUnlocated'
  BY <1>1 DEF GemInv, FreshUnlocated
<1>10. Working'
  <2>1. Mapped \ fresh \subseteq Mapped' \ fresh' /\ h \notin Mapped
    BY <1>1, <1>2 DEF Mapped
  <2>2. QED
    BY <1>1, <1>7, <2>1 DEF GemInv, Working
<1>11. QED
  BY <1>0, <1>4, <1>5, <1>6, <1>8, <1>9, <1>10 DEF GemInv

LEMMA MemCreateKeeps ==
  ASSUME TypeOK, GemInv, NEW h \in Handles, MemCreate(h)
  PROVE  TypeOK' /\ GemInv'
<1>0. UNCHANGED <<vmas, count, scanned, buffer, map, located, creates, pc, named, idx, line, raced>>
  BY DEF MemCreate, thread
<1>1. /\ buffer' = buffer /\ map' = map /\ located' = located /\ Live' = Live
      /\ h \in Live /\ h \in fresh /\ fresh' = fresh \ {h}
  BY <1>0, MemCreateEffect DEF Live
<1>2. \A i \in Slots :
        /\ i = h => /\ gems'[i].obj = buffer[h].obj /\ gems'[i].dma = buffer[h].dma
                    /\ gems'[i].size = buffer[h].size
        /\ i # h => gems'[i] = gems[i]
        /\ gems'[i].off = gems[i].off /\ gems'[i].uva = gems[i].uva
  BY MemCreateEffect
<1>3. Apart'
  BY <1>1 DEF GemInv, Apart
<1>4. Recorded'
  BY <1>1, <1>2 DEF GemInv, Recorded
<1>5. LowerApart'
  <2> SUFFICES ASSUME NEW g \in Live, NEW j \in Slots, j < g, j \notin fresh'
               PROVE  /\ gems'[j].obj # buffer[g].obj
                      /\ Span(gems'[j]) \cap Span(buffer[g]) = {}
    BY <1>1 DEF LowerApart
  <2>1. CASE j = h
    <3>1. Distinct(buffer[h], buffer[g])
      <4>1. h # g
        BY <2>1, GemAssumption DEF Slots
      <4>2. QED
        BY <4>1, <1>1 DEF GemInv, Apart
    <3>2. /\ gems'[j].obj = buffer[h].obj /\ gems'[j].dma = buffer[h].dma
          /\ gems'[j].size = buffer[h].size
      BY <2>1, <1>2
    <3>3. QED
      BY <3>1, <3>2 DEF Distinct, Span
  <2>2. CASE j # h
    <3>1. gems'[j] = gems[j] /\ j \notin fresh
      BY <2>2, <1>1, <1>2
    <3>2. QED
      BY <3>1 DEF GemInv, LowerApart
  <2>3. QED
    BY <2>1, <2>2
<1>6. MapLocated'
  <2>1. h \notin located
    BY <1>1 DEF GemInv, FreshUnlocated
  <2>2. QED
    BY <1>1, <1>2, <2>1 DEF GemInv, MapLocated
<1>7. BigUvaCurrent' /\ NoneToSpoil'
  <2>1. map[h] = None
    BY <1>1 DEF GemInv, MapLocated, Live
  <2>2. \A g : Noting(g)' <=> Noting(g)
    BY <1>0 DEF Noting
  <2>3. BigUvaCurrent'
    BY <1>0, <1>1, <1>2, <2>1, <2>2 DEF GemInv, BigUvaCurrent
  <2>4. NoneToSpoil'
    BY <1>0, <1>1, <2>1, <2>2 DEF GemInv, NoneToSpoil, Pending
  <2>5. QED
    BY <2>3, <2>4
<1>8. Working'
  BY <1>0, <1>1 DEF GemInv, Working, Mapped
<1>9. TypeOK'
  <2>1. gems' \in [Slots -> Slot] /\ fresh' \subseteq Live'
    BY <1>1, MemCreateEffect DEF TypeOK
  <2>2. QED
    BY <1>0, <2>1 DEF TypeOK
<1>10. QED
  BY <1>1, <1>3, <1>4, <1>5, <1>6, <1>7, <1>8, <1>9 DEF GemInv, FreshUnlocated

LEMMA MemDestroyKeeps ==
  ASSUME TypeOK, GemInv, NEW h \in Handles, MemDestroy(h)
  PROVE  TypeOK' /\ GemInv'
<1>0. UNCHANGED <<vmas, count, scanned, creates, pc, named, idx, line, raced>>
  BY DEF MemDestroy, hook, thread
<1>1. /\ h \in Live \ fresh /\ map[h] = None
      /\ buffer' \in [Handles -> Buffer \cup {NoBuffer}]
      /\ \A g \in Handles : buffer'[g] = IF g = h THEN NoBuffer ELSE buffer[g]
      /\ Live' = Live \ {h}
      /\ gems' = gems /\ map' = map /\ fresh' = fresh /\ located' = located
  BY MemDestroyEffect
<1>2. \A g \in Live' : g \in Live /\ g \in Handles /\ g # h /\ buffer'[g] = buffer[g]
  BY <1>1 DEF Live
<1>3. Apart' /\ Recorded' /\ LowerApart' /\ FreshUnlocated'
  BY <1>1, <1>2 DEF GemInv, Apart, Recorded, LowerApart, FreshUnlocated
<1>4. MapLocated'
  BY <1>1, <1>2 DEF GemInv, MapLocated
<1>5. \A g : Noting(g)' <=> Noting(g)
  BY <1>0 DEF Noting
<1>6. BigUvaCurrent'
  BY <1>0, <1>1, <1>2, <1>5 DEF GemInv, BigUvaCurrent
<1>7. NoneToSpoil'
  BY <1>0, <1>1, <1>2, <1>5 DEF GemInv, NoneToSpoil, Pending
<1>8. Mapped' = Mapped
  BY <1>1 DEF Mapped
<1>9. Working'
  BY <1>0, <1>1, <1>8 DEF GemInv, Working
<1>10. TypeOK'
  BY <1>0, <1>1 DEF TypeOK
<1>11. QED
  BY <1>3, <1>4, <1>6, <1>7, <1>9, <1>10 DEF GemInv

LEMMA MemMapKeeps ==
  ASSUME TypeOK, GemInv, NEW h \in Handles, MemMap(h)
  PROVE  TypeOK' /\ GemInv'
<1>0. UNCHANGED <<vmas, count, scanned, buffer, map, fresh, creates, pc, named, idx, line, raced>>
  BY DEF MemMap, thread
<1>1. h \in Live \ fresh /\ located' = located \cup {h} /\ gems' \in [Slots -> Slot]
  BY MemMapEffect
<1>2. \A i \in Slots :
        /\ gems'[i].obj = gems[i].obj /\ gems'[i].dma = gems[i].dma
        /\ gems'[i].size = gems[i].size /\ gems'[i].uva = gems[i].uva
        /\ gems'[i].off = IF i = h THEN buffer[h].off ELSE gems[i].off
  BY MemMapEffect
<1>3. Live' = Live /\ Apart' /\ Recorded' /\ LowerApart'
  BY <1>0, <1>2, BuffersKept
<1>4. MapLocated' /\ FreshUnlocated'
  BY <1>0, <1>1, <1>2, <1>3 DEF GemInv, MapLocated, FreshUnlocated
<1>5. \A g : Noting(g)' <=> Noting(g)
  BY <1>0 DEF Noting
<1>6. BigUvaCurrent' /\ NoneToSpoil'
  BY <1>0, <1>2, <1>3, <1>5 DEF GemInv, BigUvaCurrent, NoneToSpoil, Pending
<1>7. Working'
  BY <1>0, <1>1, <1>3 DEF GemInv, Working, Mapped
<1>8. TypeOK'
  BY <1>0, <1>1, <1>3 DEF TypeOK, Live
<1>9. QED
  BY <1>3, <1>4, <1>6, <1>7, <1>8 DEF GemInv

LEMMA MunmapKeeps ==
  ASSUME TypeOK, GemInv, NEW h \in Handles, Munmap(h)
  PROVE  TypeOK' /\ GemInv'
<1>0. UNCHANGED <<gems, vmas, count, scanned, buffer, fresh, located, creates, pc, named, idx, line, raced>>
  BY DEF Munmap, hook, thread
<1>1. map' \in [Handles -> Addrs \cup {None}] /\ h \notin Held
      /\ \A g \in Handles : map'[g] = IF g = h THEN None ELSE map[g]
  BY DEF Munmap, TypeOK
<1>2. Live' = Live /\ Apart' /\ Recorded' /\ LowerApart' /\ Live \subseteq Handles
  BY <1>0, BuffersKept DEF Live
<1>3. MapLocated' /\ FreshUnlocated'
  BY <1>0, <1>1, <1>2 DEF GemInv, MapLocated, FreshUnlocated
<1>4. \A g : Noting(g)' <=> Noting(g)
  BY <1>0 DEF Noting
<1>5. BigUvaCurrent' /\ NoneToSpoil'
  BY <1>0, <1>1, <1>2, <1>4 DEF GemInv, BigUvaCurrent, NoneToSpoil, Pending
<1>6. Working'
  <2>1. \A t \in Threads : named[t] # h
    BY <1>1 DEF Held
  <2>2. QED
    BY <1>0, <1>1, <1>2, <2>1 DEF GemInv, Working, Mapped
<1>7. TypeOK'
  BY <1>0, <1>1, <1>2 DEF TypeOK
<1>8. QED
  BY <1>2, <1>3, <1>5, <1>6, <1>7 DEF GemInv

(* The driver's part of mmap: from here on the thread has yet to come to   *)
(* the entry of a big buffer.                                              *)
LEMMA MmapKeeps ==
  ASSUME TypeOK, GemInv, NEW t \in Threads, NEW h \in Handles, Mmap(t, h)
  PROVE  TypeOK' /\ GemInv'
<1>0. UNCHANGED <<gems, vmas, count, scanned, buffer, fresh, located, creates, line, raced>>
      /\ h \in Live \cap located /\ map[h] = None /\ pc[t] = "idle"
  BY DEF Mmap, hook
<1>1. PICK a \in Addrs : map' = [map EXCEPT ![h] = a]
  BY DEF Mmap
<1>2. map' \in [Handles -> Addrs \cup {None}] /\ a # None
      /\ \A g \in Handles : map'[g] = IF g = h THEN a ELSE map[g]
  BY <1>1, GemAssumption DEF TypeOK
<1>3. Live' = Live /\ Apart' /\ Recorded' /\ LowerApart'
  BY <1>0, BuffersKept
<1>4. h \notin fresh
  BY <1>0 DEF GemInv, FreshUnlocated
<1>5. MapLocated' /\ FreshUnlocated'
  BY <1>0, <1>2, <1>3, <1>4 DEF GemInv, MapLocated, FreshUnlocated
<1>6. Mapped' = Mapped \cup {h}
  BY <1>0, <1>2, <1>3 DEF Mapped, Live
<1>7. Others(t) /\ IF buffer[h].size >= Big
                   THEN pc'[t] = "note" /\ named'[t] = h /\ idx'[t] = 1
                   ELSE UNCHANGED <<pc, named, idx>>
  <2>1. CASE buffer[h].size >= Big
    <3>1. /\ Goto(t, "idle", "note") /\ named' = [named EXCEPT ![t] = h]
          /\ idx' = [idx EXCEPT ![t] = 1] /\ line' = line
      BY <2>1 DEF Mmap
    <3>2. /\ pc' \in [Threads -> Places] /\ pc'[t] = "note"
          /\ \A u \in Threads \ {t} : pc'[u] = pc[u]
      BY <3>1, GotoEffect DEF Places
    <3>3. QED
      BY <2>1, <3>1, <3>2 DEF Others, TypeOK
  <2>2. CASE ~(buffer[h].size >= Big)
    BY <2>2 DEF Mmap, Others, TypeOK
  <2>3. QED
    BY <2>1, <2>2
<1>8. Working'
  <2>1. WorkingAt(t)'
    BY <1>0, <1>3, <1>4, <1>6, <1>7 DEF WorkingAt
  <2>2. QED
    BY <1>0, <1>6, <1>7, <2>1, WorkingKept
<1>9. \A g : Noting(g) => Noting(g)'
  BY <1>0, <1>7 DEF Noting, Others
<1>10. buffer[h].size >= Big /\ h \in Slots => Noting(h)'
  <2>1. h \in Slots => 1 <= h
    BY GemAssumption DEF Slots
  <2>2. QED
    BY <1>7, <2>1 DEF Noting
<1>11. BigUvaCurrent'
  BY <1>0, <1>2, <1>3, <1>9, <1>10 DEF GemInv, BigUvaCurrent, Live
<1>12. NoneToSpoil'
  <2>1. \A u \in Threads : Pending(u)' => Pending(u) /\ idx'[u] = idx[u]
    BY <1>0, <1>7 DEF Pending, Others
  <2>2. QED
    BY <1>0, <1>2, <1>3, <1>9, <1>10, <2>1 DEF GemInv, NoneToSpoil, Live
<1>13. TypeOK'
  BY <1>0, <1>2, <1>3, <1>7 DEF TypeOK, Others
<1>14. QED
  BY <1>3, <1>5, <1>8, <1>11, <1>12, <1>13 DEF GemInv

(* A step of a thread that stores nothing keeps the types too. *)
LEMMA QuietTypes ==
  ASSUME TypeOK, NEW t \in Threads, Others(t), UNCHANGED <<hook, driver, raced>>
  PROVE  TypeOK'
<1>1. UNCHANGED <<gems, vmas, count, scanned, buffer, map, fresh, located, creates, raced>>
  BY DEF hook, driver
<1>2. QED
  BY <1>1 DEF TypeOK, Others, Live

LEMMA ReturnEffect ==
  ASSUME TypeOK, NEW t \in Threads, NEW from, Return(t, from)
  PROVE  Others(t) /\ pc[t] = from /\ pc'[t] = "idle" /\ idx'[t] = 0
<1>1. /\ pc[t] = from /\ pc' = [pc EXCEPT ![t] = "idle"] /\ named' = [named EXCEPT ![t] = 0]
      /\ idx' = [idx EXCEPT ![t] = 0] /\ line' = [line EXCEPT ![t] = NoVma]
  BY DEF Return, Goto
<1>2. line' \in [Threads -> Vma]
  BY <1>1 DEF TypeOK, Vma, NoVma
<1>3. QED
  BY <1>1, <1>2 DEF TypeOK, Others, Places

(* The call returns, from a place where it notes nothing. *)
LEMMA ReturnKeeps ==
  ASSUME TypeOK, GemInv, NEW t \in Threads, NEW from, Return(t, from),
         from \notin {"note", "record"} \/ idx[t] > MaxGems,
         UNCHANGED <<hook, driver, raced>>
  PROVE  TypeOK' /\ GemInv'
<1>1. Others(t) /\ pc[t] = from /\ pc'[t] = "idle"
  BY ReturnEffect
<1>2. \A h \in Slots : ~AtEntry(t, h)
  <2>1. idx[t] \in Nat /\ \A h \in Slots : h \in Nat /\ h <= MaxGems
    BY GemAssumption DEF TypeOK, Slots
  <2>2. QED
    BY <1>1, <2>1, GemAssumption DEF AtEntry
<1>3. WorkingAt(t)' /\ ~Pending(t)'
  BY <1>1 DEF WorkingAt, Pending
<1>4. gems' = gems
  BY DEF hook
<1>5. GemInv'
  BY <1>1, <1>2, <1>3, <1>4, QuietKeeps
<1>6. QED
  BY <1>1, <1>5, QuietTypes

LEMMA NoteTestKeeps ==
  ASSUME TypeOK, GemInv, NEW t \in Threads, NoteTest(t)
  PROVE  TypeOK' /\ GemInv'
<1>1. pc[t] = "note" /\ UNCHANGED <<hook, driver, raced>> /\ gems' = gems
  BY DEF NoteTest, hook
<1>2. CASE idx[t] > MaxGems /\ Return(t, "note")
  BY <1>1, <1>2, ReturnKeeps
<1>3. CASE /\ idx[t] <= MaxGems /\ UNCHANGED <<named, line>>
           /\ IF Matches(idx[t], named[t])
              THEN Goto(t, "note", "record") /\ UNCHANGED idx
              ELSE Goto(t, "note", "note") /\ idx' = [idx EXCEPT ![t] = idx[t] + 1]
  <2>1. WorkingAt(t)
    BY DEF GemInv, Working, WorkingAt
  <2>2. named[t] \in Mapped \ fresh /\ named[t] \in located /\ Mapped' = Mapped
        /\ UNCHANGED <<fresh, located, buffer>>
    BY <1>1, <2>1 DEF WorkingAt, Mapped, Live, driver
  <2>3. idx[t] \in Slots
    BY <1>1, <1>3, <2>1, GemAssumption DEF WorkingAt, TypeOK, Slots
  <2>4. CASE Matches(idx[t], named[t])
    <3>1. Goto(t, "note", "record") /\ UNCHANGED <<idx, named, line>>
      BY <1>3, <2>4
    <3>2. pc'[t] = "record" /\ Others(t)
      BY <3>1, GotoEffect DEF Others, TypeOK, Places
    <3>3. WorkingAt(t)'
      BY <1>1, <2>1, <2>2, <2>3, <3>1, <3>2 DEF WorkingAt
    <3>4. \A h \in Slots : AtEntry(t, h) => AtEntry(t, h)'
      BY <3>1, <3>2 DEF AtEntry
    <3>5. \A h \in Slots : idx'[t] = h => Matches(h, named'[t])
      BY <2>4, <3>1
    <3>6. GemInv'
      BY <1>1, <3>2, <3>3, <3>4, <3>5, QuietKeeps
    <3>7. QED
      BY <1>1, <3>2, <3>6, QuietTypes
  <2>5. CASE ~Matches(idx[t], named[t])
    <3>1. Goto(t, "note", "note") /\ UNCHANGED <<named, line>> /\ idx' = [idx EXCEPT ![t] = idx[t] + 1]
      BY <1>3, <2>5
    <3>2. pc'[t] = "note" /\ Others(t) /\ idx'[t] = idx[t] + 1
      BY <3>1, GotoEffect DEF Others, TypeOK, Places
    <3>3. WorkingAt(t)'
      BY <1>1, <2>1, <2>2, <2>3, <3>1, <3>2, GemAssumption DEF WorkingAt, Slots
    <3>4. ASSUME NEW h \in Slots, AtEntry(t, h) PROVE AtEntry(t, h)'
      <4>1. h \in (Live \ fresh) \cap located \cap Slots /\ named[t] = h
        BY <2>2, <3>4 DEF AtEntry, Mapped
      <4>2. Matches(h, named[t])
        BY <4>1 DEF GemInv, MapLocated, Recorded, Matches
      <4>3. idx[t] # h /\ idx[t] <= h
        BY <2>5, <3>4, <4>2 DEF AtEntry
      <4>4. idx[t] + 1 <= h
        BY <2>3, <4>3, GemAssumption DEF Slots
      <4>5. QED
        BY <3>1, <3>2, <4>1, <4>4 DEF AtEntry
    <3>5. ~Pending(t)'
      BY <3>2 DEF Pending
    <3>6. GemInv'
      BY <1>1, <3>2, <3>3, <3>4, <3>5, QuietKeeps
    <3>7. QED
      BY <1>1, <3>2, <3>6, QuietTypes
  <2>6. QED
    BY <2>4, <2>5
<1>4. QED
  BY <1>2, <1>3 DEF NoteTest

(* The mmap hook's store: from here on the entry of the noted buffer is    *)
(* right, and nobody is about to spoil it unless it is marked as raced.    *)
LEMMA NoteStoreKeeps ==
  ASSUME TypeOK, GemInv, NEW t \in Threads, NoteStore(t)
  PROVE  TypeOK' /\ GemInv'
<1> DEFINE i == idx[t]
           g == named[t]
<1>1. /\ Goto(t, "record", "note") /\ StoreUva(i, map[g]) /\ Witness(t)
      /\ idx' = [idx EXCEPT ![t] = i + 1]
      /\ UNCHANGED <<vmas, count, scanned, driver, named, line>>
  BY DEF NoteStore
<1>2. UNCHANGED <<buffer, map, fresh, located, creates>>
  BY <1>1 DEF driver
<1>3. pc[t] = "record" /\ pc'[t] = "note" /\ Others(t) /\ idx'[t] = i + 1
  BY <1>1, GotoEffect DEF Others, TypeOK, Places
<1>4. i \in Slots /\ g \in Mapped \ fresh /\ g \in located /\ i \in Nat
  BY <1>3, GemAssumption DEF GemInv, Working, Slots
<1>5. map[g] \in Addrs
  BY <1>4 DEF Mapped, Live, TypeOK
<1>6. /\ gems' \in [Slots -> Slot] /\ gems'[i].uva = map[g]
      /\ \A j \in Slots :
           /\ j # i => gems'[j] = gems[j]
           /\ gems'[j].obj = gems[j].obj /\ gems'[j].dma = gems[j].dma
           /\ gems'[j].size = gems[j].size /\ gems'[j].off = gems[j].off
  BY <1>1, <1>4, <1>5, StoreUvaEffect DEF TypeOK
<1>7. /\ Live' = Live /\ Mapped' = Mapped
      /\ Apart' /\ Recorded' /\ LowerApart' /\ MapLocated' /\ FreshUnlocated'
  BY <1>1, <1>6, TableKept
<1>8. Working'
  <2>1. WorkingAt(t)'
    BY <1>1, <1>2, <1>3, <1>4, <1>7 DEF WorkingAt
  <2>2. QED
    BY <1>2, <1>3, <1>7, <2>1, WorkingKept
<1>9. /\ raced' \subseteq Slots /\ \A h \in Slots : h # i => (h \in raced' <=> h \in raced)
      /\ i # g => raced' = raced
      /\ i = g => \A u \in Threads \ {t} : Pending(u) /\ idx[u] = i => i \in raced'
  BY <1>1, <1>4 DEF Witness, TypeOK
<1>10. ASSUME NEW h \in ((Live \ fresh) \cap Slots) \ raced', map[h] # None, buffer[h].size >= Big,
              ~Noting(h)'
       PROVE  /\ gems'[h].uva = map[h]
              /\ \A u \in Threads : ~(Pending(u)' /\ idx'[u] = h)
  <2>1. h # g \/ h # i => ~Noting(h)
    <3>1. SUFFICES ASSUME h # g \/ h # i, NEW u \in Threads, AtEntry(u, h) PROVE FALSE
      BY DEF Noting, AtEntry
    <3>2. CASE u # t
      BY <1>1, <1>3, <1>10, <3>1, <3>2 DEF Others, Noting, AtEntry
    <3>3. CASE u = t
      <4>1. h = g /\ i < h
        BY <1>4, <3>1, <3>3, GemAssumption DEF AtEntry, Slots
      <4>2. i + 1 <= h
        BY <1>4, <4>1, GemAssumption DEF Slots
      <4>3. QED
        BY <1>1, <1>3, <1>10, <4>1, <4>2 DEF Noting
    <3>4. QED
      BY <3>2, <3>3
  <2>2. ~Pending(t)' /\ \A u \in Threads \ {t} : Pending(u)' /\ idx'[u] = h => Pending(u) /\ idx[u] = h
    BY <1>3 DEF Others, Pending
  <2>3. CASE h = i /\ h = g
    BY <1>6, <1>9, <2>2, <2>3
  <2>4. CASE h = i /\ h # g
    <3>1. h \notin raced /\ ~Noting(h)
      BY <1>9, <2>1, <2>4
    <3>2. Pending(t) /\ idx[t] = h
      BY <1>3, <2>4 DEF Pending
    <3>3. QED
      BY <1>10, <3>1, <3>2 DEF GemInv, NoneToSpoil
  <2>5. CASE h # i
    <3>1. h \notin raced /\ ~Noting(h) /\ gems'[h] = gems[h]
      BY <1>6, <1>9, <2>1, <2>5
    <3>2. QED
      BY <1>10, <2>2, <3>1 DEF GemInv, NoneToSpoil, BigUvaCurrent
  <2>6. QED
    BY <2>3, <2>4, <2>5
<1>11. BigUvaCurrent' /\ NoneToSpoil'
  BY <1>2, <1>7, <1>10 DEF BigUvaCurrent, NoneToSpoil
<1>12. TypeOK'
  BY <1>1, <1>2, <1>3, <1>6, <1>7, <1>9 DEF TypeOK, Others
<1>13. QED
  BY <1>7, <1>8, <1>11, <1>12 DEF GemInv

(***************************************************************************)
(* SUBMIT.                                                                 *)
(***************************************************************************)

(* A step inside SUBMIT that stores nothing, and turns to resolve only an  *)
(* entry that has no address.                                              *)
LEMMA SubmitQuiet ==
  ASSUME TypeOK, GemInv, NEW t \in Threads, UNCHANGED <<gems, driver, raced>>,
         Others(t), WorkingAt(t)', pc[t] \notin {"note", "record"}, pc'[t] # "record",
         Pending(t)' => \/ Pending(t) /\ idx'[t] = idx[t]
                        \/ gems[idx'[t]].uva = None
  PROVE  GemInv'
<1>1. \A h \in Slots : ~AtEntry(t, h)
  BY DEF AtEntry
<1>2. QED
  BY <1>1, QuietKeeps

LEMMA SubmitKeeps ==
  ASSUME TypeOK, GemInv, NEW t \in Threads, Submit(t)
  PROVE  TypeOK' /\ GemInv'
<1>1. /\ Goto(t, "idle", IF scanned THEN "task" ELSE "set")
      /\ UNCHANGED <<hook, driver, named, idx, line, raced>> /\ gems' = gems
  BY DEF Submit, hook
<1>2. pc[t] = "idle" /\ pc'[t] \in {"task", "set"} /\ Others(t)
  BY <1>1, GotoEffect DEF Others, TypeOK, Places
<1>3. WorkingAt(t)' /\ ~Pending(t)'
  BY <1>2 DEF WorkingAt, Pending
<1>4. GemInv'
  BY <1>1, <1>2, <1>3, SubmitQuiet
<1>5. QED
  BY <1>1, <1>2, <1>4, QuietTypes

(* The steps of the scan write only the table of mappings. *)
LEMMA ScanTypes ==
  ASSUME TypeOK, NEW t \in Threads, Others(t), UNCHANGED <<gems, driver, raced>>,
         vmas' \in [1 .. MaxVmas -> Vma], count' \in 0 .. MaxVmas, scanned' \in BOOLEAN
  PROVE  TypeOK'
<1>1. UNCHANGED <<buffer, map, fresh, located, creates>>
  BY DEF driver
<1>2. QED
  BY <1>1 DEF TypeOK, Others, Live

LEMMA SetScannedKeeps ==
  ASSUME TypeOK, GemInv, NEW t \in Threads, SetScanned(t)
  PROVE  TypeOK' /\ GemInv'
<1>1. /\ Goto(t, "set", "lines") \/ Goto(t, "set", "task")
      /\ scanned' = TRUE /\ UNCHANGED <<gems, vmas, count, driver, named, idx, line, raced>>
  BY DEF SetScanned
<1>2. pc[t] = "set" /\ pc'[t] \in {"lines", "task"} /\ Others(t)
  BY <1>1, GotoEffect DEF Others, TypeOK, Places
<1>3. WorkingAt(t)' /\ ~Pending(t)'
  BY <1>2 DEF WorkingAt, Pending
<1>4. GemInv'
  BY <1>1, <1>2, <1>3, SubmitQuiet
<1>5. vmas' \in [1 .. MaxVmas -> Vma] /\ count' \in 0 .. MaxVmas /\ scanned' \in BOOLEAN
  BY <1>1 DEF TypeOK
<1>6. QED
  BY <1>1, <1>2, <1>4, <1>5, ScanTypes

LEMMA ReadLineKeeps ==
  ASSUME TypeOK, GemInv, NEW t \in Threads, ReadLine(t)
  PROVE  TypeOK' /\ GemInv'
<1>1. UNCHANGED <<hook, driver, named, idx, raced>> /\ gems' = gems
  BY DEF ReadLine, hook
<1>2. \/ /\ Goto(t, "lines", "task") /\ line' = [line EXCEPT ![t] = NoVma]
      \/ \E g \in Ahead(t) :
           /\ Goto(t, "lines", "bound")
           /\ line' = [line EXCEPT ![t] = [start |-> map[g], size |-> buffer[g].size]]
  BY DEF ReadLine
<1>3. NoVma \in Vma /\ \A g \in Ahead(t) : [start |-> map[g], size |-> buffer[g].size] \in Vma
  <2>1. ASSUME NEW g \in Ahead(t) PROVE map[g] \in Addrs /\ buffer[g].size \in Nat
    BY GemAssumption DEF Ahead, Mapped, Live, TypeOK, Buffer
  <2>2. QED
    BY <2>1 DEF Vma, NoVma
<1>4. line' \in [Threads -> Vma] /\ \A u \in Threads \ {t} : line'[u] = line[u]
  BY <1>2, <1>3 DEF TypeOK
<1>5. pc[t] = "lines" /\ pc'[t] \in {"bound", "task"} /\ Others(t)
  BY <1>1, <1>2, <1>4, GotoEffect DEF Others, TypeOK, Places
<1>6. WorkingAt(t)' /\ ~Pending(t)'
  BY <1>5 DEF WorkingAt, Pending
<1>7. GemInv'
  BY <1>1, <1>5, <1>6, SubmitQuiet
<1>8. QED
  BY <1>1, <1>5, <1>7, QuietTypes

(* The bound holds because the count that was tested is the one stored. *)
LEMMA TestBoundKeeps ==
  ASSUME TypeOK, GemInv, NEW t \in Threads, TestBound(t)
  PROVE  TypeOK' /\ GemInv'
<1>1. UNCHANGED <<hook, driver, named, line, raced>> /\ gems' = gems
  BY DEF TestBound, hook
<1>2. \/ count < MaxVmas /\ Goto(t, "bound", "append") /\ idx' = [idx EXCEPT ![t] = count]
      \/ Goto(t, "bound", "lines") /\ UNCHANGED idx
  BY DEF TestBound, Room
<1>3. count \in Nat /\ count \in 0 .. MaxVmas
  BY GemAssumption DEF TypeOK
<1>4. idx' \in [Threads -> Nat] /\ \A u \in Threads \ {t} : idx'[u] = idx[u]
  BY <1>2, <1>3 DEF TypeOK
<1>5. pc[t] = "bound" /\ pc'[t] \in {"append", "lines"} /\ Others(t)
  BY <1>1, <1>2, <1>4, GotoEffect DEF Others, TypeOK, Places
<1>6. pc'[t] = "append" => count < MaxVmas /\ idx'[t] = count
  BY <1>2, GotoEffect DEF Places, TypeOK
<1>7. WorkingAt(t)' /\ ~Pending(t)'
  BY <1>3, <1>5, <1>6, GemAssumption DEF WorkingAt, Pending
<1>8. GemInv'
  BY <1>1, <1>5, <1>7, SubmitQuiet
<1>9. QED
  BY <1>1, <1>5, <1>8, QuietTypes

LEMMA AppendKeeps ==
  ASSUME TypeOK, GemInv, NEW t \in Threads, Append(t)
  PROVE  TypeOK' /\ GemInv'
<1>1. /\ Goto(t, "append", "lines") /\ vmas' = [vmas EXCEPT ![idx[t] + 1] = line[t]]
      /\ count' = idx[t] + 1 /\ idx' = [idx EXCEPT ![t] = 0]
      /\ UNCHANGED <<gems, scanned, driver, named, line, raced>>
  BY DEF Append
<1>2. pc[t] = "append" /\ pc'[t] = "lines" /\ Others(t)
  BY <1>1, GotoEffect DEF Others, TypeOK, Places
<1>3. idx[t] \in 0 .. MaxVmas - 1
  BY <1>2 DEF GemInv, Working
<1>4. count' \in 0 .. MaxVmas /\ vmas' \in [1 .. MaxVmas -> Vma] /\ scanned' \in BOOLEAN
  BY <1>1, <1>3, GemAssumption DEF TypeOK
<1>5. WorkingAt(t)' /\ ~Pending(t)'
  BY <1>2 DEF WorkingAt, Pending
<1>6. GemInv'
  BY <1>1, <1>2, <1>5, SubmitQuiet
<1>7. QED
  BY <1>1, <1>2, <1>4, <1>6, ScanTypes

LEMMA FindTaskKeeps ==
  ASSUME TypeOK, GemInv, NEW t \in Threads, FindTask(t)
  PROVE  TypeOK' /\ GemInv'
<1>1. UNCHANGED <<hook, driver, raced>> /\ gems' = gems
  BY DEF FindTask, hook
<1>2. CASE Return(t, "task")
  BY <1>1, <1>2, ReturnKeeps
<1>3. CASE ~Return(t, "task")
  <2>1. PICK h \in Live \ fresh :
          /\ ByObj(buffer[h].obj) # 0 /\ Goto(t, "task", "test")
          /\ named' = [named EXCEPT ![t] = h]
          /\ idx' = [idx EXCEPT ![t] = ByObj(buffer[h].obj)]
          /\ UNCHANGED line
    BY <1>3 DEF FindTask
  <2>2. ByObj(buffer[h].obj) \in Slots /\ ByObj(buffer[h].obj) \in Nat
    BY <2>1, FirstOfIsFirst, GemAssumption DEF ByObj, Slots
  <2>3. h \in Handles
    BY DEF Live
  <2>4. pc[t] = "task" /\ pc'[t] = "test" /\ Others(t) /\ idx'[t] \in Slots
    BY <2>1, <2>2, <2>3, GotoEffect DEF Others, TypeOK, Places
  <2>5. WorkingAt(t)' /\ ~Pending(t)'
    BY <2>4 DEF WorkingAt, Pending
  <2>6. GemInv'
    BY <1>1, <2>4, <2>5, SubmitQuiet
  <2>7. QED
    BY <1>1, <2>4, <2>6, QuietTypes
<1>4. QED
  BY <1>2, <1>3

LEMMA TestUvaKeeps ==
  ASSUME TypeOK, GemInv, NEW t \in Threads, TestUva(t)
  PROVE  TypeOK' /\ GemInv'
<1>1. pc[t] = "test" /\ UNCHANGED <<hook, driver, raced>> /\ gems' = gems
  BY DEF TestUva, hook
<1>2. CASE Return(t, "test")
  BY <1>1, <1>2, ReturnKeeps
<1>3. CASE ~Return(t, "test")
  <2>1. /\ Goto(t, "test", IF gems[idx[t]].uva = None THEN "resolve" ELSE "regs")
        /\ UNCHANGED <<named, idx, line>>
    BY <1>3 DEF TestUva
  <2>2. /\ pc'[t] = IF gems[idx[t]].uva = None THEN "resolve" ELSE "regs"
        /\ Others(t) /\ idx[t] \in Slots
    BY <1>1, <2>1, GotoEffect DEF Others, TypeOK, Places, GemInv, Working
  <2>3. WorkingAt(t)'
    BY <2>1, <2>2 DEF WorkingAt
  <2>4. Pending(t)' => gems[idx'[t]].uva = None
    BY <2>1, <2>2 DEF Pending
  <2>5. GemInv'
    BY <1>1, <2>2, <2>3, <2>4, SubmitQuiet
  <2>6. QED
    BY <1>1, <2>2, <2>5, QuietTypes
<1>4. QED
  BY <1>2, <1>3

LEMMA ResolveKeeps ==
  ASSUME TypeOK, GemInv, NEW t \in Threads, Resolve(t)
  PROVE  TypeOK' /\ GemInv'
<1>1. pc[t] = "resolve" /\ UNCHANGED <<hook, driver, raced>> /\ gems' = gems
  BY DEF Resolve, hook
<1>2. CASE Return(t, "resolve")
  BY <1>1, <1>2, ReturnKeeps
<1>3. CASE ~Return(t, "resolve")
  <2>1. idx[t] \in Slots
    BY <1>1 DEF GemInv, Working
  <2>2. CASE Goto(t, "resolve", "regs") /\ UNCHANGED <<named, idx, line>>
    <3>1. pc'[t] = "regs" /\ Others(t)
      BY <2>2, GotoEffect DEF Others, TypeOK, Places
    <3>2. WorkingAt(t)' /\ ~Pending(t)'
      BY <2>1, <2>2, <3>1 DEF WorkingAt, Pending
    <3>3. GemInv'
      BY <1>1, <3>1, <3>2, SubmitQuiet
    <3>4. QED
      BY <1>1, <3>1, <3>3, QuietTypes
  <2>3. CASE ~(Goto(t, "resolve", "regs") /\ UNCHANGED <<named, idx, line>>)
    <3>1. PICK n \in Choices(t) :
            /\ n # 0 /\ Goto(t, "resolve", "store")
            /\ line' = [line EXCEPT ![t] = vmas[n]]
            /\ UNCHANGED <<named, idx>>
      BY <1>3, <2>3 DEF Resolve
    <3>2. n \in SameSize(idx[t])
      <4>1. CASE named[t] = 0
        <5> DEFINE S == SameSize(idx[t])
        <5>1. n = FirstOf(S) /\ n # 0
          BY <3>1, <4>1 DEF Choices
        <5>2. S \in SUBSET Nat
          BY DEF SameSize
        <5> HIDE DEF S
        <5>3. S # {}
          BY <5>1 DEF FirstOf
        <5>4. \E x \in S : \A y \in S : x <= y
          BY <5>2, <5>3, Least
        <5>5. FirstOf(S) \in S
          BY <5>3, <5>4 DEF FirstOf
        <5>6. QED
          BY <5>1, <5>5 DEF S
      <4>2. CASE named[t] # 0
        BY <3>1, <4>2 DEF Choices
      <4>3. QED
        BY <4>1, <4>2
    <3>3. vmas[n] \in Vma
      <4>1. n \in 1 .. MaxVmas
        BY <3>2, GemAssumption DEF SameSize, TypeOK
      <4>2. QED
        BY <4>1 DEF TypeOK
    <3>4. pc'[t] = "store" /\ Others(t)
      BY <3>1, <3>3, GotoEffect DEF Others, TypeOK, Places
    <3>5. WorkingAt(t)' /\ Pending(t) /\ idx'[t] = idx[t]
      BY <1>1, <2>1, <3>1, <3>4 DEF WorkingAt, Pending
    <3>6. GemInv'
      BY <1>1, <3>4, <3>5, SubmitQuiet
    <3>7. QED
      BY <1>1, <3>4, <3>6, QuietTypes
  <2>4. QED
    BY <2>2, <2>3
<1>4. QED
  BY <1>2, <1>3

(* The late store of a resolver spoils no entry that is known to be right. *)
LEMMA StoreResolvedKeeps ==
  ASSUME TypeOK, GemInv, NEW t \in Threads, StoreResolved(t)
  PROVE  TypeOK' /\ GemInv'
<1> DEFINE i == idx[t]
           a == line[t].start
<1>1. /\ pc[t] = "store" /\ StoreUva(i, a)
      /\ UNCHANGED <<vmas, count, scanned, driver, raced>>
  BY DEF StoreResolved
<1>2. i \in Slots /\ a \in Addrs \cup {None}
  BY <1>1 DEF GemInv, Working, TypeOK, Vma
<1>3. /\ gems' \in [Slots -> Slot]
      /\ \A j \in Slots :
           /\ j # i => gems'[j] = gems[j]
           /\ gems'[j].obj = gems[j].obj /\ gems'[j].dma = gems[j].dma
           /\ gems'[j].size = gems[j].size /\ gems'[j].off = gems[j].off
  BY <1>1, <1>2, StoreUvaEffect DEF TypeOK
<1>4. Others(t) /\ pc'[t] \in {"regs", "idle"} /\ (pc'[t] = "regs" => idx'[t] = i)
  <2>1. CASE named[t] # 0
    <3>1. /\ Goto(t, "store", "regs") /\ line' = [line EXCEPT ![t] = NoVma]
          /\ UNCHANGED <<named, idx>>
      BY <2>1 DEF StoreResolved
    <3>2. line' \in [Threads -> Vma]
      BY <3>1 DEF TypeOK, Vma, NoVma
    <3>3. QED
      BY <3>1, <3>2, GotoEffect DEF Others, TypeOK, Places
  <2>2. CASE named[t] = 0
    BY <2>2, ReturnEffect DEF StoreResolved
  <2>3. QED
    BY <2>1, <2>2
<1>5. UNCHANGED <<buffer, map, fresh, located, creates>>
  BY <1>1 DEF driver
<1>6. /\ Live' = Live /\ Mapped' = Mapped
      /\ Apart' /\ Recorded' /\ LowerApart' /\ MapLocated' /\ FreshUnlocated'
  BY <1>1, <1>3, TableKept
<1>7. Working'
  <2>1. WorkingAt(t)'
    BY <1>2, <1>4 DEF WorkingAt
  <2>2. QED
    BY <1>4, <1>5, <1>6, <2>1, WorkingKept
<1>8. \A h : Noting(h) => Noting(h)'
  BY <1>1, <1>4 DEF Noting, Others
<1>9. ASSUME NEW h \in ((Live \ fresh) \cap Slots) \ raced, map[h] # None, buffer[h].size >= Big,
             ~Noting(h)'
      PROVE  /\ gems'[h].uva = map[h]
             /\ \A u \in Threads : ~(Pending(u)' /\ idx'[u] = h)
  <2>1. ~Noting(h)
    BY <1>8, <1>9
  <2>2. gems[h].uva = map[h] /\ \A u \in Threads : ~(Pending(u) /\ idx[u] = h)
    BY <1>9, <2>1 DEF GemInv, BigUvaCurrent, NoneToSpoil
  <2>3. h # i
    BY <1>1, <2>2 DEF Pending
  <2>4. ~Pending(t)'
    BY <1>4 DEF Pending
  <2>5. QED
    BY <1>3, <1>4, <2>2, <2>3, <2>4 DEF Others, Pending
<1>10. BigUvaCurrent' /\ NoneToSpoil'
  BY <1>1, <1>5, <1>6, <1>9 DEF BigUvaCurrent, NoneToSpoil
<1>11. TypeOK'
  BY <1>1, <1>3, <1>4, <1>5, <1>6 DEF TypeOK, Others
<1>12. QED
  BY <1>6, <1>7, <1>10, <1>11 DEF GemInv

LEMMA FindRegsKeeps ==
  ASSUME TypeOK, GemInv, NEW t \in Threads, FindRegs(t)
  PROVE  TypeOK' /\ GemInv'
<1>1. pc[t] = "regs" /\ UNCHANGED <<hook, driver, raced>> /\ gems' = gems
  BY DEF FindRegs, hook
<1>2. CASE Return(t, "regs")
  BY <1>1, <1>2, ReturnKeeps
<1>3. CASE ~Return(t, "regs")
  <2>1. /\ Goto(t, "regs", "test") /\ named' = [named EXCEPT ![t] = 0] /\ UNCHANGED line
        /\ \E r \in Slots : idx' = [idx EXCEPT ![t] = r]
    BY <1>3 DEF FindRegs
  <2>2. PICK r \in Slots : idx' = [idx EXCEPT ![t] = r]
    BY <2>1
  <2>3. r \in Nat
    BY GemAssumption DEF Slots
  <2>4. pc'[t] = "test" /\ Others(t) /\ idx'[t] \in Slots
    BY <2>1, <2>2, <2>3, GotoEffect DEF Others, TypeOK, Places
  <2>5. WorkingAt(t)' /\ ~Pending(t)'
    BY <2>4 DEF WorkingAt, Pending
  <2>6. GemInv'
    BY <1>1, <2>4, <2>5, SubmitQuiet
  <2>7. QED
    BY <1>1, <2>4, <2>6, QuietTypes
<1>4. QED
  BY <1>2, <1>3

(***************************************************************************)
(* The invariant.                                                          *)
(***************************************************************************)

LEMMA InvStep == TypeOK /\ GemInv /\ [Next]_vars => TypeOK' /\ GemInv'
<1> SUFFICES ASSUME TypeOK, GemInv, [Next]_vars PROVE TypeOK' /\ GemInv'
  OBVIOUS
<1>1. CASE UNCHANGED vars
  <2>1. UNCHANGED <<gems, vmas, count, scanned, buffer, map, fresh, located, creates,
                    pc, named, idx, line, raced>>
    BY <1>1 DEF vars, hook, driver, thread
  <2>2. TypeOK'
    BY <2>1 DEF TypeOK, Live
  <2>3. GemInv'
    BY <2>1 DEF GemInv, Apart, Recorded, LowerApart, MapLocated, FreshUnlocated, BigUvaCurrent,
                NoneToSpoil, Noting, Pending, Working, Live, Mapped
  <2>4. QED
    BY <2>2, <2>3
<1>2. ASSUME NEW h \in Handles, MemCreate(h) \/ MemMap(h) \/ Munmap(h) \/ MemDestroy(h)
      PROVE  TypeOK' /\ GemInv'
  BY <1>2, MemCreateKeeps, MemMapKeeps, MunmapKeeps, MemDestroyKeeps
<1>3. ASSUME NEW t \in Threads, (\E h \in Handles : Mmap(t, h)) \/ NoteTest(t) \/ NoteStore(t)
      PROVE  TypeOK' /\ GemInv'
  BY <1>3, MmapKeeps, NoteTestKeeps, NoteStoreKeeps
<1>4. ASSUME NEW t \in Threads,
             Submit(t) \/ SetScanned(t) \/ ReadLine(t) \/ TestBound(t) \/ Append(t)
      PROVE  TypeOK' /\ GemInv'
  BY <1>4, SubmitKeeps, SetScannedKeeps, ReadLineKeeps, TestBoundKeeps, AppendKeeps
<1>5. ASSUME NEW t \in Threads,
             FindTask(t) \/ TestUva(t) \/ Resolve(t) \/ StoreResolved(t) \/ FindRegs(t)
      PROVE  TypeOK' /\ GemInv'
  BY <1>5, FindTaskKeeps, TestUvaKeeps, ResolveKeeps, StoreResolvedKeeps, FindRegsKeeps
<1>6. QED
  BY <1>1, <1>2, <1>3, <1>4, <1>5, DriverCreateKeeps DEF Next

LEMMA InvInit == Init => TypeOK /\ GemInv
<1> SUFFICES ASSUME Init PROVE TypeOK /\ GemInv
  OBVIOUS
<1>1. gems \in [Slots -> Slot] /\ vmas \in [1 .. MaxVmas -> Vma] /\ line \in [Threads -> Vma]
  BY DEF Init, Slot, Vma, NoVma
<1>2. Live = {} /\ Mapped = {} /\ \A h \in Handles : map[h] = None
  BY DEF Init, Live, Mapped
<1>3. TypeOK
  <2>1. count \in 0 .. MaxVmas /\ creates \in Nat /\ scanned \in BOOLEAN
    <3>1. count = 0 /\ creates = 0 /\ scanned = FALSE
      BY DEF Init
    <3>2. 0 \in 0 .. MaxVmas
      BY GemAssumption
    <3>3. QED
      BY <3>1, <3>2
  <2>2. /\ buffer \in [Handles -> Buffer \cup {NoBuffer}] /\ map \in [Handles -> Addrs \cup {None}]
        /\ fresh \subseteq Live /\ located \subseteq Handles /\ raced \subseteq Slots
    BY DEF Init
  <2>3. /\ pc \in [Threads -> Places] /\ named \in [Threads -> Handles \cup {0}]
        /\ idx \in [Threads -> Nat]
    BY DEF Init, Places
  <2>4. QED
    BY <1>1, <2>1, <2>2, <2>3 DEF TypeOK
<1>4. GemInv
  BY <1>2 DEF Init, GemInv, Apart, Recorded, LowerApart, MapLocated, FreshUnlocated,
              BigUvaCurrent, NoneToSpoil, Working
<1>5. QED
  BY <1>3, <1>4

THEOREM Invariant == Spec => [](TypeOK /\ GemInv)
<1>1. QED
  BY InvInit, InvStep, PTL DEF Spec

(* The table keeps its types, and the table of mappings its bound although *)
(* it is appended to without a lock: the count a thread stores is one more *)
(* than the count it found below the bound, whatever others stored since.  *)
THEOREM Typing == Spec => []TypeOK
<1>1. QED
  BY Invariant, PTL

(* A lookup never returns a stale entry for an address of a buffer that    *)
(* exists: the table needs no cleaning when a buffer is destroyed, because *)
(* the driver gives out the lowest free handle.                            *)
THEOREM LookupIsSound == Spec => []LookupFindsLive
<1>1. QED
  BY Invariant, LookupFollows, PTL

(* A mapped buffer of a megabyte or more is read at its own address, unless*)
(* a store of another thread that had tested its entry before the mmap was *)
(* still to come.                                                          *)
THEOREM BigUvaIsCurrent == Spec => []BigUvaCurrent
<1>1. TypeOK /\ GemInv => BigUvaCurrent
  BY DEF GemInv
<1>2. QED
  BY <1>1, Invariant, PTL

=============================================================================
