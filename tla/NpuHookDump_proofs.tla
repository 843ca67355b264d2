-------------------------- MODULE NpuHookDump_proofs --------------------------
(***************************************************************************)
(* Proofs about NpuHookDump: for any number of threads and submits, any    *)
(* window and any command-buffer lengths.                                  *)
(***************************************************************************)
EXTENDS NpuHookDump, FiniteSetTheorems, TLAPS

(* Every variable keeps its type; in particular no counter of the tracer   *)
(* goes negative however its increments interleave.                        *)
THEOREM Typing == Spec => []TypeOK
<1> USE EnvAssumption, UnitsAssumption
<1>1. Init => TypeOK
  BY DEF Init, TypeOK, Slots, Pieces, Places
<1>2. TypeOK /\ [Next]_vars => TypeOK'
  <2> SUFFICES ASSUME TypeOK, [Next]_vars PROVE TypeOK'
    OBVIOUS
  <2> USE DEF TypeOK, Goto, Slot, SlotOf, Slots, counters, local, history
  <2>1. ASSUME NEW t \in Threads, Submit(t) PROVE TypeOK'
    BY <2>1 DEF Submit, Places
  <2>2. ASSUME NEW t \in Threads, CountSubmit(t) PROVE TypeOK'
    BY <2>2 DEF CountSubmit, Places
  <2>3. ASSUME NEW t \in Threads, CheckMax(t) PROVE TypeOK'
    BY <2>3 DEF CheckMax, Places
  <2>4. ASSUME NEW t \in Threads, SetMax(t) PROVE TypeOK'
    BY <2>4 DEF SetMax, Places
  <2>5. ASSUME NEW t \in Threads, SetSkip(t) PROVE TypeOK'
    BY <2>5 DEF SetSkip, Places
  <2>6. ASSUME NEW t \in Threads, ClampWindow(t) PROVE TypeOK'
    BY <2>6 DEF ClampWindow, ClampNeg, Places
  <2>7. ASSUME NEW t \in Threads, PrintWindow(t) PROVE TypeOK'
    BY <2>7 DEF PrintWindow, Emit, Places, Pieces
  <2>8. ASSUME NEW t \in Threads, LoadSeen(t) PROVE TypeOK'
    BY <2>8 DEF LoadSeen, Places
  <2>9. ASSUME NEW t \in Threads, StoreSeen(t) PROVE TypeOK'
    BY <2>9 DEF StoreSeen, Places
  <2>10. ASSUME NEW t \in Threads, CheckSkip(t) PROVE TypeOK'
    BY <2>10 DEF CheckSkip, Places
  <2>11. ASSUME NEW t \in Threads, CheckCount(t) PROVE TypeOK'
    BY <2>11 DEF CheckCount, Places
  <2>12. ASSUME NEW t \in Threads, LoadCount(t) PROVE TypeOK'
    BY <2>12 DEF LoadCount, Places
  <2>13. ASSUME NEW t \in Threads, StoreCount(t) PROVE TypeOK'
    BY <2>13 DEF StoreCount, Places
  <2>14. ASSUME NEW t \in Threads, BuildHeader(t) PROVE TypeOK'
    BY <2>14 DEF BuildHeader, Places
  <2>15. ASSUME NEW t \in Threads, Flockfile(t) PROVE TypeOK'
    BY <2>15 DEF Flockfile, Places
  <2>16. ASSUME NEW t \in Threads, WriteStart(t) PROVE TypeOK'
    BY <2>16 DEF WriteStart, Places, Pieces
  <2>17. ASSUME NEW t \in Threads, WriteEnd(t) PROVE TypeOK'
    BY <2>17 DEF WriteEnd, Places, Pieces
  <2>18. ASSUME NEW t \in Threads, Funlockfile(t) PROVE TypeOK'
    BY <2>18 DEF Funlockfile, Places
  <2>19. ASSUME NEW t \in Threads, SubmitLine(t) PROVE TypeOK'
    BY <2>19 DEF SubmitLine, Emit, Places, Pieces
  <2>20. CASE UNCHANGED vars
    BY <2>20 DEF vars
  <2>21. QED
    BY <2>1, <2>2, <2>3, <2>4, <2>5, <2>6, <2>7, <2>8, <2>9, <2>10, <2>11, <2>12,
       <2>13, <2>14, <2>15, <2>16, <2>17, <2>18, <2>19, <2>20
       DEF Next, Finished, Handle, InitWindow, PassWindow, WriteDump
<1>3. QED
  BY <1>1, <1>2, PTL DEF Spec

(* A thread past its own initialisation of the window never sees max       *)
(* unset, whatever other threads store there.                              *)
LEMMA BoundsStable == Spec => []BoundsInv
<1> USE EnvAssumption, UnitsAssumption
<1>1. Init => BoundsInv
  BY DEF Init, BoundsInv, PastMax, Slots
<1>2. TypeOK /\ BoundsInv /\ [Next]_vars => BoundsInv'
  <2> SUFFICES ASSUME TypeOK, BoundsInv, [Next]_vars PROVE BoundsInv'
    OBVIOUS
  <2> USE DEF TypeOK, BoundsInv, PastMax, ClampNeg, Goto, Slot, SlotOf, Slots, counters, local, history
  <2>1. ASSUME NEW t \in Threads, Submit(t) PROVE BoundsInv'
    BY <2>1 DEF Submit
  <2>2. ASSUME NEW t \in Threads, CountSubmit(t) PROVE BoundsInv'
    BY <2>2 DEF CountSubmit
  <2>3. ASSUME NEW t \in Threads, CheckMax(t) PROVE BoundsInv'
    BY <2>3 DEF CheckMax
  <2>4. ASSUME NEW t \in Threads, SetMax(t) PROVE BoundsInv'
    BY <2>4 DEF SetMax
  <2>5. ASSUME NEW t \in Threads, SetSkip(t) PROVE BoundsInv'
    BY <2>5 DEF SetSkip
  <2>6. ASSUME NEW t \in Threads, ClampWindow(t) PROVE BoundsInv'
    BY <2>6 DEF ClampWindow
  <2>7. ASSUME NEW t \in Threads, PrintWindow(t) PROVE BoundsInv'
    BY <2>7 DEF PrintWindow, Emit
  <2>8. ASSUME NEW t \in Threads, LoadSeen(t) PROVE BoundsInv'
    BY <2>8 DEF LoadSeen
  <2>9. ASSUME NEW t \in Threads, StoreSeen(t) PROVE BoundsInv'
    BY <2>9 DEF StoreSeen
  <2>10. ASSUME NEW t \in Threads, CheckSkip(t) PROVE BoundsInv'
    BY <2>10 DEF CheckSkip
  <2>11. ASSUME NEW t \in Threads, CheckCount(t) PROVE BoundsInv'
    BY <2>11 DEF CheckCount
  <2>12. ASSUME NEW t \in Threads, LoadCount(t) PROVE BoundsInv'
    BY <2>12 DEF LoadCount
  <2>13. ASSUME NEW t \in Threads, StoreCount(t) PROVE BoundsInv'
    BY <2>13 DEF StoreCount
  <2>14. ASSUME NEW t \in Threads, BuildHeader(t) PROVE BoundsInv'
    BY <2>14 DEF BuildHeader
  <2>15. ASSUME NEW t \in Threads, Flockfile(t) PROVE BoundsInv'
    BY <2>15 DEF Flockfile
  <2>16. ASSUME NEW t \in Threads, WriteStart(t) PROVE BoundsInv'
    BY <2>16 DEF WriteStart
  <2>17. ASSUME NEW t \in Threads, WriteEnd(t) PROVE BoundsInv'
    BY <2>17 DEF WriteEnd
  <2>18. ASSUME NEW t \in Threads, Funlockfile(t) PROVE BoundsInv'
    BY <2>18 DEF Funlockfile
  <2>19. ASSUME NEW t \in Threads, SubmitLine(t) PROVE BoundsInv'
    BY <2>19 DEF SubmitLine, Emit
  <2>20. CASE UNCHANGED vars
    BY <2>20 DEF vars
  <2>21. QED
    BY <2>1, <2>2, <2>3, <2>4, <2>5, <2>6, <2>7, <2>8, <2>9, <2>10, <2>11, <2>12,
       <2>13, <2>14, <2>15, <2>16, <2>17, <2>18, <2>19, <2>20
       DEF Next, Finished, Handle, InitWindow, PassWindow, WriteDump
<1>3. QED
  BY <1>1, <1>2, Typing, PTL DEF Spec

(* SkipRespected: once skip is set, no dump is let in before SKIP buffers  *)
(* of its unit have been seen, although increments of seen can be lost.    *)
THEOREM SkipIsRespected == Spec => []SkipRespected
<1> USE EnvAssumption, UnitsAssumption
<1>1. Init => SeenInv
  BY DEF Init, SeenInv, SkipRespected, Slots
<1>2. TypeOK /\ SeenInv /\ [Next]_vars => SeenInv'
  <2> SUFFICES ASSUME TypeOK, SeenInv, [Next]_vars PROVE SeenInv'
    OBVIOUS
  <2> USE DEF TypeOK, SeenInv, SkipRespected, ClampNeg, Goto, Slot, SlotOf, Slots, counters, local, history
  <2>1. ASSUME NEW t \in Threads, Submit(t) PROVE SeenInv'
    BY <2>1 DEF Submit
  <2>2. ASSUME NEW t \in Threads, CountSubmit(t) PROVE SeenInv'
    BY <2>2 DEF CountSubmit
  <2>3. ASSUME NEW t \in Threads, CheckMax(t) PROVE SeenInv'
    BY <2>3 DEF CheckMax
  <2>4. ASSUME NEW t \in Threads, SetMax(t) PROVE SeenInv'
    BY <2>4 DEF SetMax
  <2>5. ASSUME NEW t \in Threads, SetSkip(t) PROVE SeenInv'
    BY <2>5 DEF SetSkip
  <2>6. ASSUME NEW t \in Threads, ClampWindow(t) PROVE SeenInv'
    BY <2>6 DEF ClampWindow
  <2>7. ASSUME NEW t \in Threads, PrintWindow(t) PROVE SeenInv'
    BY <2>7 DEF PrintWindow, Emit
  <2>8. ASSUME NEW t \in Threads, LoadSeen(t) PROVE SeenInv'
    BY <2>8 DEF LoadSeen
  <2>9. ASSUME NEW t \in Threads, StoreSeen(t) PROVE SeenInv'
    BY <2>9 DEF StoreSeen
  <2>10. ASSUME NEW t \in Threads, CheckSkip(t) PROVE SeenInv'
    <3>1. PICK v \in {reg[t], seen[Slot(t)]} :
            /\ Goto(t, "checkskip", IF v <= skip[Slot(t)] THEN "line" ELSE "checkcount")
            /\ unset' = [unset EXCEPT ![Slot(t)] =
                           @ \/ (v > skip[Slot(t)] /\ skip[Slot(t)] < EnvSkip[Slot(t)])]
            /\ UNCHANGED <<counters, stdio, last, local, entered, accepted, declined, submits>>
      BY <2>10 DEF CheckSkip
    <3>2. v \in Nat /\ v >= 1 /\ v <= entered[Slot(t)]
      BY <3>1
    <3>3. /\ \A s \in Slots : unset[s] => unset'[s]
          /\ v > skip[Slot(t)] /\ skip[Slot(t)] < EnvSkip[Slot(t)] => unset'[Slot(t)]
      <4> Slot(t) \in Slots
        OBVIOUS
      <4> DEFINE late == v > skip[Slot(t)] /\ skip[Slot(t)] < EnvSkip[Slot(t)]
      <4>1. unset' = [unset EXCEPT ![Slot(t)] = unset[Slot(t)] \/ late]
        BY <3>1
      <4> HIDE DEF late
      <4>2. /\ \A s \in Slots : unset[s] => unset'[s]
            /\ late => unset'[Slot(t)]
        BY <4>1, Zenon
      <4>3. QED
        BY <4>2 DEF late
    <3>4. v > skip[Slot(t)] /\ ~unset'[Slot(t)]
             => entered[Slot(t)] > ClampNeg(EnvSkip[Slot(t)])
      BY <3>2, <3>3
    <3>5. \A t2 \in Threads : pc'[t2] = "checkcount" /\ ~unset'[Slot(t2)]
            => entered[Slot(t2)] > ClampNeg(EnvSkip[Slot(t2)])
      BY <3>1, <3>3, <3>4
    <3>6. QED
      BY <3>1, <3>3, <3>5
  <2>11. ASSUME NEW t \in Threads, CheckCount(t) PROVE SeenInv'
    BY <2>11 DEF CheckCount
  <2>12. ASSUME NEW t \in Threads, LoadCount(t) PROVE SeenInv'
    BY <2>12 DEF LoadCount
  <2>13. ASSUME NEW t \in Threads, StoreCount(t) PROVE SeenInv'
    BY <2>13 DEF StoreCount
  <2>14. ASSUME NEW t \in Threads, BuildHeader(t) PROVE SeenInv'
    BY <2>14 DEF BuildHeader
  <2>15. ASSUME NEW t \in Threads, Flockfile(t) PROVE SeenInv'
    BY <2>15 DEF Flockfile
  <2>16. ASSUME NEW t \in Threads, WriteStart(t) PROVE SeenInv'
    BY <2>16 DEF WriteStart
  <2>17. ASSUME NEW t \in Threads, WriteEnd(t) PROVE SeenInv'
    BY <2>17 DEF WriteEnd
  <2>18. ASSUME NEW t \in Threads, Funlockfile(t) PROVE SeenInv'
    BY <2>18 DEF Funlockfile
  <2>19. ASSUME NEW t \in Threads, SubmitLine(t) PROVE SeenInv'
    BY <2>19 DEF SubmitLine, Emit
  <2>20. CASE UNCHANGED vars
    BY <2>20 DEF vars
  <2>21. QED
    BY <2>1, <2>2, <2>3, <2>4, <2>5, <2>6, <2>7, <2>8, <2>9, <2>10, <2>11, <2>12,
       <2>13, <2>14, <2>15, <2>16, <2>17, <2>18, <2>19, <2>20
       DEF Next, Finished, Handle, InitWindow, PassWindow, WriteDump
<1>3. SeenInv => SkipRespected
  BY DEF SeenInv
<1>4. QED
  BY <1>1, <1>2, <1>3, Typing, PTL DEF Spec

(* The sets of threads between test and store are finite.                  *)
LEMMA BumpingFinite ==
  \A s \in Slots : IsFiniteSet(Bumping(s)) /\ Cardinality(Bumping(s)) \in Nat
<1> SUFFICES ASSUME NEW s \in Slots
             PROVE  IsFiniteSet(Bumping(s)) /\ Cardinality(Bumping(s)) \in Nat
  OBVIOUS
<1>1. Bumping(s) \subseteq Threads
  BY DEF Bumping
<1>2. IsFiniteSet(Bumping(s))
  BY <1>1, ThreadsAssumption, FS_Subset
<1>3. QED
  BY <1>2, FS_CardinalityType

(* WindowFilled: a submit is turned away by the max test only when as many *)
(* dumps as the environment asks for have been let in, although increments *)
(* of count can be lost.                                                   *)
THEOREM WindowIsFilled == Spec => []WindowFilled
<1> USE EnvAssumption, UnitsAssumption
<1>1. Init => CountInv
  <2> SUFFICES ASSUME Init PROVE CountInv
    OBVIOUS
  <2>1. \A s \in Slots : Bumping(s) = {}
    BY DEF Init, Bumping
  <2>2. \A s \in Slots : Cardinality(Bumping(s)) = 0
    BY <2>1, FS_EmptySet
  <2>3. \A t \in Threads : pc[t] = "idle"
    BY DEF Init
  <2>4. WindowFilled
    BY DEF Init, WindowFilled
  <2>5. \A s \in Slots : dumped[s] = 0 /\ accepted[s] = 0
    BY DEF Init
  <2>6. QED
    BY <2>2, <2>3, <2>4, <2>5 DEF CountInv
<1>2. TypeOK /\ BoundsInv /\ CountInv /\ [Next]_vars => CountInv'
  <2> SUFFICES ASSUME TypeOK, BoundsInv, CountInv, [Next]_vars PROVE CountInv'
    OBVIOUS
  <2> DEFINE Active == {"loadcount", "storecount"}
             Still  == /\ \A s \in Slots : Bumping(s)' = Bumping(s)
                       /\ \A u \in Threads : pc'[u] \in Active =>
                            pc[u] \in Active /\ reg'[u] = reg[u] /\ unit'[u] = unit[u]
                       /\ UNCHANGED <<dumped, accepted, declined>>
  <2> USE DEF TypeOK, Goto, Slot, SlotOf, Slots, counters, local, history
  <2>1. ASSUME NEW t \in Threads, Submit(t) PROVE Still
    BY <2>1 DEF Submit, Bumping
  <2>2. ASSUME NEW t \in Threads, CountSubmit(t) PROVE Still
    BY <2>2 DEF CountSubmit, Bumping
  <2>3. ASSUME NEW t \in Threads, CheckMax(t) PROVE Still
    BY <2>3 DEF CheckMax, Bumping
  <2>4. ASSUME NEW t \in Threads, SetMax(t) PROVE Still
    BY <2>4 DEF SetMax, Bumping
  <2>5. ASSUME NEW t \in Threads, SetSkip(t) PROVE Still
    BY <2>5 DEF SetSkip, Bumping
  <2>6. ASSUME NEW t \in Threads, ClampWindow(t) PROVE Still
    BY <2>6 DEF ClampWindow, Bumping
  <2>7. ASSUME NEW t \in Threads, PrintWindow(t) PROVE Still
    BY <2>7 DEF PrintWindow, Emit, Bumping
  <2>8. ASSUME NEW t \in Threads, LoadSeen(t) PROVE Still
    BY <2>8 DEF LoadSeen, Bumping
  <2>9. ASSUME NEW t \in Threads, StoreSeen(t) PROVE Still
    BY <2>9 DEF StoreSeen, Bumping
  <2>10. ASSUME NEW t \in Threads, CheckSkip(t) PROVE Still
    BY <2>10 DEF CheckSkip, Bumping
  <2>11. ASSUME NEW t \in Threads, BuildHeader(t) PROVE Still
    BY <2>11 DEF BuildHeader, Bumping
  <2>12. ASSUME NEW t \in Threads, Flockfile(t) PROVE Still
    BY <2>12 DEF Flockfile, Bumping
  <2>13. ASSUME NEW t \in Threads, WriteStart(t) PROVE Still
    BY <2>13 DEF WriteStart, Bumping
  <2>14. ASSUME NEW t \in Threads, WriteEnd(t) PROVE Still
    BY <2>14 DEF WriteEnd, Bumping
  <2>15. ASSUME NEW t \in Threads, Funlockfile(t) PROVE Still
    BY <2>15 DEF Funlockfile, Bumping
  <2>16. ASSUME NEW t \in Threads, SubmitLine(t) PROVE Still
    BY <2>16 DEF SubmitLine, Emit, Bumping
  <2>17. CASE UNCHANGED vars
    <3>1. Still
      BY <2>17 DEF vars, Bumping
    <3>2. QED
      BY <3>1 DEF CountInv, WindowFilled
  <2>18. Still => CountInv'
    BY BumpingFinite DEF CountInv, WindowFilled
  <2>19. ASSUME NEW t \in Threads, CheckCount(t) PROVE CountInv'
    <3> DEFINE s == Slot(t)
    <3>1. s \in Slots /\ dumped[s] \in Nat /\ max[s] \in Int /\ accepted[s] \in Nat
      OBVIOUS
    <3>2. CASE dumped[s] >= max[s]
      <4>1. /\ \A r \in Slots : Bumping(r)' = Bumping(r)
            /\ \A u \in Threads : pc'[u] \in Active =>
                 pc[u] \in Active /\ reg'[u] = reg[u] /\ unit'[u] = unit[u]
            /\ UNCHANGED <<dumped, accepted>>
        BY <2>19, <3>2 DEF CheckCount, Bumping
      <4>2. accepted[s] >= ClampNeg(EnvMax[s])
        BY <2>19, <3>1, <3>2, BumpingFinite DEF CheckCount, CountInv, BoundsInv, PastMax, ClampNeg
      <4>3. \A r \in Slots : declined'[r] => declined[r] \/ r = s
        BY <2>19 DEF CheckCount
      <4>4. WindowFilled'
        BY <4>1, <4>2, <4>3 DEF WindowFilled, CountInv
      <4>5. QED
        BY <4>1, <4>4 DEF CountInv
    <3>3. CASE ~(dumped[s] >= max[s])
      <4>1. /\ t \notin Bumping(s)
            /\ Bumping(s)' = Bumping(s) \cup {t}
            /\ \A r \in Slots : r # s => Bumping(r)' = Bumping(r)
        BY <2>19, <3>3 DEF CheckCount, Bumping
      <4>2. /\ Cardinality(Bumping(s)') = Cardinality(Bumping(s)) + 1
            /\ Cardinality(Bumping(s)) \in Nat
        BY <4>1, FS_AddElement, BumpingFinite
      <4>3. /\ accepted' = [accepted EXCEPT ![s] = accepted[s] + 1]
            /\ reg' = [reg EXCEPT ![t] = dumped[s]]
            /\ pc' = [pc EXCEPT ![t] = "loadcount"]
            /\ UNCHANGED <<dumped, unit>>
        BY <2>19, <3>3 DEF CheckCount
      <4>4. \A r \in Slots : dumped'[r] + Cardinality(Bumping(r)') <= accepted'[r]
        BY <4>1, <4>2, <4>3, BumpingFinite DEF CountInv
      <4>5. \A u \in Threads : pc'[u] \in Active =>
              reg'[u] + Cardinality(Bumping(Slot(u))') <= accepted'[Slot(u)]
        BY <4>1, <4>2, <4>3, BumpingFinite DEF CountInv
      <4>6. declined' = declined
        BY <2>19, <3>3, Zenon DEF CheckCount
      <4>7. WindowFilled'
        BY <4>3, <4>6 DEF WindowFilled, CountInv, ClampNeg
      <4>8. QED
        BY <4>3, <4>4, <4>5, <4>7 DEF CountInv
    <3>4. QED
      BY <3>2, <3>3
  <2>20. ASSUME NEW t \in Threads, LoadCount(t) PROVE CountInv'
    <3>1. \A s \in Slots : Bumping(s)' = Bumping(s)
      BY <2>20 DEF LoadCount, Bumping
    <3>2. QED
      BY <2>20, <3>1, BumpingFinite DEF LoadCount, CountInv, WindowFilled
  <2>21. ASSUME NEW t \in Threads, StoreCount(t) PROVE CountInv'
    <3> DEFINE s == Slot(t)
    <3>1. /\ s \in Slots
          /\ t \in Bumping(s)
          /\ Bumping(s)' = Bumping(s) \ {t}
          /\ \A r \in Slots : r # s => Bumping(r)' = Bumping(r)
      BY <2>21 DEF StoreCount, Bumping
    <3>2. /\ Cardinality(Bumping(s)') = Cardinality(Bumping(s)) - 1
          /\ Cardinality(Bumping(s)) \in Nat
      BY <3>1, FS_RemoveElement, BumpingFinite
    <3>3. QED
      BY <2>21, <3>1, <3>2, BumpingFinite DEF StoreCount, CountInv, WindowFilled
  <2>22. QED
    BY <2>1, <2>2, <2>3, <2>4, <2>5, <2>6, <2>7, <2>8, <2>9, <2>10, <2>11, <2>12,
       <2>13, <2>14, <2>15, <2>16, <2>17, <2>18, <2>19, <2>20, <2>21
       DEF Next, Finished, Handle, InitWindow, PassWindow, WriteDump
<1>3. CountInv => WindowFilled
  BY DEF CountInv
<1>4. QED
  BY <1>1, <1>2, <1>3, Typing, BoundsStable, PTL DEF Spec

(* DumpIntact: what a thread writes under flockfile is not split by        *)
(* another thread, and a dump of up to 256 registers keeps its end marker. *)
THEOREM DumpsAreIntact == Spec => DumpIntact
<1> USE ThreadsAssumption, UnitsAssumption
<1>1. Init => StreamInv
  BY DEF Init, StreamInv
<1>2. TypeOK /\ StreamInv /\ [Next]_vars => StreamInv'
  <2> SUFFICES ASSUME TypeOK, StreamInv, [Next]_vars PROVE StreamInv'
    OBVIOUS
  <2> USE DEF TypeOK, StreamInv, Goto, counters, local, history
  <2>1. ASSUME NEW t \in Threads, Submit(t) PROVE StreamInv'
    BY <2>1 DEF Submit
  <2>2. ASSUME NEW t \in Threads, CountSubmit(t) PROVE StreamInv'
    BY <2>2 DEF CountSubmit
  <2>3. ASSUME NEW t \in Threads, CheckMax(t) PROVE StreamInv'
    BY <2>3 DEF CheckMax
  <2>4. ASSUME NEW t \in Threads, SetMax(t) PROVE StreamInv'
    BY <2>4 DEF SetMax
  <2>5. ASSUME NEW t \in Threads, SetSkip(t) PROVE StreamInv'
    BY <2>5 DEF SetSkip
  <2>6. ASSUME NEW t \in Threads, ClampWindow(t) PROVE StreamInv'
    BY <2>6 DEF ClampWindow
  <2>7. ASSUME NEW t \in Threads, PrintWindow(t) PROVE StreamInv'
    BY <2>7 DEF PrintWindow, Emit
  <2>8. ASSUME NEW t \in Threads, LoadSeen(t) PROVE StreamInv'
    BY <2>8 DEF LoadSeen
  <2>9. ASSUME NEW t \in Threads, StoreSeen(t) PROVE StreamInv'
    BY <2>9 DEF StoreSeen
  <2>10. ASSUME NEW t \in Threads, CheckSkip(t) PROVE StreamInv'
    BY <2>10 DEF CheckSkip
  <2>11. ASSUME NEW t \in Threads, CheckCount(t) PROVE StreamInv'
    BY <2>11 DEF CheckCount
  <2>12. ASSUME NEW t \in Threads, LoadCount(t) PROVE StreamInv'
    BY <2>12 DEF LoadCount
  <2>13. ASSUME NEW t \in Threads, StoreCount(t) PROVE StreamInv'
    BY <2>13 DEF StoreCount
  <2>14. ASSUME NEW t \in Threads, BuildHeader(t) PROVE StreamInv'
    BY <2>14 DEF BuildHeader
  <2>15. ASSUME NEW t \in Threads, Flockfile(t) PROVE StreamInv'
    BY <2>15 DEF Flockfile
  <2>16. ASSUME NEW t \in Threads, WriteStart(t) PROVE StreamInv'
    BY <2>16 DEF WriteStart
  <2>17. ASSUME NEW t \in Threads, WriteEnd(t) PROVE StreamInv'
    BY <2>17 DEF WriteEnd
  <2>18. ASSUME NEW t \in Threads, Funlockfile(t) PROVE StreamInv'
    BY <2>18 DEF Funlockfile
  <2>19. ASSUME NEW t \in Threads, SubmitLine(t) PROVE StreamInv'
    BY <2>19 DEF SubmitLine, Emit
  <2>20. CASE UNCHANGED vars
    BY <2>20 DEF vars
  <2>21. QED
    BY <2>1, <2>2, <2>3, <2>4, <2>5, <2>6, <2>7, <2>8, <2>9, <2>10, <2>11, <2>12,
       <2>13, <2>14, <2>15, <2>16, <2>17, <2>18, <2>19, <2>20
       DEF Next, Finished, Handle, InitWindow, PassWindow, WriteDump
<1>3. TypeOK /\ StreamInv /\ [Next]_vars =>
        [last.piece = "start" =>
           /\ last'.thread = last.thread
           /\ RegcmdLen[unit[last.thread]] <= 256 => last'.piece = "end"]_last
  <2> DEFINE Whole == last.piece = "start" /\ last' # last =>
                        /\ last'.thread = last.thread
                        /\ RegcmdLen[unit[last.thread]] <= 256 => last'.piece = "end"
  <2> SUFFICES ASSUME TypeOK, StreamInv, [Next]_vars PROVE Whole
    OBVIOUS
  <2> USE DEF TypeOK, StreamInv, Goto, counters, local, history
  <2>1. ASSUME NEW t \in Threads, Submit(t) PROVE Whole
    BY <2>1 DEF Submit
  <2>2. ASSUME NEW t \in Threads, CountSubmit(t) PROVE Whole
    BY <2>2 DEF CountSubmit
  <2>3. ASSUME NEW t \in Threads, CheckMax(t) PROVE Whole
    BY <2>3 DEF CheckMax
  <2>4. ASSUME NEW t \in Threads, SetMax(t) PROVE Whole
    BY <2>4 DEF SetMax
  <2>5. ASSUME NEW t \in Threads, SetSkip(t) PROVE Whole
    BY <2>5 DEF SetSkip
  <2>6. ASSUME NEW t \in Threads, ClampWindow(t) PROVE Whole
    BY <2>6 DEF ClampWindow
  <2>7. ASSUME NEW t \in Threads, PrintWindow(t) PROVE Whole
    BY <2>7 DEF PrintWindow, Emit
  <2>8. ASSUME NEW t \in Threads, LoadSeen(t) PROVE Whole
    BY <2>8 DEF LoadSeen
  <2>9. ASSUME NEW t \in Threads, StoreSeen(t) PROVE Whole
    BY <2>9 DEF StoreSeen
  <2>10. ASSUME NEW t \in Threads, CheckSkip(t) PROVE Whole
    BY <2>10 DEF CheckSkip
  <2>11. ASSUME NEW t \in Threads, CheckCount(t) PROVE Whole
    BY <2>11 DEF CheckCount
  <2>12. ASSUME NEW t \in Threads, LoadCount(t) PROVE Whole
    BY <2>12 DEF LoadCount
  <2>13. ASSUME NEW t \in Threads, StoreCount(t) PROVE Whole
    BY <2>13 DEF StoreCount
  <2>14. ASSUME NEW t \in Threads, BuildHeader(t) PROVE Whole
    BY <2>14 DEF BuildHeader
  <2>15. ASSUME NEW t \in Threads, Flockfile(t) PROVE Whole
    BY <2>15 DEF Flockfile
  <2>16. ASSUME NEW t \in Threads, WriteStart(t) PROVE Whole
    BY <2>16 DEF WriteStart
  <2>17. ASSUME NEW t \in Threads, WriteEnd(t) PROVE Whole
    BY <2>17 DEF WriteEnd, EndFits, HeaderBytes, LineBytes, EndBytes, BufBytes
  <2>18. ASSUME NEW t \in Threads, Funlockfile(t) PROVE Whole
    BY <2>18 DEF Funlockfile
  <2>19. ASSUME NEW t \in Threads, SubmitLine(t) PROVE Whole
    BY <2>19 DEF SubmitLine, Emit
  <2>20. CASE UNCHANGED vars
    BY <2>20 DEF vars
  <2>21. QED
    BY <2>1, <2>2, <2>3, <2>4, <2>5, <2>6, <2>7, <2>8, <2>9, <2>10, <2>11, <2>12,
       <2>13, <2>14, <2>15, <2>16, <2>17, <2>18, <2>19, <2>20
       DEF Next, Finished, Handle, InitWindow, PassWindow, WriteDump
<1>4. QED
  BY <1>1, <1>2, <1>3, Typing, PTL DEF Spec, DumpIntact

=============================================================================
