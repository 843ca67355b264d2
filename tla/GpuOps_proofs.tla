---------------------------- MODULE GpuOps_proofs ----------------------------
(***************************************************************************)
(* Proofs about GpuOps: for any weights and inputs, and any number of calls*)
(***************************************************************************)
EXTENDS GpuOps, TLAPS

-----------------------------------------------------------------------------
(* The clean-ups.                                                          *)

LEMMA WeightKinds ==
  /\ WeightObjects = {"wbuf", "wmem", "xbuf", "xmem", "ybuf", "ymem", "shader",
                      "ds_layout", "pipe_layout", "pipeline", "ds_pool", "ds"}
  /\ WeightObjects \subseteq Kinds
  BY DEF WeightObjects, WeightPlan, Kinds

LEMMA ContextKinds ==
  /\ ContextObjects = {"instance", "device", "cmd_pool", "cmd_buf", "fence"}
  /\ ContextObjects \subseteq Kinds
  BY DEF ContextObjects, ContextPlan, Kinds

(* gpu_weight_free destroys all of a weight. *)
LEMMA WeightFreed == WeightObjects \ WeightDestroyed(WeightObjects) = {}
  BY WeightKinds DEF WeightDestroyed, Buffers, Memory

(* gpu_ctx_destroy destroys all of a context. *)
LEMMA ContextFreed == ContextObjects \ ContextDestroyed(ContextObjects) = {}
  BY ContextKinds DEF ContextDestroyed

(* Wherever gpu_ctx_create fails, what it had created is destroyed. *)
LEMMA ContextCleanup ==
  ASSUME NEW n \in 0 .. Len(ContextPlan) - 1
  PROVE  LET h == AtFailure(ContextPlan, n) IN h \ ContextDestroyed(h) = {}
<1>1. n \in 0 .. 4
  BY DEF ContextPlan
<1>2. n = 0 \/ n = 1 \/ n = 2 \/ n = 3 \/ n = 4
  BY <1>1
<1>3. QED
  BY <1>2 DEF AtFailure, ContextPlan, ContextDestroyed, Buffers, Memory

(* Wherever gpu_weight_load fails, what it had created is destroyed. *)
LEMMA WeightCleanup ==
  ASSUME NEW n \in 0 .. Len(WeightPlan) - 1
  PROVE  LET h == AtFailure(WeightPlan, n) IN h \ WeightDestroyed(h) = {}
<1> DEFINE h == AtFailure(WeightPlan, n)
<1>1. n \in 0 .. 11
  BY DEF WeightPlan
<1>2. ASSUME NEW k \in h PROVE k \in WeightDestroyed(h)
  <2>1. PICK i \in 1 .. n : k = WeightPlan[i]
    BY <1>2 DEF AtFailure
  <2>2. i \in 1 .. 11
    BY <1>1
  <2>3. \A j \in 1 .. n : WeightPlan[j] \notin Buffers => WeightPlan[j] \in h
    BY DEF AtFailure
  <2>4. CASE k \in Buffers
    BY <1>2, <2>4 DEF WeightDestroyed
  <2>5. CASE k \in {"wmem", "xmem", "ymem"}
    <3>1. PICK b \in Buffers : Memory(b) = k /\ i > 1 /\ WeightPlan[i - 1] = b
      BY <2>1, <2>2, <2>5 DEF WeightPlan, Buffers, Memory
    <3>2. WeightPlan[n + 1] # Memory(b)
      BY <1>1, <2>1, <2>2, <3>1 DEF WeightPlan
    <3>3. b \in h
      BY <1>1, <2>2, <3>1, <3>2 DEF AtFailure
    <3>4. QED
      BY <3>1, <3>3 DEF WeightDestroyed
  <2>6. CASE k \in {"ds_pool", "pipeline", "pipe_layout", "ds_layout", "shader"}
    BY <1>2, <2>6 DEF WeightDestroyed
  <2>7. k # "ds"
    BY <2>1, <2>2 DEF WeightPlan
  <2>8. QED
    BY <2>1, <2>2, <2>4, <2>5, <2>6, <2>7 DEF WeightPlan, Buffers
<1>3. QED
  BY <1>2

-----------------------------------------------------------------------------
(* The inductive invariant.                                                *)

LEMMA TypeInit == GpuInit => GpuTypeOK /\ GpuInv
<1> SUFFICES ASSUME GpuInit PROVE GpuTypeOK /\ GpuInv
  OBVIOUS
<1>1. ybuf \in [Weights -> Seq(Vectors)]
  BY DEF GpuInit
<1>2. xbuf \in [Weights -> Vectors] /\ call \in [w : Weights \cup {None}, x : Vectors]
  BY DEF GpuInit, Vectors
<1>3. GpuTypeOK
  <2>1. held \in [Owners -> SUBSET Kinds] /\ live \in [Owners -> SUBSET Kinds]
    BY DEF GpuInit
  <2>2. /\ y0 \in Seq(Vectors) /\ y \in Seq(Vectors) /\ call.w \notin Weights /\ ret \in {0, -1}
        /\ cmd \in Weights \cup {None}
    BY GpuAssumption DEF GpuInit
  <2>3. pc = "idle" /\ queue = "empty" /\ fence = FALSE /\ lost = FALSE /\ failed = FALSE
    BY DEF GpuInit
  <2>4. QED
    BY <1>1, <1>2, <2>1, <2>2, <2>3 DEF GpuTypeOK
<1>4. NothingLeaks /\ Complete
  BY GpuAssumption DEF GpuInit, NothingLeaks, Complete, Owners
<1>5. QED
  BY <1>3, <1>4 DEF GpuInit, GpuInv, CallKept, Calling, Progress, ResultIsProduct

(* Creation and destruction keep the structs complete or absent and the    *)
(* objects behind them in step; no call is under way.                      *)
LEMMA CtxCreateKeeps ==
  ASSUME GpuTypeOK, GpuInv, CtxCreate PROVE GpuTypeOK' /\ GpuInv'
<1>1. pc = "idle" /\ Ctx \in Owners /\ held[Ctx] = {} /\ queue = "empty"
  BY DEF CtxCreate, Create, Owners, GpuInv, Complete, Progress
<1>2. \E h \in {{}, ContextObjects} : /\ held' = [held EXCEPT ![Ctx] = h]
                                      /\ live' = [live EXCEPT ![Ctx] = h]
  BY ContextCleanup DEF CtxCreate, Create
<1>3. /\ lost' \in BOOLEAN /\ fence' \in BOOLEAN
      /\ UNCHANGED <<buffers, cmd, queue, pc, call, result>>
  BY DEF CtxCreate, GpuTypeOK
<1>4. GpuTypeOK'
  <2>1. PICK h \in {{}, ContextObjects} : /\ held' = [held EXCEPT ![Ctx] = h]
                                          /\ live' = [live EXCEPT ![Ctx] = h]
    BY <1>2
  <2>2. h \in SUBSET Kinds
    BY ContextKinds
  <2>3. held' \in [Owners -> SUBSET Kinds] /\ live' \in [Owners -> SUBSET Kinds]
    BY <2>1, <2>2 DEF GpuTypeOK
  <2>4. QED
    BY <1>3, <2>3 DEF GpuTypeOK, buffers, result
<1>5. NothingLeaks' /\ Complete'
  BY <1>1, <1>2, GpuAssumption DEF GpuTypeOK, GpuInv, NothingLeaks, Complete, Owners
<1>6. QED
  BY <1>1, <1>3, <1>4, <1>5
     DEF GpuInv, CallKept, Calling, Progress, ResultIsProduct, Right, buffers, result

LEMMA CtxDestroyKeeps ==
  ASSUME GpuTypeOK, GpuInv, CtxDestroy PROVE GpuTypeOK' /\ GpuInv'
<1>1. /\ pc = "idle" /\ queue = "empty"
      /\ held[Ctx] = ContextObjects /\ live[Ctx] = ContextObjects
  BY DEF CtxDestroy, GpuInv, NothingLeaks, Complete, Progress
<1>2. held' = [held EXCEPT ![Ctx] = {}] /\ live' = [live EXCEPT ![Ctx] = {}]
  BY <1>1, ContextFreed DEF CtxDestroy
<1>3. GpuTypeOK'
  BY <1>2 DEF CtxDestroy, GpuTypeOK, buffers, device, result
<1>4. NothingLeaks' /\ Complete'
  BY <1>2, GpuAssumption DEF CtxDestroy, GpuTypeOK, GpuInv, NothingLeaks, Complete, Owners
<1>5. QED
  BY <1>1, <1>3, <1>4
     DEF CtxDestroy, GpuInv, CallKept, Calling, Progress, ResultIsProduct, Right,
         buffers, device, result

LEMMA WeightLoadKeeps ==
  ASSUME GpuTypeOK, GpuInv, NEW w \in Weights, WeightLoad(w) PROVE GpuTypeOK' /\ GpuInv'
<1>1. pc = "idle" /\ w \in Owners /\ held[Ctx] # {}
  BY DEF WeightLoad, Create, Owners
<1>2. \E h \in {{}, WeightObjects} : /\ held' = [held EXCEPT ![w] = h]
                                     /\ live' = [live EXCEPT ![w] = h]
  BY WeightCleanup DEF WeightLoad, Create
<1>3. UNCHANGED <<xbuf, cmd, device, pc, call, result>>
  BY DEF WeightLoad
<1>4. /\ ybuf' \in [Weights -> Seq(Vectors)]
      /\ \A v \in Weights : ybuf'[v] = ybuf[v] \/ Len(ybuf'[v]) = 1
  <2>1. <<None>> \in Seq(Vectors) /\ Len(<<None>>) = 1
    BY DEF Vectors
  <2>2. ybuf' = ybuf \/ ybuf' = [ybuf EXCEPT ![w] = <<None>>]
    BY DEF WeightLoad
  <2>3. CASE ybuf' = ybuf
    BY <2>3 DEF GpuTypeOK
  <2>4. CASE ybuf' = [ybuf EXCEPT ![w] = <<None>>]
    <3>1. ybuf'[w] = <<None>> /\ \A v \in Weights \ {w} : ybuf'[v] = ybuf[v]
      BY <2>4 DEF GpuTypeOK
    <3>2. ASSUME NEW v \in Weights PROVE ybuf'[v] = ybuf[v] \/ Len(ybuf'[v]) = 1
      BY <2>1, <3>1, Zenon
    <3>3. QED
      BY <2>1, <2>4, <3>2 DEF GpuTypeOK
  <2>5. QED
    BY <2>2, <2>3, <2>4
<1>5. GpuTypeOK'
  <2>1. PICK h \in {{}, WeightObjects} : /\ held' = [held EXCEPT ![w] = h]
                                         /\ live' = [live EXCEPT ![w] = h]
    BY <1>2
  <2>2. h \in SUBSET Kinds
    BY WeightKinds
  <2>3. held' \in [Owners -> SUBSET Kinds] /\ live' \in [Owners -> SUBSET Kinds]
    BY <2>1, <2>2 DEF GpuTypeOK
  <2>4. ~failed /\ call.w \in Weights => Len(ybuf'[call.w]) <= 1
    <3>1. SUFFICES ASSUME ~failed, call.w \in Weights PROVE Len(ybuf'[call.w]) <= 1
      OBVIOUS
    <3>2. Len(ybuf[call.w]) <= 1
      BY <3>1 DEF GpuTypeOK
    <3>3. CASE ybuf'[call.w] = ybuf[call.w]
      BY <3>2, <3>3, Zenon
    <3>4. CASE Len(ybuf'[call.w]) = 1
      BY <3>4
    <3>5. QED
      BY <1>4, <3>1, <3>3, <3>4
  <2>5. QED
    BY <1>3, <1>4, <2>3, <2>4 DEF GpuTypeOK, device, result
<1>6. NothingLeaks' /\ Complete'
  BY <1>1, <1>2, GpuAssumption DEF GpuTypeOK, GpuInv, NothingLeaks, Complete, Owners
<1>7. Progress'
  <2>1. queue # "empty" => /\ cmd \in Weights /\ cmd # w /\ failed
                           /\ held[cmd] # {} /\ held'[cmd] = held[cmd]
    <3>1. queue # "empty" => cmd \in Weights /\ held[cmd] # {} /\ failed
      BY <1>1 DEF GpuInv, Progress
    <3>2. held[w] = {}
      BY DEF WeightLoad, Create
    <3>3. cmd \in Weights /\ cmd # w => held'[cmd] = held[cmd]
      BY <1>2 DEF GpuTypeOK, Owners
    <3>4. QED
      BY <3>1, <3>2, <3>3
  <2>2. QED
    BY <1>1, <1>3, <2>1 DEF GpuInv, Progress, device, result
<1>8. QED
  BY <1>1, <1>3, <1>5, <1>6, <1>7
     DEF GpuInv, CallKept, Calling, ResultIsProduct, Right, device, result

LEMMA WeightFreeKeeps ==
  ASSUME GpuTypeOK, GpuInv, NEW w \in Weights, WeightFree(w) PROVE GpuTypeOK' /\ GpuInv'
<1>1. pc = "idle" /\ held[w] = WeightObjects /\ live[w] = WeightObjects
  BY DEF WeightFree, GpuInv, NothingLeaks, Complete
<1>2. held' = [held EXCEPT ![w] = {}] /\ live' = [live EXCEPT ![w] = {}]
  BY <1>1, WeightFreed DEF WeightFree
<1>3. GpuTypeOK'
  BY <1>2 DEF WeightFree, GpuTypeOK, buffers, device, result
<1>4. NothingLeaks' /\ Complete'
  BY <1>2, GpuAssumption DEF GpuTypeOK, GpuInv, NothingLeaks, Complete, Owners
<1>5. Progress'
  <2>1. queue # "empty" => cmd # w /\ failed /\ held'[cmd] = held[cmd]
    BY <1>1, <1>2 DEF GpuTypeOK, GpuInv, Progress, WeightFree, InUse
  <2>2. QED
    BY <1>1, <2>1 DEF WeightFree, GpuInv, Progress, buffers, device, result
<1>6. QED
  BY <1>1, <1>3, <1>4, <1>5
     DEF WeightFree, GpuInv, CallKept, Calling, ResultIsProduct, Right,
         buffers, device, result

(* The steps of a call. *)
LEMMA MatmulKeeps ==
  ASSUME GpuTypeOK, GpuInv, NEW w \in Weights, NEW x \in Inputs, Matmul(w, x)
  PROVE  GpuTypeOK' /\ GpuInv'
<1>1. /\ pc' = "record" /\ held[w] # {} /\ failed' = (queue # "empty")
      /\ xbuf' = [xbuf EXCEPT ![w] = x] /\ ybuf' = [ybuf EXCEPT ![w] = << >>]
      /\ call' = [w |-> w, x |-> x] /\ y' = y0' /\ y0' \in {<< >>, y}
      /\ UNCHANGED <<held, live, cmd, queue, fence, lost, ret>>
  BY DEF Matmul, Called, objects, device
<1>2. xbuf'[w] = x /\ ybuf'[w] = << >> /\ call'.w = w /\ call'.x = x
  BY <1>1 DEF GpuTypeOK
<1>3. ybuf' \in [Weights -> Seq(Vectors)]
  BY <1>1 DEF GpuTypeOK
<1>4. xbuf' \in [Weights -> Vectors] /\ call' \in [w : Weights \cup {None}, x : Vectors]
  BY <1>1 DEF Vectors, GpuTypeOK
<1>5. Len(ybuf'[call'.w]) <= 1 /\ failed' \in BOOLEAN
  BY <1>1, <1>2
<1>6. y0' \in Seq(Vectors) /\ y' \in Seq(Vectors)
  <2>1. << >> \in Seq(Vectors) /\ y \in Seq(Vectors)
    BY DEF GpuTypeOK
  <2>2. y0' = << >> \/ y0' = y
    BY <1>1
  <2>3. QED
    BY <1>1, <2>1, <2>2, Zenon
<1>7. GpuTypeOK'
  BY <1>1, <1>3, <1>4, <1>5, <1>6 DEF GpuTypeOK
<1>8. NothingLeaks' /\ Complete' /\ CallKept' /\ ResultIsProduct'
  BY <1>1, <1>2 DEF GpuInv, NothingLeaks, Complete, CallKept, Calling, ResultIsProduct
<1>9. Progress'
  <2>1. failed' = (queue' # "empty") /\ pc' = "record"
    BY <1>1
  <2>2. queue' # "empty" => ~lost' /\ cmd' \in Weights /\ held'[cmd'] # {}
    BY <1>1 DEF GpuInv, Progress
  <2>3. QED
    BY <1>2, <2>1, <2>2 DEF Progress
<1>10. QED
  BY <1>7, <1>8, <1>9 DEF GpuInv

LEMMA SubmitKeeps ==
  ASSUME GpuTypeOK, GpuInv, Submit PROVE GpuTypeOK' /\ GpuInv'
<1>1. /\ pc = "submit" /\ pc' = "wait" /\ fence' = FALSE /\ queue = "empty"
      /\ UNCHANGED <<held, live, xbuf, ybuf, cmd, lost, call, y0, y, ret>>
  BY DEF Submit, GpuInv, Progress, objects, buffers
<1>2. \/ queue' = "submitted" /\ failed' = failed /\ ~lost
      \/ queue' = "empty" /\ failed' = TRUE
  BY <1>1 DEF Submit
<1>3. failed' \in BOOLEAN /\ (~failed' => ~failed)
  BY <1>2 DEF GpuTypeOK
<1>4. GpuTypeOK'
  BY <1>1, <1>2, <1>3 DEF GpuTypeOK
<1>5. NothingLeaks' /\ Complete' /\ CallKept' /\ ResultIsProduct'
  BY <1>1 DEF GpuInv, NothingLeaks, Complete, CallKept, Calling, ResultIsProduct
<1>6. Progress'
  <2>1. cmd \in Weights /\ held[cmd] # {}
    BY <1>1 DEF GpuInv, CallKept, Calling
  <2>2. ~failed' => ybuf[call.w] = << >>
    BY <1>1, <1>3 DEF GpuInv, Progress
  <2>3. QED
    BY <1>1, <1>2, <2>1, <2>2 DEF Progress
<1>7. QED
  BY <1>4, <1>5, <1>6 DEF GpuInv

LEMMA WaitKeeps ==
  ASSUME GpuTypeOK, GpuInv, WaitFence \/ WaitFails PROVE GpuTypeOK' /\ GpuInv'
<1>1. /\ pc = "wait" /\ pc' = "copy"
      /\ UNCHANGED <<held, live, xbuf, ybuf, cmd, queue, fence, lost, call, y0, y, ret>>
  BY DEF WaitFence, WaitFails, objects, buffers, device
<1>2. failed' \in BOOLEAN /\ (~failed' => ~failed /\ fence)
  BY DEF WaitFence, WaitFails, GpuTypeOK
<1>3. GpuTypeOK'
  BY <1>1, <1>2 DEF GpuTypeOK
<1>4. NothingLeaks' /\ Complete' /\ CallKept' /\ ResultIsProduct'
  BY <1>1 DEF GpuInv, NothingLeaks, Complete, CallKept, Calling, ResultIsProduct
<1>5. Progress'
  <2>1. queue # "empty" => failed' = TRUE
    BY <1>1, <1>2 DEF GpuInv, Progress
  <2>2. ~failed' => ybuf[call.w] = <<call.x>>
    BY <1>1, <1>2 DEF GpuInv, Progress
  <2>3. QED
    BY <1>1, <2>1, <2>2 DEF GpuInv, Progress
<1>6. QED
  BY <1>3, <1>4, <1>5 DEF GpuInv

LEMMA CopyKeeps ==
  ASSUME GpuTypeOK, GpuInv, CopyResult PROVE GpuTypeOK' /\ GpuInv'
<1>1. /\ pc = "copy" /\ pc' = "idle" /\ ret' = 0
      /\ y' = ybuf[call.w] \/ (queue = "submitted" /\ y' = <<None>>)
      /\ UNCHANGED <<held, live, xbuf, ybuf, cmd, queue, fence, lost, call, y0, failed>>
  BY DEF CopyResult, objects, buffers, device
<1>2. y' \in Seq(Vectors)
  <2>1. <<None>> \in Seq(Vectors)
    BY DEF Vectors
  <2>2. ybuf[call.w] \in Seq(Vectors)
    BY <1>1 DEF GpuTypeOK, GpuInv, CallKept, Calling
  <2>3. QED
    BY <1>1, <2>1, <2>2, Zenon
<1>3. GpuTypeOK'
  BY <1>1, <1>2 DEF GpuTypeOK
<1>4. queue # "empty" => failed
  BY <1>1 DEF GpuInv, Progress
<1>5. NothingLeaks' /\ Complete' /\ CallKept'
  BY <1>1 DEF GpuInv, NothingLeaks, Complete, CallKept, Calling
<1>6. ~failed' => y' = <<call'.x>>
  BY <1>1, <1>4 DEF GpuInv, Progress
<1>7. Progress'
  <2>1. queue # "empty" => ~lost /\ cmd \in Weights /\ held[cmd] # {} /\ failed
    BY <1>4 DEF GpuInv, Progress
  <2>2. QED
    BY <1>1, <2>1 DEF Progress
<1>8. QED
  BY <1>3, <1>5, <1>6, <1>7 DEF GpuInv, ResultIsProduct, Right

LEMMA CallKeeps ==
  ASSUME GpuTypeOK, GpuInv, Begin \/ Proceed \/ WaitFails PROVE GpuTypeOK' /\ GpuInv'
<1> USE DEF objects, buffers, device, result, counts
<1>1. CASE WrongShape
  BY <1>1 DEF WrongShape, GpuTypeOK, GpuInv, NothingLeaks, Complete, CallKept, Calling,
              Progress, ResultIsProduct, Right
<1>2. CASE Record
  BY <1>2 DEF Record, GpuTypeOK, GpuInv, NothingLeaks, Complete, CallKept, Calling,
              Progress, ResultIsProduct, Right
<1>3. CASE RecordInUse
  BY <1>3 DEF RecordInUse, GpuTypeOK, GpuInv, NothingLeaks, Complete, CallKept, Calling,
              Progress, ResultIsProduct, Right
<1>4. QED
  BY <1>1, <1>2, <1>3, MatmulKeeps, SubmitKeeps, WaitKeeps, CopyKeeps DEF Begin, Proceed

(* The steps of the device. *)
LEMMA ExecuteKeeps ==
  ASSUME GpuTypeOK, GpuInv, Execute PROVE GpuTypeOK' /\ GpuInv'
<1>1. /\ queue = "submitted" /\ queue' = "executed" /\ cmd \in Weights
      /\ UNCHANGED <<held, live, xbuf, cmd, fence, lost, pc, call, y0, y, ret, failed>>
  BY DEF Execute, GpuInv, Progress, objects, result
<1>2. PICK x \in {xbuf[cmd]} \cup (IF pc = "wait" THEN {} ELSE {None}) :
        ybuf' = [ybuf EXCEPT ![cmd] = Append(@, x)]
  BY DEF Execute
<1>3. x \in Vectors
  BY <1>1, <1>2 DEF GpuTypeOK, Vectors
<1>4. ybuf' \in [Weights -> Seq(Vectors)]
  <2>1. Append(ybuf[cmd], x) \in Seq(Vectors)
    BY <1>1, <1>3 DEF GpuTypeOK
  <2>2. QED
    BY <1>2, <2>1 DEF GpuTypeOK
<1>5. ~failed => pc = "wait" /\ call.w = cmd /\ ybuf'[cmd] = <<call.x>>
  <2>1. SUFFICES ASSUME ~failed PROVE pc = "wait" /\ call.w = cmd /\ ybuf'[cmd] = <<call.x>>
    OBVIOUS
  <2>2. pc = "wait" /\ call.w = cmd /\ ybuf[cmd] = << >> /\ xbuf[cmd] = call.x
    BY <1>1, <2>1 DEF GpuInv, Progress, CallKept, Calling
  <2>3. x = call.x
    BY <1>2, <2>2
  <2>4. Append(ybuf[cmd], x) = <<call.x>>
    BY <2>2, <2>3
  <2>5. QED
    BY <1>1, <1>2, <2>2, <2>4 DEF GpuTypeOK
<1>6. ~failed => Len(ybuf'[call.w]) <= 1
  <2>1. Len(<<call.x>>) <= 1
    OBVIOUS
  <2>2. QED
    BY <1>5, <2>1, Zenon
<1>7. GpuTypeOK'
  BY <1>1, <1>4, <1>6 DEF GpuTypeOK
<1>8. NothingLeaks' /\ Complete' /\ CallKept' /\ ResultIsProduct'
  BY <1>1 DEF GpuInv, NothingLeaks, Complete, CallKept, Calling, ResultIsProduct, Right
<1>9. Progress'
  <2>1. ~failed => pc = "wait" /\ ybuf'[call.w] = <<call.x>>
    BY <1>5
  <2>2. QED
    BY <1>1, <2>1 DEF GpuInv, Progress
<1>10. QED
  BY <1>7, <1>8, <1>9 DEF GpuInv

LEMMA DeviceKeeps ==
  ASSUME GpuTypeOK, GpuInv, Serve \/ Lose PROVE GpuTypeOK' /\ GpuInv'
<1> USE DEF objects, buffers, result, counts
<1>1. CASE Finish
  BY <1>1 DEF Finish, GpuTypeOK, GpuInv, NothingLeaks, Complete, CallKept, Calling,
              Progress, ResultIsProduct, Right
<1>2. CASE Lose
  BY <1>2 DEF Lose, GpuTypeOK, GpuInv, NothingLeaks, Complete, CallKept, Calling,
              Progress, ResultIsProduct, Right
<1>3. QED
  BY <1>1, <1>2, ExecuteKeeps DEF Serve

LEMMA InvStep == GpuTypeOK /\ GpuInv /\ [GpuNext]_gpuVars => GpuTypeOK' /\ GpuInv'
<1> SUFFICES ASSUME GpuTypeOK, GpuInv, [GpuNext]_gpuVars PROVE GpuTypeOK' /\ GpuInv'
  OBVIOUS
<1>1. CASE CtxCreate
  BY <1>1, CtxCreateKeeps
<1>2. CASE CtxDestroy
  BY <1>2, CtxDestroyKeeps
<1>3. ASSUME NEW w \in Weights, WeightLoad(w) PROVE GpuTypeOK' /\ GpuInv'
  BY <1>3, WeightLoadKeeps
<1>4. ASSUME NEW w \in Weights, WeightLoadUndefined(w) PROVE GpuTypeOK' /\ GpuInv'
  BY <1>4
     DEF WeightLoadUndefined, GpuTypeOK, GpuInv, NothingLeaks, Complete, CallKept, Calling,
         Progress, ResultIsProduct, objects, buffers, device, result
<1>5. ASSUME NEW w \in Weights, WeightFree(w) \/ FreeInUse(w) PROVE GpuTypeOK' /\ GpuInv'
  <2>1. CASE FreeInUse(w)
    BY <2>1
       DEF FreeInUse, GpuTypeOK, GpuInv, NothingLeaks, Complete, CallKept, Calling,
           Progress, ResultIsProduct, objects, buffers, device, result
  <2>2. QED
    BY <1>5, <2>1, WeightFreeKeeps
<1>6. CASE Begin \/ Proceed \/ WaitFails
  BY <1>6, CallKeeps
<1>7. CASE Serve \/ Lose
  BY <1>7, DeviceKeeps
<1>8. CASE UNCHANGED gpuVars
  BY <1>8
     DEF gpuVars, GpuTypeOK, GpuInv, NothingLeaks, Complete, CallKept, Calling, Progress,
         ResultIsProduct, Right
<1>9. QED
  BY <1>1, <1>2, <1>3, <1>4, <1>5, <1>6, <1>7, <1>8 DEF GpuNext, Setup

THEOREM Invariant == GpuSpec => [](GpuTypeOK /\ GpuInv)
  BY TypeInit, InvStep, PTL DEF GpuSpec

(* Every variable keeps its type, and the y buffer of a call beside which  *)
(* nothing else was executed never holds two products.                     *)
THEOREM Typing == GpuSpec => []GpuTypeOK
  BY Invariant, PTL

(* At whichever step a creation fails, nothing leaks. *)
THEOREM NoLeak == GpuSpec => []NothingLeaks
<1>1. GpuInv => NothingLeaks
  BY DEF GpuInv
<1>2. QED
  BY <1>1, Invariant, PTL

(* The buffers of a submission are not touched or freed while it runs,     *)
(* unless the call that submitted it was given up with an error.           *)
THEOREM DeviceIsUndisturbed == GpuSpec => []DeviceUndisturbed
<1>1. GpuTypeOK /\ GpuInv => DeviceUndisturbed
  BY DEF GpuTypeOK, GpuInv, NothingLeaks, Complete, CallKept, Calling, Progress,
         DeviceUndisturbed
<1>2. QED
  BY <1>1, Invariant, PTL

(* Without an error of the driver, and beside no execution left behind by  *)
(* an earlier one, a call with a zeroed y returns its own product.         *)
THEOREM ResultIsRight == GpuSpec => []ResultIsProduct
<1>1. GpuInv => ResultIsProduct
  BY DEF GpuInv
<1>2. QED
  BY <1>1, Invariant, PTL

=============================================================================
