------------------------------- MODULE GpuOps -------------------------------
(***************************************************************************)
(* The Vulkan compute path: gpu/vk_ctx.c (context, buffers, submission) and*)
(* gpu/gpu_ops.c (weights and the matmul that runs on them).               *)
(*                                                                         *)
(* One thread calls; the device executes what was submitted on its own     *)
(* time and may be lost at any moment.  Host and device meet in the x and y*)
(* buffers of a weight, in the one command buffer and in the one fence.    *)
(* Functions that create or destroy are one action each, for nobody else   *)
(* sees their objects; gpu_matmul is taken apart where the device may step *)
(* in.  A vector is its name, and a y array or buffer the list of the      *)
(* products that were added to it since it was zeroed.                     *)
(***************************************************************************)
EXTENDS Integers, Sequences

CONSTANTS
  Weights,       (* The weight matrices a model may load.                    *)
  Inputs,        (* The vectors x.                                           *)
  Ctx,           (* The context as an owner of Vulkan objects.               *)
  None,          (* No weight.                                               *)
  MaxCalls,      (* Bound: calls of gpu_matmul.                              *)
  MaxLoads       (* Bound: calls of gpu_ctx_create and gpu_weight_load.      *)

ASSUME GpuAssumption ==
  /\ Ctx \notin Weights /\ None \notin Weights
  /\ MaxCalls \in Nat /\ MaxLoads \in Nat

VARIABLES
  held,          (* The handles in each struct, {} if there is no struct.    *)
  live,          (* Driver: the objects behind them.                         *)
  xbuf, ybuf,    (* What a weight's mapped buffers hold.                     *)
  cmd,           (* The weight the command buffer was recorded for.          *)
  queue,         (* Driver: "empty", "submitted" or "executed".              *)
  fence,         (* Driver: the fence is signalled.                          *)
  lost,          (* Driver: the device is lost.                              *)
  pc,            (* Where the caller is.                                     *)
  call,          (* The weight and the input of the last call of gpu_matmul. *)
  y0, y,         (* The caller's array before the call, and now.             *)
  ret,           (* What gpu_matmul last returned.                           *)
  failed,        (* History: the driver reported an error to the last call,  *)
                 (* or it began beside the execution of one given up before. *)
  calls, loads   (* Calls so far.                                            *)

objects == <<held, live>>
buffers == <<xbuf, ybuf>>
device  == <<queue, fence, lost>>
result  == <<y0, y, ret, failed>>
counts  == <<calls, loads>>
gpuVars == <<held, live, xbuf, ybuf, cmd, queue, fence, lost, pc, call, y0, y, ret,
             failed, calls, loads>>

Owners  == Weights \cup {Ctx}
Vectors == Inputs \cup {None}

(* The objects of a struct in the order in which they are created. *)
ContextPlan == <<"instance", "device", "cmd_pool", "cmd_buf", "fence">>
WeightPlan  == <<"wbuf", "wmem", "xbuf", "xmem", "ybuf", "ymem", "shader",
                 "ds_layout", "pipe_layout", "pipeline", "ds_pool", "ds">>

Buffers   == {"wbuf", "xbuf", "ybuf"}
Memory(b) == CASE b = "wbuf" -> "wmem" [] b = "xbuf" -> "xmem" [] b = "ybuf" -> "ymem"

ContextObjects == {ContextPlan[i] : i \in DOMAIN ContextPlan}
WeightObjects  == {WeightPlan[i] : i \in DOMAIN WeightPlan}
Kinds          == ContextObjects \cup WeightObjects

GpuInit ==
  /\ held = [o \in Owners |-> {}] /\ live = held
  /\ xbuf = [w \in Weights |-> None]
  /\ ybuf = [w \in Weights |-> << >>]
  /\ cmd = None
  /\ queue = "empty" /\ fence = FALSE /\ lost = FALSE
  /\ pc = "idle"
  /\ call = [w |-> None, x |-> None]
  /\ y0 = << >> /\ y = << >> /\ ret = -1 /\ failed = FALSE
  /\ calls = 0 /\ loads = 0

-----------------------------------------------------------------------------
(* Creating and destroying.                                                *)

(* What gpu_ctx_destroy destroys of the handles h; a command buffer goes   *)
(* with its pool.                                                          *)
ContextDestroyed(h) ==
  (h \cap {"instance"}) \cup
  (IF "device" \in h
   THEN (h \cap {"device", "cmd_pool", "fence"}) \cup
        (IF "cmd_pool" \in h THEN {"cmd_buf"} ELSE {})
   ELSE {})

(* Mutant: memory is left behind. *)
WeightDestroyedLeak(h) ==
  (h \cap {"ds_pool", "pipeline", "pipe_layout", "ds_layout", "shader"}) \cup
  (IF "ds_pool" \in h THEN {"ds"} ELSE {}) \cup
  (h \cap Buffers)

(* What gpu_weight_free destroys; gpu_buf_free looks at the buffer only,   *)
(* and a descriptor set goes with its pool.                                *)
WeightDestroyed(h) ==
  (h \cap {"ds_pool", "pipeline", "pipe_layout", "ds_layout", "shader"}) \cup
  (IF "ds_pool" \in h THEN {"ds"} ELSE {}) \cup
  UNION {{b, Memory(b)} : b \in h \cap Buffers}

(* The handles when the creation of the object after the first n fails:    *)
(* gpu_buf_alloc destroys a buffer that gets no memory.                    *)
AtFailure(plan, n) ==
  {plan[i] : i \in 1 .. n} \ {b \in Buffers : n < Len(plan) /\ plan[n + 1] = Memory(b)}

Create(o, hs, ls) ==
  /\ pc = "idle" /\ held[o] = {} /\ loads < MaxLoads
  /\ held' = [held EXCEPT ![o] = hs]
  /\ live' = [live EXCEPT ![o] = ls]
  /\ loads' = loads + 1

(* gpu_ctx_create; finding no device is the failure after the instance. *)
CtxCreate ==
  /\ \/ /\ Create(Ctx, ContextObjects, ContextObjects)
        /\ lost' = FALSE /\ fence' = FALSE
     \/ /\ \E n \in 0 .. Len(ContextPlan) - 1 :
             LET h == AtFailure(ContextPlan, n) IN Create(Ctx, {}, h \ ContextDestroyed(h))
        /\ UNCHANGED <<lost, fence>>
  /\ UNCHANGED <<buffers, cmd, queue, pc, call, result, calls>>

CtxDestroy ==
  /\ pc = "idle" /\ held[Ctx] # {} /\ \A w \in Weights : held[w] = {}
  /\ held' = [held EXCEPT ![Ctx] = {}]
  /\ live' = [live EXCEPT ![Ctx] = @ \ ContextDestroyed(held[Ctx])]
  /\ cmd' = None
  /\ UNCHANGED <<buffers, device, pc, call, result, counts>>

(* gpu_weight_load: it returns a weight, or NULL after a clean-up.  Fresh  *)
(* memory holds anything, here a product of the input None.                *)
WeightLoad(w) ==
  /\ held[Ctx] # {}
  /\ \/ /\ Create(w, WeightObjects, WeightObjects)
        /\ ybuf' = [ybuf EXCEPT ![w] = <<None>>]
     \/ /\ \E n \in 0 .. Len(WeightPlan) - 1 :
             LET h == AtFailure(WeightPlan, n) IN Create(w, {}, h \ WeightDestroyed(h))
        /\ UNCHANGED ybuf
  /\ UNCHANGED <<xbuf, cmd, device, pc, call, result, calls>>

(* Failures that gpu_weight_load does not look at (mapping memory, creating*)
(* the set layout) leave a null pointer to be written through, or a handle *)
(* that was never set: nothing more is said of such a process.             *)
WeightLoadUndefined(w) ==
  /\ held[Ctx] # {}
  /\ pc = "idle" /\ held[w] = {} /\ loads < MaxLoads
  /\ pc' = "undefined"
  /\ UNCHANGED <<objects, buffers, cmd, device, call, result, counts>>

(* The device still works for a call that was given up. *)
InUse(w) == queue # "empty" /\ cmd = w

WeightFree(w) ==
  /\ pc = "idle" /\ held[w] # {} /\ ~InUse(w)
  /\ held' = [held EXCEPT ![w] = {}]
  /\ live' = [live EXCEPT ![w] = @ \ WeightDestroyed(held[w])]
  /\ UNCHANGED <<buffers, cmd, device, pc, call, result, counts>>

(* Freeing what the device works with is undefined. *)
FreeInUse(w) ==
  /\ pc = "idle" /\ held[w] # {} /\ InUse(w)
  /\ pc' = "undefined"
  /\ UNCHANGED <<objects, buffers, cmd, device, call, result, counts>>

-----------------------------------------------------------------------------
(* gpu_matmul                                                              *)

(* A call whose K or N is not the weight's. *)
WrongShape ==
  /\ pc = "idle" /\ ret' = -1
  /\ UNCHANGED <<objects, buffers, cmd, device, pc, call, y0, y, failed, counts>>

(* The caller zeroes its y, or has a sum in it to go on with. *)
Called(w, x) ==
  /\ pc = "idle" /\ held[w] # {} /\ calls < MaxCalls
  /\ pc' = "record"
  /\ xbuf' = [xbuf EXCEPT ![w] = x]
  /\ call' = [w |-> w, x |-> x]
  /\ y0' \in {<< >>, y} /\ y' = y0'
  /\ failed' = (queue # "empty")
  /\ calls' = calls + 1
  /\ UNCHANGED <<objects, cmd, device, ret, loads>>

(* Mutant: the y buffer is not zeroed. *)
MatmulNoReset(w, x) == Called(w, x) /\ UNCHANGED ybuf

(* x goes into the mapped buffer and y's is zeroed. *)
Matmul(w, x) == Called(w, x) /\ ybuf' = [ybuf EXCEPT ![w] = << >>]

(* gpu_cmd_begin up to the dispatch. *)
Record ==
  /\ pc = "record" /\ queue = "empty"
  /\ pc' = "submit"
  /\ cmd' = call.w
  /\ UNCHANGED <<objects, buffers, device, call, result, counts>>

(* Beginning a command buffer that is being executed is undefined. *)
RecordInUse ==
  /\ pc = "record" /\ queue # "empty"
  /\ pc' = "undefined"
  /\ UNCHANGED <<objects, buffers, cmd, device, call, result, counts>>

(* Mutant: the fence stays signalled from the call before. *)
SubmitKeepFence ==
  /\ pc = "submit"
  /\ pc' = "wait"
  /\ \/ ~lost /\ queue' = "submitted" /\ UNCHANGED failed
     \/ queue' = queue /\ failed' = TRUE
  /\ UNCHANGED <<objects, buffers, cmd, fence, lost, call, y0, y, ret, counts>>

(* gpu_cmd_submit_wait: vkQueueSubmit may refuse, which is not looked at.  *)
Submit ==
  /\ pc = "submit"
  /\ pc' = "wait"
  /\ fence' = FALSE
  /\ \/ ~lost /\ queue' = "submitted" /\ UNCHANGED failed
     \/ queue' = queue /\ failed' = TRUE
  /\ UNCHANGED <<objects, buffers, cmd, lost, call, y0, y, ret, counts>>

(* Mutant: a wait with a timeout. *)
WaitTimeout ==
  /\ pc = "wait"
  /\ pc' = "copy"
  /\ UNCHANGED <<objects, buffers, cmd, device, call, result, counts>>

(* The wait ends with the fence, or with the loss of the device. *)
WaitFence ==
  /\ pc = "wait" /\ (fence \/ lost)
  /\ pc' = "copy"
  /\ failed' = (failed \/ ~fence)
  /\ UNCHANGED <<objects, buffers, cmd, device, call, y0, y, ret, counts>>

(* vkWaitForFences may run out of memory, which is not looked at either:   *)
(* the call goes on while the device executes.                             *)
WaitFails ==
  /\ pc = "wait"
  /\ pc' = "copy"
  /\ failed' = TRUE
  /\ UNCHANGED <<objects, buffers, cmd, device, call, y0, y, ret, counts>>

(* y is overwritten; what is copied while the device writes is anything,   *)
(* here a product of the input None.                                       *)
CopyResult ==
  /\ pc = "copy"
  /\ pc' = "idle"
  /\ y' \in {ybuf[call.w]} \cup (IF queue = "submitted" THEN {<<None>>} ELSE {})
  /\ ret' = 0
  /\ UNCHANGED <<objects, buffers, cmd, device, call, y0, failed, counts>>

-----------------------------------------------------------------------------
(* The device.                                                             *)

(* sgemm.comp adds the product to y; beside a later call it may see a part *)
(* of that one's x, which gives a product of no input.                     *)
Execute ==
  /\ queue = "submitted"
  /\ queue' = "executed"
  /\ \E x \in {xbuf[cmd]} \cup (IF pc = "wait" THEN {} ELSE {None}) :
       ybuf' = [ybuf EXCEPT ![cmd] = Append(@, x)]
  /\ UNCHANGED <<objects, xbuf, cmd, fence, lost, pc, call, result, counts>>

(* Mutant: the submission has no fence. *)
FinishNoFence ==
  /\ queue = "executed"
  /\ queue' = "empty"
  /\ UNCHANGED <<objects, buffers, cmd, fence, lost, pc, call, result, counts>>

Finish ==
  /\ queue = "executed"
  /\ queue' = "empty" /\ fence' = TRUE
  /\ UNCHANGED <<objects, buffers, cmd, lost, pc, call, result, counts>>

Lose ==
  /\ held[Ctx] # {} /\ ~lost
  /\ lost' = TRUE /\ queue' = "empty"
  /\ UNCHANGED <<objects, buffers, cmd, fence, pc, call, result, counts>>

Setup   == CtxCreate \/ CtxDestroy
           \/ \E w \in Weights : \/ WeightLoad(w) \/ WeightLoadUndefined(w)
                                 \/ WeightFree(w) \/ FreeInUse(w)
Begin   == WrongShape \/ \E w \in Weights, x \in Inputs : Matmul(w, x)
Proceed == Record \/ RecordInUse \/ Submit \/ WaitFence \/ CopyResult
Serve   == Execute \/ Finish

GpuNext == Setup \/ Begin \/ Proceed \/ WaitFails \/ Serve \/ Lose

GpuSpec     == GpuInit /\ [][GpuNext]_gpuVars
(* The caller runs when it can, and the device executes what it accepted.  *)
GpuFairSpec == GpuSpec /\ WF_gpuVars(Proceed) /\ WF_gpuVars(Serve)

-----------------------------------------------------------------------------
(* Properties                                                              *)

(* Types; a y buffer holds at most one product, or what its fresh memory   *)
(* held, unless a call was given up while the device executed.             *)
GpuTypeOK ==
  /\ held \in [Owners -> SUBSET Kinds] /\ live \in [Owners -> SUBSET Kinds]
  /\ xbuf \in [Weights -> Vectors]
  /\ ybuf \in [Weights -> Seq(Vectors)]
  /\ call \in [w : Weights \cup {None}, x : Vectors]
  /\ ~failed /\ call.w \in Weights => Len(ybuf[call.w]) <= 1
  /\ y0 \in Seq(Vectors) /\ y \in Seq(Vectors)
  /\ cmd \in Weights \cup {None}
  /\ queue \in {"empty", "submitted", "executed"}
  /\ fence \in BOOLEAN /\ lost \in BOOLEAN /\ failed \in BOOLEAN
  /\ pc \in {"idle", "record", "submit", "wait", "copy", "undefined"}
  /\ ret \in {0, -1}

(* Wherever creation fails, the objects that exist are those the structs   *)
(* have handles of: none leaks and none is destroyed twice.                *)
NothingLeaks == live = held

(* While the device has work, the objects it works on exist and nobody     *)
(* touches its buffers, for gpu_matmul does not return before, unless the  *)
(* wait for it ended in an error, which the code does not look at.         *)
DeviceUndisturbed ==
  queue # "empty" /\ ~failed =>
    /\ pc = "wait" /\ cmd = call.w /\ xbuf[cmd] = call.x
    /\ live[cmd] = WeightObjects /\ live[Ctx] = ContextObjects

Right == y = <<call.x>>

(* A call with a zeroed y, to which the driver reported no error and beside*)
(* which it executed nothing else, gives its own product, of this call's   *)
(* input and no other's.  (For a y with a sum in it see SumContinues.)     *)
ResultIsProduct == pc = "idle" /\ ret = 0 /\ ~failed /\ y0 = << >> => Right

(* A call that waits for the device returns: the fence is signalled or the *)
(* device is lost.                                                         *)
MatmulReturns == pc = "wait" /\ queue = "submitted" ~> pc = "idle"

(* "Returns 0 on success, -1 on error (caller should fall back to CPU)"    *)
(* (gpu_ops.h).  Violated: a lost device, or a refused submission, gives 0 *)
(* and whatever y held.                                                    *)
FailureIsReported == pc = "idle" /\ ret = 0 /\ y0 = << >> => Right

(* "y[N] += x[K] @ W[N*K]" (gpu_ops.h): a call adds its product to what is *)
(* in y.  Violated: what is in y is overwritten.                           *)
SumContinues == pc = "idle" /\ ret = 0 /\ ~failed => y = Append(y0, call.x)

-----------------------------------------------------------------------------
(* Inductive strengthening.                                                *)

(* A struct is complete or absent, and weights need the context.           *)
Complete ==
  /\ held[Ctx] \in {{}, ContextObjects}
  /\ \A w \in Weights : /\ held[w] \in {{}, WeightObjects}
                        /\ held[w] # {} => held[Ctx] # {}

Calling == {"record", "submit", "wait", "copy"}

(* A call keeps its weight, its input and, from the recording on, the      *)
(* command buffer.                                                         *)
CallKept ==
  pc \in Calling =>
    /\ call.w \in Weights /\ held[call.w] # {} /\ xbuf[call.w] = call.x
    /\ pc # "record" => cmd = call.w

(* What y holds, at each point of a call and of its execution. *)
Progress ==
  /\ queue # "empty" =>
       /\ ~lost /\ cmd \in Weights /\ held[cmd] # {}
       /\ pc = "wait" \/ failed
       /\ pc = "wait" => ~fence
       /\ pc # "submit"
  /\ ~failed =>
       /\ pc \in {"record", "submit"} \/ queue = "submitted" => ybuf[call.w] = << >>
       /\ pc = "wait" /\ queue = "empty" /\ ~fence => lost
       /\ (pc = "wait" /\ fence) \/ queue = "executed" \/ pc = "copy"
            => ybuf[call.w] = <<call.x>>

GpuInv == NothingLeaks /\ Complete /\ CallKept /\ Progress /\ ResultIsProduct

=============================================================================
