----------------------------- MODULE W4A4Calib -----------------------------
(***************************************************************************)
(* tools/w4a4/quantize.py, main: the inputs of layer 0 are captured, then  *)
(* layer by layer the calibration samples are run, the linears quantised   *)
(* from the inputs they saw, and the samples run again through what is now *)
(* quantised for the next layer.  W4A4Gptq is what quantises one linear.   *)
(*                                                                         *)
(* An activation is [sample, passed]: for every layer it has passed, the   *)
(* linears of that layer that were quantised when it did.  A Hessian is    *)
(* the sequence of activations it was accumulated from.                    *)
(***************************************************************************)
EXTENDS Integers, Sequences, SequencesExt

CONSTANTS
  NLayers,       (* Number of layers                                         *)
  NSamples,      (* --nsamples                                               *)
  LinearOrder    (* The linears in the order quantised; those of a layer are *)
                 (* hooked whatever their name                               *)

(* Without layers or samples main raises before it quantises anything.     *)
ASSUME CalibAssumption ==
  /\ NLayers \in Nat \ {0} /\ NSamples \in Nat \ {0}
  /\ LinearOrder \in Seq(Range(LinearOrder)) \ {<< >>}

VARIABLES
  calibPc,       (* Step                                                     *)
  li, sample,    (* Layer, sample                                            *)
  cached,        (* cache["i"]: inputs captured                              *)
  inps, outs,    (* The two buffers of activations                           *)
  hooked,        (* The forward hooks are in place                           *)
  hess,          (* hess[n]: what linear n of this layer has seen            *)
  quant,         (* quant[l]: linears of layer l that are quantised          *)
  packed         (* packed[<<l, n>>]: the Hessian it was quantised with      *)

calibVars == <<calibPc, li, sample, cached, inps, outs, hooked, hess, quant, packed>>

Samples == 1 .. NSamples
Linears == Range(LinearOrder)
Blank   == [sample |-> 0, passed |-> << >>]
NoHess  == [n \in Linears |-> << >>]

(* Forward through layer l as it stands; hooks add what they see.          *)
Forward(x, l) == [x EXCEPT !.passed = Append(@, quant[l])]
Seen(x) == IF hooked THEN [n \in Linears |-> Append(hess[n], x)] ELSE hess

CalibInit ==
  /\ calibPc = "capture" /\ li = 1 /\ sample = 1 /\ cached = 0
  /\ inps = [x \in Samples |-> Blank] /\ outs = [x \in Samples |-> Blank]
  /\ hooked = FALSE /\ hess = NoHess
  /\ quant = [l \in 1 .. NLayers |-> {}] /\ packed = << >>

(* Catcher.forward stores its input and stops the model. *)
Capture ==
  /\ calibPc = "capture" /\ sample <= NSamples
  /\ inps' = [inps EXCEPT ![cached + 1] = [sample |-> sample, passed |-> << >>]]
  /\ cached' = cached + 1 /\ sample' = sample + 1
  /\ UNCHANGED <<calibPc, li, outs, hooked, hess, quant, packed>>

Hook ==
  /\ calibPc = "layer" \/ (calibPc = "capture" /\ sample > NSamples)
  /\ hess' = NoHess /\ hooked' = TRUE
  /\ calibPc' = "calibrate" /\ sample' = 1
  /\ UNCHANGED <<li, cached, inps, outs, quant, packed>>

Calibrate ==
  /\ calibPc = "calibrate" /\ sample <= NSamples
  /\ hess' = Seen(inps[sample])
  /\ sample' = sample + 1
  /\ UNCHANGED <<calibPc, li, cached, inps, outs, hooked, quant, packed>>

Unhook ==
  /\ calibPc = "calibrate" /\ sample > NSamples
  /\ hooked' = FALSE /\ calibPc' = "quantise"
  /\ UNCHANGED <<li, sample, cached, inps, outs, hess, quant, packed>>

(* The first of the fixed order that is not yet quantised. *)
Quantise ==
  /\ calibPc = "quantise"
  /\ \E i \in DOMAIN LinearOrder :
       LET n == LinearOrder[i]
       IN /\ n \notin quant[li] /\ \A k \in 1 .. i - 1 : LinearOrder[k] \in quant[li]
          /\ quant' = [quant EXCEPT ![li] = @ \cup {n}]
          /\ packed' = [k \in DOMAIN packed \cup {<<li, n>>} |->
                          IF k = <<li, n>> THEN hess[n] ELSE packed[k]]
  /\ calibPc' = IF quant'[li] = Linears THEN "outputs" ELSE "quantise"
  /\ sample' = 1
  /\ UNCHANGED <<li, cached, inps, outs, hooked, hess>>

Outputs ==
  /\ calibPc = "outputs" /\ sample <= NSamples
  /\ outs' = [outs EXCEPT ![sample] = Forward(inps[sample], li)]
  /\ hess' = Seen(inps[sample])
  /\ sample' = sample + 1
  /\ UNCHANGED <<calibPc, li, cached, inps, hooked, quant, packed>>

(* Mutant: the buffers are not exchanged.                                  *)
NoSwap ==
  /\ calibPc = "outputs" /\ sample > NSamples
  /\ li' = li + 1 /\ calibPc' = IF li < NLayers THEN "layer" ELSE "save"
  /\ UNCHANGED <<sample, cached, inps, outs, hooked, hess, quant, packed>>

Swap ==
  /\ calibPc = "outputs" /\ sample > NSamples
  /\ inps' = outs /\ outs' = inps
  /\ li' = li + 1 /\ calibPc' = IF li < NLayers THEN "layer" ELSE "save"
  /\ UNCHANGED <<sample, cached, hooked, hess, quant, packed>>

Save ==
  /\ calibPc = "save"
  /\ calibPc' = "saved"
  /\ UNCHANGED <<li, sample, cached, inps, outs, hooked, hess, quant, packed>>

CalibNext == Capture \/ Hook \/ Calibrate \/ Unhook \/ Quantise \/ Outputs \/ Swap \/ Save

CalibSpec == CalibInit /\ [][CalibNext]_calibVars

-----------------------------------------------------------------------------
(* Properties                                                              *)

(* Every linear is quantised from each sample once, in order, as it comes  *)
(* out of the earlier layers after they were quantised in full; and when   *)
(* the archive is saved no linear is missing from it.                      *)
CalibratedOnQuantized ==
  /\ \A k \in DOMAIN packed :
       packed[k] = [x \in Samples |-> [sample |-> x, passed |-> [l \in 1 .. k[1] - 1 |-> Linears]]]
  /\ calibPc = "saved" => DOMAIN packed = (1 .. NLayers) \X Linears

=============================================================================
