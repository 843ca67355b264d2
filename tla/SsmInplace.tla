----------------------------- MODULE SsmInplace -----------------------------
(***************************************************************************)
(* The Mamba-2 state update of patch 02 to llama.cpp                       *)
(* (serving/patches/02-mamba2-inplace-ssm-state.patch): worker threads     *)
(* compute the final state of every sequence either into the result tensor *)
(* (dst) or in place, into the cache rows the ubatch owns.                 *)
(*                                                                         *)
(* A worker owns a range of heads in every row, so each step below reads   *)
(* and writes one slice only.  The tokens of a sequence are folded into    *)
(* Scan: between two tokens a worker touches nothing but the slice it is   *)
(* writing.  Workers meet only at the barriers between graph nodes.        *)
(***************************************************************************)
EXTENDS Integers

CONSTANTS NumRows, Slices, Scan(_, _), State0(_, _),
          States,      (* The values a slice of a state can have.            *)
          MaxBatches   (* Bound: ubatches evaluated.                         *)

ASSUME RowsAssumption  == NumRows \in Nat /\ MaxBatches \in Nat
ASSUME StateAssumption ==
  /\ \A r \in 0 .. NumRows - 1, h \in Slices : State0(r, h) \in States
  /\ \A i \in 0 .. NumRows - 1, s \in States : Scan(i, s) \in States

VARIABLES
  rows,      (* the cache: src0 of the scan                                  *)
  dst,       (* dst[i][h]: the part of the result that holds final states    *)
  node,      (* the graph node being evaluated                               *)
  batch,     (* the ubatch                                                   *)
  inplace,   (* op_params[1] of the scan: ggml_ssm_scan_set_inplace was used *)
  nxt,       (* next sequence each worker scans                              *)
  back,      (* next sequence each worker copies back                        *)
  base,      (* History: the cache when the ubatch began                     *)
  count      (* Ubatches begun                                               *)

work == <<nxt, back>>
ssmVars == <<rows, dst, node, batch, inplace, nxt, back, base, count>>

Abstract == INSTANCE SsmStates WITH rows <- IF node = "none" THEN rows ELSE base
Rows     == 0 .. NumRows - 1
Batches  == Abstract!Batches

Seqs(b)  == 0 .. b.ns - 1

(* Mutant: the first row the ubatch owns is left out. *)
AliasedButFirst(b) ==
  \E i \in Seqs(b) :
    /\ b.ids[i] # b.head + i
    /\ b.ids[i] > b.head
    /\ b.ids[i] < b.head + b.ns

(* Some sequence still has to read a row another one's state goes to. *)
Aliased(b) ==
  \E i \in Seqs(b) :
    /\ b.ids[i] # b.head + i
    /\ b.ids[i] >= b.head
    /\ b.ids[i] < b.head + b.ns

Direct == inplace /\ ~Aliased(batch)

SsmInit ==
  /\ rows    = [r \in Rows |-> [h \in Slices |-> State0(r, h)]]
  /\ dst     = rows
  /\ node    = "none"
  /\ batch   = [head |-> 0, ns |-> 0, nrs |-> 0, ids |-> << >>]
  /\ inplace = FALSE
  /\ nxt     = [h \in Slices |-> 0]
  /\ back    = [h \in Slices |-> 0]
  /\ base    = rows
  /\ count   = 0

(* Mutant: in place although other states are still to be moved. *)
AlwaysInplace(b) == b.nrs >= b.ns

(* The graph asks for the in-place update only when the ubatch moves no    *)
(* other states (get_n_rs() == n_seqs); the environment, the backend or    *)
(* rollback snapshots may still rule it out.                               *)
MayBeInplace(b) == b.nrs = b.ns

BuildGraph ==
  /\ node = "none" /\ count < MaxBatches
  /\ \E b \in Batches :
       /\ batch' = b
       /\ inplace' \in {FALSE, MayBeInplace(b)}
  /\ node'  = "scan"
  /\ nxt'   = [h \in Slices |-> 0]
  /\ back'  = [h \in Slices |-> 0]
  /\ base'  = rows
  /\ count' = count + 1
  /\ UNCHANGED <<rows, dst>>

(* Mutant: the state is updated where it came from. *)
ScanAtSource(h) ==
  /\ node = "scan" /\ nxt[h] < batch.ns
  /\ LET i == nxt[h]
         s == Scan(i, rows[batch.ids[i]][h])
     IN IF Direct
        THEN rows' = [rows EXCEPT ![batch.ids[i]][h] = s] /\ dst' = dst
        ELSE dst'  = [dst  EXCEPT ![i][h] = s] /\ rows' = rows
  /\ nxt' = [nxt EXCEPT ![h] = @ + 1]
  /\ UNCHANGED <<node, batch, inplace, back, base, count>>

(* One sequence of the scan loop: read the source row, write the final     *)
(* state to where `s` points.                                              *)
ScanSequence(h) ==
  /\ node = "scan" /\ nxt[h] < batch.ns
  /\ LET i == nxt[h]
         s == Scan(i, rows[batch.ids[i]][h])
     IN IF Direct
        THEN rows' = [rows EXCEPT ![batch.head + i][h] = s] /\ dst' = dst
        ELSE dst'  = [dst  EXCEPT ![i][h] = s] /\ rows' = rows
  /\ nxt' = [nxt EXCEPT ![h] = @ + 1]
  /\ UNCHANGED <<node, batch, inplace, back, base, count>>

(* Mutant: states go back before the worker has scanned them all. *)
CopyBackEarly(h) ==
  /\ node = "scan"
  /\ inplace /\ Aliased(batch)
  /\ back[h] < batch.ns
  /\ rows' = [rows EXCEPT ![batch.head + back[h]][h] = dst[back[h]][h]]
  /\ back' = [back EXCEPT ![h] = @ + 1]
  /\ UNCHANGED <<dst, node, batch, inplace, nxt, base, count>>

(* `if (inplace && aliased)`: the worker's heads of one state go back. *)
CopyBack(h) ==
  /\ node = "scan" /\ nxt[h] = batch.ns
  /\ inplace /\ Aliased(batch)
  /\ back[h] < batch.ns
  /\ rows' = [rows EXCEPT ![batch.head + back[h]][h] = dst[back[h]][h]]
  /\ back' = [back EXCEPT ![h] = @ + 1]
  /\ UNCHANGED <<dst, node, batch, inplace, nxt, base, count>>

WorkerDone(h) ==
  /\ nxt[h] = batch.ns
  /\ inplace /\ Aliased(batch) => back[h] = batch.ns

(* The barrier after the scan. *)
ScanDone ==
  /\ node = "scan" /\ \A h \in Slices : WorkerDone(h)
  /\ node' = "extra"
  /\ UNCHANGED <<rows, dst, batch, inplace, work, base, count>>

(* build_rs (llama.cpp): the states the ubatch moves without computing are *)
(* gathered and stored after the scan.                                     *)
CopyExtra ==
  /\ node = "extra"
  /\ rows' = [r \in Rows |-> IF r - batch.head \in batch.ns .. batch.nrs - 1
                             THEN rows[batch.ids[r - batch.head]]
                             ELSE rows[r]]
  /\ node' = "store"
  /\ UNCHANGED <<dst, batch, inplace, work, base, count>>

(* The ggml_cpy of the final states into the cache, which the in-place     *)
(* graph leaves out.                                                       *)
StoreStates ==
  /\ node = "store"
  /\ rows' = IF inplace THEN rows
             ELSE [r \in Rows |-> IF r - batch.head \in Seqs(batch)
                                  THEN dst[r - batch.head] ELSE rows[r]]
  /\ node' = "none"
  /\ UNCHANGED <<dst, batch, inplace, work, base, count>>

EvaluateGraph ==
  \/ \E h \in Slices : ScanSequence(h) \/ CopyBack(h)
  \/ ScanDone \/ CopyExtra \/ StoreStates

SsmNext == BuildGraph \/ EvaluateGraph

SsmSpec == SsmInit /\ [][SsmNext]_ssmVars

-----------------------------------------------------------------------------
(* Properties                                                              *)

(* Types; a worker copies back no state it has not computed.               *)
SsmTypeOK ==
  /\ rows \in [Rows -> [Slices -> States]]
  /\ dst  \in [Rows -> [Slices -> States]]
  /\ base \in [Rows -> [Slices -> States]]
  /\ node \in {"none", "scan", "extra", "store"}
  /\ node # "none" => batch \in Batches
  /\ inplace \in BOOLEAN
  /\ nxt  \in [Slices -> Nat]
  /\ back \in [Slices -> Nat]
  /\ node # "none" => \A h \in Slices : nxt[h] <= batch.ns /\ back[h] <= nxt[h]
  /\ count \in Nat

(* However workers interleave and wherever states come from, a ubatch has  *)
(* the effect of scanning into the result and copying: the in-place path   *)
(* is an optimisation only (LLAMA_SSM_INPLACE=0 "restores the copy").      *)
ImplementsCopy == Abstract!Spec

(* A source row still holds the old state when its sequence is scanned     *)
(* ("only safe if no other sequence still has to read that row").          *)
SourceIntact ==
  node = "scan" =>
    \A h \in Slices : nxt[h] < batch.ns =>
      LET src == batch.ids[nxt[h]] IN rows[src][h] = base[src][h]

(* Not even between two steps does evaluation touch a row the ubatch does  *)
(* not own.                                                                *)
OnlyOwnedRows ==
  [][ \A r \in Rows : rows'[r] # rows[r] => r - batch.head \in 0 .. batch.nrs - 1 ]_rows

-----------------------------------------------------------------------------
(* Inductive strengthening: what every slice of the cache and of the       *)
(* result holds at each node of the graph.                                 *)

(* The state sequence i must end with. *)
NewState(i, h) == Scan(i, base[batch.ids[i]][h])

(* How many of the ubatch's states worker h has put into the cache. *)
Moved(h) == IF Direct THEN nxt[h] ELSE back[h]

ScanInv ==
  node = "scan" =>
    \A h \in Slices :
      /\ back[h] > 0 => inplace /\ Aliased(batch) /\ nxt[h] = batch.ns
      /\ ~Direct => \A i \in 0 .. nxt[h] - 1 : dst[i][h] = NewState(i, h)
      /\ \A r \in Rows :
           rows[r][h] = IF r - batch.head \in 0 .. Moved(h) - 1
                        THEN NewState(r - batch.head, h) ELSE base[r][h]

StoredInv ==
  /\ node \in {"extra", "store"} /\ ~inplace =>
       \A h \in Slices, i \in Seqs(batch) : dst[i][h] = NewState(i, h)
  /\ node = "extra" =>
       \A h \in Slices, r \in Rows :
         rows[r][h] = IF inplace /\ r - batch.head \in Seqs(batch)
                      THEN NewState(r - batch.head, h) ELSE base[r][h]
  /\ node = "store" =>
       \A h \in Slices, r \in Rows :
         rows[r][h] = IF inplace /\ r - batch.head \in Seqs(batch)
                      THEN NewState(r - batch.head, h)
                      ELSE IF r - batch.head \in batch.ns .. batch.nrs - 1
                           THEN base[batch.ids[r - batch.head]][h]
                           ELSE base[r][h]

SsmInv ==
  /\ node # "none" /\ inplace => batch.nrs = batch.ns
  /\ ScanInv
  /\ StoredInv

=============================================================================
