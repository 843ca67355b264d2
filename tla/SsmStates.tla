----------------------------- MODULE SsmStates -----------------------------
(***************************************************************************)
(* What evaluating one ubatch promises for the recurrent-state cache of a  *)
(* layer: row head + i becomes sequence i's new state, computed from the   *)
(* row its id names as that row was before the ubatch; rows of sequences   *)
(* that only move are copied; every other row keeps its state.             *)
(***************************************************************************)
EXTENDS Integers

CONSTANTS
  NumRows,         (* Rows of the cache.                                     *)
  Slices,          (* Parts of a state that worker threads own (head ranges) *)
  Scan(_, _),      (* Scan(i, s): state of sequence i after its tokens.      *)
  State0(_, _)     (* State0(r, h): slice h of row r at the start.           *)

Rows == 0 .. NumRows - 1

(* A ubatch: the first row it owns, how many sequences it computes (ns) and*)
(* how many rows it owns (nrs), and the row each one's state comes from.   *)
Batches ==
  UNION {[head : 0 .. NumRows - n, ns : 1 .. n, nrs : {n}, ids : [0 .. n - 1 -> Rows]] :
           n \in 1 .. NumRows}

VARIABLE rows      (* rows[r][h]: slice h of the state in row r.             *)

Init == rows = [r \in Rows |-> [h \in Slices |-> State0(r, h)]]

(* The rows after ubatch b. *)
After(b) ==
  [r \in Rows |->
     IF r - b.head \in 0 .. b.ns - 1
     THEN [h \in Slices |-> Scan(r - b.head, rows[b.ids[r - b.head]][h])]
     ELSE IF r - b.head \in b.ns .. b.nrs - 1
          THEN rows[b.ids[r - b.head]]
          ELSE rows[r]]

(* An evaluation that changes nothing is a stutter. *)
Evaluate == rows' # rows /\ \E b \in Batches : rows' = After(b)

Spec == Init /\ [][Evaluate]_rows

=============================================================================
