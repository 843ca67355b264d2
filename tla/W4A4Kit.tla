------------------------------ MODULE W4A4Kit ------------------------------
(***************************************************************************)
(* tools/w4a4: a probe kit is emitted (pack_rk3588.py, probe_ksweep.py),    *)
(* checked on disk (verify_kit.py) and run on the board, and what the      *)
(* board wrote is named (classify_output.py).                              *)
(*                                                                         *)
(* A matrix is a function on index pairs, a layout the sequence of the     *)
(* index pairs in the order they are stored, a byte a pair <<low nibble,   *)
(* high nibble>> and a file a sequence of bytes or of integers.  The       *)
(* vendor's sizes are scaled, ratios kept: tiles of 64, 32, 16 kernels are *)
(* 16, 8, 4, the C tiles of 8 and 4 are 2 and 1, KTILE is 2, an int16 has  *)
(* the range of an int8.  Nibbles keep their width.                        *)
(***************************************************************************)
EXTENDS Integers, Sequences, FiniteSetsExt

CONSTANTS
  KitTile,       (* KTILE: rows of a weight tile                             *)
  NTiles,        (* NTILE_CANDIDATES                                         *)
  CTile,         (* 8, the kernels of a tile of C                            *)
  IntMax,        (* The largest int16                                        *)
  KitShapes,     (* The <<K, N>> emitted                                     *)
  Ms             (* M_variants of a shape                                    *)

(* Every K is cut into whole tiles, every N by some candidate.              *)
KitAssumption ==
  /\ KitTile \in Nat \ {0} /\ KitTile % 2 = 0
  /\ CTile \in Nat \ {0} /\ CTile % 2 = 0
  /\ NTiles \subseteq Nat \ {0} /\ IsFiniteSet(NTiles) /\ \A t \in NTiles : t % (2 * CTile) = 0
  /\ KitShapes \subseteq (Nat \ {0}) \X (Nat \ {0})
  /\ \A s \in KitShapes : s[1] % KitTile = 0 /\ \E t \in NTiles : s[2] % t = 0
  /\ \A s \in KitShapes : s[2] <= IntMax
  /\ IntMax \in Nat
  /\ Ms \subseteq Nat \ {0} /\ IsFiniteSet(Ms) /\ Ms # {}

VARIABLES
  kit,           (* The files of the kit's directory, by name                *)
  meta,          (* meta.json                                                *)
  damage,        (* The file a byte of which went bad, or NoFile             *)
  fails,         (* The checks verify_kit.py failed                          *)
  board,         (* What happened on the board                               *)
  said           (* What classify_output.py said of it                       *)

kitVars == <<kit, meta, damage, fails, board, said>>

NLead  == Max(NTiles)
NoFile == <<"none", 0>>
Rows(n) == 0 .. n - 1
Abs(x) == IF x < 0 THEN -x ELSE x
Wrap(v) == ((v + IntMax + 1) % (2 * (IntMax + 1))) - (IntMax + 1)

(* The sum of the values of f. *)
Total(f) == MapThenSumSet(LAMBDA x : f[x], DOMAIN f)

-----------------------------------------------------------------------------
(* common.py                                                               *)

Normal(R, C) == [p \in 1 .. R * C |-> <<(p - 1) \div C, (p - 1) % C>>]

(* a_native (t = KitTile) and c_native: (C / t, R, t).                     *)
Native(R, C, t) ==
  [p \in 1 .. R * C |-> LET q == p - 1
                        IN <<(q \div t) % R, (q \div (R * t)) * t + (q % t)>>]

(* b_native: (N / nt, K / KitTile, nt, KitTile).                           *)
BNative(K, N, nt) ==
  [p \in 1 .. K * N |-> LET q == p - 1
                        IN <<((q \div (nt * KitTile)) % (K \div KitTile)) * KitTile + (q % KitTile),
                             (q \div (nt * K)) * nt + ((q \div KitTile) % nt)>>]

(* Mutant: k_major is ignored. *)
BKMajorPlain(K, N, nt) == BNative(K, N, nt)

(* b_native with k_major: (N / nt, K / KitTile, KitTile, nt).              *)
BKMajor(K, N, nt) ==
  [p \in 1 .. K * N |-> LET q == p - 1
                        IN <<((q \div (nt * KitTile)) % (K \div KitTile)) * KitTile + ((q \div nt) % KitTile),
                             (q \div (nt * K)) * nt + (q % nt)>>]

Stored(lay, X) == [p \in DOMAIN lay |-> X[lay[p]]]

Pack(s, hiFirst) ==
  [i \in 1 .. Len(s) \div 2 |->
     IF hiFirst THEN <<s[2 * i] % 16, s[2 * i - 1] % 16>>
                ELSE <<s[2 * i - 1] % 16, s[2 * i] % 16>>]

Signed(x) == IF x > 7 THEN x - 16 ELSE x

(* Element i, counted from 0, of the packed bytes b. *)
Nibble(b, i, hiFirst) ==
  Signed(b[i \div 2 + 1][IF (i % 2 = 0) = ~hiFirst THEN 1 ELSE 2])

-----------------------------------------------------------------------------
(* pack_rk3588.py                                                          *)

Product(A, B, R, K, N) ==
  [c \in Rows(R) \X Rows(N) |-> Total([k \in Rows(K) |-> A[c[1], k] * B[k, c[2]]])]

(* The bank is written in every candidate tiling that divides N; the sweep *)
(* writes the leading one and the one of half its size.                    *)
BFiles(kind, N) ==
  LET tiles == IF kind = "ksweep" THEN {NLead, NLead \div 2} ELSE NTiles
  IN {<<"B_normal", 0>>} \cup {<<"B_nat", nt>> : nt \in {t \in tiles : N % t = 0}}
     \cup (IF kind = "shape" /\ N % NLead = 0 THEN {<<"B_hi", NLead>>, <<"B_kmaj", NLead>>}
           ELSE {})

ACFiles(ms) == {"A", "A_nat", "C_i16", "C_i32", "C_nat"} \X ms

(* The content of file f for bank B and input A (over the rows of f).      *)
Content(f, A, B, K, N) ==
  LET r == f[2]
      C == Product(A, B, r, K, N)
      int16(s) == [p \in DOMAIN s |-> Wrap(s[p])]
  IN CASE f[1] = "B_normal" -> Pack(Stored(Normal(K, N), B), FALSE)
       [] f[1] = "B_nat"    -> Pack(Stored(BNative(K, N, r), B), FALSE)
       [] f[1] = "B_hi"     -> Pack(Stored(BNative(K, N, r), B), TRUE)
       [] f[1] = "B_kmaj"   -> Pack(Stored(BKMajor(K, N, r), B), FALSE)
       [] f[1] = "A"        -> Pack(Stored(Normal(r, K), A), FALSE)
       [] f[1] = "A_nat"    -> Pack(Stored(Native(r, K, KitTile), A), FALSE)
       [] f[1] = "C_i16"    -> int16(Stored(Normal(r, N), C))
       [] f[1] = "C_i32"    -> Stored(Normal(r, N), C)
       [] f[1] = "C_nat"    -> int16(Stored(Native(r, N, CTile), C))

Files(kind, A, B, K, N, ms) ==
  [f \in BFiles(kind, N) \cup ACFiles(ms) |-> Content(f, A, B, K, N)]

(* encode_sum: a column of K values that sum to t.                         *)
EncodedSum(t, K) == [k \in Rows(K) |-> t \div K + (IF k < t % K THEN 1 ELSE 0)]

(* encode_sum_dense: values u, spread over what the largest target leaves  *)
(* of the range, corrected to sum to t.                                    *)
Spread(K, N) ==
  Max({1, Min({4, 6 - (Max({Abs((n - N \div 2) \div K) : n \in Rows(N)}) + 1)})})
DenseSum(t, K, u) ==
  LET d == t - Total(u)
  IN [k \in Rows(K) |-> u[k] + d \div K + (IF k >= K - (d % K) THEN 1 ELSE 0)]

(* The bank whose column n sums to n - N \div 2, sparse or dense; both     *)
(* encoders assert that the values are int4.                               *)
SumBank(K, N, dense) ==
  LET s == Spread(K, N)
      col == [n \in Rows(N) |->
                IF dense THEN DenseSum(n - N \div 2, K, [k \in Rows(K) |-> ((3 * k + n) % (2 * s + 1)) - s])
                ELSE EncodedSum(n - N \div 2, K)]
  IN [c \in Rows(K) \X Rows(N) |-> col[c[2]][c[1]]]

IsInt4(B) == \A c \in DOMAIN B : B[c] \in -8 .. 7

(* What random banks and inputs stand for: mixed values, and the extreme   *)
(* ones whose product leaves int16.                                        *)
Mixed(R, C)   == [c \in Rows(R) \X Rows(C) |-> ((5 * c[1] + 3 * c[2]) % 16) - 8]
Extreme(R, C) == [c \in Rows(R) \X Rows(C) |-> -8]

-----------------------------------------------------------------------------
(* verify_kit.py                                                           *)

(* Each layout is undone by its own inverse: where, counted from 0, the     *)
(* element of an index pair is stored.                                     *)
AtNormal(C, i, j)    == i * C + j
AtNative(R, t, i, j) == ((j \div t) * R + i) * t + (j % t)
AtBNative(K, nt, k, n) ==
  (((n \div nt) * (K \div KitTile) + k \div KitTile) * nt + (n % nt)) * KitTile + (k % KitTile)
AtBKMajor(K, nt, k, n) ==
  (((n \div nt) * (K \div KitTile) + k \div KitTile) * KitTile + (k % KitTile)) * nt + (n % nt)

(* The bank and the input of r rows, as they are on disk.                  *)
BankRead(d, mt) ==
  [c \in Rows(mt.K) \X Rows(mt.N) |->
     Nibble(d[<<"B_normal", 0>>], AtNormal(mt.N, c[1], c[2]), FALSE)]
InputRead(d, mt, r) ==
  [c \in Rows(r) \X Rows(mt.K) |-> Nibble(d[<<"A", r>>], AtNormal(mt.K, c[1], c[2]), FALSE)]

(* File f of the directory d of a kit with meta mt fails its check.        *)
Fails(d, mt, f) ==
  LET r == f[2]
      B == BankRead(d, mt)
      A == InputRead(d, mt, r)
      C == Product(A, B, r, mt.K, mt.N)
  IN \/ /\ f[1] \in {"B_nat", "B_hi"}
        /\ \E k \in Rows(mt.K), n \in Rows(mt.N) :
             Nibble(d[f], AtBNative(mt.K, r, k, n), f[1] = "B_hi") # B[k, n]
     \/ /\ f[1] = "B_kmaj"
        /\ \E k \in Rows(mt.K), n \in Rows(mt.N) :
             Nibble(d[f], AtBKMajor(mt.K, r, k, n), FALSE) # B[k, n]
     \/ /\ f[1] = "A_nat"
        /\ \E i \in Rows(r), k \in Rows(mt.K) :
             Nibble(d[f], AtNative(r, KitTile, i, k), FALSE) # A[i, k]
     \/ /\ f[1] = "C_i32"
        /\ \E i \in Rows(r), n \in Rows(mt.N) : d[f][AtNormal(mt.N, i, n) + 1] # C[i, n]
     \/ /\ f[1] = "C_nat"
        /\ \E i \in Rows(r), n \in Rows(mt.N) :
             d[f][AtNative(r, CTile, i, n) + 1] # C[i, n] \/ C[i, n] \notin -IntMax .. IntMax

(* The lanes of a kernel-id kit's product do not tell their kernels.       *)
LanesFail(d, mt) ==
  /\ mt.kind # "shape"
  /\ \E i \in Rows(mt.M), n \in Rows(mt.N) :
       d[<<"C_i32", mt.M>>][AtNormal(mt.N, i, n) + 1] # n - mt.N \div 2

Failed(d, mt) ==
  {f \in DOMAIN d : Fails(d, mt, f) \/ (f = <<"C_i32", mt.M>> /\ LanesFail(d, mt))}

-----------------------------------------------------------------------------
(* classify_output.py.  The buffer is a sequence of int16 words.           *)

(* The buffer read in the first of those forms (rows and word width) that  *)
(* has its size, or else as one row of int16.                              *)
ReadAs(buf, N, forms) ==
  LET fits == {i \in DOMAIN forms : Len(buf) = forms[i][1] * N * forms[i][2]}
      form == IF fits # {} THEN forms[Min(fits)] ELSE <<1, 1>>
  IN [rows |-> form[1], at |-> [p \in 1 .. form[1] * N |-> buf[form[2] * (p - 1) + 1]]]

(* Mutant: one row is tried before M. *)
LoadCOneRowFirst(buf, N, M) == ReadAs(buf, N, <<<<1, 1>>, <<1, 2>>, <<M, 1>>, <<M, 2>>>>)

LoadC(buf, N, M) == ReadAs(buf, N, <<<<M, 1>>, <<M, 2>>, <<1, 1>>, <<1, 2>>>>)

(* Row 0 of the buffer read as row-major (t = 0) or undone from tiles of t.*)
RowZero(c, N, t) ==
  [n \in Rows(N) |-> c.at[IF t = 0 THEN n + 1
                          ELSE AtNative(c.rows, t, 0, n) + 1] + N \div 2]

Score(idx, N) == Cardinality({n \in Rows(N) : idx[n] = n})

(* The interpretation with most lanes right, the earliest of equals.       *)
BestReading(c, N, M) ==
  LET ts == <<0, CTile, CTile \div 2>>
      tried == {i \in DOMAIN ts : ts[i] = 0 \/ (c.rows * N) % (ts[i] * M) = 0}
      s(i) == Score(RowZero(c, N, ts[i]), N)
      first == Min({i \in tried : \A j \in tried : s(j) <= s(i)})
  IN RowZero(c, N, ts[first])

TiledAt(idx, N) == {b \in NTiles : N % b = 0 /\ \A n \in Rows(N) : idx[n] = n % b}

Diagnose(idx, N) ==
  LET valid == {n \in Rows(N) : idx[n] \in Rows(N)}
  IN CASE Score(idx, N) = N -> <<"correct", 0>>
       [] Score(idx, N) # N /\ TiledAt(idx, N) # {} -> <<"tiled", Max(TiledAt(idx, N))>>
       [] OTHER ->
            IF \A n \in Rows((N - 1) \div 2) : idx[n + 1] - idx[n] = 2 THEN <<"stride", 2>>
            ELSE IF valid = Rows(Min({NLead, N})) THEN <<"first tile", 0>>
            ELSE <<"unrecognised", 0>>

-----------------------------------------------------------------------------
(* What the board may do with the bank of a kernel-id kit                  *)

(* It reads the file of tiling nt as one of tiling h, nibbles swapped or   *)
(* not; or it shows a fault that classify_output.py names.                 *)
Fault(kind, nt, h, swap) == [kind |-> kind, nt |-> nt, h |-> h, swap |-> swap]
BankFaults(N) ==
  {Fault("bank", f[2], h, swap) : f \in {g \in DOMAIN kit : g[1] = "B_nat"},
                                  h \in {t \in NTiles : N % t = 0}, swap \in BOOLEAN}
Faults(N) ==
  BankFaults(N) \cup {Fault("tiled", 0, h, FALSE) : h \in {t \in NTiles : N % t = 0} \ {N}}
    \cup (IF N > NLead THEN {Fault("first tile", 0, 0, FALSE)} ELSE {})
    \cup {Fault("stride", 0, 0, FALSE)}

(* What lane n sums up of the file b read as one of tiling h.              *)
LaneSum(b, K, N, h, swap, n) ==
  LET lay == BNative(K, N, h)
  IN Total([p \in {q \in DOMAIN lay : lay[q][2] = n} |-> Nibble(b, p - 1, swap)])

(* The value of lane n. *)
Lane(fl, K, N, n) ==
  CASE fl.kind = "bank"       -> LaneSum(kit[<<"B_nat", fl.nt>>], K, N, fl.h, fl.swap, n)
    [] fl.kind = "tiled"      -> (n % fl.h) - N \div 2
    [] fl.kind = "first tile" -> IF n < NLead THEN n - N \div 2 ELSE -IntMax
    [] fl.kind = "stride"     -> ((2 * n) % N) - N \div 2

(* The buffer of that many rows of words of that width, from lanes c.      *)
Buffer(c, N, native, rows, width) ==
  LET s == Stored(IF native THEN Native(rows, N, CTile) ELSE Normal(rows, N),
                  [x \in Rows(rows) \X Rows(N) |-> c[x[2]]])
  IN [i \in 1 .. rows * N * width |->
        IF width = 1 THEN s[i]
        ELSE IF i % 2 = 1 THEN s[(i + 1) \div 2] ELSE IF s[i \div 2] < 0 THEN -1 ELSE 0]

(* The forms the buffer is read back in.  load_c takes one row of int32    *)
(* for two of int16, and of a longer buffer the first row's worth.         *)
Forms == {<<2, 1>>, <<2, 2>>, <<1, 1>>, <<1, 2>>, <<3, 1>>}

-----------------------------------------------------------------------------

NotRun   == {NoFile}
NoMeta   == [kind |-> "none", K |-> 0, N |-> 0, M |-> 0]
NoBoard  == [fault |-> "none"]

KitInit ==
  /\ kit = << >> /\ meta = NoMeta /\ damage = NoFile
  /\ fails = NotRun /\ board = NoBoard /\ said = NoFile

EmitShape(K, N, A, B) ==
  /\ kit = << >>
  /\ kit' = Files("shape", A, B, K, N, Ms)
  /\ meta' = [kind |-> "shape", K |-> K, N |-> N, M |-> 0]
  /\ UNCHANGED <<damage, fails, board, said>>

(* The kit of a bank whose lanes tell their kernel.                        *)
KernelIdKit(kind, K, N, dense) ==
  /\ kit = << >>
  /\ IsInt4(SumBank(K, N, dense)) /\ N % CTile = 0
  /\ kit' = Files(kind, [c \in Rows(2) \X Rows(K) |-> 1], SumBank(K, N, dense), K, N, {2})
  /\ meta' = [kind |-> kind, K |-> K, N |-> N, M |-> 2]
  /\ UNCHANGED <<damage, fails, board, said>>

EmitKernelId(K, N) == KernelIdKit("kernelid", K, N, FALSE)

(* probe_ksweep.py writes the leading tiling, which must divide N.         *)
EmitKSweep(K, N, dense) == N % NLead = 0 /\ KernelIdKit("ksweep", K, N, dense)

Damage(f, i) ==
  /\ damage = NoFile /\ fails = NotRun /\ board = NoBoard
  /\ \E v \in IF f[1] \in {"C_i16", "C_i32", "C_nat"} THEN {Wrap(kit[f][i] + 1)}
             ELSE {[kit[f][i] EXCEPT ![1 + (i % 2)] = (@ + 1) % 16]} :
       kit' = [kit EXCEPT ![f][i] = v]
  /\ damage' = f
  /\ UNCHANGED <<meta, fails, board, said>>

Verify ==
  /\ kit # << >> /\ fails = NotRun
  /\ fails' = Failed(kit, meta)
  /\ UNCHANGED <<kit, meta, damage, board, said>>

RunBoard(fl, native, form) ==
  /\ board = NoBoard /\ damage = NoFile /\ fails = NotRun
  /\ board' = [fault |-> fl, native |-> native, form |-> form,
               buf |-> LET c == [n \in Rows(meta.N) |-> Lane(fl, meta.K, meta.N, n)]
                       IN Buffer(c, meta.N, native, form[1], form[2])]
  /\ UNCHANGED <<kit, meta, damage, fails, said>>

Classify ==
  /\ board # NoBoard /\ said = NoFile
  /\ said' = Diagnose(BestReading(LoadC(board.buf, meta.N, meta.M), meta.N, meta.M), meta.N)
  /\ UNCHANGED <<kit, meta, damage, fails, board>>

KitNext ==
  \/ \E s \in KitShapes :
       \/ EmitShape(s[1], s[2], Mixed(Max(Ms), s[1]), Mixed(s[1], s[2]))
       \/ EmitShape(s[1], s[2], Extreme(Max(Ms), s[1]), Extreme(s[1], s[2]))
       \/ EmitKernelId(s[1], s[2])
       \/ \E dense \in BOOLEAN : EmitKSweep(s[1], s[2], dense)
  \/ \E f \in DOMAIN kit : \E i \in DOMAIN kit[f] : Damage(f, i)
  \/ Verify
  \/ meta.M = 2 /\ \E fl \in Faults(meta.N), native \in BOOLEAN, form \in Forms :
       RunBoard(fl, native, form)
  \/ Classify

KitSpec == KitInit /\ [][KitNext]_kitVars

-----------------------------------------------------------------------------
(* Properties                                                              *)

(* verify_kit.py passes exactly the kits that are as they were written and *)
(* whose products fit int16; of damage to the two goldens it does not read *)
(* (the row-major int16 C) it says nothing.                                *)
CatchesDamage ==
  fails # NotRun =>
    (fails = {} <=>
       /\ damage[1] \in {"none", "C_i16"}
       /\ \A f \in DOMAIN kit : f[1] = "C_i32" =>
            \A p \in DOMAIN kit[f] : kit[f][p] \in -IntMax .. IntMax)

(* The form load_c reads back right. *)
Readable == board.form \in {<<2, 1>>, <<2, 2>>, <<1, 1>>} \/ (board.form = <<3, 1>> /\ ~board.native)

(* A bank read with its own tiling and nibble order is called correct; so  *)
(* is one of a single tile of K with any tiling, where all are the same    *)
(* bytes.  (For the other nibble order see SwapNamed.)                     *)
BankNamed ==
  LET fl == board.fault
  IN fl.kind = "bank" /\ ~fl.swap /\ (fl.nt = fl.h \/ meta.K = KitTile)
       => said = <<"correct", 0>>

(* A bank of more tiles read with another tiling is not called correct.    *)
WrongTilingShows ==
  LET fl == board.fault
  IN fl.kind = "bank" /\ fl.nt # fl.h /\ meta.K # KitTile => said # <<"correct", 0>>

(* The tiling fault and the fetch of one tile are named, in either layout  *)
(* of C.                                                                   *)
FaultNamed ==
  LET fl == board.fault
  IN /\ fl.kind = "tiled"      => said = <<"tiled", fl.h>>
     /\ fl.kind = "first tile" => said = <<"first tile", 0>>

(* classify_output.py says what happened on the board, of each fault a     *)
(* kernel-id kit can tell from the others.                                 *)
DiagnosisTrue ==
  said # NoFile /\ Readable => BankNamed /\ WrongTilingShows /\ FaultNamed

(* A kernel-id kit diagnoses "lane->kernel mapping, N tiling, nibble order,*)
(* K tiling" (pack_rk3588.py, line 202; classify_output.py, line 11): a    *)
(* bank read with its nibbles swapped is not called correct.  Violated: the*)
(* nibbles of a byte belong to one kernel, whose sum stays the same.       *)
SwapNamed ==
  said # NoFile /\ Readable /\ board.fault.kind = "bank" /\ board.fault.swap
    => said # <<"correct", 0>>

(* What a wrong tiling shows depends on the values of the bank.  Here, read  *)
(* with another tiling, some lane of the bank does not sum up its column.   *)
TellsTilings(K, N, dense) ==
  \A nt \in {t \in NTiles \cup {NLead \div 2} : t # 0 /\ N % t = 0},
     h \in {t \in NTiles : N % t = 0}, swap \in BOOLEAN :
    nt # h => \E n \in Rows(N) :
                LaneSum(Pack(Stored(BNative(K, N, nt), SumBank(K, N, dense)), FALSE), K, N, h, swap, n)
                  # n - N \div 2

TilingsTold ==
  \A s \in KitShapes : \A dense \in BOOLEAN :
    s[1] # KitTile /\ IsInt4(SumBank(s[1], s[2], dense)) => TellsTilings(s[1], s[2], dense)

=============================================================================
