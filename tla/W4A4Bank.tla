------------------------------ MODULE W4A4Bank ------------------------------
(***************************************************************************)
(* tools/w4a4/pack_rk3588.py, main and emit_full_bank: the linears of a    *)
(* model become one bank file, one scale file and an index of offsets.     *)
(*                                                                         *)
(* A tensor is [shard, N, K]: its name is its place in the order of names. *)
(* A file is a sequence of cells, each the tensor it belongs to and its    *)
(* rank there: a cell of the bank is one row of one kernel tile, a cell of *)
(* the scales one scale.  The kits that main also writes are in W4A4Kit.   *)
(***************************************************************************)
EXTENDS Integers, Sequences, FiniteSets

CONSTANTS
  Tensors,       (* Every linear of the model, as a sequence sorted by name  *)
  Probed,        (* LAYERS: positions in Tensors that get a kit              *)
  NTile, KTile,  (* The leading tiling: 64 and 32                            *)
  NMults,        (* Values of --n-mult                                       *)
  BankGroups,    (* Values of --group, 0 for one scale per kernel            *)
  BankRuns       (* Bound: the tool is run that often                        *)

Tensor == [shard : Nat, N : Nat, K : Nat \ {0}]

(* main asserts that the model has the linears of LAYERS.  No linear of a  *)
(* layer has a larger K than down_proj, which is one of them.              *)
ASSUME BankAssumption ==
  /\ Tensors \in Seq(Tensor)
  /\ Probed \subseteq DOMAIN Tensors
  /\ \A t \in DOMAIN Tensors : \E p \in Probed : Tensors[t].K <= Tensors[p].K
  /\ NTile \in Nat \ {0} /\ KTile \in Nat \ {0}
  /\ NMults \subseteq Nat \ {0} /\ BankGroups \subseteq Nat

VARIABLES
  bankPc,        (* The step of the tool                                     *)
  bankRun,       (* How often it was started                                 *)
  args,          (* Its arguments, the GPTQ archive's tensors among them     *)
  todo,          (* Set of the tensors still to be written                   *)
  bank,          (* bank.i4.bin                                              *)
  bankScales,    (* bank_scales.f32.bin                                      *)
  idx, off, soff,(* The index and the offsets as they grow                   *)
  index          (* bank_index.json                                          *)

bankVars == <<bankPc, bankRun, args, todo, bank, bankScales, idx, off, soff, index>>

All == DOMAIN Tensors
NoArgs == [nmult |-> 0, group |-> 0, npz |-> {}, npzGroup |-> 0, all |-> FALSE]

(* pad_to *)
Padded(n, mult) == ((n + mult - 1) \div mult) * mult

(* max(1, K \div group), where 0 stands for a group of K. *)
ScalesPerKernel(group, K) == IF group = 0 \/ group >= K THEN 1 ELSE K \div group

(* quantize.py has no place for the scale of a last, partial group, and    *)
(* leaves no archive then.                                                 *)
Archived(group, K) == group \in 1 .. K - 1 => K % group = 0

(* The group of a tensor's scales: the archive's, or that of the rounding  *)
(* done here.                                                              *)
GroupOf(t) == IF t \in args.npz THEN args.npzGroup ELSE args.group

(* quant_int4_groupwise asserts that groups divide K; b_native that tiles  *)
(* divide the padded N and K.                                              *)
Quantises(t) == IF t \in args.npz \/ args.group = 0 THEN TRUE ELSE Tensors[t].K % args.group = 0
Tiles(t) == Padded(Tensors[t].N, args.nmult) % NTile = 0 /\ Tensors[t].K % KTile = 0

(* The error of a kit's tensor is taken with its weights and scales read in*)
(* groups of --group: these must divide K, and the scales be that many, or *)
(* one for all.                                                            *)
Dequantises(t) ==
  LET K == Tensors[t].K
  IN /\ args.group = 0 \/ K % args.group = 0
     /\ ScalesPerKernel(GroupOf(t), K) \in {1, ScalesPerKernel(args.group, K)}

Cells(t, n) == [i \in 1 .. n |-> <<t, i>>]
BankCells(t)  == Cells(t, (Padded(Tensors[t].N, args.nmult) \div NTile) * Tensors[t].K)
ScaleCells(t) == Cells(t, Padded(Tensors[t].N, args.nmult)
                            * ScalesPerKernel(GroupOf(t), Tensors[t].K))

(* Shard by shard, in each the names in their order.                       *)
Precedes(t, u) ==
  \/ Tensors[t].shard < Tensors[u].shard
  \/ Tensors[t].shard = Tensors[u].shard /\ t < u

IsNext(t) == t \in todo /\ \A u \in todo \ {t} : Precedes(t, u)

-----------------------------------------------------------------------------

BankInit ==
  /\ bankPc = "idle" /\ bankRun = 0 /\ args = NoArgs /\ todo = {}
  /\ bank = << >> /\ bankScales = << >> /\ index = << >>
  /\ idx = << >> /\ off = 0 /\ soff = 0

(* The archive, if one is given, is one that quantize.py left. *)
StartPack(a) ==
  /\ a.npz = {} => a.npzGroup = 0
  /\ \A t \in a.npz : Archived(a.npzGroup, Tensors[t].K)
  /\ bankPc \in {"idle", "done", "failed"} /\ bankRun < BankRuns
  /\ bankRun' = bankRun + 1 /\ args' = a /\ bankPc' = "layers"
  /\ UNCHANGED <<todo, bank, bankScales, idx, off, soff, index>>

(* The kits of LAYERS, then the kernel-id kits; without --all that is all. *)
PackLayers ==
  /\ bankPc = "layers"
  /\ bankPc' = IF \E t \in Probed : ~Quantises(t) \/ ~Dequantises(t) THEN "failed"
           ELSE IF args.all THEN "open" ELSE "done"
  /\ UNCHANGED <<bankRun, args, todo, bank, bankScales, idx, off, soff, index>>

OpenBank ==
  /\ bankPc = "open"
  /\ bank' = << >> /\ bankScales' = << >>
  /\ idx' = << >> /\ off' = 0 /\ soff' = 0
  /\ todo' = All /\ bankPc' = "write"
  /\ UNCHANGED <<bankRun, args, index>>

(* Mutant: the offset advances by the tensor as it was before padding.     *)
BankAdvanceUnpadded(t) == ((Tensors[t].N + NTile - 1) \div NTile) * Tensors[t].K

BankAdvance(t) == Len(BankCells(t))

Entry(t) ==
  [name |-> t, K |-> Tensors[t].K, N |-> Padded(Tensors[t].N, args.nmult),
   bankOffset |-> off, bankBytes |-> BankAdvance(t),
   scaleOffset |-> soff, scaleBytes |-> Len(ScaleCells(t))]

WriteTensor ==
  /\ bankPc = "write"
  /\ \E t \in todo :
       /\ IsNext(t) /\ Quantises(t) /\ Tiles(t)
       /\ bank' = bank \o BankCells(t) /\ bankScales' = bankScales \o ScaleCells(t)
       /\ idx' = Append(idx, Entry(t))
       /\ off' = off + BankAdvance(t) /\ soff' = soff + Len(ScaleCells(t))
       /\ todo' = todo \ {t}
  /\ UNCHANGED <<bankPc, bankRun, args, index>>

(* An assertion, or the disk, ends the program between two tensors, or     *)
(* between the two files.                                                  *)
PackFails ==
  /\ bankPc = "write"
  /\ \E t \in todo :
       /\ IsNext(t)
       /\ \/ UNCHANGED bank
          \/ Quantises(t) /\ Tiles(t) /\ bank' = bank \o BankCells(t)
  /\ bankPc' = "failed"
  /\ UNCHANGED <<bankRun, args, todo, bankScales, idx, off, soff, index>>

WriteIndex ==
  /\ bankPc = "write" /\ todo = {}
  /\ index' = [tensors |-> idx, group |-> args.group, total |-> off]
  /\ bankPc' = "done"
  /\ UNCHANGED <<bankRun, args, todo, bank, bankScales, idx, off, soff>>

BankNext ==
  \/ \E n \in NMults, g \in BankGroups, h \in BankGroups, npz \in {{}, Probed, All}, all \in BOOLEAN :
       StartPack([nmult |-> n, group |-> g, npz |-> npz, npzGroup |-> h, all |-> all])
  \/ PackLayers \/ OpenBank \/ WriteTensor \/ PackFails \/ WriteIndex

BankSpec == BankInit /\ [][BankNext]_bankVars

-----------------------------------------------------------------------------
(* Properties                                                              *)

(* Where the first i entries of an index end in the two files.             *)
BankEnd(e, i)  == IF i = 0 THEN 0 ELSE e[i].bankOffset + e[i].bankBytes
ScaleEnd(e, i) == IF i = 0 THEN 0 ELSE e[i].scaleOffset + e[i].scaleBytes

(* What a reader of the index gets: when the tool ends having written it,  *)
(* every linear is in it once, at offsets where its own weights and scales *)
(* lie in full, one after the other, and the files hold nothing else.  The *)
(* scales are those of the group the index states, unless the archive has  *)
(* one per kernel: main finds out from the linears of LAYERS.  (Its text   *)
(* "fp32 (N, K/32)" is fixed and does not go by the group.)                *)
BankIndexed ==
  bankPc = "done" /\ args.all =>
    LET e == index.tensors
        t(i) == e[i].name
    IN /\ {t(i) : i \in DOMAIN e} = All /\ Len(e) = Cardinality(All)
       /\ index.total = Len(bank) /\ BankEnd(e, Len(e)) = Len(bank)
       /\ ScaleEnd(e, Len(e)) = Len(bankScales)
       /\ \A i \in DOMAIN e :
            /\ e[i].bankOffset = BankEnd(e, i - 1) /\ e[i].scaleOffset = ScaleEnd(e, i - 1)
            /\ SubSeq(bank, e[i].bankOffset + 1, e[i].bankOffset + e[i].bankBytes)
                 = BankCells(t(i))
            /\ SubSeq(bankScales, e[i].scaleOffset + 1, e[i].scaleOffset + e[i].scaleBytes)
                 = ScaleCells(t(i))
            /\ e[i].scaleBytes \in
                 {e[i].N, e[i].N * ScalesPerKernel(index.group, e[i].K)}

=============================================================================
