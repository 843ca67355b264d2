----------------------------- MODULE FlakyProbe -----------------------------
(***************************************************************************)
(* tools/w4a4/probe_flaky.py and classify_flaky.py: a shape is dispatched  *)
(* once per generation into one output buffer, each generation with another*)
(* golden, and every lane of a capture is classified by its value alone.   *)
(*                                                                         *)
(* The device between the two programs is modelled from what they say of   *)
(* it: a dispatch may leave lanes unwritten, write zeros, or write a row's *)
(* result to another lane; a dispatch that fails may leave the device      *)
(* degraded, which a health run then shows.  A lane holds where its value  *)
(* came from (its origin); the programs see the value.                     *)
(***************************************************************************)
EXTENDS Integers, Sequences, FiniteSetsExt

CONSTANTS
  N, HN,         (* kernels of the measured shape and of the health shape    *)
  WBlock, Half,  (* kernels per weight block (64), its live half (32)        *)
  Gens,          (* number of generations                                    *)
  Ks,            (* values of --k                                            *)
  HK,            (* --health-k                                               *)
  TagMax, Cap,   (* TAG_MAX, and the int16 limit of line 79 (32000)          *)
  PoisonDepth    (* the fill value is -PoisonDepth, which no product gives   *)

ASSUME FlakyAssumption ==
  /\ {N, HN, WBlock, Half, Gens, PoisonDepth} \subseteq Nat \ {0} /\ Half <= WBlock
  /\ Ks \subseteq Nat /\ TagMax \in Nat /\ Cap \in Nat

VARIABLES
  flakyPc,       (* The step of the procedure                                *)
  tag,           (* TAG, 0 before it is chosen                               *)
  degraded,      (* The device reads wrong whatever the shape                *)
  pre, post,     (* Verdicts on health_pre and health_post, or "none"        *)
  buf,           (* The output buffer: origin of each lane                   *)
  caps,          (* caps[g + 1]: the capture after generation g              *)
  last0          (* The capture after gen0 was dispatched again              *)

flakyVars == <<flakyPc, tag, degraded, pre, post, buf, caps, last0>>

Lanes  == 0 .. N - 1
HLanes == 0 .. HN - 1
Gen    == 0 .. Gens - 1

Base(n) == n - N \div 2
BMax    == Max({IF Base(n) < 0 THEN -Base(n) ELSE Base(n) : n \in Lanes})

(* The stride that fits, and the power of two below it; an int16 holds     *)
(* these.                                                                  *)
Powers == {1, 2, 4, 8, 16, 32, 64, 128, 256, 512, 1024, 2048, 4096, 8192, 16384}

Fitted(k)    == Min({TagMax, (Min({8 * k, Cap}) - BMax) \div Gens})
RoundDown(t) == Max({p \in Powers : p <= t})

(* Mutant: the first generation is not tagged. *)
GoldenFromZero(t, g, n) == Base(n) + t * g

Golden(t, g, n) == Base(n) + t * (g + 1)

(* encode_sum's last assertion: k values of four bits can sum to t. *)
Encodes(t, k) == t \div k >= -8 /\ t \div k + (IF t % k > 0 THEN 1 ELSE 0) <= 7

(* All assertions of main() hold for stride t. *)
Accepted(k, t) ==
  /\ Fitted(k) > BMax /\ t > BMax
  /\ \A g \in Gen, n \in Lanes : Golden(t, g, n) <= 8 * k /\ Encodes(Golden(t, g, n), k)
  /\ HN % (3 * WBlock) = 0 /\ HN \div 3 <= WBlock
  /\ \A n \in HLanes : Encodes(n - HN \div 2, HK)

-----------------------------------------------------------------------------
(* Origins and the values they have                                        *)

Poison == 0 - PoisonDepth

Unwritten == [from |-> "none"]
Zero == [from |-> "zero"]
Row(g, n) == [from |-> "row", gen |-> g, lane |-> n]

Val(o) == CASE o = Unwritten -> Poison [] o = Zero -> 0 [] OTHER -> Golden(tag, o.gen, o.lane)

Dead == {n \in Lanes : n % WBlock >= Half}

(* What a dispatch of generation g can make of the buffer b: all lanes, or *)
(* the dead halves, or one live lane suffer one fault.                     *)
FaultyLanes == {Lanes, Dead, {0}}

Written(b, g, S, o) == [n \in Lanes |-> IF n \in S THEN o[n] ELSE Row(g, n)]

Outcomes(b, g) ==
  {Written(b, g, {}, b)} \cup
  UNION {{Written(b, g, S, b), Written(b, g, S, [n \in Lanes |-> Zero])} \cup
         {Written(b, g, S, [n \in Lanes |-> Row(g, (n + d) % N)]) : d \in 1 .. N - 1} :
         S \in FaultyLanes}

(* The health lanes that read right: on a sound device all live ones, and  *)
(* of the dead ones those that match by chance.                            *)
HLive == {n \in HLanes : n % WBlock < Half}
HealthReading(S) == degraded <=> ~(HLive \subseteq S)

-----------------------------------------------------------------------------
(* classify_flaky.py                                                       *)

(* Mutant: blocks are counted whole, as an earlier version did. *)
WholeBlockVerdict(S) ==
  LET right(b) == Cardinality({n \in S : n \div WBlock = b})
  IN IF {right(b) : b \in 0 .. HN \div WBlock - 1} \in {{Half}, {WBlock}}
     THEN "healthy" ELSE "degraded"

(* health_verdict: the live half of every block is complete. *)
HealthVerdict(S) ==
  LET live(b) == Cardinality({n \in S : n \div WBlock = b /\ n % WBlock < Half})
  IN IF {live(b) : b \in 0 .. HN \div WBlock - 1} = {Half} THEN "healthy" ELSE "degraded"

Category(g, n) ==
  LET v == Val(caps[g + 1][n])
  IN IF v = 0 THEN "zero"
     ELSE IF v = Poison THEN "unwritten"
     ELSE IF v = Golden(tag, g, n) THEN "correct"
     ELSE IF \E h \in Gen \ {g} : v = Golden(tag, h, n) THEN "stale"
     ELSE "garbage"

Right(c) == Cardinality({n \in Lanes : Val(c[n]) = Golden(tag, 0, n)})

(* The warm-up test, from the first and the last dispatch of gen0. *)
WarmUp ==
  IF Right(last0) > Right(caps[1]) THEN "warm-up"
  ELSE IF Right(last0) = N /\ Right(caps[1]) = N THEN "clean" ELSE "real"

-----------------------------------------------------------------------------

FlakyInit ==
  /\ flakyPc = "emit" /\ tag = 0
  /\ degraded = FALSE /\ pre = "none" /\ post = "none"
  /\ buf = [n \in Lanes |-> Unwritten] /\ caps = << >> /\ last0 = << >>

(* probe_flaky.py.  The dense encoding draws values that may not fit and   *)
(* asserts that they do, so it may stop where the sparse one does not.     *)
Emit(k, dense) ==
  /\ flakyPc = "emit"
  /\ LET t == IF Fitted(k) > BMax THEN RoundDown(Fitted(k)) ELSE 0
     IN \/ Accepted(k, t) /\ flakyPc' = "ready" /\ tag' = t
        \/ (dense \/ ~Accepted(k, t)) /\ flakyPc' = "aborted" /\ tag' = 0
  /\ UNCHANGED <<degraded, pre, post, buf, caps, last0>>

(* Somebody else's shape failed, or the device was left to settle. *)
Disturb ==
  /\ flakyPc = "ready" /\ pre = "none"
  /\ degraded' = ~degraded
  /\ UNCHANGED <<flakyPc, tag, pre, post, buf, caps, last0>>

(* What a health run may be judged as, the device being as it is. *)
Verdicts == {HealthVerdict(S) : S \in {R \in SUBSET HLanes : HealthReading(R)}}

(* health_pre.  A degraded verdict voids what is measured next.            *)
HealthPre ==
  /\ flakyPc = "ready" /\ pre = "none"
  /\ pre' \in Verdicts
  /\ flakyPc' = IF pre' = "degraded" THEN "void" ELSE "ready"
  /\ UNCHANGED <<tag, degraded, post, buf, caps, last0>>

(* The next generation, into the buffer as the one before left it. *)
Dispatch ==
  /\ flakyPc = "ready" /\ Len(caps) < Gens
  /\ buf' \in Outcomes(buf, Len(caps))
  /\ caps' = Append(caps, buf')
  /\ degraded' \in {degraded, degraded \/ buf' # Written(buf, Len(caps), {}, buf)}
  /\ UNCHANGED <<flakyPc, tag, pre, post, last0>>

(* "RE-DISPATCH gen0 LAST": the procedure's warm-up test. *)
DispatchLast ==
  /\ flakyPc = "ready" /\ Len(caps) = Gens
  /\ buf' \in Outcomes(buf, 0)
  /\ last0' = buf'
  /\ flakyPc' = "measured"
  /\ degraded' \in {degraded, degraded \/ buf' # Written(buf, 0, {}, buf)}
  /\ UNCHANGED <<tag, pre, post, caps>>

HealthPost ==
  /\ flakyPc = "measured" /\ post = "none"
  /\ post' \in Verdicts
  /\ UNCHANGED <<flakyPc, tag, degraded, pre, buf, caps, last0>>

FlakyNext ==
  \/ \E k \in Ks, dense \in BOOLEAN : Emit(k, dense)
  \/ Disturb \/ HealthPre \/ Dispatch \/ DispatchLast \/ HealthPost

FlakySpec == FlakyInit /\ [][FlakyNext]_flakyVars

-----------------------------------------------------------------------------
(* Properties                                                              *)

(* What happened to a lane of generation g's capture. *)
Happened(g, n) ==
  LET o == caps[g + 1][n]
  IN IF o = Unwritten THEN "unwritten"
     ELSE IF o = Zero THEN "zero"
     ELSE IF o = Row(g, n) THEN "correct"
     ELSE IF o.lane = n THEN "stale"
     ELSE "garbage"

(* A lane is called what it is, from its value alone, by a kit whose stride*)
(* is at least N; and a failure the warm-up test calls real is one of the  *)
(* last dispatch, one it calls warm-up one of the first.  (Lines 82 and 85 *)
(* only ask for a stride beyond N / 2: with one below N, a row that lands a*)
(* stride's number of lanes away has the value of another generation and   *)
(* is called stale.)                                                       *)
VerdictTrue ==
  tag >= N =>
    /\ \A i \in DOMAIN caps, n \in Lanes : Category(i - 1, n) = Happened(i - 1, n)
    /\ flakyPc = "measured" =>
         /\ WarmUp = "real"    => \E n \in Lanes : last0[n] # Row(0, n)
         /\ WarmUp = "warm-up" => \E n \in Lanes : caps[1][n] # Row(0, n)

(* A health verdict says what the device is when the health kit runs on it,*)
(* whatever the dead lanes show: neither the half-kernel fault nor a dead  *)
(* lane that matches by chance makes a sound device degraded.  (It says    *)
(* nothing of what the generations dispatched between two verdicts make of *)
(* the device, nor of a reading without health_pre, which the classifier   *)
(* only warns of.  That a degraded device always shows a wrong live lane is*)
(* an assumption on the device.)                                           *)
HealthVerdictTrue ==
  [][ /\ pre' # pre   => (pre' = "degraded" <=> degraded)
      /\ post' # post => (post' = "degraded" <=> degraded) ]_flakyVars

=============================================================================
