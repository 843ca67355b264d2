-------------------------- MODULE CartridgeRuntime --------------------------
(***************************************************************************)
(* reference/cartridges/hotswap.py: adapters on one resident base model,   *)
(* switched per request.                                                   *)
(*                                                                         *)
(* The PEFT model is external.  Loading the first adapter makes it active; *)
(* loading another does not.  Whether selecting an adapter turns disabled  *)
(* adapter layers on again is left open: it does in some of its versions.  *)
(***************************************************************************)
CONSTANT Cartridges   (* Names of cartridges                               *)

VARIABLES
  loaded,        (* _loaded, and the adapters the model has                  *)
  active,        (* The adapter selected, or NoCartridge                     *)
  disabled,      (* The adapter layers are off                               *)
  generic,       (* use_base_only was called since the model exists (history)*)
  answer         (* The last answer: cartridge asked for, and what answered  *)

cartVars == <<loaded, active, disabled, generic, answer>>

NoCartridge == "none"
Model == loaded # {}

CartInit ==
  /\ loaded = {} /\ active = NoCartridge /\ disabled = FALSE
  /\ generic = FALSE /\ answer = [asked |-> NoCartridge, from |-> NoCartridge]

LoadCartridge(n) ==
  /\ loaded' = loaded \cup {n}
  /\ active' = IF Model THEN active ELSE n
  /\ UNCHANGED <<disabled, generic, answer>>

(* Selecting fails before the first cartridge is loaded, and for a name    *)
(* that is not.                                                            *)
Selected(n) ==
  /\ n \in loaded
  /\ active' = n
  /\ disabled' \in {disabled, FALSE}

Use(n) == Selected(n) /\ UNCHANGED <<loaded, generic, answer>>

UseBaseOnly ==
  /\ disabled' = Model /\ generic' = Model
  /\ UNCHANGED <<loaded, active, answer>>

(* Mutant: the cartridge asked for is selected only when none is active.   *)
GenerateStale(c) ==
  /\ Model
  /\ IF c # NoCartridge /\ active = NoCartridge THEN Selected(c) ELSE UNCHANGED <<active, disabled>>
  /\ answer' = [asked |-> c, from |-> IF disabled' THEN "base" ELSE active']
  /\ UNCHANGED <<loaded, generic>>

Generate(c) ==
  /\ Model
  /\ IF c # NoCartridge THEN Selected(c) ELSE UNCHANGED <<active, disabled>>
  /\ answer' = [asked |-> c, from |-> IF disabled' THEN "base" ELSE active']
  /\ UNCHANGED <<loaded, generic>>

CartNext ==
  \/ \E n \in Cartridges : LoadCartridge(n) \/ Use(n)
  \/ UseBaseOnly
  \/ \E c \in Cartridges \cup {NoCartridge} : Generate(c)

CartSpec == CartInit /\ [][CartNext]_cartVars

-----------------------------------------------------------------------------
(* Properties                                                              *)

(* A request for a cartridge is never answered by another one, whatever was*)
(* loaded, used or asked for before, and by the bare base only once        *)
(* use_base_only was called.  (For what it is answered by then see         *)
(* AskedAnswers.)                                                          *)
NoOtherCartridge ==
  /\ answer.asked # NoCartridge =>
       answer.from = answer.asked \/ (generic /\ answer.from = "base")
  /\ answer.from # NoCartridge => answer.from \in loaded \cup {"base"}

(* "switch between them per request" (line 13), "Switch the active         *)
(* cartridge" (line 39): the cartridge a request asks for answers it.      *)
(* Violated: nothing turns the layers that use_base_only disables on again,*)
(* where selecting an adapter does not.                                    *)
AskedAnswers == answer.asked # NoCartridge => answer.from = answer.asked

=============================================================================
