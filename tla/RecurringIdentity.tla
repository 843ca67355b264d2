------------------------- MODULE RecurringIdentity -------------------------
(***************************************************************************)
(* reference/memory/recurring_identity.py: a signal is matched to the      *)
(* nearest centroid, folded into it when it is near enough, and opens a new*)
(* identity otherwise; an identity takes a label from ground truth.        *)
(*                                                                         *)
(* Signals are points of a circle, and the cosine their distance.  A fold  *)
(* of the n-th sighting moves the centroid towards the signal, by how far  *)
(* is left open.                                                           *)
(***************************************************************************)
EXTENDS Integers, Sequences, FiniteSets

CONSTANTS
  Circle,        (* Points of the circle                                     *)
  Near,          (* match_threshold, as a distance                           *)
  PromoteAfter,  (* promote_after                                            *)
  Truths,        (* Ground-truth labels                                      *)
  Sightings      (* Bound: signals observed                                  *)

NoName    == "None"
EmptyName == ""                  \* a label that is not None, and false

VARIABLES
  centroids, count, label,       (* by identity                              *)
  heard,         (* heard[i]: the ground truths given with i's sightings     *)
  view           (* The last result: identity and known                      *)

identVars == <<centroids, count, label, heard, view>>

Points == 0 .. Circle - 1
Dist(p, q) == LET d == (p - q) % Circle IN IF 2 * d > Circle THEN Circle - d ELSE d
Between(p, q) == {x \in Points : Dist(p, x) + Dist(x, q) = Dist(p, q)}

(* argmax: the nearest, the first of equals. *)
Best(p) ==
  CHOOSE i \in DOMAIN centroids : \A k \in DOMAIN centroids :
    \/ Dist(centroids[i], p) < Dist(centroids[k], p)
    \/ Dist(centroids[i], p) = Dist(centroids[k], p) /\ i <= k

Matches(p) == IF centroids = << >> THEN FALSE ELSE Dist(centroids[Best(p)], p) <= Near

IdentInit ==
  /\ centroids = << >> /\ count = << >> /\ label = << >> /\ heard = << >>
  /\ view = [id |-> 0, known |-> FALSE]

View(i) == view' = [id |-> i, known |-> count'[i] >= PromoteAfter \/ label'[i] # NoName]

New(p, t) ==
  /\ ~Matches(p)
  /\ centroids' = Append(centroids, p) /\ count' = Append(count, 1)
  /\ label' = Append(label, t) /\ heard' = Append(heard, <<t>>)
  /\ View(Len(count'))

(* Mutant: a later ground truth replaces the label. *)
LabelLatest(i, t) == IF t \notin {NoName, EmptyName} THEN t ELSE label[i]

LabelAfter(i, t) ==
  IF t \notin {NoName, EmptyName} /\ label[i] \in {NoName, EmptyName} THEN t ELSE label[i]

Fold(p, t) ==
  /\ Matches(p)
  /\ LET i == Best(p)
     IN /\ \E c \in Between(centroids[i], p) : centroids' = [centroids EXCEPT ![i] = c]
        /\ count' = [count EXCEPT ![i] = @ + 1]
        /\ label' = [label EXCEPT ![i] = LabelAfter(i, t)]
        /\ heard' = [heard EXCEPT ![i] = Append(@, t)]
        /\ View(i)

Observed == LET S[n \in 0 .. Len(count)] == IF n = 0 THEN 0 ELSE S[n - 1] + count[n]
        IN S[Len(count)]

IdentNext ==
  \E p \in Points, t \in Truths \cup {NoName, EmptyName} :
    Observed < Sightings /\ (New(p, t) \/ Fold(p, t))

IdentSpec == IdentInit /\ [][IdentNext]_identVars

-----------------------------------------------------------------------------
(* Properties                                                              *)

Named(h) == {k \in DOMAIN h : h[k] \notin {NoName, EmptyName}}

(* However identities drift and are promoted, an identity bears the first  *)
(* name ground truth gave it and no name that none of its own sightings    *)
(* had; an empty ground truth is no name, yet makes a new identity known.  *)
NameIsFirstTruth ==
  \A i \in DOMAIN label :
    /\ label[i] = IF Named(heard[i]) # {}
                  THEN heard[i][CHOOSE k \in Named(heard[i]) : \A m \in Named(heard[i]) : k <= m]
                  ELSE heard[i][1]
    /\ count[i] = Len(heard[i])

=============================================================================
