---------------------------- MODULE EpisodicStore ----------------------------
(***************************************************************************)
(* reference/memory/episodic_store.py: episodes kept in two parallel       *)
(* arrays, the matrix of keys and the list of metadata, and saved as two   *)
(* files, keys.npy and store.json, in one directory.                       *)
(*                                                                         *)
(* An episode is named by the number of its add() call.  A key and a       *)
(* payload are named by the episode they were added with, so what a recall *)
(* ranks is arbitrary: any of the keys may be the nearest to a query.      *)
(* The program is one thread; save() takes several steps because it may    *)
(* raise, or the board may lose power, between two of them.  Nothing is    *)
(* synced: what was written is on the disk once the kernel has written it  *)
(* back, each file in its own time, and until then a power loss brings back*)
(* what the disk held before.                                              *)
(***************************************************************************)
EXTENDS Integers, Sequences, SequencesExt

CONSTANTS
  Capacity,      (* capacity of the store                                    *)
  Ks,            (* values of recall's k                                     *)
  DecayDays,     (* values of consolidate's decay_after_days, in clock units *)
  MaxAdds,       (* Bound: calls of add.                                     *)
  MaxHits,       (* Bound: recalls of one episode.                           *)
  MaxTime,       (* Bound: the clock.                                        *)
  MaxSaves       (* Bound: calls of save.                                    *)

ASSUME CapacityAssumption == Capacity \in Nat \ {0}

(* An age: what is younger than now is never cold. *)
ASSUME DecayAssumption == DecayDays \subseteq Nat

VARIABLES
  keys,          (* self.keys: keys[i] is the episode whose key row i is     *)
  meta,          (* self.meta: meta[i] has the episode ep of its payload     *)
  stage,         (* "idle", "down", or the step save() is at                 *)
  keysFile,      (* {v}: keys.npy reads as v; {}: it is missing or incomplete*)
  storeFile,     (* the same of store.json                                   *)
  keysDisk,      (* What the kernel has written back of keys.npy             *)
  storeDisk,     (* the same of store.json                                   *)
  clock,         (* time.time()                                              *)
  adds,          (* Calls of add so far.                                     *)
  saves,         (* Calls of save so far.                                    *)
  versions,      (* History: the stores that saves were given.               *)
  lastSave,      (* History: {v}: the last save returned, was given v, and   *)
                 (* no power loss came before it was written back.           *)
  mixed          (* History: the store was loaded from the files of two saves*)

memory  == <<keys, meta>>
files   == <<keysFile, storeFile>>
disk    == <<keysDisk, storeDisk>>
history == <<saves, versions, lastSave, mixed>>
storeVars == <<keys, meta, stage, keysFile, storeFile, keysDisk, storeDisk, clock,
               adds, saves, versions, lastSave, mixed>>

Episode == [ep : Nat, t : Nat, hits : Nat, used : Nat]

StoreInit ==
  /\ keys = << >> /\ meta = << >>
  /\ stage = "idle"
  /\ keysFile = {} /\ storeFile = {} /\ keysDisk = {} /\ storeDisk = {}
  /\ clock = 1
  /\ adds = 0 /\ saves = 0
  /\ versions = {} /\ lastSave = {} /\ mixed = FALSE

(* Mutant: of two equally cold episodes the later one goes. *)
ColderThanLast(i, j) ==
  \/ meta[i].hits < meta[j].hits
  \/ meta[i].hits = meta[j].hits /\ meta[i].used < meta[j].used
  \/ meta[i].hits = meta[j].hits /\ meta[i].used = meta[j].used /\ i > j

(* The order of _evict_one's min(): fewest hits, then oldest last use, then*)
(* the first in the list.                                                  *)
ColderThan(i, j) ==
  \/ meta[i].hits < meta[j].hits
  \/ meta[i].hits = meta[j].hits /\ meta[i].used < meta[j].used
  \/ meta[i].hits = meta[j].hits /\ meta[i].used = meta[j].used /\ i < j

Coldest == CHOOSE i \in DOMAIN meta : \A j \in DOMAIN meta \ {i} : ColderThan(i, j)

(* Mutant: the store grows one past its capacity. *)
FullLate == Len(meta) > Capacity

Full == Len(meta) >= Capacity

(* add(key, payload, t): the caller may date an episode back.  _evict_one  *)
(* raises, and nothing changes, if keys has no row for the one that goes.  *)
Add ==
  /\ stage = "idle" /\ adds < MaxAdds
  /\ Full => Coldest <= Len(keys)
  /\ \E t \in 1 .. clock :
       LET new == [ep |-> adds, t |-> t, hits |-> 0, used |-> 0]
       IN /\ keys' = Append(IF Full THEN RemoveAt(keys, Coldest) ELSE keys, adds)
          /\ meta' = Append(IF Full THEN RemoveAt(meta, Coldest) ELSE meta, new)
  /\ adds' = adds + 1
  /\ UNCHANGED <<stage, files, disk, clock, history>>

(* Mutant: last_used is not kept. *)
TouchHitsOnly(I) ==
  [i \in DOMAIN meta |-> IF i \in I THEN [meta[i] EXCEPT !.hits = @ + 1] ELSE meta[i]]

(* A recall counts as a reference. *)
Touch(I) ==
  [i \in DOMAIN meta |->
     IF i \in I THEN [meta[i] EXCEPT !.hits = @ + 1, !.used = clock] ELSE meta[i]]

(* recall(query, k): the k best rows of keys.  It raises at the first row  *)
(* that has no metadata, after it has counted some of the others.          *)
Recall ==
  /\ stage = "idle" /\ meta # << >>
  /\ \E k \in Ks, I \in SUBSET (DOMAIN keys) :
       /\ Cardinality(I) = IF k < Len(keys) THEN k ELSE Len(keys)
       /\ \E T \in SUBSET (I \cap DOMAIN meta) :
            /\ I \subseteq DOMAIN meta => T = I
            /\ \A i \in T : meta[i].hits < MaxHits
            /\ meta' = Touch(T)
  /\ UNCHANGED <<keys, stage, files, disk, clock, adds, history>>

Cold(m, cutoff) == m.hits = 0 /\ m.t < cutoff

(* The indices of the episodes that stay, in order. *)
Stays(cutoff) == {i \in DOMAIN meta : ~Cold(meta[i], cutoff)}
InOrder(S)    == {f \in [1 .. Cardinality(S) -> S] :
                    /\ \A m, n \in DOMAIN f : m < n => f[m] < f[n]
                    /\ \A i \in S : \E n \in DOMAIN f : f[n] = i}

(* Mutant: the list is filtered and the matrix is cut to its length. *)
ConsolidateCut(d) ==
  /\ stage = "idle"
  /\ \E kept \in InOrder(Stays(clock - d)) :
       /\ Len(kept) <= Len(keys)
       /\ meta' = [n \in DOMAIN kept |-> meta[kept[n]]]
       /\ keys' = SubSeq(keys, 1, Len(kept))
  /\ UNCHANGED <<stage, files, disk, clock, adds, history>>

(* consolidate(decay_after_days): nothing changes if keys has no row for   *)
(* an episode that stays (it raises).  semantic_fold only reads.           *)
Consolidate(d) ==
  /\ stage = "idle"
  /\ \E kept \in InOrder(Stays(clock - d)) :
       /\ \A n \in DOMAIN kept : kept[n] \in DOMAIN keys
       /\ meta' = [n \in DOMAIN kept |-> meta[kept[n]]]
       /\ keys' = [n \in DOMAIN kept |-> keys[kept[n]]]
  /\ UNCHANGED <<stage, files, disk, clock, adds, history>>

-----------------------------------------------------------------------------
(* save(path): np.save and write_text each truncate their file and write it*)

(* The save that a file is of; 0 if the store itself was a mixed one.      *)
Tag == IF mixed THEN 0 ELSE saves

SaveKeys ==
  /\ stage = "idle" /\ saves < MaxSaves
  /\ stage' = "keys"
  /\ keysFile' = {}
  /\ saves' = saves + 1
  /\ versions' = versions \cup {memory}
  /\ lastSave' = {}
  /\ UNCHANGED <<memory, storeFile, disk, clock, adds, mixed>>

KeysSaved ==
  /\ stage = "keys"
  /\ stage' = "dumps"
  /\ keysFile' = {[by |-> Tag, val |-> keys]}
  /\ UNCHANGED <<memory, storeFile, disk, clock, adds, history>>

(* json.dumps has returned. *)
SaveStore ==
  /\ stage = "dumps"
  /\ stage' = "store"
  /\ storeFile' = {}
  /\ UNCHANGED <<memory, keysFile, disk, clock, adds, history>>

StoreSaved ==
  /\ stage = "store"
  /\ stage' = "idle"
  /\ storeFile' = {[by |-> Tag, val |-> meta]}
  /\ lastSave' = {memory}
  /\ UNCHANGED <<memory, keysFile, disk, clock, adds, saves, versions, mixed>>

(* The disk is full, or a payload is not JSON: save() raises where it is.  *)
SaveRaises ==
  /\ stage \in {"keys", "dumps", "store"}
  /\ stage' = "idle"
  /\ UNCHANGED <<memory, files, disk, clock, adds, history>>

(* The kernel writes a file back in its own time, whatever is in it. *)
WriteBack ==
  /\ \/ keysDisk' = keysFile /\ UNCHANGED storeDisk
     \/ storeDisk' = storeFile /\ UNCHANGED keysDisk
  /\ UNCHANGED <<memory, stage, files, clock, adds, history>>

Down ==
  /\ stage # "down"
  /\ stage' = "down"
  /\ keys' = << >> /\ meta' = << >>
  /\ mixed' = FALSE
  /\ UNCHANGED <<disk, clock, adds, saves, versions>>

(* The process is killed; the kernel keeps what was written. *)
ProcessEnds == Down /\ UNCHANGED <<files, lastSave>>

PowerLoss ==
  /\ Down
  /\ keysFile' = keysDisk /\ storeFile' = storeDisk
  /\ lastSave' = IF files = disk THEN lastSave ELSE {}

(* A new, empty store. *)
Start ==
  /\ stage = "down"
  /\ stage' = "idle"
  /\ UNCHANGED <<memory, files, disk, clock, adds, history>>

(* Mutant: the matrix in memory is kept. *)
LoadMetaOnly ==
  /\ stage \in {"idle", "down"}
  /\ \E k \in keysFile, m \in storeFile :
       /\ keys' = keys /\ meta' = m.val
       /\ mixed' = (k.by # m.by \/ k.by = 0)
  /\ stage' = "idle"
  /\ UNCHANGED <<files, disk, clock, adds, saves, versions, lastSave>>

(* load(path) replaces the store, or raises if a file cannot be read; the  *)
(* schema number is the only other thing it looks at.                      *)
Load ==
  /\ stage \in {"idle", "down"}
  /\ \E k \in keysFile, m \in storeFile :
       /\ keys' = k.val /\ meta' = m.val
       /\ mixed' = (k.by # m.by \/ k.by = 0)
  /\ stage' = "idle"
  /\ UNCHANGED <<files, disk, clock, adds, saves, versions, lastSave>>

Tick ==
  /\ clock < MaxTime
  /\ clock' = clock + 1
  /\ UNCHANGED <<memory, stage, files, disk, adds, history>>

Operate == Add \/ Recall \/ (\E d \in DecayDays : Consolidate(d))
Save    == SaveKeys \/ KeysSaved \/ SaveStore \/ StoreSaved
Fail    == SaveRaises \/ ProcessEnds \/ PowerLoss
StoreNext == Operate \/ Save \/ WriteBack \/ Fail \/ Start \/ Load \/ Tick

StoreSpec == StoreInit /\ [][StoreNext]_storeVars

-----------------------------------------------------------------------------
(* Properties                                                              *)

(* Types; the store never holds more than its capacity ("bounded").        *)
StoreTypeOK ==
  /\ keys \in Seq(Nat)
  /\ meta \in Seq(Episode) /\ Len(meta) <= Capacity
  /\ stage \in {"idle", "keys", "dumps", "store", "down"}
  /\ mixed \in BOOLEAN

Aligned(ks, ms) ==
  /\ Len(ks) = Len(ms)
  /\ \A i \in DOMAIN ms : ks[i] = ms[i].ep

(* The arrays stay parallel through every sequence of calls, saves,        *)
(* restarts and roll-backs, unless the store was loaded from the files of  *)
(* two saves: a recalled payload is the one that was added with the key    *)
(* the query matched.                                                      *)
Parallel == ~mixed => Aligned(keys, meta)

(* An episode the running store forgets was either never referenced and old*)
(* at a consolidation, or gave way to a new one and was the coldest: every *)
(* other episode had more hits, a later last use, or is younger.           *)
Warmer(m, e) ==
  \/ m.hits > e.hits
  \/ m.hits = e.hits /\ m.used > e.used
  \/ m.hits = e.hits /\ m.used = e.used /\ m.ep > e.ep

ForgetsColdest ==
  [][ Operate /\ ~mixed =>
        \A i \in DOMAIN meta :
          (\A j \in DOMAIN meta' : meta'[j].ep # meta[i].ep) =>
            \/ adds' = adds /\ meta[i].hits = 0 /\ meta[i].t < clock
            \/ /\ adds' = adds + 1 /\ Len(meta') = Capacity
               /\ \A j \in DOMAIN meta \ {i} : Warmer(meta[j], meta[i]) ]_storeVars

(* last_used, which eviction compares between episodes of equal hits, is   *)
(* the time of the last hit: an episode has one exactly if it was hit, and *)
(* none is later than the clock or earlier than the episode was stored.    *)
LastUseOfHits ==
  \A i \in DOMAIN meta :
    LET m == meta[i]
    IN /\ m.hits > 0 <=> m.used > 0
       /\ m.used <= clock /\ m.t <= clock
       /\ m.hits > 0 => m.used >= m.t

(* After a save has returned a load gives the store it was given, whatever *)
(* happened since and however earlier saves ended, until another save      *)
(* begins or the power goes before both files are written back; from then  *)
(* on a load from two files of one save still gives a store that a save    *)
(* was given.  (Without fsync this is all save can promise: after a power  *)
(* loss an older save may come back, or a file may be cut, or the two files*)
(* may be of two saves although both saves returned.)                      *)
RollsBack ==
  [][ Load => /\ ~mixed' => memory' \in versions
              /\ \A v \in lastSave : memory' = v ]_storeVars

(* "a versioned save so the whole store can roll back" (line 12): what load*)
(* returns is a store some save was given.  Violated: keys.npy may be newer*)
(* than store.json.                                                        *)
RollsBackWhole ==
  [][ Load => memory' \in versions ]_storeVars

(* "Decay is by AGE of last use" (line 66).  Violated: an episode that was *)
(* referenced once never decays.                                           *)
DecaysByLastUse ==
  [][ \A d \in DecayDays : Consolidate(d) =>
        \A i \in DOMAIN meta' :
          \/ meta'[i].used >= clock - d
          \/ meta'[i].t >= clock - d ]_storeVars

=============================================================================
