----------------------------- MODULE NpuHookGem -----------------------------
(***************************************************************************)
(* The table of GEM buffers that tools/tracing/npu_hook.c keeps, indexed by*)
(* DRM handle and filled from the ioctls and mmaps it sees.  It is never   *)
(* cleared: a destroyed buffer leaves a stale entry behind until its handle*)
(* is used again, and then some fields of the entry are still the old ones.*)
(*                                                                         *)
(* The driver and the traced program are the environment: the DRM core     *)
(* gives a new buffer the lowest free handle of the file, and two buffers  *)
(* that exist together share no kernel address, IOVA or mmap offset.  The  *)
(* program does not unmap or destroy a buffer that a hooked call of its    *)
(* own is still about.  Addresses count in pages.                          *)
(*                                                                         *)
(* The hook has no lock.  MEM_CREATE returns from the driver before it is  *)
(* recorded, and the SUBMIT handler and the mmap hook test an entry in one *)
(* step and store its user address in a later one: a thread's program      *)
(* counter names its next access to the shared tables.  A loop that only   *)
(* reads, the kernel's copy of one line of /proc/self/maps and the stores  *)
(* of one ioctl into its entry are a step each.                            *)
(***************************************************************************)
EXTENDS Integers

CONSTANTS
  Threads,       (* Threads that submit or map at a time.                    *)
  MaxGems,       (* MAX_GEM_HANDLES                                          *)
  MaxVmas,       (* MAX_VMAS                                                 *)
  Big,           (* Pages from which on the mmap hook takes note (1 MiB).    *)
  MaxHandle,     (* Bound: handles in use.                                   *)
  Pages,         (* Bound: pages of IOVA space.                              *)
  Objs, Offsets, Addrs,  (* Kernel addresses, mmap offsets and user addresses*)
  None,          (* The zero of those.                                       *)
  MaxCreates     (* Bound: buffers created.                                  *)

ASSUME GemAssumption ==
  /\ MaxGems \in Nat /\ MaxVmas \in Nat /\ Big \in Nat
  /\ MaxHandle \in Nat /\ Pages \in Nat /\ MaxCreates \in Nat
  /\ None \notin Objs /\ None \notin Offsets /\ None \notin Addrs
  /\ Addrs \subseteq Nat

VARIABLES
  gems,          (* _gems                                                    *)
  vmas,          (* _gem_vmas                                                *)
  count,         (* _gem_vma_count                                           *)
  scanned,       (* _maps_scanned                                            *)
  buffer,        (* Driver: the buffer behind each handle, or none           *)
  map,           (* Driver: where the program has mapped each of them        *)
  fresh,         (* Handles whose MEM_CREATE the hook has yet to record      *)
  located,       (* Handles whose MEM_MAP the hook has recorded              *)
  creates,       (* Buffers created so far                                   *)
  pc,            (* Where each thread is in the SUBMIT handler or mmap hook  *)
  named,         (* The buffer the call is about, 0 for none                 *)
  idx,           (* The index it works on, of _gems or, scanning, _gem_vmas  *)
  line,          (* The line of the maps it has read or chosen               *)
  raced          (* History: entries an mmap recorded while another thread   *)
                 (* had tested them and not yet stored                       *)

hook   == <<gems, vmas, count, scanned>>
driver == <<buffer, map, fresh, located, creates>>
thread == <<pc, named, idx, line>>
vars   == <<hook, driver, thread, raced>>

Slots   == 1 .. MaxGems
Handles == 1 .. MaxHandle

Slot    == [obj : Objs \cup {None}, dma : Nat, size : Nat,
            off : Offsets \cup {None}, uva : Addrs \cup {None}]
Vma     == [start : Addrs \cup {None}, size : Nat]
NoVma   == [start |-> None, size |-> 0]
Buffer  == [obj : Objs, dma : 1 .. Pages, size : 1 .. Pages, off : Offsets]
NoBuffer == [obj |-> None, dma |-> 0, size |-> 0, off |-> None]
Places  == {"idle", "set", "lines", "bound", "append", "task", "test", "resolve",
            "store", "regs", "note", "record"}

Live    == {h \in Handles : buffer[h] # NoBuffer}
Mapped  == {h \in Live : map[h] # None}
Span(b) == b.dma .. b.dma + b.size - 1

(* Mutant: the table is searched from its end. *)
LastOf(S) == IF S = {} THEN 0 ELSE CHOOSE i \in S : \A j \in S : j <= i

(* The loops return the first entry that matches, 0 if none does. *)
FirstOf(S) == IF S = {} THEN 0 ELSE CHOOSE i \in S : \A j \in S : i <= j

ByObj(o)  == FirstOf({i \in Slots : gems[i].obj = o})
ByIova(p) == FirstOf({i \in Slots : gems[i].dma # 0 /\ p \in Span(gems[i])})

Init ==
  /\ gems = [i \in Slots |-> [obj |-> None, dma |-> 0, size |-> 0, off |-> None, uva |-> None]]
  /\ vmas = [n \in 1 .. MaxVmas |-> NoVma] /\ count = 0 /\ scanned = FALSE
  /\ buffer = [h \in Handles |-> NoBuffer]
  /\ map = [h \in Handles |-> None]
  /\ fresh = {} /\ located = {} /\ creates = 0
  /\ pc = [t \in Threads |-> "idle"]
  /\ named = [t \in Threads |-> 0]
  /\ idx = [t \in Threads |-> 0]
  /\ line = [t \in Threads |-> NoVma]
  /\ raced = {}

-----------------------------------------------------------------------------
(* The driver.                                                             *)

(* MEM_CREATE in the driver: b shares nothing with a buffer that exists.   *)
Distinct(b, c) == b.obj # c.obj /\ b.off # c.off /\ Span(b) \cap Span(c) = {}

DriverCreate ==
  /\ creates < MaxCreates
  /\ \E h \in Handles \ Live, b \in Buffer :
       /\ \A g \in Handles \ Live : h <= g
       /\ b.dma + b.size - 1 <= Pages
       /\ \A g \in Live : Distinct(b, buffer[g])
       /\ buffer' = [buffer EXCEPT ![h] = b]
       /\ fresh' = fresh \cup {h}
       /\ located' = located \ {h}
  /\ creates' = creates + 1
  /\ UNCHANGED <<hook, map, thread, raced>>

Held == {named[t] : t \in Threads}

Munmap(h) ==
  /\ map[h] # None /\ h \notin Held
  /\ map' = [map EXCEPT ![h] = None]
  /\ UNCHANGED <<hook, buffer, fresh, located, creates, thread, raced>>

(* MEM_DESTROY: the hook counts it and leaves its table alone. *)
MemDestroy(h) ==
  /\ h \in (Live \ fresh) \ Held /\ map[h] = None
  /\ buffer' = [buffer EXCEPT ![h] = NoBuffer]
  /\ UNCHANGED <<hook, map, fresh, located, creates, thread, raced>>

-----------------------------------------------------------------------------
(* The hook's records of the ioctls.                                       *)

(* After MEM_CREATE has returned: uva and mmap_offset keep their values. *)
MemCreate(h) ==
  /\ h \in fresh
  /\ gems' = IF h \in Slots
             THEN [gems EXCEPT ![h].obj  = buffer[h].obj,
                               ![h].dma  = buffer[h].dma,
                               ![h].size = buffer[h].size]
             ELSE gems
  /\ fresh' = fresh \ {h}
  /\ UNCHANGED <<vmas, count, scanned, buffer, map, located, creates, thread, raced>>

MemMap(h) ==
  /\ h \in Live \ fresh
  /\ gems' = IF h \in Slots THEN [gems EXCEPT ![h].off = buffer[h].off] ELSE gems
  /\ located' = located \cup {h}
  /\ UNCHANGED <<vmas, count, scanned, buffer, map, fresh, creates, thread, raced>>

-----------------------------------------------------------------------------
(* The accesses of a thread.                                               *)

Goto(t, from, to) == pc[t] = from /\ pc' = [pc EXCEPT ![t] = to]

(* The call returns to the program. *)
Return(t, from) ==
  /\ Goto(t, from, "idle")
  /\ named' = [named EXCEPT ![t] = 0]
  /\ idx' = [idx EXCEPT ![t] = 0]
  /\ line' = [line EXCEPT ![t] = NoVma]

StoreUva(i, a) == gems' = [gems EXCEPT ![i].uva = a]

(* mmap, and _log_mmap of a mapping that is big enough: its loop goes over *)
(* all entries.                                                            *)
Mmap(t, h) ==
  /\ h \in Live \cap located /\ map[h] = None
  /\ \E a \in Addrs :
       /\ \A g \in Handles : map[g] # a
       /\ map' = [map EXCEPT ![h] = a]
  /\ pc[t] = "idle"
  /\ IF buffer[h].size >= Big
     THEN /\ Goto(t, "idle", "note")
          /\ named' = [named EXCEPT ![t] = h]
          /\ idx' = [idx EXCEPT ![t] = 1]
     ELSE UNCHANGED <<pc, named, idx>>
  /\ UNCHANGED <<hook, buffer, fresh, located, creates, line, raced>>

Matches(i, h) == gems[i].off = buffer[h].off /\ gems[i].size = buffer[h].size

NoteTest(t) ==
  /\ pc[t] = "note"
  /\ \/ idx[t] > MaxGems /\ Return(t, "note")
     \/ /\ idx[t] <= MaxGems
        /\ IF Matches(idx[t], named[t])
           THEN Goto(t, "note", "record") /\ UNCHANGED idx
           ELSE Goto(t, "note", "note") /\ idx' = [idx EXCEPT ![t] = idx[t] + 1]
        /\ UNCHANGED <<named, line>>
  /\ UNCHANGED <<hook, driver, raced>>

(* A thread that has tested an entry and is to store its user address. *)
Pending(t) == pc[t] \in {"resolve", "store", "record"}

Witness(t) ==
  raced' = IF idx[t] # named[t] THEN raced
           ELSE IF \E u \in Threads \ {t} : Pending(u) /\ idx[u] = idx[t]
           THEN raced \cup {idx[t]} ELSE raced \ {idx[t]}

(* Mutant: an address that is known is kept, as the resolvers do. *)
NoteOnce(t) ==
  /\ Goto(t, "record", "note")
  /\ IF gems[idx[t]].uva = None THEN StoreUva(idx[t], map[named[t]]) ELSE UNCHANGED gems
  /\ idx' = [idx EXCEPT ![t] = idx[t] + 1]
  /\ Witness(t)
  /\ UNCHANGED <<vmas, count, scanned, driver, named, line>>

NoteStore(t) ==
  /\ Goto(t, "record", "note")
  /\ StoreUva(idx[t], map[named[t]])
  /\ idx' = [idx EXCEPT ![t] = idx[t] + 1]
  /\ Witness(t)
  /\ UNCHANGED <<vmas, count, scanned, driver, named, line>>

-----------------------------------------------------------------------------
(* SUBMIT, after the driver has returned: _scan_proc_maps reads the shared *)
(* mappings in the order of their addresses.                               *)

Submit(t) ==
  /\ Goto(t, "idle", IF scanned THEN "task" ELSE "set")
  /\ UNCHANGED <<hook, driver, named, idx, line, raced>>

(* The flag is set before the file is opened, and stays if that fails. *)
SetScanned(t) ==
  /\ Goto(t, "set", "lines") \/ Goto(t, "set", "task")
  /\ scanned' = TRUE
  /\ UNCHANGED <<gems, vmas, count, driver, named, idx, line, raced>>

Ahead(t) == {g \in Mapped : line[t] # NoVma => map[g] > line[t].start}

ReadLine(t) ==
  /\ \/ \E g \in Ahead(t) :
          /\ \A k \in Ahead(t) : map[g] <= map[k]
          /\ line' = [line EXCEPT ![t] = [start |-> map[g], size |-> buffer[g].size]]
          /\ Goto(t, "lines", "bound")
     \/ /\ Ahead(t) = {}
        /\ line' = [line EXCEPT ![t] = NoVma]
        /\ Goto(t, "lines", "task")
  /\ UNCHANGED <<hook, driver, named, idx, raced>>

(* Mutant: one line too many. *)
RoomForOneMore == count <= MaxVmas

Room == count < MaxVmas

(* In the documented build (gcc -O2) the count is loaded once for the test,*)
(* the index and the increment: two scans that overlap overwrite each      *)
(* other's lines and may set the count back.                               *)
TestBound(t) ==
  /\ IF Room THEN Goto(t, "bound", "append") /\ idx' = [idx EXCEPT ![t] = count]
             ELSE Goto(t, "bound", "lines") /\ UNCHANGED idx
  /\ UNCHANGED <<hook, driver, named, line, raced>>

Append(t) ==
  /\ Goto(t, "append", "lines")
  /\ vmas' = [vmas EXCEPT ![idx[t] + 1] = line[t]]
  /\ count' = idx[t] + 1
  /\ idx' = [idx EXCEPT ![t] = 0]
  /\ UNCHANGED <<gems, scanned, driver, named, line, raced>>

-----------------------------------------------------------------------------
(* SUBMIT, continued: the task buffer is found by its kernel address, the  *)
(* register commands by the IOVA read from the task, and an entry without  *)
(* a user address is given one from the scan.                              *)

(* The task buffer's entry; there may be no task, or no entry. *)
FindTask(t) ==
  /\ \/ Return(t, "task")
     \/ \E h \in Live \ fresh :
          /\ ByObj(buffer[h].obj) # 0
          /\ Goto(t, "task", "test")
          /\ named' = [named EXCEPT ![t] = h]
          /\ idx' = [idx EXCEPT ![t] = ByObj(buffer[h].obj)]
          /\ UNCHANGED line
  /\ UNCHANGED <<hook, driver, raced>>

(* Both resolvers begin so; the task's has a buffer that the call names. *)
TestUva(t) ==
  /\ pc[t] = "test"
  /\ IF gems[idx[t]].uva # None /\ named[t] = 0
     THEN Return(t, "test")
     ELSE /\ Goto(t, "test", IF gems[idx[t]].uva = None THEN "resolve" ELSE "regs")
          /\ UNCHANGED <<named, idx, line>>
  /\ UNCHANGED <<hook, driver, raced>>

SameSize(i) == {n \in 1 .. count : vmas[n].size = gems[i].size /\ gems[i].size # 0}

(* What a resolver may settle on, 0 for none: by size the first, for a task*)
(* the first that validates; the program's own task buffer does, what lies *)
(* anywhere else may.                                                      *)
Choices(t) ==
  IF named[t] = 0 THEN {FirstOf(SameSize(idx[t]))}
  ELSE {n \in {0} \cup SameSize(idx[t]) :
          \A m \in SameSize(idx[t]) : vmas[m].start = map[named[t]] => n # 0 /\ n <= m}

Resolve(t) ==
  /\ pc[t] = "resolve"
  /\ \E n \in Choices(t) :
       \/ /\ n # 0
          /\ Goto(t, "resolve", "store")
          /\ line' = [line EXCEPT ![t] = vmas[n]]
          /\ UNCHANGED <<named, idx>>
       \/ /\ n = 0
          /\ IF named[t] # 0 THEN Goto(t, "resolve", "regs") /\ UNCHANGED <<named, idx, line>>
                             ELSE Return(t, "resolve")
  /\ UNCHANGED <<hook, driver, raced>>

StoreResolved(t) ==
  /\ pc[t] = "store"
  /\ StoreUva(idx[t], line[t].start)
  /\ IF named[t] # 0 THEN /\ Goto(t, "store", "regs")
                          /\ line' = [line EXCEPT ![t] = NoVma]
                          /\ UNCHANGED <<named, idx>>
                     ELSE Return(t, "store")
  /\ UNCHANGED <<vmas, count, scanned, driver, raced>>

(* If the hook reads its task from elsewhere than the program wrote it, the*)
(* IOVA is anybody's; an entry that is being rewritten may match with      *)
(* fields of two buffers; a task beyond the end of its buffer is not read. *)
FindRegs(t) ==
  /\ pc[t] = "regs"
  /\ \/ Return(t, "regs")
     \/ /\ gems[idx[t]].uva # None
        /\ Goto(t, "regs", "test")
        /\ \E r \in IF gems[idx[t]].uva = map[named[t]]
                    THEN {ByIova(buffer[h].dma) : h \in Live \ fresh} \cup fresh
                    ELSE Slots :
             r \in Slots /\ idx' = [idx EXCEPT ![t] = r]
        /\ named' = [named EXCEPT ![t] = 0]
        /\ UNCHANGED line
  /\ UNCHANGED <<hook, driver, raced>>

Next ==
  \/ DriverCreate
  \/ \E h \in Handles : MemCreate(h) \/ MemMap(h) \/ Munmap(h) \/ MemDestroy(h)
  \/ \E t \in Threads :
       \/ \E h \in Handles : Mmap(t, h)
       \/ NoteTest(t) \/ NoteStore(t)
       \/ Submit(t) \/ SetScanned(t) \/ ReadLine(t) \/ TestBound(t) \/ Append(t)
       \/ FindTask(t) \/ TestUva(t) \/ Resolve(t) \/ StoreResolved(t) \/ FindRegs(t)

Spec == Init /\ [][Next]_vars

-----------------------------------------------------------------------------
(* Properties                                                              *)

(* The table of mappings stays within its bound, although threads that     *)
(* scan together append to it without a lock.                              *)
TypeOK ==
  /\ gems \in [Slots -> Slot]
  /\ vmas \in [1 .. MaxVmas -> Vma] /\ count \in 0 .. MaxVmas
  /\ scanned \in BOOLEAN
  /\ buffer \in [Handles -> Buffer \cup {NoBuffer}]
  /\ map \in [Handles -> Addrs \cup {None}]
  /\ fresh \subseteq Live /\ located \subseteq Handles
  /\ creates \in Nat
  /\ pc \in [Threads -> Places]
  /\ named \in [Threads -> Handles \cup {0}]
  /\ idx \in [Threads -> Nat]
  /\ line \in [Threads -> Vma]
  /\ raced \subseteq Slots

(* Although destroyed buffers stay in the table and addresses are used     *)
(* again, looking up an address of a buffer that exists finds its entry, or*)
(* nothing if its handle is beyond the table: never the entry of another   *)
(* buffer, unless that entry is about to be rewritten by a thread whose    *)
(* MEM_CREATE has just returned.                                           *)
Entry(h) == IF h \in Slots THEN h ELSE 0

LookupFindsLive ==
  \A h \in Live \ fresh :
    /\ \A p \in Span(buffer[h]) : ByIova(p) \in {Entry(h)} \cup fresh
    /\ ByObj(buffer[h].obj) \in {Entry(h)} \cup fresh

(* The mmap hook has yet to come to the entry of h. *)
Noting(h) == \E t \in Threads : pc[t] \in {"note", "record"} /\ named[t] = h /\ idx[t] <= h

(* Of a buffer that is mapped and big enough for the mmap hook the table   *)
(* has the right user address, whatever the entry held before: the one way *)
(* to spoil it is that the mmap came between another thread's test of the  *)
(* entry and that thread's store.                                          *)
BigUvaCurrent ==
  \A h \in ((Live \ fresh) \cap Slots) \ raced :
    map[h] # None /\ buffer[h].size >= Big /\ ~Noting(h) => gems[h].uva = map[h]

-----------------------------------------------------------------------------
(* Inductive strengthening.                                                *)

(* What a thread works on at each place. *)
Working ==
  \A t \in Threads :
    /\ pc[t] = "append" => idx[t] \in 0 .. MaxVmas - 1
    /\ pc[t] = "note" => idx[t] # 0
    /\ pc[t] \in {"test", "resolve", "store", "regs", "record"} => idx[t] \in Slots
    /\ pc[t] \in {"note", "record"} => named[t] \in Mapped \ fresh /\ named[t] \in located

(* Buffers that exist together share nothing. *)
Apart == \A g, h \in Live : g # h => Distinct(buffer[g], buffer[h])

(* A recorded buffer is in the table. *)
Recorded ==
  \A h \in (Live \ fresh) \cap Slots :
    /\ gems[h].obj = buffer[h].obj
    /\ gems[h].dma = buffer[h].dma
    /\ gems[h].size = buffer[h].size

(* What the entries before a buffer's own hold, live or stale, was created *)
(* after it or existed with it: the lowest free handle was its own.        *)
LowerApart ==
  \A h \in Live, j \in Slots :
    j < h /\ j \notin fresh =>
      /\ gems[j].obj # buffer[h].obj
      /\ Span(gems[j]) \cap Span(buffer[h]) = {}

(* A mapped buffer exists and its offset is in the table. *)
MapLocated ==
  /\ \A h \in Handles : map[h] # None => h \in (Live \ fresh) \cap located
  /\ \A h \in (Live \ fresh) \cap located \cap Slots : gems[h].off = buffer[h].off

(* Only a recorded buffer is located. *)
FreshUnlocated == fresh \cap located = {}

(* Nobody is about to store to an entry whose address is known to be right.*)
NoneToSpoil ==
  \A h \in ((Live \ fresh) \cap Slots) \ raced, t \in Threads :
    map[h] # None /\ buffer[h].size >= Big /\ ~Noting(h) => ~(Pending(t) /\ idx[t] = h)

GemInv == /\ Apart /\ Recorded /\ LowerApart /\ MapLocated /\ FreshUnlocated
          /\ BigUvaCurrent /\ NoneToSpoil /\ Working

=============================================================================
