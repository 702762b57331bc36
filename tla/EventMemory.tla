---------------------------- MODULE EventMemory -----------------------------
(***************************************************************************)
(* The event memory of app/event_memory.c behind the event FIFO of module  *)
(* EventQueue: a ring of records in external flash, written by             *)
(* event_task(), read back by the MEM command and, after a restart,        *)
(* scanned to find the write pointer and the next event count.             *)
(*                                                                         *)
(* Pointers count records, not bytes.  Writes go through the cache of the  *)
(* flash library (external) and succeed: mem is what storage_read_event()  *)
(* returns, flash what survives a power cut.  A record is an event of      *)
(* EventQueue; an erased record fails event_valid().                       *)
(***************************************************************************)
EXTENDS EventQueue, FiniteSetsExt

CONSTANT MemSize      \* STORAGE_EVENT_MEM_SPACE / _EVENT_MEM_SIZE

ASSUME MemSizeAssumption == MemSize \in Nat /\ MemSize >= 3

VARIABLES
  mem, flash,  \* the records: as read, as they survive a power cut
  ptr,         \* _event_memory_ptr
  newest,      \* history: serial of the event stored last, as mem has it
  kept,        \* history: the same, as flash has it
  booted       \* history: nothing was stored since the last restart

memory == <<mem, flash, ptr, newest, kept, booted>>
allvars == <<vars, memory>>

Records == 0 .. MemSize - 1
Erased == Blank

_ptr_inc(p) == IF p + 1 > MemSize - 1 THEN 0 ELSE p + 1

_ptr_dec(p) == IF p >= 1 THEN p - 1 ELSE MemSize - 1

\* Every record that was written is valid: ids and sources are members of
\* their enumerations and the clock (external) gives valid times.
event_valid(e) == e # Erased

\* The records event_memory_init() looks at: the last one is not among them.
Scanned == 0 .. MemSize - 2

\* The record of S with the largest count.
NewestIn(m, S) == CHOOSE i \in S : \A j \in S : m[j].cnt <= m[i].cnt

MutInit(m) ==
  LET holes  == {i \in Scanned : ~event_valid(m[i])}
      prefix == IF holes = {} THEN Scanned ELSE 0 .. Min(holes) - 1
      top    == IF prefix = {} THEN 0 ELSE m[NewestIn(m, prefix)].cnt
  IN [cnt |-> top,
      ptr |-> IF holes = {} THEN NewestIn(m, prefix) ELSE Min(holes)]

\* What event_memory_init() makes of the records m: it stops at the first
\* invalid one, or goes on behind the newest one.
event_memory_init(m) ==
  LET holes  == {i \in Scanned : ~event_valid(m[i])}
      prefix == IF holes = {} THEN Scanned ELSE 0 .. Min(holes) - 1
      top    == IF prefix = {} THEN 0 ELSE m[NewestIn(m, prefix)].cnt
  IN [cnt |-> top,
      ptr |-> IF holes = {} THEN _ptr_inc(NewestIn(m, prefix)) ELSE Min(holes)]

MutBackSlot(k) ==
  LET b[j \in 0 .. MemSize - 1] == IF j = 0 THEN ptr ELSE _ptr_dec(b[j - 1])
  IN b[k]

\* The slot event_memory_read() reaches for back_index k.
BackSlot(k) ==
  LET b[j \in 0 .. MemSize - 1] == _ptr_dec(IF j = 0 THEN ptr ELSE b[j - 1])
  IN b[k]

\* event_memory_read(): the loop ends after MemSize - 1 records.
event_memory_read(k) == IF k < MemSize - 1 THEN mem[BackSlot(k)] ELSE Erased

MemInit ==
  /\ Init
  /\ mem = [i \in Records |-> Erased] /\ flash = mem
  /\ ptr = 0 /\ newest = 0 /\ kept = 0 /\ booted = TRUE

-----------------------------------------------------------------------------
\* event_task() takes the oldest event and stores it.
event_memory_store ==
  /\ Take
  /\ ptr' = _ptr_inc(ptr)
  /\ mem' = [mem EXCEPT ![ptr] = cur']
  /\ newest' = cur'.n
  /\ booted' = FALSE
  /\ UNCHANGED <<flash, kept>>

\* The flash library writes its cache back: storage_maintenance() and the
\* storage_flush_cache() of a commanded reset.
storage_maintenance ==
  /\ flash # mem
  /\ flash' = mem /\ kept' = newest
  /\ UNCHANGED <<vars, mem, ptr, newest, booted>>

\* A power cut or a reset, and event_memory_init() at the next start, which
\* also gives event.c its count; what is in the FIFO is lost.
Restart ==
  /\ mem' = flash /\ UNCHANGED <<flash, kept>>
  /\ ptr' = event_memory_init(flash).ptr
  /\ cnt' = event_memory_init(flash).cnt
  /\ newest' = kept /\ booted' = TRUE
  /\ buf' = [s \in Slots |-> Blank] /\ wr' = 0 /\ rd' = 0
  /\ pc' = [p \in Producers |-> "idle"]
  /\ loc' = [p \in Producers |-> [ptr |-> 0, cnt |-> 0, n |-> 0]]
  /\ busy' = FALSE /\ cur' = Blank
  /\ alone' = {} /\ passed' = {} /\ due' = {}
  /\ UNCHANGED <<calls, raced>>

MemNext ==
  \/ (Advance \/ \E p \in Producers : event_create(p)) /\ UNCHANGED memory
  \/ event_memory_store \/ storage_maintenance \/ Restart

MemSpec == MemInit /\ [][MemNext]_allvars

\* As in EventQueue; the unit is not restarted for ever.
MemFairSpec ==
  /\ MemSpec
  /\ WF_allvars(event_memory_store \/ (Advance /\ UNCHANGED memory))
  /\ \A p \in Producers :
       WF_allvars((LoadCnt(p) \/ Fill(p) \/ Publish(p)) /\ UNCHANGED memory)

-----------------------------------------------------------------------------
\* Type invariant.  It includes OS_ASSERT(ptr <= SPACE - _EVENT_MEM_SIZE).
MemTypeOK ==
  /\ TypeOK
  /\ mem \in [Records -> Event] /\ flash \in [Records -> Event]
  /\ ptr \in Records
  /\ newest \in Nat /\ kept \in Nat /\ booted \in BOOLEAN

\* As long as no two calls of event_create() have overlapped (then two events
\* may carry the same count), reading back with event_memory_read() goes back
\* in time, record by record, however often the unit was restarted, whatever
\* the cache had not written back and although the FIFO was overrun: neither
\* the count nor the age of the records goes up, up to the first invalid
\* record, where the MEM command stops.
NewestFirst ==
  ~raced =>
    \A k \in 0 .. MemSize - 3 :
      (\A j \in 0 .. k + 1 : event_valid(event_memory_read(j)))
        => /\ event_memory_read(k).cnt > event_memory_read(k + 1).cnt
           /\ event_memory_read(k).n > event_memory_read(k + 1).n

\* As long as no two calls of event_create() have overlapped, the newest
\* record that reached the flash is the first one that is read back after a
\* restart, unless it lies in the last slot, which the scan of
\* event_memory_init() does not visit.
NewestFoundAgain ==
  (~raced /\ booted /\ kept > 0 /\ flash[MemSize - 1].n # kept)
    => event_memory_read(0).n = kept
=============================================================================
