----------------------------- MODULE EventQueue -----------------------------
(***************************************************************************)
(* The primary event FIFO of app/event.c: a static ring that every task of *)
(* the firmware writes with event_create() and only task_app_slow drains,  *)
(* from event_task().  There is no lock: a producer loads _buf_wr_ptr, logs*)
(* and reads the clock, fills the slot and stores the incremented pointer, *)
(* and may be preempted between any two of these steps: two calls then     *)
(* fill the same slot, and a late store of _buf_wr_ptr sets it back, even  *)
(* behind the read pointer.                                                *)
(*                                                                         *)
(* An event is its serial number n (history: the n-th call) and the value  *)
(* cnt the code gives it; kind, source and time are left out.  The history *)
(* variables guard nothing.                                                *)
(***************************************************************************)
EXTENDS Naturals

CONSTANTS Producers,     \* the tasks that call event_create()
          Size,          \* _EVENT_BUF_SIZE
          MaxEvents      \* bound: calls of event_create()

ASSUME SizeAssumption      == Size \in Nat /\ Size >= 2
ASSUME MaxEventsAssumption == MaxEvents \in Nat

VARIABLES
  buf,        \* _event_buffer
  wr,         \* _buf_wr_ptr
  rd,         \* _buf_rd_ptr
  cnt,        \* _event_cnt
  pc,         \* where each producer is inside event_create_ext()
  loc,        \* its locals: ptr, the _event_cnt it loaded, its event's n
  busy,       \* event_task() is between taking an event and advancing rd
  cur,        \* the event as event_memory_store() saw it
  calls,      \* history: number of calls of event_create()
  alone,      \* history: the producer inside that no other call overlaps
  passed,     \* history: producers inside whose slot event_task() has passed
  raced,      \* history: two calls have overlapped
  due         \* history: events of calls that no other call overlapped, with
              \* their slots, accepted since the two pointers last met and
              \* not handed to system_event() yet

vars == <<buf, wr, rd, cnt, pc, loc, busy, cur, calls, alone, passed, raced,
          due>>

Slots == 0 .. Size - 1
Event == [n : Nat, cnt : Nat]
Blank == [n |-> 0, cnt |-> 0]           \* memset() of the buffer

\* if (++ptr == _EVENT_BUF_SIZE) ptr = 0;
Inc(p) == IF p + 1 = Size THEN 0 ELSE p + 1

\* How many places slot s lies behind the read pointer.
Behind(s) == IF s >= rd THEN s - rd ELSE s + Size - rd

\* The number of events between the two pointers, as event_task() sees it.
Waiting == Behind(wr)

Inside == {p \in Producers : pc[p] # "idle"}

Init ==
  /\ buf = [s \in Slots |-> Blank]
  /\ wr = 0 /\ rd = 0 /\ cnt = 0
  /\ pc = [p \in Producers |-> "idle"]
  /\ loc = [p \in Producers |-> [ptr |-> 0, cnt |-> 0, n |-> 0]]
  /\ busy = FALSE /\ cur = Blank
  /\ calls = 0 /\ alone = {} /\ passed = {} /\ raced = FALSE /\ due = {}

-----------------------------------------------------------------------------
\* The overflow test as -Os builds it: ++ptr is compared with the write
\* pointer it was loaded from.
Overflow(p) == Inc(p) = p

\* event_create_ext() loads _buf_wr_ptr and tests for overflow.
Claim(p) ==
  /\ pc[p] = "idle"
  /\ calls < MaxEvents
  /\ calls' = calls + 1
  /\ IF Overflow(wr)
       THEN UNCHANGED <<pc, loc, alone, raced>>
       ELSE /\ pc' = [pc EXCEPT ![p] = "claimed"]
            /\ loc' = [loc EXCEPT ![p] =
                          [ptr |-> wr, cnt |-> 0, n |-> calls + 1]]
            /\ alone' = IF Inside = {} THEN {p} ELSE {}
            /\ raced' = (raced \/ Inside # {})
  /\ UNCHANGED <<buf, wr, rd, cnt, busy, cur, passed, due>>

\* ++_event_cnt is a load, an addition and a store; this is the load.
LoadCnt(p) ==
  /\ pc[p] = "claimed"
  /\ pc' = [pc EXCEPT ![p] = "counted"]
  /\ loc' = [loc EXCEPT ![p].cnt = cnt + 1]
  /\ UNCHANGED <<buf, wr, rd, cnt, busy, cur, calls, alone, passed, raced, due>>

MutFillNext(p) ==
  /\ pc[p] = "counted"
  /\ pc' = [pc EXCEPT ![p] = "filled"]
  /\ cnt' = loc[p].cnt
  /\ buf' = [buf EXCEPT ![Inc(loc[p].ptr)] =
                           [n |-> loc[p].n, cnt |-> loc[p].cnt]]
  /\ UNCHANGED <<wr, rd, loc, busy, cur, calls, alone, passed, raced, due>>

\* The slot is filled through the pointer taken at the start of the call.
Fill(p) ==
  /\ pc[p] = "counted"
  /\ pc' = [pc EXCEPT ![p] = "filled"]
  /\ cnt' = loc[p].cnt
  /\ buf' = [buf EXCEPT ![loc[p].ptr] = [n |-> loc[p].n, cnt |-> loc[p].cnt]]
  /\ UNCHANGED <<wr, rd, loc, busy, cur, calls, alone, passed, raced, due>>

\* History: the store of p makes the two pointers meet.  The ring is full and
\* looks empty, or event_task() has passed the slot, or is just at it.
Meets(p) == \/ Inc(loc[p].ptr) = rd
            \/ p \in passed
            \/ busy /\ loc[p].ptr = rd

\* _buf_wr_ptr = ptr; return (true);
Publish(p) ==
  /\ pc[p] = "filled"
  /\ pc' = [pc EXCEPT ![p] = "idle"]
  /\ wr' = Inc(loc[p].ptr)
  /\ alone' = alone \ {p} /\ passed' = passed \ {p}
  /\ due' = IF Meets(p) THEN {}
            ELSE due \cup {[slot |-> loc[q].ptr,
                            ev |-> [n |-> loc[q].n, cnt |-> loc[q].cnt]] :
                             q \in alone \cap {p}}
  /\ UNCHANGED <<buf, rd, cnt, loc, busy, cur, calls, raced>>

-----------------------------------------------------------------------------
MutTakeAhead ==
  /\ ~busy
  /\ rd < wr
  /\ busy' = TRUE
  /\ cur' = buf[rd]
  /\ UNCHANGED <<buf, wr, rd, cnt, pc, loc, calls, alone, passed,
                 raced, due>>

\* One turn of the loop of event_task(): the test, event_memory_store(e)
\* and the hand-over to the SMS and CMS buffers ...
Take ==
  /\ ~busy
  /\ rd # wr
  /\ busy' = TRUE
  /\ cur' = buf[rd]
  /\ UNCHANGED <<buf, wr, rd, cnt, pc, loc, calls, alone, passed,
                 raced, due>>

\* ... then system_event(e->id), read from the slot again, and the store of
\* the incremented read pointer.
Advance ==
  /\ busy
  /\ busy' = FALSE
  /\ rd' = Inc(rd)
  /\ passed' = passed \cup {p \in Inside : loc[p].ptr = rd}
  /\ due' = {d \in due : d.slot # rd}
  /\ UNCHANGED <<buf, wr, cnt, pc, loc, cur, calls, alone, raced>>

event_create(p) == Claim(p) \/ LoadCnt(p) \/ Fill(p) \/ Publish(p)
event_task == Take \/ Advance

Next == event_task \/ \E p \in Producers : event_create(p)

\* task_app_slow calls event_task() every 10 ms, and a producer that is
\* inside event_create() is a ready task: neither is ever starved.
Fairness ==
  /\ WF_vars(event_task)
  /\ \A p \in Producers : WF_vars(LoadCnt(p) \/ Fill(p) \/ Publish(p))

Spec == Init /\ [][Next]_vars
FairSpec == Spec /\ Fairness

-----------------------------------------------------------------------------
\* Type invariant.  It includes OS_ASSERT(_buf_wr_ptr < _EVENT_BUF_SIZE) and
\* OS_ASSERT(_buf_rd_ptr < _EVENT_BUF_SIZE) of event_task().
TypeOK ==
  /\ buf \in [Slots -> Event]
  /\ wr \in Slots /\ rd \in Slots /\ cnt \in Nat
  /\ pc \in [Producers -> {"idle", "claimed", "counted", "filled"}]
  /\ loc \in [Producers -> [ptr : Slots, cnt : Nat, n : Nat]]
  /\ busy \in BOOLEAN /\ cur \in Event
  /\ calls \in Nat
  /\ alone \subseteq Producers /\ passed \subseteq Producers
  /\ raced \in BOOLEAN
  /\ due \subseteq [slot : Slots, ev : Event]

\* What event_create() promises a task although no lock keeps the others out:
\* an event accepted by a call that no other call overlapped lies unchanged
\* between the two pointers, behind the ones accepted before it, until
\* event_task() hands it over, and what was stored in the event memory at the
\* start of a turn is what system_event() reacts to at its end.  It is taken
\* away only when the pointers meet: the ring is overrun, or an overlapping
\* call sets the write pointer back.
AloneInOrder ==
  /\ \A d \in due : Behind(d.slot) < Waiting /\ buf[d.slot] = d.ev
  /\ \A d, e \in due : d.ev.n < e.ev.n => Behind(d.slot) < Behind(e.slot)
  /\ \A d \in due : busy /\ d.slot = rd => cur = d.ev

\* Whatever overlapping calls do to the two pointers, event_task() always
\* comes to an end of the ring again, and then owes no event.
AllProcessed == []<>(~busy /\ rd = wr /\ due = {})
=============================================================================
