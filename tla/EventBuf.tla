------------------------------ MODULE EventBuf ------------------------------
(***************************************************************************)
(* The doubly linked list of app/event_buf.c, in its use as sms_buf of     *)
(* app/event.c: event_task() (task_app_slow) adds events, and              *)
(* event_comm_task() (task_app_comm) collects those of one user, pauses    *)
(* for two seconds to collect more, and removes them when the SMS is sent. *)
(* There is no lock.  A call is cut where it logs, for that is where the   *)
(* tasks change: event_buf_add_event() between finding a slot and filling  *)
(* it, event_buf_done_events() before every record it deletes.             *)
(*                                                                         *)
(* All events have EVENT_PRIO_STD, the only priority that is ever passed,  *)
(* so a full buffer replaces the first record.  Flags: "free" is 0,        *)
(* "active" USED | ACTIVE, "processing" the same with PROCESSING; ZOMBIE   *)
(* is set for the CMS buffer only.                                         *)
(***************************************************************************)
EXTENDS Naturals, FiniteSets, Sequences

CONSTANTS
  Size,        \* SMS_BUF_SIZE
  Users,       \* the users an event may be reported to
  MaxEvents,   \* bound: events added
  Failures,    \* what may fail: "memory" for the text, "send"ing the SMS
  Nil, NoUser  \* EVENT_BUF_INDEX_NIL, EVENT_USER_NONE

Slots == 0 .. Size - 1

ASSUME SizeAssumption == Size \in Nat \ {0}
ASSUME MaxEventsAssumption == MaxEvents \in Nat
ASSUME FailuresAssumption == Failures \subseteq {"memory", "send"}
ASSUME NilAssumption == Nil \notin Slots /\ NoUser \notin Users

VARIABLES
  item,              \* buf->items
  start, last, test, \* buf->start_index, last_index, test_index
  wr,                \* event_buf_add_event(): wr_index, Nil outside the call
  evict,             \* ... was it found by _buf_replace_prio()?
  cpc,               \* event_comm_task(): "idle", "collect", "sent", "done"
  user,              \* its local user
  at,                \* event_buf_done_events(): buf_index, Nil outside it
  serial,            \* history: events added
  torn               \* history: was a record linked into a list that the
                     \* comm task emptied after the slot had been found?

list == <<item, start, last>>
vars == <<item, start, last, test, wr, evict, cpc, user, at, serial, torn>>

\* event_buf_init(); test_index = 0xFF becomes 0 when it is incremented.
Init ==
  /\ item = [i \in Slots |-> [flag |-> "free", next |-> Nil, prev |-> Nil,
                              n |-> 0, user |-> NoUser]]
  /\ start = 0 /\ last = Nil /\ test = Size - 1
  /\ wr = Nil /\ evict = FALSE
  /\ cpc = "idle" /\ user = NoUser /\ at = Nil
  /\ serial = 0 /\ torn = FALSE

-----------------------------------------------------------------------------
(* Operators on a list b = [item, start, last]. *)

List == [item |-> item, start |-> start, last |-> last]

Becomes(b) == item' = b.item /\ start' = b.start /\ last' = b.last

\* The walk along next_index that every loop of event_buf.c makes, from
\* start_index: the k-th slot, Nil behind the end.
WalkFrom(b, i) ==
  LET w[k \in Slots] ==
        IF k = 0 THEN i
        ELSE IF w[k - 1] = Nil THEN Nil ELSE b.item[w[k - 1]].next
  IN w

Walk(b) == WalkFrom(b, b.start)

Used(b) == {i \in Slots : b.item[i].flag # "free"}

MutDelete(b, i) ==
  LET x == b.item[i]
      cleared == [b.item EXCEPT ![i].flag = "free"]
  IN CASE x.flag = "free" -> b
       [] x.flag # "free" /\ i # b.start ->
            [b EXCEPT !.item = [cleared EXCEPT ![x.prev].next = x.next],
                      !.last = IF b.last = i THEN x.prev ELSE b.last]
       [] x.flag # "free" /\ i = b.start /\ i # b.last ->
            [b EXCEPT !.item = [cleared EXCEPT ![x.next].prev = Nil],
                      !.start = x.next]
       [] x.flag # "free" /\ i = b.start /\ i = b.last ->
            [b EXCEPT !.item = cleared, !.last = Nil]

\* _delete_item() of slot i.
Delete(b, i) ==
  LET x == b.item[i]
      cleared == [b.item EXCEPT ![i].flag = "free"]
  IN CASE x.flag = "free" -> b
       [] x.flag # "free" /\ i # b.start ->
            [b EXCEPT !.item = IF b.last = i
                                 THEN [cleared EXCEPT ![x.prev].next = x.next]
                                 ELSE [cleared EXCEPT ![x.prev].next = x.next,
                                                      ![x.next].prev = x.prev],
                      !.last = IF b.last = i THEN x.prev ELSE b.last]
       [] x.flag # "free" /\ i = b.start /\ i # b.last ->
            [b EXCEPT !.item = [cleared EXCEPT ![x.next].prev = Nil],
                      !.start = x.next]
       [] x.flag # "free" /\ i = b.start /\ i = b.last ->
            [b EXCEPT !.item = cleared, !.last = Nil]

\* "add to chain": the record in slot i becomes the last one.
Link(b, i, new) ==
  [item |-> IF b.last = Nil THEN [b.item EXCEPT ![i] = new]
            ELSE [b.item EXCEPT ![b.last].next = i, ![i] = new],
   start |-> b.start, last |-> i]

\* The next record of the message from slot i on, Nil if there is none.  The
\* number of turns, buf->size, is never the reason to stop: whatever is added
\* meanwhile is behind and not in the message.
Hit(b, i) ==
  LET hits == {k \in Slots : /\ WalkFrom(b, i)[k] # Nil
                             /\ b.item[WalkFrom(b, i)[k]].flag = "processing"}
  IN IF hits = {} THEN Nil
     ELSE WalkFrom(b, i)[CHOOSE k \in hits : \A j \in hits : k <= j]

-----------------------------------------------------------------------------
(* event_buf_add_event(), called by event_task(). *)

\* _buf_find_free(): the slots are tried in turn, after the one tried last.
Turn(k) == (test + k) % Size

FreeTurns == {k \in 1 .. Size : item[Turn(k)].flag = "free"}

\* All records have one priority: the oldest is replaced.
_buf_replace_prio == start

\* A slot is found: the first one of an empty buffer, a free one, or the
\* first record of a full buffer.
AddFind ==
  /\ wr = Nil /\ serial < MaxEvents
  /\ serial' = serial + 1
  /\ \/ last = Nil /\ wr' = start /\ evict' = FALSE /\ UNCHANGED test
     \/ /\ last # Nil /\ FreeTurns # {}
        /\ test' = Turn(CHOOSE k \in FreeTurns : \A j \in FreeTurns : k <= j)
        /\ wr' = test' /\ evict' = FALSE
     \/ /\ last # Nil /\ FreeTurns = {}
        /\ wr' = _buf_replace_prio /\ evict' = TRUE
        /\ UNCHANGED test
  /\ UNCHANGED <<list, cpc, user, at, torn>>

\* A replaced record is deleted; the new one is filled and becomes the last.
\* start_index is right only if the list is as empty, or as full, as it was.
AddLink(u) ==
  /\ wr # Nil
  /\ LET b == IF evict THEN Delete(List, wr) ELSE List
         new == [flag |-> "active", next |-> Nil, prev |-> b.last,
                 n |-> serial, user |-> u]
     IN /\ Becomes(Link(b, wr, new))
        /\ torn' = (torn \/ (b.last = Nil /\ b.start # wr))
  /\ wr' = Nil
  /\ UNCHANGED <<test, evict, cpc, user, at, serial>>

-----------------------------------------------------------------------------
(* event_comm_task() *)

MutMatches(i, u) == i # Nil /\ item[i].flag = "active"

\* A record event_buf_get_event() accepts for the user asked for.
Matches(i, u) ==
  i # Nil /\ item[i].flag = "active" /\ (u = NoUser \/ item[i].user = u)

\* event_buf_get_event(): the first such record.
Got(u, i) ==
  \E k \in Slots : /\ i = Walk(List)[k] /\ Matches(i, u)
                   /\ \A j \in 0 .. k - 1 : ~Matches(Walk(List)[j], u)

\* The first event decides who the message is for.
GetFirst ==
  /\ cpc = "idle"
  /\ \E i \in Slots :
       /\ Got(NoUser, i)
       /\ item' = [item EXCEPT ![i].flag = "processing"]
       /\ user' = item[i].user
  /\ cpc' = "collect"
  /\ UNCHANGED <<start, last, test, wr, evict, at, serial, torn>>

\* buf_init() of the text fails: the first event stays marked.
NoMemory ==
  /\ "memory" \in Failures
  /\ cpc = "collect"
  /\ cpc' = "idle"
  /\ UNCHANGED <<list, test, wr, evict, user, at, serial, torn>>

\* After OS_DELAY(2000): the loop over the other events of that user.
GetMore ==
  /\ cpc = "collect"
  /\ \E i \in Slots :
       /\ Got(user, i)
       /\ item' = [item EXCEPT ![i].flag = "processing"]
  /\ UNCHANGED <<start, last, test, wr, evict, cpc, user, at, serial, torn>>

MutSmsSend ==
  /\ cpc = "collect"
  /\ \A i \in Slots : ~Got(NoUser, i)
  /\ cpc' = "sent" /\ at' = start
  /\ UNCHANGED <<list, test, wr, evict, user, serial, torn>>

\* No more events: sms_send_to_user() returns true, and
\* event_buf_done_events(true) sets out from start_index ...
SmsSend ==
  /\ cpc = "collect"
  /\ \A i \in Slots : ~Got(user, i)
  /\ cpc' = "sent" /\ at' = start
  /\ UNCHANGED <<list, test, wr, evict, user, serial, torn>>

\* ... or false, and the events stay marked.
SmsFails ==
  /\ "send" \in Failures
  /\ cpc = "collect"
  /\ \A i \in Slots : ~Got(user, i)
  /\ cpc' = "idle"
  /\ UNCHANGED <<list, test, wr, evict, user, at, serial, torn>>

\* event_buf_done_events() stands at record i, or has ended.
GoesOn(i) == at' = i /\ cpc' = IF i = Nil THEN "idle" ELSE "done"

\* The first record of the delivered message, from the slot that was the
\* first of the list: if a new event is in that slot now, there is none.
DoneBegin ==
  /\ cpc = "sent"
  /\ GoesOn(Hit(List, at))
  /\ UNCHANGED <<list, test, wr, evict, user, serial, torn>>

\* The record it stands at is deleted, whatever it is by now, and the walk goes
\* on from its next_index.
DoneNext ==
  /\ cpc = "done"
  /\ LET b == Delete(List, at)
     IN Becomes(b) /\ GoesOn(Hit(b, b.item[at].next))
  /\ UNCHANGED <<test, wr, evict, user, serial, torn>>

event_buf_done_events == DoneBegin \/ DoneNext

event_buf_add_event == AddFind \/ \E u \in Users : AddLink(u)

event_comm_task ==
  \/ GetFirst \/ NoMemory \/ GetMore
  \/ SmsSend \/ SmsFails \/ event_buf_done_events

Next == event_buf_add_event \/ event_comm_task

\* Both tasks are periodic; events need not come, and an SMS that can be sent
\* may still fail.
Fairness ==
  /\ WF_vars(\E u \in Users : AddLink(u))
  /\ WF_vars(GetFirst \/ GetMore \/ SmsSend \/ event_buf_done_events)

Spec == Init /\ [][Next]_vars
FairSpec == Spec /\ Fairness

-----------------------------------------------------------------------------
\* Type invariant.
TypeOK ==
  /\ item \in [Slots -> [flag : {"free", "active", "processing"},
                         next : Slots \cup {Nil}, prev : Slots \cup {Nil},
                         n : Nat, user : Users \cup {NoUser}]]
  /\ start \in Slots \cup {Nil} /\ last \in Slots \cup {Nil} /\ test \in Slots
  /\ wr \in Slots \cup {Nil} /\ evict \in BOOLEAN
  /\ cpc \in {"idle", "collect", "sent", "done"}
  /\ user \in Users \cup {NoUser} /\ at \in Slots \cup {Nil}
  /\ serial \in Nat /\ torn \in BOOLEAN

\* event_buf.c 193, "new event is always the last": every record in use is on
\* the chain from start_index, the chain is linked both ways, and it ends at
\* last_index.  The OS_ASSERTs of _delete_item() follow.  It holds whatever the
\* two tasks do to the list between the steps of each other, with one
\* exception: the comm task deletes the last record while the other task
\* holds a slot that is not the first one of the list.
Chained ==
  ~torn =>
    /\ start \in Slots
    /\ IF last = Nil THEN Used(List) = {}
       ELSE /\ Used(List) = {Walk(List)[k] : k \in Slots} \ {Nil}
            /\ item[start].prev = Nil /\ item[last].next = Nil
            /\ \A i \in Used(List) \ {last} :
                 item[i].next \in Used(List) /\ item[item[i].next].prev = i

\* The records of a chain, in its order.
Entry(x) == [n |-> x.n, user |-> x.user, flag |-> x.flag]
Events(b) ==
  [k \in 1 .. Cardinality(Used(b)) |-> Entry(b.item[Walk(b)[k - 1]])]

Outbox == INSTANCE SmsOutbox
            WITH q <- IF torn THEN <<>> ELSE Events(List),
                 to <- IF cpc = "idle" THEN NoUser ELSE user,
                 phase <- cpc,
                 hand <- IF at = Nil THEN 0 ELSE item[at].n,
                 victim <- IF wr # Nil /\ evict THEN item[wr].n ELSE 0,
                 broken <- torn,
                 Ids <- 1 .. MaxEvents

\* The linked list behaves as the queue of SmsOutbox, the two tasks overlapping
\* as they may: nothing is lost but the oldest event of a buffer found full and
\* an event that takes the place of one being removed, nothing overtakes, and
\* the events of messages disappear when one is delivered.  It ends where the
\* chain does.
IsOutbox == Outbox!Spec

Waits(n) == \E i \in Used(List) : item[i].n = n /\ item[i].flag = "active"

\* Every event goes into a message or is displaced by newer ones: none waits
\* for ever behind the events of other users, as long as the chain holds.
\* (Whether it leaves with its message is another matter: after a failure
\* nothing marks it active again.)
EventsTaken == \A n \in 1 .. MaxEvents : Waits(n) ~> (~Waits(n) \/ torn)
=============================================================================
