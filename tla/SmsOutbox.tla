----------------------------- MODULE SmsOutbox ------------------------------
(***************************************************************************)
(* What the SMS buffer promises to event.c: a queue of events that wait to *)
(* be reported to a user.  A queue found full gives up its oldest event    *)
(* for a new one; a message collects, in order, all events of one user; a  *)
(* delivered message takes the events of messages out of the queue, one by *)
(* one, while new ones may arrive.  A message that is not sent keeps its   *)
(* events: no other message takes them up again, and they leave with the   *)
(* next one that is delivered.                                             *)
(*                                                                         *)
(* The two ends are not kept apart: an event that displaces the one being  *)
(* taken out is taken out in its place, and then, or when it displaced the *)
(* first one as the removal began, the rest waits for the next delivery.   *)
(***************************************************************************)
EXTENDS Naturals, Sequences

CONSTANTS Size,    \* capacity
          Users,   \* the users an event may be reported to
          Ids,     \* identities of events, not 0
          NoUser   \* no message is being put together

VARIABLES q,       \* the queue: [n, user, flag] in the order of arrival
          to,      \* who the message that is being put together is for
          phase,   \* "idle", "collect", "sent", "done"
          hand,    \* the event where the removal stands, 0 for none
          victim,  \* the event to be displaced by the next one, 0 for none
          broken   \* the queue has been lost

vars == <<q, to, phase, hand, victim, broken>>

Init ==
  /\ q = <<>> /\ to = NoUser /\ phase = "idle"
  /\ hand = 0 /\ victim = 0 /\ broken = FALSE

\* The oldest event of a full queue will have to go ...
Full ==
  /\ Len(q) = Size /\ victim' = q[1].n
  /\ UNCHANGED <<q, to, phase, hand, broken>>

\* ... for the next that arrives, unless it has gone by then.
Accept(n, u) ==
  /\ LET new == [n |-> n, user |-> u, flag |-> "active"]
     IN \/ q # <<>> /\ q[1].n = victim /\ q' = Append(Tail(q), new)
        \/ /\ \A k \in 1 .. Len(q) : q[k].n # victim
           /\ Len(q) < Size /\ q' = Append(q, new)
  /\ hand' = IF hand # 0 /\ hand = victim THEN n ELSE hand
  /\ victim' = 0
  /\ UNCHANGED <<to, phase, broken>>

Active(j) == q[j].flag = "active"

\* The oldest event opens a message to its user ...
Open(k) ==
  /\ phase = "idle" /\ phase' = "collect"
  /\ Active(k) /\ \A j \in 1 .. k - 1 : ~Active(j)
  /\ q' = [q EXCEPT ![k].flag = "processing"]
  /\ to' = q[k].user
  /\ UNCHANGED <<hand, victim, broken>>

\* ... the next one for that user goes with it ...
Collect(k) ==
  /\ phase = "collect"
  /\ Active(k) /\ q[k].user = to
  /\ \A j \in 1 .. k - 1 : Active(j) => q[j].user # to
  /\ q' = [q EXCEPT ![k].flag = "processing"]
  /\ UNCHANGED <<to, phase, hand, victim, broken>>

\* ... and it is sent when there is no more.
Send ==
  /\ phase = "collect" /\ phase' = "sent"
  /\ \A j \in 1 .. Len(q) : Active(j) => q[j].user # to
  /\ q # <<>> /\ hand' = q[1].n
  /\ UNCHANGED <<q, to, victim, broken>>

Fail ==
  /\ phase = "collect" /\ phase' = "idle" /\ to' = NoUser
  /\ UNCHANGED <<q, hand, victim, broken>>

\* The removal goes on to the first event of a message from place k on.
GoesOn(k) ==
  \/ \E m \in k .. Len(q) :
       /\ q[m].flag = "processing"
       /\ \A j \in k .. m - 1 : q[j].flag # "processing"
       /\ hand' = q[m].n /\ phase' = "done" /\ UNCHANGED to
  \/ /\ \A m \in k .. Len(q) : q[m].flag # "processing"
     /\ hand' = 0 /\ phase' = "idle" /\ to' = NoUser

Begin(k) ==
  /\ phase = "sent" /\ q[k].n = hand
  /\ GoesOn(k)
  /\ UNCHANGED <<q, victim, broken>>

Remove(k) ==
  /\ phase = "done" /\ q[k].n = hand
  /\ q' = [j \in 1 .. Len(q) - 1 |-> IF j < k THEN q[j] ELSE q[j + 1]]
  /\ GoesOn(k + 1)
  /\ UNCHANGED <<victim, broken>>

Next ==
  \/ Full
  \/ \E n \in Ids, u \in Users : Accept(n, u)
  \/ \E k \in 1 .. Len(q) : Open(k) \/ Collect(k) \/ Begin(k) \/ Remove(k)
  \/ Send
  \/ Fail

\* Nothing is promised from the step on that loses the queue.
Spec == Init /\ [][Next \/ broken']_vars
=============================================================================
