-------------------------- MODULE EventQueueProofs --------------------------
(***************************************************************************)
(* An event that no other call of event_create() overlaps goes through the *)
(* primary event buffer unchanged and in order until the two pointers meet,*)
(* and the event memory behind it is read back in the order of time after  *)
(* any number of restarts as long as no two calls have overlapped, for     *)
(* every size of both rings and every set of producers.                    *)
(***************************************************************************)
EXTENDS EventMemory, WellFoundedInduction, TLAPS

USE SizeAssumption DEF Slots

\* An event record is an event.
LEMMA EventType ==
  ASSUME NEW a \in Nat, NEW b \in Nat
  PROVE  [n |-> a, cnt |-> b] \in Event
BY DEF Event

\* Where a pointer goes: the next slot, never the same one.
LEMMA IncType ==
  ASSUME NEW p \in Slots
  PROVE  Inc(p) \in Slots /\ Inc(p) # p
BY DEF Inc

\* How far a slot lies behind the read pointer tells which slot it is.
LEMMA BehindFact ==
  ASSUME rd \in Slots
  PROVE  /\ \A s \in Slots : Behind(s) \in Slots /\ (Behind(s) = 0 <=> s = rd)
         /\ \A s, t \in Slots : Behind(s) = Behind(t) => s = t
         /\ \A s \in Slots : Inc(s) # rd => Behind(Inc(s)) = Behind(s) + 1
BY DEF Behind, Inc

\* When event_task() advances, every slot but the one it leaves is one place
\* nearer.
LEMMA BehindAdvance ==
  ASSUME rd \in Slots, rd' = Inc(rd)
  PROVE  \A s \in Slots : s # rd => Behind(s)' = Behind(s) - 1
BY DEF Behind, Inc

\* The ring and everything else is empty at the start.
LEMMA TypeInit == Init => TypeOK
<1> SUFFICES ASSUME Init PROVE TypeOK
  OBVIOUS
<1>1. Blank \in Event
  BY EventType DEF Blank
<1>2. buf \in [Slots -> Event] /\ cur \in Event
  BY <1>1 DEF Init
<1>3. wr \in Slots /\ rd \in Slots /\ cnt \in Nat /\ calls \in Nat
  BY DEF Init
<1>4. /\ alone \subseteq Producers /\ passed \subseteq Producers
      /\ due \subseteq [slot : Slots, ev : Event]
  BY DEF Init
<1>5. busy \in BOOLEAN /\ raced \in BOOLEAN
  BY Zenon DEF Init
<1>6. /\ pc \in [Producers -> {"idle", "claimed", "counted", "filled"}]
      /\ loc \in [Producers -> [ptr : Slots, cnt : Nat, n : Nat]]
  BY DEF Init
<1> QED BY <1>2, <1>3, <1>4, <1>5, <1>6, Zenon DEF TypeOK

\* No step of a producer or of event_task() leaves the types.
LEMMA TypeStep == TypeOK /\ [Next]_vars => TypeOK'
<1> SUFFICES ASSUME TypeOK, [Next]_vars PROVE TypeOK'
  OBVIOUS
<1> DEFINE PcOK  == pc \in [Producers -> {"idle", "claimed", "counted",
   "filled"}]
           LocOK == loc \in [Producers -> [ptr : Slots, cnt : Nat, n : Nat]]
           DueOK == due \subseteq [slot : Slots, ev : Event]
<1>0. /\ busy \in BOOLEAN /\ raced \in BOOLEAN /\ cur \in Event
      /\ alone \subseteq Producers /\ passed \subseteq Producers /\ DueOK
      /\ buf \in [Slots -> Event]
      /\ wr \in Slots /\ rd \in Slots /\ cnt \in Nat /\ calls \in Nat
      /\ PcOK /\ LocOK
  BY Zenon DEF TypeOK
<1>1. ASSUME NEW p \in Producers, Claim(p) PROVE TypeOK'
  <2>a. /\ calls' = calls + 1
        /\ \/ UNCHANGED <<pc, loc, alone, raced>>
           \/ /\ pc' = [pc EXCEPT ![p] = "claimed"]
              /\ loc' = [loc EXCEPT ![p] =
                            [ptr |-> wr, cnt |-> 0, n |-> calls + 1]]
              /\ alone' = IF Inside = {} THEN {p} ELSE {}
              /\ raced' = (raced \/ Inside # {})
    BY <1>1, Zenon DEF Claim
  <2>1. calls' \in Nat /\ PcOK' /\ LocOK' /\ alone' \subseteq Producers
    <3>1. [ptr |-> wr, cnt |-> 0, n |-> calls + 1]
             \in [ptr : Slots, cnt : Nat, n : Nat]
      BY <1>0
    <3>2. CASE UNCHANGED <<pc, loc, alone, raced>>
      BY <1>0, <2>a, <3>2
    <3>3. CASE /\ pc' = [pc EXCEPT ![p] = "claimed"]
               /\ loc' = [loc EXCEPT ![p] =
                             [ptr |-> wr, cnt |-> 0, n |-> calls + 1]]
               /\ alone' = IF Inside = {} THEN {p} ELSE {}
      BY <1>0, <2>a, <3>1, <3>3
    <3> QED BY <2>a, <3>2, <3>3, Zenon
  <2>2. raced' \in BOOLEAN
    BY <1>0, <2>a, Zenon
  <2>3. UNCHANGED <<buf, wr, rd, cnt, busy, cur, passed, due>>
    BY <1>1, Zenon DEF Claim
  <2> QED BY <1>0, <2>1, <2>2, <2>3, Zenon DEF TypeOK
<1>2. ASSUME NEW p \in Producers, LoadCnt(p) PROVE TypeOK'
  <2>a. /\ pc' = [pc EXCEPT ![p] = "counted"]
        /\ loc' = [loc EXCEPT ![p].cnt = cnt + 1]
    BY <1>2, Zenon DEF LoadCnt
  <2>1. PcOK' /\ LocOK'
    <3>1. cnt + 1 \in Nat
      BY <1>0
    <3>2. PcOK'
      BY <1>0, <2>a
    <3>3. LocOK'
      BY <1>0, <2>a, <3>1
    <3> QED BY <3>2, <3>3
  <2>2. UNCHANGED <<buf, wr, rd, cnt, busy, cur, calls, alone, passed, raced,
                    due>>
    BY <1>2, Zenon DEF LoadCnt
  <2> QED BY <1>0, <2>1, <2>2, Zenon DEF TypeOK
<1>3. ASSUME NEW p \in Producers, Fill(p) PROVE TypeOK'
  <2>1. [n |-> loc[p].n, cnt |-> loc[p].cnt] \in Event
    BY <1>0, EventType
  <2>2. PcOK' /\ cnt' \in Nat /\ buf' \in [Slots -> Event]
    BY <1>0, <1>3, <2>1 DEF Fill
  <2>3. UNCHANGED <<wr, rd, loc, busy, cur, calls, alone, passed, raced, due>>
    BY <1>3, Zenon DEF Fill
  <2> QED BY <1>0, <2>2, <2>3, Zenon DEF TypeOK
<1>4. ASSUME NEW p \in Producers, Publish(p) PROVE TypeOK'
  <2>1. wr' \in Slots
    BY <1>0, <1>4, IncType DEF Publish
  <2>2. \A q \in Producers :
          [slot |-> loc[q].ptr, ev |-> [n |-> loc[q].n, cnt |-> loc[q].cnt]]
            \in [slot : Slots, ev : Event]
    BY <1>0, EventType
  <2>3. DueOK'
    <3>1. CASE Meets(p)
      BY <1>4, <3>1 DEF Publish
    <3>2. CASE ~Meets(p)
      BY <1>0, <1>4, <2>2, <3>2 DEF Publish
    <3> QED BY <3>1, <3>2
  <2>4. alone' \subseteq Producers /\ passed' \subseteq Producers
    BY <1>0, <1>4 DEF Publish
  <2>5. PcOK'
    BY <1>0, <1>4 DEF Publish
  <2>6. UNCHANGED <<buf, rd, cnt, loc, busy, cur, calls, raced>>
    BY <1>4, Zenon DEF Publish
  <2> QED BY <1>0, <2>1, <2>3, <2>4, <2>5, <2>6, Zenon DEF TypeOK
<1>5. CASE Take
  <2>1. cur' \in Event
    BY <1>0, <1>5 DEF Take
  <2>2. busy' \in BOOLEAN
    BY <1>5, Zenon DEF Take
  <2>3. UNCHANGED <<buf, wr, rd, cnt, pc, loc, calls, alone, passed, raced,
                    due>>
    BY <1>5, Zenon DEF Take
  <2> QED BY <1>0, <2>1, <2>2, <2>3, Zenon DEF TypeOK
<1>6. CASE Advance
  <2>1. rd' \in Slots /\ passed' \subseteq Producers /\ DueOK'
    BY <1>0, <1>6, IncType DEF Advance, Inside
  <2>2. busy' \in BOOLEAN
    BY <1>6, Zenon DEF Advance
  <2>3. UNCHANGED <<buf, wr, cnt, pc, loc, cur, calls, alone, raced>>
    BY <1>6, Zenon DEF Advance
  <2> QED BY <1>0, <2>1, <2>2, <2>3, Zenon DEF TypeOK
<1>7. CASE UNCHANGED vars
  BY <1>0, <1>7, Zenon DEF vars, TypeOK
<1> QED
  BY <1>1, <1>2, <1>3, <1>4, <1>5, <1>6, <1>7, Zenon
  DEF Next, event_create, event_task

\* Type correctness for any producers, preempted at any point.  It holds the
\* bounds that event_task() asserts of both pointers.
THEOREM TypeCorrect == Spec => []TypeOK
BY TypeInit, TypeStep, PTL DEF Spec

-----------------------------------------------------------------------------
(* The FIFO *)

\* Who is inside event_create(), what a call that is alone finds in its slot,
\* and that a producer whose slot event_task() has not passed will store a
\* write pointer behind every event that is due: all of them were accepted
\* before its call began.
CallersInv ==
  /\ passed \subseteq Inside
  /\ \A p \in alone : Inside = {p}
  /\ \A p \in alone : pc[p] = "filled" =>
       buf[loc[p].ptr] = [n |-> loc[p].n, cnt |-> loc[p].cnt]
  /\ \A p \in passed : due = {}
  /\ \A d \in due : d.ev.n <= calls
  /\ \A p \in Inside : loc[p].n <= calls
  /\ \A p \in Inside : \A d \in due :
       Behind(d.slot) < Behind(loc[p].ptr) /\ d.ev.n < loc[p].n

FifoInv == CallersInv /\ AloneInOrder

\* Loading the write pointer: it lies behind everything that is due.
LEMMA FifoClaim ==
  ASSUME TypeOK, FifoInv, NEW p \in Producers, Claim(p)
  PROVE  FifoInv'
<1>0. /\ pc \in [Producers -> {"idle", "claimed", "counted", "filled"}]
      /\ loc \in [Producers -> [ptr : Slots, cnt : Nat, n : Nat]]
      /\ wr \in Slots /\ rd \in Slots /\ calls \in Nat
      /\ due \subseteq [slot : Slots, ev : Event]
      /\ alone \subseteq Producers /\ passed \subseteq Producers
  BY Zenon DEF TypeOK
<1>1. /\ pc[p] = "idle" /\ calls' = calls + 1
      /\ UNCHANGED <<buf, wr, rd, cnt, busy, cur, passed, due>>
  BY DEF Claim
<1>2. \A s : Behind(s)' = Behind(s)
  BY <1>1 DEF Behind
<1>3. AloneInOrder'
  BY <1>1, <1>2, Zenon DEF FifoInv, AloneInOrder, Waiting
<1>4. \A d \in due : d.ev.n \in Nat /\ d.ev.n <= calls /\ d.ev.n <= calls'
  BY <1>0, <1>1 DEF FifoInv, CallersInv, Event
<1>b. \A q \in Inside : loc[q].n <= calls'
  BY <1>0, <1>1 DEF FifoInv, CallersInv, Inside
<1>5. CASE UNCHANGED <<pc, loc, alone, raced>>
  <2>1. Inside' = Inside /\ \A q : Behind(loc[q].ptr)' = Behind(loc[q].ptr)
    BY <1>1, <1>5 DEF Inside, Behind
  <2> QED BY <1>1, <1>2, <1>3, <1>4, <1>5, <1>b, <2>1, Zenon
          DEF FifoInv, CallersInv
<1>6. CASE /\ pc' = [pc EXCEPT ![p] = "claimed"]
           /\ loc' = [loc EXCEPT ![p] =
                        [ptr |-> wr, cnt |-> 0, n |-> calls + 1]]
           /\ alone' = IF Inside = {} THEN {p} ELSE {}
  <2>1. Inside' = Inside \cup {p} /\ p \notin Inside
    BY <1>0, <1>1, <1>6 DEF Inside
  <2>2. passed' \subseteq Inside' /\ \A q \in passed' : due' = {}
    BY <1>1, <2>1 DEF FifoInv, CallersInv
  <2>3. \A q \in alone' : q = p /\ Inside' = {q}
    BY <1>6, <2>1
  <2>4. pc'[p] = "claimed"
    BY <1>0, <1>6
  <2>5. ASSUME NEW q \in Inside', NEW d \in due
        PROVE  Behind(d.slot) < Behind(loc'[q].ptr) /\ d.ev.n < loc'[q].n
    <3>1. CASE q = p
      <4>1. loc'[q].ptr = wr /\ loc'[q].n = calls + 1
        BY <1>0, <1>6, <3>1
      <4>2. Behind(d.slot) < Behind(wr)
        BY DEF FifoInv, AloneInOrder, Waiting
      <4> QED BY <1>0, <1>4, <4>1, <4>2
    <3>2. CASE q # p
      <4>1. q \in Inside /\ q \in Producers /\ loc'[q] = loc[q]
        BY <1>0, <1>6, <2>1, <2>5, <3>2 DEF Inside
      <4> QED BY <4>1 DEF FifoInv, CallersInv
    <3> QED BY <3>1, <3>2
  <2>6. CallersInv'
    <3>1. \A q \in alone' : pc'[q] # "filled"
      BY <2>3, <2>4
    <3>2. \A q \in Inside' : \A d \in due' :
            Behind(d.slot)' < Behind(loc[q].ptr)' /\ d.ev.n < loc'[q].n
      <4>1. \A q : Behind(loc[q].ptr)' = Behind(loc'[q].ptr)
        BY <1>1 DEF Behind
      <4> QED BY <1>1, <1>2, <2>5, <4>1
    <3>3. \A q \in Inside' : loc'[q].n <= calls'
      <4>1. \A q \in Inside' : q = p \/ (q \in Inside /\ loc'[q] = loc[q])
        BY <1>0, <1>6, <2>1 DEF Inside
      <4>2. loc'[p].n = calls'
        BY <1>0, <1>1, <1>6
      <4> QED BY <1>0, <1>1, <1>b, <4>1, <4>2
    <3> QED BY <1>1, <1>4, <2>2, <2>3, <3>1, <3>2, <3>3, Zenon
            DEF CallersInv
  <2> QED BY <1>3, <2>6 DEF FifoInv
<1> QED BY <1>5, <1>6, Zenon DEF Claim

\* Filling a slot that was loaded before or after everything that is due
\* disturbs none of it.
LEMMA FifoFill ==
  ASSUME TypeOK, FifoInv, NEW p \in Producers, Fill(p)
  PROVE  FifoInv'
<1>0. /\ pc \in [Producers -> {"idle", "claimed", "counted", "filled"}]
      /\ loc \in [Producers -> [ptr : Slots, cnt : Nat, n : Nat]]
      /\ wr \in Slots /\ rd \in Slots /\ buf \in [Slots -> Event]
      /\ due \subseteq [slot : Slots, ev : Event]
  BY Zenon DEF TypeOK
<1>1. /\ pc[p] = "counted" /\ pc' = [pc EXCEPT ![p] = "filled"]
      /\ buf' = [buf EXCEPT ![loc[p].ptr] =
                              [n |-> loc[p].n, cnt |-> loc[p].cnt]]
      /\ UNCHANGED <<wr, rd, loc, busy, cur, calls, alone, passed, raced, due>>
  BY DEF Fill
<1>2. \A s : Behind(s)' = Behind(s)
  BY <1>1 DEF Behind
<1>3. Inside' = Inside /\ p \in Inside
  BY <1>0, <1>1 DEF Inside
<1>4. ASSUME NEW d \in due PROVE buf'[d.slot] = buf[d.slot]
  <2>1. d.slot \in Slots /\ loc[p].ptr \in Slots
    BY <1>0
  <2>2. Behind(d.slot) < Behind(loc[p].ptr)
    BY <1>3 DEF FifoInv, CallersInv
  <2>3. Behind(d.slot) \in Slots
    BY <1>0, <2>1, BehindFact
  <2>4. d.slot # loc[p].ptr
    BY <2>2, <2>3
  <2> QED BY <1>0, <1>1, <2>1, <2>4
<1>5. AloneInOrder'
  BY <1>1, <1>2, <1>4, Zenon DEF FifoInv, AloneInOrder, Waiting
<1>6. ASSUME NEW q \in alone, pc'[q] = "filled"
      PROVE  buf'[loc'[q].ptr] = [n |-> loc'[q].n, cnt |-> loc'[q].cnt]
  <2>1. q = p
    BY <1>3, <1>6 DEF FifoInv, CallersInv
  <2> QED BY <1>0, <1>1, <2>1
<1>7. CallersInv'
  <2>1. \A q : Behind(loc[q].ptr)' = Behind(loc[q].ptr)
    BY <1>1, <1>2 DEF Behind
  <2> QED BY <1>1, <1>2, <1>3, <1>6, <2>1, Zenon DEF FifoInv, CallersInv
<1> QED BY <1>5, <1>7 DEF FifoInv

\* Storing the write pointer adds the event of a call that was alone, unless
\* the pointers meet.
LEMMA FifoPublish ==
  ASSUME TypeOK, FifoInv, NEW p \in Producers, Publish(p)
  PROVE  FifoInv'
<1> DEFINE e == [n |-> loc[p].n, cnt |-> loc[p].cnt]
           x == [slot |-> loc[p].ptr, ev |-> e]
<1>0. /\ pc \in [Producers -> {"idle", "claimed", "counted", "filled"}]
      /\ loc \in [Producers -> [ptr : Slots, cnt : Nat, n : Nat]]
      /\ wr \in Slots /\ rd \in Slots /\ calls \in Nat
      /\ due \subseteq [slot : Slots, ev : Event]
      /\ alone \subseteq Producers /\ passed \subseteq Producers
  BY Zenon DEF TypeOK
<1>1. /\ pc[p] = "filled" /\ pc' = [pc EXCEPT ![p] = "idle"]
      /\ wr' = Inc(loc[p].ptr)
      /\ alone' = alone \ {p} /\ passed' = passed \ {p}
      /\ UNCHANGED <<buf, rd, cnt, loc, busy, cur, calls, raced>>
  BY DEF Publish
<1>2. \A s : Behind(s)' = Behind(s)
  BY <1>1 DEF Behind
<1>3. Inside' = Inside \ {p} /\ p \in Inside
  BY <1>0, <1>1 DEF Inside
<1>4. /\ passed \subseteq Inside
      /\ \A q \in alone : Inside = {q}
      /\ \A q \in alone : pc[q] = "filled" =>
           buf[loc[q].ptr] = [n |-> loc[q].n, cnt |-> loc[q].cnt]
      /\ \A q \in passed : due = {}
      /\ \A d \in due : d.ev.n <= calls
      /\ \A q \in Inside : loc[q].n <= calls
      /\ \A q \in Inside : \A d \in due :
           Behind(d.slot) < Behind(loc[q].ptr) /\ d.ev.n < loc[q].n
  BY Zenon DEF FifoInv, CallersInv
<1>5. alone' = {}
  BY <1>1, <1>3, <1>4
<1>6. CASE Meets(p)
  <2>1. due' = {}
    BY <1>6 DEF Publish
  <2> QED BY <1>1, <1>3, <1>4, <1>5, <2>1 DEF FifoInv, CallersInv, AloneInOrder
<1>7. CASE ~Meets(p)
  <2>1. /\ Inc(loc[p].ptr) # rd /\ p \notin passed
        /\ busy => loc[p].ptr # rd
    BY <1>7 DEF Meets
  <2>2. loc[p].ptr \in Slots /\ loc[p].n \in Nat /\ loc[p].cnt \in Nat
    BY <1>0
  <2>3. /\ Waiting' = Behind(loc[p].ptr) + 1 /\ Behind(loc[p].ptr) \in Nat
    <3>1. Waiting' = Behind(Inc(loc[p].ptr))
      BY <1>1, <1>2 DEF Waiting, Behind
    <3> QED BY <1>0, <2>1, <2>2, <3>1, BehindFact
  <2>4. \A d \in due : d.slot \in Slots /\ Behind(d.slot) \in Nat
    BY <1>0, BehindFact
  <2>5. due' = due \/ (due' = due \cup {x} /\ p \in alone)
    <3>1. due' = due \cup
             {[slot |-> loc[q].ptr,
               ev |-> [n |-> loc[q].n, cnt |-> loc[q].cnt]] :
                q \in alone \cap {p}}
      BY <1>7 DEF Publish
    <3>2. CASE p \in alone
      <4>1. alone \cap {p} = {p}
        BY <3>2
      <4> QED BY <3>1, <3>2, <4>1
    <3>3. CASE p \notin alone
      <4>1. alone \cap {p} = {}
        BY <3>3
      <4> QED BY <3>1, <4>1
    <3> QED BY <3>2, <3>3
  <2>6. CASE due' = due
    <3>1. \A d \in due : Behind(d.slot) < Waiting'
      BY <1>3, <1>4, <2>3, <2>4
    <3>2. AloneInOrder'
      <4>1. \A d \in due' : Behind(d.slot)' < Waiting' /\ buf'[d.slot] = d.ev
        BY <1>1, <1>2, <2>6, <3>1 DEF FifoInv, AloneInOrder
      <4>2. \A d, f \in due' :
              d.ev.n < f.ev.n => Behind(d.slot)' < Behind(f.slot)'
        BY <1>2, <2>6 DEF FifoInv, AloneInOrder
      <4>3. \A d \in due' : busy' /\ d.slot = rd' => cur' = d.ev
        BY <1>1, <2>6 DEF FifoInv, AloneInOrder
      <4> QED BY <4>1, <4>2, <4>3, Zenon DEF AloneInOrder
    <3>3. CallersInv'
      <4>1. \A q : Behind(loc[q].ptr)' = Behind(loc[q].ptr)
        BY <1>1, <1>2 DEF Behind
      <4>2. /\ passed' \subseteq Inside' /\ \A q \in passed' : due' = {}
            /\ Inside' \subseteq Inside
        BY <1>1, <1>3, <1>4, <2>6
      <4> QED BY <1>1, <1>2, <1>4, <1>5, <2>6, <4>1, <4>2 DEF CallersInv
    <3> QED BY <3>2, <3>3 DEF FifoInv
  <2>7. CASE due' = due \cup {x} /\ p \in alone
    <3>0. /\ x.slot = loc[p].ptr /\ x.ev = e /\ e.n = loc[p].n
          /\ x.ev.n = loc[p].n
      OBVIOUS
    <3>1. Inside' = {} /\ passed' = {}
      BY <1>1, <1>3, <1>4, <2>7
    <3>2. buf[x.slot] = x.ev
      BY <1>1, <1>4, <2>7, <3>0
    <3> HIDE DEF x, e
    <3>3. \A d \in due : Behind(d.slot) < Behind(x.slot) /\ d.ev.n < x.ev.n
      BY <1>3, <1>4, <3>0
    <3>4. \A d \in due : d.ev.n \in Nat
      BY <1>0 DEF Event
    <3>5. Behind(x.slot) < Waiting' /\ Behind(x.slot) \in Nat
          /\ x.ev.n \in Nat
      BY <2>2, <2>3, <3>0
    <3>6. \A d \in due' : Behind(d.slot)' < Waiting' /\ buf'[d.slot] = d.ev
      <4>1. \A d \in due : Behind(d.slot) < Waiting'
        BY <2>3, <2>4, <3>0, <3>3
      <4> QED BY <1>1, <1>2, <2>7, <3>2, <3>5, <4>1 DEF FifoInv, AloneInOrder
    <3>7. ASSUME NEW d \in due', NEW f \in due', d.ev.n < f.ev.n
          PROVE  Behind(d.slot) < Behind(f.slot)
      <4>1. d \in due \/ d = x
        BY <2>7
      <4>2. f \in due \/ f = x
        BY <2>7
      <4>3. CASE d \in due /\ f \in due
        BY <3>7, <4>3 DEF FifoInv, AloneInOrder
      <4>4. CASE d \in due /\ f = x
        BY <3>3, <4>4
      <4>5. CASE d = x /\ f \in due
        BY <3>3, <3>4, <3>5, <3>7, <4>5
      <4>6. CASE d = x /\ f = x
        BY <3>5, <3>7, <4>6
      <4> QED BY <4>1, <4>2, <4>3, <4>4, <4>5, <4>6
    <3>8. \A d \in due' : busy' /\ d.slot = rd' => cur' = d.ev
      BY <1>1, <2>1, <2>7, <3>0 DEF FifoInv, AloneInOrder
    <3>9. AloneInOrder'
      <4>1. \A d, f \in due' :
              d.ev.n < f.ev.n => Behind(d.slot)' < Behind(f.slot)'
        BY <1>2, <3>7
      <4> QED BY <3>6, <3>8, <4>1, Zenon DEF AloneInOrder
    <3>10. \A d \in due' : d.ev.n <= calls'
      BY <1>1, <1>3, <1>4, <2>7, <3>0
    <3> QED BY <1>5, <3>1, <3>9, <3>10 DEF FifoInv, CallersInv
  <2> QED BY <2>5, <2>6, <2>7
<1> QED BY <1>6, <1>7

\* event_task() takes an event: the one that is due, if one is due there.
LEMMA FifoTake == FifoInv /\ Take => FifoInv'
<1> SUFFICES ASSUME FifoInv, Take PROVE FifoInv'
  OBVIOUS
<1>1. /\ cur' = buf[rd]
      /\ UNCHANGED <<buf, wr, rd, cnt, pc, loc, calls, alone, passed, raced,
                     due>>
  BY DEF Take
<1>2. \A s : Behind(s)' = Behind(s)
  BY <1>1 DEF Behind
<1>3. Inside' = Inside /\ \A q : Behind(loc[q].ptr)' = Behind(loc[q].ptr)
  BY <1>1 DEF Inside, Behind
<1>4. AloneInOrder'
  BY <1>1, <1>2, Zenon DEF FifoInv, AloneInOrder, Waiting
<1>5. CallersInv'
  BY <1>1, <1>2, <1>3, Zenon DEF FifoInv, CallersInv
<1> QED BY <1>4, <1>5 DEF FifoInv

\* event_task() goes on to the next slot: what was due there has been handed
\* over, and whoever still holds that slot will set the write pointer back.
LEMMA FifoAdvance == TypeOK /\ FifoInv /\ Advance => FifoInv'
<1> SUFFICES ASSUME TypeOK, FifoInv, Advance PROVE FifoInv'
  OBVIOUS
<1>0. /\ loc \in [Producers -> [ptr : Slots, cnt : Nat, n : Nat]]
      /\ wr \in Slots /\ rd \in Slots
      /\ due \subseteq [slot : Slots, ev : Event]
      /\ passed \subseteq Producers
  BY Zenon DEF TypeOK
<1>1. /\ ~busy' /\ rd' = Inc(rd)
      /\ passed' = passed \cup {p \in Inside : loc[p].ptr = rd}
      /\ due' = {d \in due : d.slot # rd}
      /\ UNCHANGED <<buf, wr, cnt, pc, loc, cur, calls, alone, raced>>
  BY DEF Advance
<1>2. \A s \in Slots : s # rd => Behind(s)' = Behind(s) - 1
  BY <1>0, <1>1, BehindAdvance
<1>3. /\ \A s \in Slots : Behind(s) \in Nat /\ (Behind(s) = 0 <=> s = rd)
  BY <1>0, BehindFact
<1>4. Inside' = Inside /\ Inside \subseteq Producers
  BY <1>1 DEF Inside
<1>5. \A d \in due' : d \in due /\ d.slot \in Slots /\ d.slot # rd
                       /\ Behind(d.slot)' = Behind(d.slot) - 1
  BY <1>0, <1>1, <1>2
<1>6. ASSUME NEW d \in due'
      PROVE  Behind(d.slot)' < Waiting' /\ buf'[d.slot] = d.ev
  <2>1. Behind(d.slot) < Behind(wr) /\ buf[d.slot] = d.ev
    BY <1>5 DEF FifoInv, AloneInOrder, Waiting
  <2>2. wr # rd
    BY <1>0, <1>3, <1>5, <2>1
  <2>3. Waiting' = Behind(wr) - 1
    BY <1>0, <1>1, <1>2, <2>2 DEF Waiting, Behind
  <2> QED BY <1>0, <1>1, <1>3, <1>5, <2>1, <2>3
<1>7. ASSUME NEW d \in due', NEW f \in due', d.ev.n < f.ev.n
      PROVE  Behind(d.slot)' < Behind(f.slot)'
  <2>1. Behind(d.slot) < Behind(f.slot)
    BY <1>5, <1>7 DEF FifoInv, AloneInOrder
  <2> QED BY <1>3, <1>5, <2>1
<1>8. AloneInOrder'
  BY <1>1, <1>6, <1>7, Zenon DEF AloneInOrder
<1>9. ASSUME NEW p \in Inside, NEW d \in due'
      PROVE  /\ loc[p].ptr # rd /\ p \notin passed
             /\ Behind(d.slot)' < Behind(loc[p].ptr)' /\ d.ev.n < loc[p].n
  <2>1. /\ Behind(d.slot) < Behind(loc[p].ptr) /\ d.ev.n < loc[p].n
        /\ p \notin passed
    BY <1>5 DEF FifoInv, CallersInv
  <2>2. loc[p].ptr \in Slots
    BY <1>0, <1>4
  <2>3. loc[p].ptr # rd
    BY <1>3, <1>5, <2>1, <2>2
  <2>4. Behind(loc[p].ptr)' = Behind(loc[p].ptr) - 1
    BY <1>1, <1>2, <2>2, <2>3 DEF Behind
  <2> QED BY <1>3, <1>5, <2>1, <2>2, <2>3, <2>4
<1>10. passed' \subseteq Inside' /\ \A p \in passed' : due' = {}
  <2>1. passed \subseteq Inside
    BY DEF FifoInv, CallersInv
  <2> QED BY <1>1, <1>4, <1>9, <2>1
<1>11. CallersInv'
  <2>1. /\ \A p \in alone : Inside = {p}
        /\ \A p \in alone : pc[p] = "filled" =>
             buf[loc[p].ptr] = [n |-> loc[p].n, cnt |-> loc[p].cnt]
        /\ \A d \in due : d.ev.n <= calls
        /\ \A p \in Inside : loc[p].n <= calls
    BY Zenon DEF FifoInv, CallersInv
  <2>2. \A d \in due' : d.ev.n <= calls'
    BY <1>1, <1>5, <2>1
  <2>3. \A p \in Inside' : \A d \in due' :
          Behind(d.slot)' < Behind(loc[p].ptr)' /\ d.ev.n < loc'[p].n
    BY <1>1, <1>4, <1>9
  <2> QED BY <1>1, <1>4, <1>10, <2>1, <2>2, <2>3, Zenon DEF CallersInv
<1> QED BY <1>8, <1>11 DEF FifoInv

\* Every step of the producers and of event_task().
LEMMA FifoStep == TypeOK /\ FifoInv /\ [Next]_vars => FifoInv'
<1> SUFFICES ASSUME TypeOK, FifoInv, [Next]_vars PROVE FifoInv'
  OBVIOUS
<1>1. ASSUME UNCHANGED <<buf, wr, rd, busy, cur, calls, alone, passed, due>>,
             Inside' = Inside,
             \A q \in Producers : /\ loc'[q].ptr = loc[q].ptr
                                  /\ loc'[q].n = loc[q].n,
             \A q \in Producers : pc'[q] = "filled" =>
                                    pc[q] = "filled" /\ loc'[q] = loc[q]
      PROVE  FifoInv'
  <2>1. \A s : Behind(s)' = Behind(s)
    BY <1>1 DEF Behind
  <2>2. AloneInOrder'
    BY <1>1, <2>1, Zenon DEF FifoInv, AloneInOrder, Waiting
  <2>3. \A q \in Producers : Behind(loc[q].ptr)' = Behind(loc[q].ptr)
    BY <1>1 DEF Behind
  <2>4. CallersInv'
    <3>1. Inside \subseteq Producers /\ alone \subseteq Producers
      BY Zenon DEF Inside, TypeOK
    <3>2. \A p \in alone' : pc'[p] = "filled" =>
             buf'[loc'[p].ptr] = [n |-> loc'[p].n, cnt |-> loc'[p].cnt]
      BY <1>1, <3>1, Zenon DEF FifoInv, CallersInv
    <3>3. \A p \in Inside' : \A d \in due' :
            Behind(d.slot)' < Behind(loc[p].ptr)' /\ d.ev.n < loc'[p].n
      BY <1>1, <2>1, <2>3, <3>1 DEF FifoInv, CallersInv
    <3>4. \A p \in Inside' : loc'[p].n <= calls'
      BY <1>1, <3>1 DEF FifoInv, CallersInv
    <3> QED BY <1>1, <3>2, <3>3, <3>4, Zenon DEF FifoInv, CallersInv
  <2> QED BY <2>2, <2>4 DEF FifoInv
<1>2. ASSUME NEW p \in Producers, LoadCnt(p) PROVE FifoInv'
  <2>1. /\ pc[p] = "claimed" /\ pc' = [pc EXCEPT ![p] = "counted"]
        /\ loc' = [loc EXCEPT ![p].cnt = cnt + 1]
        /\ pc \in [Producers -> {"idle", "claimed", "counted", "filled"}]
        /\ loc \in [Producers -> [ptr : Slots, cnt : Nat, n : Nat]]
        /\ UNCHANGED <<buf, wr, rd, busy, cur, calls, alone, passed, due>>
    BY <1>2, Zenon DEF LoadCnt, TypeOK
  <2>2. Inside' = Inside
    BY <2>1 DEF Inside
  <2>3. \A q \in Producers : loc'[q].ptr = loc[q].ptr /\ loc'[q].n = loc[q].n
    BY <2>1
  <2>4. \A q \in Producers : pc'[q] = "filled" =>
                               pc[q] = "filled" /\ loc'[q] = loc[q]
    BY <2>1
  <2> QED BY <1>1, <2>1, <2>2, <2>3, <2>4, Zenon
<1>3. CASE UNCHANGED vars
  <2>1. UNCHANGED <<buf, wr, rd, busy, cur, calls, alone, passed, due, pc, loc>>
    BY <1>3 DEF vars
  <2>2. Inside' = Inside
    BY <2>1 DEF Inside
  <2> QED BY <1>1, <2>1, <2>2, Zenon
<1> QED
  BY <1>2, <1>3, FifoClaim, FifoFill, FifoPublish, FifoTake, FifoAdvance, Zenon
  DEF Next, event_create, event_task

\* Nothing is in the ring at the start.
LEMMA FifoInit == Init => FifoInv
BY DEF Init, FifoInv, CallersInv, AloneInOrder, Inside

\* For any producers, preempted at any point: an event whose call no other
\* call overlaps stays in its slot and in its order until event_task() hands
\* it over or the two pointers meet (event.c).
THEOREM FifoSafety == Spec => []AloneInOrder
<1>1. FifoInv => AloneInOrder
  BY DEF FifoInv
<1> QED BY <1>1, FifoStep, FifoInit, TypeCorrect, PTL DEF Spec

-----------------------------------------------------------------------------
(* The event memory *)

\* a is older than b, and counted before it.
Precedes(a, b) == a.n < b.n /\ a.cnt < b.cnt

\* The slot k + 1 records before slot p.
Back(p, k) == IF p > k THEN p - 1 - k ELSE p + MemSize - 1 - k

\* Records m were written up to slot p: all of them or those below p are
\* valid, and going back from p they get older.  The record in slot p itself
\* is the oldest, unless p is the last slot: there event_memory_init(), which
\* does not look at it, may have left the newest one behind.
Ring(m, p) ==
  /\ \/ \A i \in Records : event_valid(m[i])
     \/ \A i \in Records : event_valid(m[i]) <=> i < p
  /\ \A i, j \in Records :
       (/\ i < j /\ event_valid(m[Back(p, j)])
        /\ j < MemSize - 1 \/ p # MemSize - 1)
       => Precedes(m[Back(p, j)], m[Back(p, i)])

\* The record that was stored last.
Top == mem[Back(ptr, 0)]

\* What event_create() gives out now is later than e.
Past(e) ==
  /\ e.n <= calls /\ e.cnt <= cnt
  /\ \A p \in Producers : /\ pc[p] # "idle" => e.n < loc[p].n
                          /\ pc[p] = "filled" => e.cnt < loc[p].cnt

\* The slot of the FIFO that is stored next, the number of slots from there
\* to the write pointer, and those slots.
From == IF busy THEN Inc(rd) ELSE rd
Due == IF wr >= From THEN wr - From ELSE wr + Size - From
DueSlot(j) == IF From + j >= Size THEN From + j - Size ELSE From + j

\* One call of event_create() at a time, and what it knows at each point.
CallInv ==
  /\ \A p, q \in Producers : pc[p] # "idle" /\ pc[q] # "idle" => p = q
  /\ \A p \in Producers : pc[p] # "idle" => loc[p].ptr = wr
  /\ \A p \in Producers :
       pc[p] = "filled" => buf[wr] = [n |-> loc[p].n, cnt |-> loc[p].cnt]

\* The number and the count of the event that is created.
CountInv ==
  \A p \in Producers :
    /\ pc[p] # "idle" => loc[p].n = calls
    /\ pc[p] = "counted" => loc[p].cnt = cnt + 1
    /\ pc[p] = "filled" => loc[p].cnt = cnt

\* What is still to be stored is later than what was stored, in order.  The
\* FIFO may have been overrun.
DueInv ==
  /\ \A j \in Slots : j < Due =>
       /\ Precedes(Top, buf[DueSlot(j)]) /\ Past(buf[DueSlot(j)])
       /\ \A i \in Slots : i < j => Precedes(buf[DueSlot(i)], buf[DueSlot(j)])
  /\ Past(Top)

\* The records that survive a power cut, and how far they were written.
Survives(q) == Ring(flash, q) /\ flash[Back(q, 0)].n = kept

StoreInv ==
  /\ Ring(mem, ptr)
  /\ \E q \in Records : Survives(q)
  /\ \A i \in Records : mem[i].n <= calls /\ flash[i].n <= calls
  /\ ~booted => newest = Top.n
  /\ booted => /\ mem = flash
               /\ flash[MemSize - 1].n = kept \/ Top.n = kept

\* Going back from a slot visits every record once, the slot itself last.
LEMMA BackFact ==
  ASSUME NEW p \in Records
  PROVE  /\ \A k \in Records : Back(p, k) \in Records
         /\ \A k \in Records : Back(p, Back(p, k)) = k
         /\ Back(p, MemSize - 1) = p
         /\ \A k \in Records : Back(p, k) = p => k = MemSize - 1
BY MemSizeAssumption DEF Records, Back

\* One record more is one more to go back.
LEMMA BackInc ==
  ASSUME NEW p \in Records
  PROVE  /\ _ptr_inc(p) \in Records
         /\ Back(_ptr_inc(p), 0) = p
         /\ \A k \in Records : k > 0 => Back(_ptr_inc(p), k) = Back(p, k - 1)
BY MemSizeAssumption DEF Records, Back, _ptr_inc

\* The loop of event_memory_read() reaches the slot it should.
LEMMA BackSlotFact ==
  ASSUME ptr \in Records, NEW k \in Records
  PROVE  BackSlot(k) = Back(ptr, k)
<1> DEFINE Step(f) == [j \in 0 .. MemSize - 1 |->
                         _ptr_dec(IF j = 0 THEN ptr ELSE f[j - 1])]
           w == [j \in 0 .. MemSize - 1 |-> Back(ptr, j)]
           b == CHOOSE f : f = Step(f)
<1>1. w = Step(w)
  <2>1. ASSUME NEW j \in 0 .. MemSize - 1
        PROVE  Back(ptr, j) = _ptr_dec(IF j = 0 THEN ptr ELSE w[j - 1])
    <3>1. CASE j = 0
      BY <3>1, MemSizeAssumption DEF Records, Back, _ptr_dec
    <3>2. CASE j # 0
      <4>1. j - 1 \in 0 .. MemSize - 1
        BY <3>2, MemSizeAssumption
      <4>2. w[j - 1] = Back(ptr, j - 1)
        BY <4>1
      <4>3. Back(ptr, j) = _ptr_dec(Back(ptr, j - 1))
        BY <3>2, MemSizeAssumption DEF Records, Back, _ptr_dec
      <4> QED BY <3>2, <4>2, <4>3
    <3> QED BY <3>1, <3>2
  <2> QED BY <2>1
<1>2. b = Step(b)
  <2> HIDE DEF Step, w
  <2> QED BY <1>1
<1>3. BackSlot(k) = b[k]
  BY DEF BackSlot
<1> HIDE DEF b
<1> DEFINE D == {j \in Records : b[j] # Back(ptr, j)}
<1>4. D = {}
  <2> SUFFICES ASSUME D # {} PROVE FALSE
    OBVIOUS
  <2>1. D \subseteq Nat
    BY MemSizeAssumption DEF Records
  <2>2. PICK x \in D : \A y \in D : ~(<<y, x>> \in OpToRel(<, Nat))
    <3> HIDE DEF D
    <3> QED BY <2>1, WFMin, NatLessThanWellFounded
  <2>3. \A y \in D : ~(y < x)
    BY <2>1, <2>2, Zenon DEF OpToRel
  <2>4. x \in Records /\ b[x] # Back(ptr, x)
    BY <2>2
  <2>5. b[x] = _ptr_dec(IF x = 0 THEN ptr ELSE b[x - 1])
    BY <1>2, <2>4 DEF Records
  <2>6. CASE x = 0
    BY <2>4, <2>5, <2>6, MemSizeAssumption DEF Records, Back, _ptr_dec
  <2>7. CASE x # 0
    <3>1. x - 1 \in Records /\ x - 1 < x
      BY <2>4, <2>7, MemSizeAssumption DEF Records
    <3>2. b[x - 1] = Back(ptr, x - 1)
      BY <2>3, <3>1
    <3>3. Back(ptr, x) = _ptr_dec(Back(ptr, x - 1))
      BY <2>4, <2>7, MemSizeAssumption DEF Records, Back, _ptr_dec
    <3> QED BY <2>4, <2>5, <2>7, <3>2, <3>3
  <2> QED BY <2>6, <2>7
<1> QED BY <1>3, <1>4

\* event_memory_store() goes on behind the newest record.
LEMMA RingStore ==
  ASSUME NEW m \in [Records -> Event], NEW p \in Records, Ring(m, p),
         NEW e \in Event, Precedes(m[Back(p, 0)], e)
  PROVE  Ring([m EXCEPT ![p] = e], _ptr_inc(p))
<1> DEFINE w == [m EXCEPT ![p] = e]
           s == _ptr_inc(p)
<1>0. Records = 0 .. MemSize - 1 /\ MemSize \in Nat /\ MemSize >= 3
  BY MemSizeAssumption DEF Records
<1>1. w[p] = e /\ \A i \in Records : i # p => w[i] = m[i]
  OBVIOUS
<1>2. /\ s \in Records /\ Back(s, 0) = p
      /\ \A k \in Records : k > 0 => Back(s, k) = Back(p, k - 1)
  BY BackInc
<1>3. /\ \A k \in Records : Back(p, k) \in Records
      /\ \A k \in Records : Back(p, k) = p => k = MemSize - 1
  BY BackFact
<1>4. event_valid(e)
  <2>1. 0 \in Records /\ Back(p, 0) \in Records
    BY <1>0, <1>3
  <2>2. m[Back(p, 0)].n \in Nat /\ e.n \in Nat
    BY <2>1 DEF Event
  <2>3. e.n # 0
    BY <2>2 DEF Precedes
  <2> QED BY <2>3 DEF event_valid, Erased, Blank
<1> HIDE DEF w, s
<1>5. \/ \A i \in Records : event_valid(w[i])
      \/ \A i \in Records : event_valid(w[i]) <=> i < s
  <2>1. CASE \A i \in Records : event_valid(m[i])
    BY <1>1, <1>4, <2>1
  <2>2. CASE \A i \in Records : event_valid(m[i]) <=> i < p
    <3>1. CASE p = MemSize - 1
      <4>1. \A i \in Records : i # p => i < p
        BY <1>0, <3>1
      <4> QED BY <1>1, <1>4, <2>2, <4>1
    <3>2. CASE p # MemSize - 1
      <4>1. s = p + 1
        BY <1>0, <3>2 DEF s, _ptr_inc
      <4>2. \A i \in Records : i < s <=> (i < p \/ i = p)
        BY <1>0, <4>1
      <4> QED BY <1>1, <1>4, <2>2, <4>2
    <3> QED BY <3>1, <3>2
  <2> QED BY <2>1, <2>2 DEF Ring
<1>6. ASSUME NEW i \in Records, NEW j \in Records, i < j,
             event_valid(w[Back(s, j)])
      PROVE  Precedes(w[Back(s, j)], w[Back(s, i)])
  <2>1. /\ j - 1 \in Records /\ j > 0 /\ j - 1 < MemSize - 1
        /\ Back(s, j) = Back(p, j - 1)
    BY <1>0, <1>2, <1>6
  <2>2. Back(p, j - 1) \in Records /\ Back(p, j - 1) # p
    BY <1>0, <1>3, <2>1
  <2>3. w[Back(s, j)] = m[Back(p, j - 1)]
    BY <1>1, <2>1, <2>2
  <2>4. CASE i = 0
    <3>1. w[Back(s, i)] = e
      BY <1>1, <1>2, <2>4
    <3>2. CASE j = 1
      BY <2>3, <2>1, <3>1, <3>2
    <3>3. CASE j # 1
      <4>1. 0 \in Records /\ 0 < j - 1
        BY <1>0, <2>1, <3>3
      <4>2. Precedes(m[Back(p, j - 1)], m[Back(p, 0)])
        BY <1>6, <2>1, <2>3, <4>1 DEF Ring
      <4>3. /\ m[Back(p, j - 1)] \in Event /\ m[Back(p, 0)] \in Event
        BY <1>3, <2>1, <4>1
      <4>4. Precedes(m[Back(p, j - 1)], e)
        BY <4>2, <4>3 DEF Precedes, Event
      <4> QED BY <2>3, <3>1, <4>4
    <3> QED BY <3>2, <3>3
  <2>5. CASE i # 0
    <3>1. /\ i - 1 \in Records /\ i - 1 < j - 1 /\ i - 1 < MemSize - 1
          /\ Back(s, i) = Back(p, i - 1)
      BY <1>0, <1>2, <1>6, <2>5
    <3>2. Back(p, i - 1) \in Records /\ Back(p, i - 1) # p
      BY <1>0, <1>3, <3>1
    <3>3. w[Back(s, i)] = m[Back(p, i - 1)]
      BY <1>1, <3>1, <3>2
    <3>4. Precedes(m[Back(p, j - 1)], m[Back(p, i - 1)])
      BY <1>6, <2>1, <2>3, <3>1 DEF Ring
    <3> QED BY <2>3, <3>3, <3>4
  <2> QED BY <2>4, <2>5
<1>7. Ring(w, s)
  BY <1>5, <1>6 DEF Ring
<1> QED BY <1>7 DEF w, s

\* The records event_memory_init() looks at, when all of them are valid: the
\* newest one is the last one written, or the one before it when that lies in
\* the last slot.
LEMMA ScanFull ==
  ASSUME NEW m \in [Records -> Event], NEW q \in Records, Ring(m, q),
         \A i \in Scanned : event_valid(m[i])
  PROVE  NewestIn(m, Scanned) = IF q = 0 THEN MemSize - 2 ELSE q - 1
<1>0. Records = 0 .. MemSize - 1 /\ MemSize \in Nat /\ MemSize >= 3
      /\ Scanned = 0 .. MemSize - 2
  BY MemSizeAssumption DEF Records, Scanned
<1> DEFINE a == IF q = 0 THEN 1 ELSE 0
           t == IF q = 0 THEN MemSize - 2 ELSE q - 1
<1>1. a \in Records /\ Back(q, a) = t /\ t \in Scanned
  BY <1>0 DEF Back
<1>2. /\ \A k \in Records : Back(q, k) \in Records
      /\ \A k \in Records : Back(q, Back(q, k)) = k
  BY BackFact
<1>3. ASSUME NEW s \in Scanned, s # t PROVE m[s].cnt < m[t].cnt
  <2> DEFINE j == Back(q, s)
  <2>1. s \in Records /\ j \in Records /\ Back(q, j) = s
    BY <1>0, <1>2
  <2>2. j # a
    BY <1>1, <1>3, <2>1
  <2>3. a < j
    BY <1>0, <1>3, <2>1, <2>2 DEF Back
  <2>4. j < MemSize - 1 \/ q # MemSize - 1
    BY <1>0, <1>3, <2>1 DEF Back
  <2> HIDE DEF j, a
  <2>5. Precedes(m[Back(q, j)], m[Back(q, a)])
    BY <1>1, <1>3, <2>1, <2>3, <2>4 DEF Ring
  <2> QED BY <1>1, <2>1, <2>5 DEF Precedes
<1> HIDE DEF t
<1>4. \A s \in Scanned : m[s].cnt \in Nat
  BY <1>0 DEF Event
<1>5. \A s \in Scanned : m[s].cnt <= m[t].cnt
  BY <1>1, <1>3, <1>4
<1>6. ASSUME NEW x \in Scanned, \A s \in Scanned : m[s].cnt <= m[x].cnt
      PROVE  x = t
  BY <1>1, <1>3, <1>4, <1>6
<1>7. NewestIn(m, Scanned) = t
  BY <1>1, <1>5, <1>6 DEF NewestIn
<1> QED BY <1>7 DEF t

\* event_memory_init() goes on where the records end, or one slot earlier
\* when the last one written is in the last slot, and counts on from the last
\* record it will read back.
LEMMA RingInit ==
  ASSUME NEW m \in [Records -> Event], NEW q \in Records, Ring(m, q),
         NEW r, r = event_memory_init(m)
  PROVE  /\ r.ptr \in Records /\ r.cnt \in Nat
         /\ Ring(m, r.ptr)
         /\ r.ptr = q \/ (q = 0 /\ r.ptr = MemSize - 1)
         /\ m[Back(r.ptr, 0)].cnt <= r.cnt
<1> DEFINE holes  == {i \in Scanned : ~event_valid(m[i])}
           prefix == IF holes = {} THEN Scanned ELSE 0 .. Min(holes) - 1
           top    == IF prefix = {} THEN 0 ELSE m[NewestIn(m, prefix)].cnt
<1>0. /\ Records = 0 .. MemSize - 1 /\ MemSize \in Nat /\ MemSize >= 3
      /\ Scanned = 0 .. MemSize - 2 /\ 0 \in Scanned
  BY MemSizeAssumption DEF Records, Scanned
<1>1. /\ r.cnt = top
      /\ r.ptr = IF holes = {} THEN _ptr_inc(NewestIn(m, prefix))
                 ELSE Min(holes)
  BY DEF event_memory_init
<1>2. \A k \in Records : m[k].cnt \in Nat
  BY DEF Event
<1>3. CASE holes = {}
  <2> DEFINE t == IF q = 0 THEN MemSize - 2 ELSE q - 1
  <2>1. \A i \in Scanned : event_valid(m[i])
    BY <1>3
  <2>2. prefix = Scanned /\ NewestIn(m, prefix) = t
    BY <1>3, <2>1, ScanFull
  <2>3. r.cnt = m[t].cnt /\ r.ptr = _ptr_inc(t)
    BY <1>0, <1>1, <1>3, <2>2
  <2>4. t \in Records
    BY <1>0
  <2>5. CASE q # 0
    <3>1. r.ptr = q /\ Back(q, 0) = t
      BY <1>0, <2>3, <2>5 DEF _ptr_inc, Back
    <3> QED BY <1>2, <2>3, <2>4, <3>1
  <2>6. CASE q = 0
    <3>1. r.ptr = MemSize - 1 /\ Back(r.ptr, 0) = t /\ r.ptr \in Records
      BY <1>0, <2>3, <2>6 DEF _ptr_inc, Back
    <3>2. \/ \A i \in Records : event_valid(m[i])
          \/ \A i \in Records : event_valid(m[i]) <=> i < r.ptr
      <4>1. ~(\A i \in Records : event_valid(m[i]) <=> i < q)
        BY <1>0, <2>1, <2>6
      <4> QED BY <4>1 DEF Ring
    <3>3. ASSUME NEW i \in Records, NEW j \in Records, i < j,
                 event_valid(m[Back(r.ptr, j)]), j < MemSize - 1
          PROVE  Precedes(m[Back(r.ptr, j)], m[Back(r.ptr, i)])
      <4>1. /\ i + 1 \in Records /\ j + 1 \in Records /\ i + 1 < j + 1
            /\ Back(r.ptr, j) = Back(q, j + 1)
            /\ Back(r.ptr, i) = Back(q, i + 1)
            /\ q # MemSize - 1
        BY <1>0, <2>6, <3>1, <3>3 DEF Back
      <4> QED BY <3>3, <4>1 DEF Ring
    <3>4. Ring(m, r.ptr)
      BY <3>1, <3>2, <3>3 DEF Ring
    <3> HIDE DEF t
    <3>5. r.cnt \in Nat /\ m[Back(r.ptr, 0)].cnt <= r.cnt
      BY <1>2, <2>3, <2>4, <3>1
    <3> QED BY <2>6, <3>1, <3>4, <3>5
  <2> QED BY <2>5, <2>6
<1>4. CASE holes # {}
  <2>1. \A i \in Records : event_valid(m[i]) <=> i < q
    BY <1>0, <1>4 DEF Ring
  <2>2. q \in holes /\ \A i \in holes : q <= i
    BY <1>0, <1>4, <2>1
  <2>3. Min(holes) = q
    <3> HIDE DEF holes
    <3>1. holes \subseteq Nat
      BY <1>0 DEF holes
    <3>2. ASSUME NEW x \in holes, \A y \in holes : x =< y PROVE x = q
      BY <2>2, <3>1, <3>2
    <3> QED BY <2>2, <3>2, Zenon DEF Min
  <2>4. r.ptr = q /\ prefix = 0 .. q - 1
    BY <1>1, <1>4, <2>3
  <2>5. r.cnt \in Nat /\ m[Back(q, 0)].cnt <= r.cnt
    <3>1. CASE q = 0
      <4>1. prefix = {} /\ r.cnt = 0
        BY <1>1, <2>4, <3>1
      <4>2. Back(q, 0) \in Records /\ ~(Back(q, 0) < q)
        BY <1>0, <3>1 DEF Back
      <4>3. m[Back(q, 0)] = Blank
        BY <2>1, <4>2 DEF event_valid, Erased
      <4> QED BY <4>1, <4>3 DEF Blank
    <3>2. CASE q # 0
      <4> DEFINE x == NewestIn(m, 0 .. q - 1)
      <4>1. /\ q - 1 \in 0 .. q - 1 /\ 0 .. q - 1 \subseteq Records
            /\ Back(q, 0) = q - 1
        BY <1>0, <3>2 DEF Back
      <4>2. ASSUME NEW s \in 0 .. q - 1 PROVE m[s].cnt <= m[q - 1].cnt
        <5>1. CASE s = q - 1
          BY <1>2, <4>1, <5>1
        <5>2. CASE s # q - 1
          <6>1. /\ Back(q, s) \in Records /\ Back(q, Back(q, s)) = s
                /\ 0 \in Records /\ 0 < Back(q, s)
                /\ Back(q, s) < MemSize - 1 /\ s \in Records /\ s < q
            BY <1>0, <4>1, <5>2 DEF Back
          <6>2. Precedes(m[Back(q, Back(q, s))], m[Back(q, 0)])
            BY <2>1, <6>1 DEF Ring
          <6> QED BY <1>2, <4>1, <6>1, <6>2 DEF Precedes
        <5> QED BY <5>1, <5>2
      <4>3. x \in 0 .. q - 1 /\ \A s \in 0 .. q - 1 : m[s].cnt <= m[x].cnt
        BY <4>1, <4>2 DEF NewestIn
      <4>4. r.cnt = m[x].cnt
        BY <1>1, <2>4, <4>1
      <4> HIDE DEF x
      <4> QED BY <1>2, <4>1, <4>3, <4>4
    <3> QED BY <3>1, <3>2
  <2> QED BY <2>4, <2>5
<1> QED BY <1>3, <1>4

-----------------------------------------------------------------------------
\* A call that overlaps no other one finds nobody inside.
LEMMA ClaimAlone ==
  ASSUME ~raced', wr \in Slots, NEW p \in Producers, Claim(p)
  PROVE  /\ pc' = [pc EXCEPT ![p] = "claimed"]
         /\ loc' = [loc EXCEPT ![p] =
                      [ptr |-> wr, cnt |-> 0, n |-> calls + 1]]
         /\ \A q \in Producers : pc[q] = "idle"
<1>1. ~Overflow(wr)
  BY IncType DEF Overflow
<1>2. Inside = {} => \A q \in Producers : pc[q] = "idle"
  BY DEF Inside
<1> QED BY <1>1, <1>2, Zenon DEF Claim

\* Calls that do not overlap find the pointer and the slot as they left them.
LEMMA CallStep ==
  ASSUME ~raced', TypeOK, CallInv, [Next]_vars
  PROVE  CallInv'
<1>1. ASSUME NEW p \in Producers, Claim(p) PROVE CallInv'
  <2>1. UNCHANGED <<buf, wr>>
    BY <1>1 DEF Claim
  <2> QED BY <1>1, <2>1, ClaimAlone DEF CallInv, TypeOK
<1>2. ASSUME NEW p \in Producers, LoadCnt(p) PROVE CallInv'
  <2>1. /\ pc[p] = "claimed"
        /\ pc' = [pc EXCEPT ![p] = "counted"]
        /\ loc' = [loc EXCEPT ![p].cnt = cnt + 1]
        /\ UNCHANGED <<buf, wr>>
        /\ pc \in [Producers -> {"idle", "claimed", "counted", "filled"}]
        /\ loc \in [Producers -> [ptr : Slots, cnt : Nat, n : Nat]]
    BY <1>2, Zenon DEF LoadCnt, TypeOK
  <2>2. \A q \in Producers : loc'[q].ptr = loc[q].ptr
    BY <2>1
  <2>3. \A q \in Producers : q # p => pc'[q] = pc[q] /\ loc'[q] = loc[q]
    BY <2>1
  <2>4. pc'[p] = "counted"
    BY <2>1
  <2> QED BY <2>1, <2>2, <2>3, <2>4 DEF CallInv
<1>3. ASSUME NEW p \in Producers, Fill(p) PROVE CallInv'
  BY <1>3 DEF Fill, CallInv, TypeOK
<1>4. ASSUME NEW p \in Producers, Publish(p) PROVE CallInv'
  BY <1>4 DEF Publish, CallInv, TypeOK
<1>5. CASE event_task
  BY <1>5 DEF event_task, Take, Advance, CallInv
<1>6. CASE UNCHANGED vars
  BY <1>6 DEF vars, CallInv
<1> QED BY <1>1, <1>2, <1>3, <1>4, <1>5, <1>6 DEF Next, event_create

\* An event that was given out before stays so while a producer goes on.
LEMMA PastStep ==
  ASSUME ~raced', TypeOK, CallInv, CountInv, NEW e \in Event, Past(e),
         NEW p \in Producers, event_create(p)
  PROVE  Past(e)'
<1>0. /\ pc \in [Producers -> {"idle", "claimed", "counted", "filled"}]
      /\ loc \in [Producers -> [ptr : Slots, cnt : Nat, n : Nat]]
      /\ calls \in Nat /\ cnt \in Nat /\ e.n \in Nat /\ e.cnt \in Nat
  BY DEF TypeOK, Event
<1>1. /\ e.n <= calls /\ e.cnt <= cnt
      /\ \A q \in Producers : /\ pc[q] # "idle" => e.n < loc[q].n
                              /\ pc[q] = "filled" => e.cnt < loc[q].cnt
  BY DEF Past
<1>2. CASE Claim(p)
  <2>1. /\ calls' = calls + 1 /\ cnt' = cnt
    BY <1>2 DEF Claim
  <2>2. /\ pc' = [pc EXCEPT ![p] = "claimed"]
        /\ loc' = [loc EXCEPT ![p] =
                     [ptr |-> wr, cnt |-> 0, n |-> calls + 1]]
        /\ \A q \in Producers : pc[q] = "idle"
    BY <1>2, ClaimAlone DEF TypeOK
  <2> QED BY <1>0, <1>1, <2>1, <2>2 DEF Past
<1>3. CASE LoadCnt(p)
  <2>1. /\ calls' = calls /\ cnt' = cnt /\ pc[p] = "claimed"
        /\ pc' = [pc EXCEPT ![p] = "counted"]
        /\ loc' = [loc EXCEPT ![p].cnt = cnt + 1]
    BY <1>3 DEF LoadCnt
  <2>2. \A q \in Producers : loc'[q].n = loc[q].n
    BY <1>0, <2>1
  <2>3. \A q \in Producers : q # p => pc'[q] = pc[q] /\ loc'[q] = loc[q]
    BY <1>0, <2>1
  <2>4. pc'[p] = "counted"
    BY <1>0, <2>1
  <2> QED BY <1>1, <2>1, <2>2, <2>3, <2>4 DEF Past
<1>4. CASE Fill(p)
  <2>1. /\ pc[p] = "counted" /\ pc' = [pc EXCEPT ![p] = "filled"]
        /\ cnt' = loc[p].cnt /\ UNCHANGED <<loc, calls>>
    BY <1>4 DEF Fill
  <2>2. loc[p].cnt = cnt + 1
    BY <2>1 DEF CountInv
  <2> QED BY <1>0, <1>1, <2>1, <2>2 DEF Past
<1>5. CASE Publish(p)
  <2>1. pc' = [pc EXCEPT ![p] = "idle"] /\ UNCHANGED <<cnt, loc, calls>>
    BY <1>5 DEF Publish
  <2> QED BY <1>0, <1>1, <2>1 DEF Past
<1> QED BY <1>2, <1>3, <1>4, <1>5 DEF event_create

\* What a producer knows of the counters.
LEMMA CountStep ==
  ASSUME ~raced', TypeOK, CallInv, CountInv, [Next]_vars
  PROVE  CountInv'
<1>0. /\ pc \in [Producers -> {"idle", "claimed", "counted", "filled"}]
      /\ loc \in [Producers -> [ptr : Slots, cnt : Nat, n : Nat]]
      /\ calls \in Nat /\ cnt \in Nat
      /\ \A p, q \in Producers : pc[p] # "idle" /\ pc[q] # "idle" => p = q
  BY DEF TypeOK, CallInv
<1>1. ASSUME NEW p \in Producers, Claim(p) PROVE CountInv'
  <2>1. /\ calls' = calls + 1 /\ cnt' = cnt
    BY <1>1 DEF Claim
  <2>2. /\ pc' = [pc EXCEPT ![p] = "claimed"]
        /\ loc' = [loc EXCEPT ![p] =
                     [ptr |-> wr, cnt |-> 0, n |-> calls + 1]]
        /\ \A q \in Producers : pc[q] = "idle"
    BY <1>1, ClaimAlone DEF TypeOK
  <2> QED BY <1>0, <2>1, <2>2 DEF CountInv
<1>2. ASSUME NEW p \in Producers, LoadCnt(p) PROVE CountInv'
  <2>1. /\ calls' = calls /\ cnt' = cnt /\ pc[p] = "claimed"
        /\ pc' = [pc EXCEPT ![p] = "counted"]
        /\ loc' = [loc EXCEPT ![p].cnt = cnt + 1]
    BY <1>2 DEF LoadCnt
  <2>2. \A q \in Producers : q # p => pc'[q] = pc[q] /\ loc'[q] = loc[q]
    BY <1>0, <2>1
  <2>3. pc'[p] = "counted" /\ loc'[p].n = loc[p].n /\ loc'[p].cnt = cnt + 1
    BY <1>0, <2>1
  <2> QED BY <2>1, <2>2, <2>3 DEF CountInv
<1>3. ASSUME NEW p \in Producers, Fill(p) PROVE CountInv'
  <2>1. /\ pc[p] = "counted" /\ pc' = [pc EXCEPT ![p] = "filled"]
        /\ cnt' = loc[p].cnt /\ UNCHANGED <<loc, calls>>
    BY <1>3 DEF Fill
  <2>2. \A q \in Producers : q # p => pc'[q] = "idle"
    BY <1>0, <2>1
  <2>3. pc'[p] = "filled"
    BY <1>0, <2>1
  <2> QED BY <2>1, <2>2, <2>3 DEF CountInv
<1>4. ASSUME NEW p \in Producers, Publish(p) PROVE CountInv'
  <2>1. pc' = [pc EXCEPT ![p] = "idle"] /\ UNCHANGED <<cnt, loc, calls>>
    BY <1>4 DEF Publish
  <2> QED BY <1>0, <2>1 DEF CountInv
<1>5. CASE event_task
  BY <1>5 DEF event_task, Take, Advance, CountInv
<1>6. CASE UNCHANGED vars
  BY <1>6 DEF vars, CountInv
<1> QED BY <1>1, <1>2, <1>3, <1>4, <1>5, <1>6 DEF Next, event_create

\* The slots that are still to be stored are slots of the ring, and the one
\* that is filled next is not among them.
LEMMA DueFact ==
  ASSUME wr \in Slots, rd \in Slots
  PROVE  /\ From \in Slots /\ Due \in Slots
         /\ \A j \in Slots : DueSlot(j) \in Slots
         /\ \A j \in Slots : j < Due => DueSlot(j) # wr
         /\ DueSlot(Due) = wr
BY DEF From, Due, DueSlot, Inc

\* event_create() adds the newest event, or, when that makes the full ring
\* look empty, takes away all of them.
LEMMA DueCreate ==
  ASSUME ~raced', TypeOK, CallInv, CountInv, DueInv, Top \in Event,
         NEW p \in Producers, event_create(p), UNCHANGED memory
  PROVE  DueInv'
<1>0. /\ wr \in Slots /\ rd \in Slots /\ buf \in [Slots -> Event]
      /\ pc \in [Producers -> {"idle", "claimed", "counted", "filled"}]
      /\ loc \in [Producers -> [ptr : Slots, cnt : Nat, n : Nat]]
      /\ calls \in Nat /\ cnt \in Nat
  BY DEF TypeOK
<1>1. Top' = Top
  BY DEF memory, Top
<1>2. \A e \in Event : Past(e) => Past(e)'
  BY PastStep
<1>3. Past(Top)'
  BY <1>1, <1>2 DEF DueInv, Past
<1>4. /\ Due \in Slots /\ DueSlot(Due) = wr
      /\ \A j \in Slots : DueSlot(j) \in Slots
      /\ \A j \in Slots : j < Due => DueSlot(j) # wr
  BY <1>0, DueFact
<1>5. /\ \A j \in Slots : j < Due => Precedes(Top, buf[DueSlot(j)])
      /\ \A j \in Slots : j < Due => Past(buf[DueSlot(j)])
      /\ \A i, j \in Slots :
           i < j /\ j < Due => Precedes(buf[DueSlot(i)], buf[DueSlot(j)])
      /\ Past(Top)
  BY DEF DueInv
<1>6. ASSUME UNCHANGED <<wr, rd, busy>>,
             \A s \in Slots : s # wr => buf'[s] = buf[s]
      PROVE  DueInv'
  <2>1. From' = From
    BY <1>6 DEF From
  <2>2. Due' = Due /\ \A j \in Slots : DueSlot(j)' = DueSlot(j)
    BY <1>6, <2>1 DEF Due, DueSlot
  <2>3. \A i, j \in Slots : i < j /\ j < Due => i < Due
    BY <1>4
  <2>4. ASSUME NEW j \in Slots, j < Due
        PROVE  buf'[DueSlot(j)'] = buf[DueSlot(j)] /\ buf[DueSlot(j)] \in Event
    BY <1>0, <1>4, <1>6, <2>2, <2>4
  <2>5. ASSUME NEW j \in Slots, j < Due'
        PROVE  /\ Precedes(Top', buf'[DueSlot(j)'])
               /\ Past(buf[DueSlot(j)])'
               /\ \A i \in Slots : i < j =>
                    Precedes(buf'[DueSlot(i)'], buf'[DueSlot(j)'])
    <3>1. Precedes(Top', buf'[DueSlot(j)'])
      BY <1>1, <1>5, <2>2, <2>4, <2>5
    <3>2. Past(buf[DueSlot(j)])'
      BY <1>2, <1>5, <2>2, <2>4, <2>5 DEF Past
    <3>3. \A i \in Slots : i < j =>
            Precedes(buf'[DueSlot(i)'], buf'[DueSlot(j)'])
      BY <1>5, <2>2, <2>3, <2>4, <2>5
    <3> QED BY <3>1, <3>2, <3>3
  <2> QED BY <1>3, <2>5 DEF DueInv, Precedes
<1>7. CASE Claim(p) \/ LoadCnt(p)
  BY <1>6, <1>7 DEF Claim, LoadCnt
<1>8. CASE Fill(p)
  <2>1. loc[p].ptr = wr
    BY <1>8 DEF Fill, CallInv
  <2> QED BY <1>0, <1>6, <1>8, <2>1 DEF Fill
<1>9. CASE Publish(p)
  <2> DEFINE e == [n |-> loc[p].n, cnt |-> loc[p].cnt]
  <2>1. /\ pc[p] = "filled" /\ loc[p].ptr = wr /\ buf[wr] = e
        /\ wr' = Inc(wr) /\ pc' = [pc EXCEPT ![p] = "idle"]
        /\ UNCHANGED <<buf, rd, cnt, loc, busy, calls>>
    BY <1>9 DEF Publish, CallInv
  <2>2. /\ \A q \in Producers : pc'[q] = "idle"
        /\ e \in Event /\ e.n = calls /\ e.cnt = cnt /\ e' = e
    BY <1>0, <2>1 DEF CallInv, CountInv, Event
  <2>3. Past(e)'
    BY <1>0, <2>1, <2>2 DEF Past
  <2>4. \A f \in Event : Past(f) => Precedes(f, e)
    BY <2>1 DEF Past, Precedes
  <2>5. From' = From /\ \A j \in Slots : DueSlot(j)' = DueSlot(j)
    BY <2>1 DEF From, DueSlot
  <2>6. Due' = 0 \/ Due' = Due + 1
    <3>1. From \in Slots /\ wr' = (IF wr + 1 = Size THEN 0 ELSE wr + 1)
      BY <1>0, <2>1, DueFact DEF Inc
    <3>2. Due' = IF wr' >= From THEN wr' - From ELSE wr' + Size - From
      BY <2>5 DEF Due
    <3> QED BY <1>0, <3>1, <3>2 DEF Due
  <2>7. CASE Due' = 0
    <3>1. \A j \in Slots : ~(j < Due')
      BY <2>7
    <3> QED BY <1>3, <3>1 DEF DueInv
  <2>8. CASE Due' = Due + 1
    <3> HIDE DEF e
    <3>1. ASSUME NEW j \in Slots, j < Due'
          PROVE  /\ Precedes(Top', buf'[DueSlot(j)'])
                 /\ Past(buf[DueSlot(j)])'
                 /\ \A i \in Slots : i < j =>
                      Precedes(buf'[DueSlot(i)'], buf'[DueSlot(j)'])
      <4>1. CASE j = Due
        <5>1. buf'[DueSlot(j)'] = e
          BY <1>4, <2>1, <2>5, <4>1
        <5>2. Precedes(Top, e)
          BY <1>5, <2>4
        <5>3. \A i \in Slots : i < j => Precedes(buf[DueSlot(i)], e)
          BY <1>0, <1>4, <1>5, <2>4, <4>1
        <5>4. Past(buf[DueSlot(j)])'
          BY <2>2, <2>3, <5>1 DEF Past
        <5> QED BY <1>1, <2>1, <2>5, <5>1, <5>2, <5>3, <5>4
      <4>2. CASE j < Due
        <5>1. buf[DueSlot(j)] \in Event /\ buf'[DueSlot(j)'] = buf[DueSlot(j)]
          BY <1>0, <1>4, <2>1, <2>5
        <5>2. Past(buf[DueSlot(j)])'
          BY <1>2, <1>5, <4>2, <5>1 DEF Past
        <5> QED BY <1>1, <1>5, <2>1, <2>5, <4>2, <5>1, <5>2
      <4> QED BY <1>4, <2>8, <3>1, <4>1, <4>2
    <3> QED BY <1>3, <3>1 DEF DueInv, Precedes
  <2> QED BY <2>6, <2>7, <2>8
<1> QED BY <1>7, <1>8, <1>9 DEF event_create

\* event_task() goes on to the next slot when it has stored the event, and
\* not again when it advances the read pointer.
LEMMA DueAdvance ==
  ASSUME DueInv, Advance, UNCHANGED memory
  PROVE  DueInv'
<1>1. /\ From' = From /\ Top' = Top
      /\ UNCHANGED <<buf, wr, calls, cnt, pc, loc>>
  BY DEF Advance, From, memory, Top
<1>2. Due' = Due /\ \A j \in Slots : DueSlot(j)' = DueSlot(j)
  BY <1>1 DEF Due, DueSlot
<1> QED BY <1>1, <1>2 DEF DueInv, Precedes, Past

\* event_memory_store(): the oldest event that is due becomes the newest one
\* in the memory.
LEMMA DueStore ==
  ASSUME TypeOK, DueInv, ptr \in Records, mem \in [Records -> Event],
         event_memory_store
  PROVE  /\ DueInv' /\ Top' = buf[rd] /\ buf[rd] \in Event
         /\ Precedes(Top, buf[rd])
         /\ buf[rd].n <= calls
<1>0. wr \in Slots /\ rd \in Slots /\ buf \in [Slots -> Event]
  BY DEF TypeOK
<1>1. /\ rd # wr /\ ~busy /\ busy' /\ cur' = buf[rd]
      /\ UNCHANGED <<buf, wr, rd, cnt, pc, loc, calls>>
      /\ ptr' = _ptr_inc(ptr) /\ mem' = [mem EXCEPT ![ptr] = cur']
  BY DEF event_memory_store, Take
<1>2. Top' = buf[rd] /\ buf[rd] \in Event
  <2>1. Back(_ptr_inc(ptr), 0) = ptr
    BY BackInc
  <2> QED BY <1>0, <1>1, <2>1 DEF Top
<1>3. /\ From = rd /\ From' = Inc(rd) /\ From' \in Slots
  BY <1>0, <1>1, IncType DEF From
<1>4. Due > 0 /\ Due \in Slots /\ 0 \in Slots /\ DueSlot(0) = rd
  BY <1>0, <1>1, <1>3 DEF Due, DueSlot
<1>5. Precedes(Top, buf[rd]) /\ Past(buf[rd])
  BY <1>4 DEF DueInv
<1>6. Due' = Due - 1
  <2>1. Due' = IF wr >= From' THEN wr - From' ELSE wr + Size - From'
    BY <1>1 DEF Due
  <2> QED BY <1>0, <1>1, <1>3, <2>1 DEF Due, Inc
<1>7. \A j \in Slots :
        j < Due' => j + 1 \in Slots /\ DueSlot(j)' = DueSlot(j + 1)
  BY <1>0, <1>3, <1>4, <1>6 DEF DueSlot, Inc
<1>8. ASSUME NEW j \in Slots, j < Due'
      PROVE  /\ Precedes(Top', buf'[DueSlot(j)'])
             /\ Past(buf[DueSlot(j)])'
             /\ \A i \in Slots : i < j =>
                  Precedes(buf'[DueSlot(i)'], buf'[DueSlot(j)'])
  <2>1. /\ j + 1 \in Slots /\ j + 1 < Due /\ DueSlot(j)' = DueSlot(j + 1)
        /\ 0 < j + 1
    BY <1>4, <1>6, <1>7, <1>8
  <2>2. /\ Precedes(buf[DueSlot(0)], buf[DueSlot(j + 1)])
        /\ Past(buf[DueSlot(j + 1)])
    BY <1>4, <2>1 DEF DueInv
  <2>3. Past(buf[DueSlot(j)])'
    BY <1>1, <2>1, <2>2 DEF Past
  <2>4. ASSUME NEW i \in Slots, i < j
        PROVE  Precedes(buf'[DueSlot(i)'], buf'[DueSlot(j)'])
    <3>1. i < Due' /\ i + 1 < j + 1
      BY <1>4, <1>6, <1>8, <2>4
    <3>2. i + 1 \in Slots /\ DueSlot(i)' = DueSlot(i + 1)
      BY <1>7, <3>1
    <3>3. Precedes(buf[DueSlot(i + 1)], buf[DueSlot(j + 1)])
      BY <2>1, <3>1, <3>2 DEF DueInv
    <3> QED BY <1>1, <2>1, <3>2, <3>3
  <2> QED BY <1>1, <1>2, <1>4, <2>1, <2>2, <2>3, <2>4
<1>9. Past(Top)'
  BY <1>1, <1>2, <1>5 DEF Past
<1>10. DueInv'
  BY <1>8, <1>9 DEF DueInv, Precedes
<1> QED BY <1>2, <1>5, <1>10 DEF Past

\* The invariant of the FIFO with the memory behind it.
TimeInv == CallInv /\ CountInv /\ DueInv /\ StoreInv

MemInv == MemTypeOK /\ FifoInv /\ (~raced => TimeInv)

\* The largest count among the first records is the count of one of them.
LEMMA NewestType ==
  ASSUME NEW m \in [Records -> Event], NEW k \in Records
  PROVE  NewestIn(m, 0 .. k) \in 0 .. k
<1>0. Records = 0 .. MemSize - 1 /\ MemSize \in Nat
  BY MemSizeAssumption DEF Records
<1>1. \A i \in Records : m[i].cnt \in Nat
  BY DEF Event
<1> DEFINE Most(x, i) == \A j \in 0 .. x : m[j].cnt <= m[i].cnt
           D == {x \in Records : \A i \in 0 .. x : ~Most(x, i)}
<1>2. D = {}
  <2> SUFFICES ASSUME D # {} PROVE FALSE
    OBVIOUS
  <2>1. D \subseteq Nat
    BY <1>0
  <2>2. PICK x \in D : \A y \in D : ~(<<y, x>> \in OpToRel(<, Nat))
    <3> HIDE DEF D
    <3> QED BY <2>1, WFMin, NatLessThanWellFounded
  <2>3. \A y \in D : ~(y < x)
    BY <2>1, <2>2, Zenon DEF OpToRel
  <2>4. x \in Records /\ \A i \in 0 .. x : ~Most(x, i)
    BY <2>2
  <2>5. CASE x = 0
    <3>1. 0 .. x = {0} /\ 0 \in Records
      BY <1>0, <2>4, <2>5
    <3>2. Most(x, 0)
      BY <1>1, <3>1
    <3> QED BY <2>4, <3>1, <3>2
  <2>6. CASE x # 0
    <3>1. x - 1 \in Records /\ x - 1 < x
      BY <1>0, <2>4, <2>6
    <3>2. PICK i \in 0 .. x - 1 : Most(x - 1, i)
      BY <2>3, <3>1
    <3>3. /\ i \in 0 .. x /\ x \in 0 .. x /\ i \in Records
          /\ \A j \in 0 .. x : j \in Records /\ (j = x \/ j \in 0 .. x - 1)
      BY <1>0, <2>4, <3>1
    <3>4. m[x].cnt \in Nat /\ m[i].cnt \in Nat
      BY <1>1, <2>4, <3>3
    <3>5. CASE m[x].cnt <= m[i].cnt
      <4>1. Most(x, i)
        BY <3>2, <3>3, <3>5
      <4> QED BY <2>4, <3>3, <4>1
    <3>6. CASE m[i].cnt <= m[x].cnt
      <4>1. \A j \in 0 .. x : m[j].cnt \in Nat
        BY <1>1, <3>3
      <4>2. Most(x, x)
        BY <3>2, <3>3, <3>4, <3>6, <4>1
      <4> QED BY <2>4, <3>3, <4>2
    <3> QED BY <3>4, <3>5, <3>6
  <2> QED BY <2>5, <2>6
<1>3. \E i \in 0 .. k : Most(k, i)
  BY <1>2
<1> QED BY <1>3 DEF NewestIn

\* Whatever the records are, event_memory_init() ends with a pointer into
\* them and a count.
LEMMA InitType ==
  ASSUME NEW m \in [Records -> Event], NEW r, r = event_memory_init(m)
  PROVE  r.ptr \in Records /\ r.cnt \in Nat
<1> DEFINE holes  == {i \in Scanned : ~event_valid(m[i])}
           prefix == IF holes = {} THEN Scanned ELSE 0 .. Min(holes) - 1
           top    == IF prefix = {} THEN 0 ELSE m[NewestIn(m, prefix)].cnt
<1>0. /\ Records = 0 .. MemSize - 1 /\ MemSize \in Nat /\ MemSize >= 3
      /\ Scanned = 0 .. MemSize - 2 /\ MemSize - 2 \in Records
  BY MemSizeAssumption DEF Records, Scanned
<1>1. /\ r.cnt = top
      /\ r.ptr = IF holes = {} THEN _ptr_inc(NewestIn(m, prefix))
                 ELSE Min(holes)
  BY DEF event_memory_init
<1>2. \A k \in Records : m[k].cnt \in Nat
  BY DEF Event
<1>3. CASE holes = {}
  <2>1. prefix = 0 .. MemSize - 2 /\ prefix # {}
    BY <1>0, <1>3
  <2>2. NewestIn(m, 0 .. MemSize - 2) \in 0 .. MemSize - 2
    BY <1>0, NewestType
  <2> HIDE DEF prefix, holes
  <2>3. NewestIn(m, prefix) \in Records
    BY <1>0, <2>1, <2>2
  <2> QED BY <1>1, <1>2, <1>3, <2>1, <2>3, BackInc
<1>4. CASE holes # {}
  <2>1. holes \subseteq Nat /\ holes \subseteq Scanned
    BY <1>0
  <2> HIDE DEF holes
  <2>2. PICK x \in holes : \A y \in holes : ~(<<y, x>> \in OpToRel(<, Nat))
    BY <1>4, <2>1, WFMin, NatLessThanWellFounded
  <2>3. \A y \in holes : ~(y < x)
    BY <2>1, <2>2, Zenon DEF OpToRel
  <2>4. \A y \in holes : x =< y
    BY <2>1, <2>3
  <2>5. Min(holes) \in holes
    BY <2>4, Zenon DEF Min
  <2>6. Min(holes) \in Records /\ Min(holes) \in 0 .. MemSize - 2
    <3>1. Min(holes) \in Scanned
      BY <2>1, <2>5, Zenon
    <3>2. \A z \in Scanned : z \in Records /\ z \in 0 .. MemSize - 2
      BY <1>0
    <3> QED BY <3>1, <3>2, Zenon
  <2>7. CASE Min(holes) = 0
    <3>1. prefix = {}
      BY <1>4, <2>7
    <3> QED BY <1>1, <1>4, <2>6, <3>1
  <2>8. CASE Min(holes) # 0
    <3>1. /\ prefix = 0 .. Min(holes) - 1 /\ Min(holes) - 1 \in Records
          /\ prefix # {} /\ 0 .. Min(holes) - 1 \subseteq Records
      BY <1>0, <1>4, <2>6, <2>8
    <3>2. NewestIn(m, 0 .. Min(holes) - 1) \in 0 .. Min(holes) - 1
      BY <3>1, NewestType
    <3> HIDE DEF prefix
    <3> QED BY <1>1, <1>2, <1>4, <2>6, <3>1, <3>2
  <2> QED BY <2>7, <2>8
<1> QED BY <1>3, <1>4

\* A power cut anywhere leaves the types and an empty FIFO.
LEMMA RestartFifo ==
  ASSUME MemTypeOK, Restart
  PROVE  MemTypeOK' /\ FifoInv'
<1> DEFINE r == event_memory_init(flash)
<1>1. /\ flash \in [Records -> Event] /\ kept \in Nat /\ calls \in Nat
      /\ raced \in BOOLEAN
  BY Zenon DEF MemTypeOK, TypeOK
<1>2. /\ mem' = flash /\ flash' = flash /\ kept' = kept
      /\ ptr' = r.ptr /\ cnt' = r.cnt /\ newest' = kept /\ booted' = TRUE
      /\ calls' = calls /\ raced' = raced
  BY DEF Restart
<1>3. /\ buf' = [s \in Slots |-> Blank] /\ wr' = 0 /\ rd' = 0
      /\ pc' = [p \in Producers |-> "idle"]
      /\ loc' = [p \in Producers |-> [ptr |-> 0, cnt |-> 0, n |-> 0]]
      /\ busy' = FALSE /\ cur' = Blank
      /\ alone' = {} /\ passed' = {} /\ due' = {}
  BY DEF Restart
<1>4. r.ptr \in Records /\ r.cnt \in Nat
  BY <1>1, InitType
<1> HIDE DEF r
<1>5. TypeOK'
  <2>1. Blank \in Event
    BY EventType DEF Blank
  <2>2. buf' \in [Slots -> Event] /\ cur' \in Event
    BY <1>3, <2>1
  <2>3. wr' \in Slots /\ rd' \in Slots /\ cnt' \in Nat /\ calls' \in Nat
    BY <1>1, <1>2, <1>3, <1>4
  <2>4. /\ alone' \subseteq Producers /\ passed' \subseteq Producers
        /\ due' \subseteq [slot : Slots, ev : Event]
    BY <1>3
  <2>5. busy' \in BOOLEAN /\ raced' \in BOOLEAN
    BY <1>1, <1>2, <1>3, Zenon
  <2>6. /\ pc' \in [Producers -> {"idle", "claimed", "counted", "filled"}]
        /\ loc' \in [Producers -> [ptr : Slots, cnt : Nat, n : Nat]]
    BY <1>3
  <2> QED BY <2>2, <2>3, <2>4, <2>5, <2>6, Zenon DEF TypeOK
<1>6. MemTypeOK'
  <2>1. booted' \in BOOLEAN
    BY <1>2, Zenon
  <2> QED BY <1>1, <1>2, <1>4, <1>5, <2>1, Zenon DEF MemTypeOK
<1>7. FifoInv'
  BY <1>3 DEF FifoInv, CallersInv, AloneInOrder, Inside
<1> QED BY <1>6, <1>7

\* Types and the FIFO, whether calls overlap or not.
LEMMA MemFifoStep ==
  ASSUME MemTypeOK, FifoInv, [MemNext]_allvars
  PROVE  MemTypeOK' /\ FifoInv' /\ (raced => raced')
<1>0. /\ TypeOK /\ mem \in [Records -> Event] /\ flash \in [Records -> Event]
      /\ ptr \in Records /\ newest \in Nat /\ kept \in Nat
      /\ booted \in BOOLEAN
  BY Zenon DEF MemTypeOK
<1>1. ASSUME [Next]_vars
      PROVE  TypeOK' /\ FifoInv' /\ (raced => raced')
  <2>1. TypeOK' /\ FifoInv'
    BY <1>0, <1>1, TypeStep, FifoStep
  <2>2. raced => raced'
    BY <1>1, Zenon DEF Next, event_create, event_task, Claim, LoadCnt, Fill,
       Publish, Take, Advance, vars
  <2> QED BY <2>1, <2>2
<1>2. CASE (Advance \/ \E p \in Producers : event_create(p)) /\ UNCHANGED memory
  <2>1. [Next]_vars
    BY <1>2, Zenon DEF Next, event_task
  <2> QED BY <1>0, <1>1, <1>2, <2>1, Zenon DEF MemTypeOK, memory
<1>3. CASE event_memory_store
  <2>1. [Next]_vars /\ cur' = buf[rd]
    BY <1>3, Zenon DEF event_memory_store, Next, event_task, Take
  <2>2. buf[rd] \in Event
    BY <1>0 DEF TypeOK
  <2>3. /\ ptr' = _ptr_inc(ptr) /\ mem' = [mem EXCEPT ![ptr] = cur']
        /\ newest' = cur'.n /\ booted' = FALSE /\ UNCHANGED <<flash, kept>>
    BY <1>3 DEF event_memory_store
  <2>4. ptr' \in Records
    BY <1>0, <2>3, BackInc
  <2>5. mem' \in [Records -> Event] /\ newest' \in Nat
    BY <1>0, <2>1, <2>2, <2>3 DEF Event
  <2> QED BY <1>0, <1>1, <2>1, <2>3, <2>4, <2>5, Zenon DEF MemTypeOK
<1>4. CASE storage_maintenance
  <2>1. UNCHANGED vars /\ flash' = mem /\ kept' = newest
        /\ UNCHANGED <<mem, ptr, newest, booted>>
    BY <1>4, Zenon DEF storage_maintenance
  <2> QED BY <1>0, <1>1, <2>1, Zenon DEF MemTypeOK
<1>5. CASE Restart
  BY <1>5, RestartFifo, Zenon DEF Restart
<1>6. CASE UNCHANGED allvars
  <2>1. UNCHANGED vars /\ UNCHANGED memory
    BY <1>6, Zenon DEF allvars
  <2> QED BY <1>0, <1>1, <2>1, Zenon DEF MemTypeOK, memory
<1> QED BY <1>2, <1>3, <1>4, <1>5, <1>6, Zenon DEF MemNext

\* An erased memory and an empty FIFO.
LEMMA MemInitInv == MemInit => MemInv
<1> SUFFICES ASSUME MemInit PROVE MemInv
  OBVIOUS
<1>0. /\ Init /\ mem = [i \in Records |-> Blank] /\ flash = mem
      /\ ptr = 0 /\ newest = 0 /\ kept = 0 /\ booted = TRUE
      /\ 0 \in Records /\ Records = 0 .. MemSize - 1
      /\ MemSize \in Nat /\ MemSize >= 3
  BY MemSizeAssumption DEF MemInit, Erased, Records
<1>1. Blank \in Event /\ ~event_valid(Blank)
  BY EventType DEF Blank, event_valid, Erased
<1>2. TypeOK /\ FifoInv
  BY <1>0, TypeInit, FifoInit
<1>3. MemTypeOK
  <2>1. mem \in [Records -> Event] /\ flash \in [Records -> Event]
    BY <1>0, <1>1
  <2>2. ptr \in Records /\ newest \in Nat /\ kept \in Nat
    BY <1>0
  <2>3. booted \in BOOLEAN
    BY <1>0, Zenon
  <2> QED BY <1>2, <2>1, <2>2, <2>3, Zenon DEF MemTypeOK
<1>4. CountInv /\ CallInv
  BY <1>0 DEF Init, CountInv, CallInv
<1>5. \A k \in Records : Back(0, k) \in Records
  BY <1>0, BackFact
<1>6. Top = Blank
  BY <1>0, <1>5 DEF Top
<1>7. DueInv
  <2>1. Due = 0
    BY <1>0 DEF Init, Due, From
  <2>2. \A j \in Slots : ~(j < Due)
    BY <2>1
  <2>3. Past(Top)
    BY <1>0, <1>6 DEF Init, Past, Blank
  <2> QED BY <2>2, <2>3 DEF DueInv
<1>8. Ring(mem, 0) /\ Ring(flash, 0)
  <2>1. \A i \in Records : ~event_valid(mem[i]) /\ ~(i < 0)
    BY <1>0, <1>1
  <2> QED BY <1>0, <1>5, <2>1 DEF Ring
<1>9. flash[Back(0, 0)].n = 0
  BY <1>0, <1>5 DEF Blank
<1>10. \A i \in Records : mem[i].n = 0 /\ flash[i].n = 0
  BY <1>0 DEF Blank
<1>11. StoreInv
  <2>1. \E q \in Records : Survives(q)
    BY <1>0, <1>8, <1>9 DEF Survives
  <2>2. MemSize - 1 \in Records /\ calls = 0
    BY <1>0 DEF Init
  <2>3. flash[MemSize - 1].n = kept
    BY <1>0, <1>10, <2>2
  <2>4. \A i \in Records : mem[i].n <= calls /\ flash[i].n <= calls
    BY <1>10, <2>2
  <2> QED BY <1>0, <1>8, <2>1, <2>3, <2>4 DEF StoreInv
<1> QED BY <1>2, <1>3, <1>4, <1>7, <1>11 DEF MemInv, TimeInv

\* A step of the FIFO that leaves the memory alone.
LEMMA MemQueueInv ==
  ASSUME ~raced', MemTypeOK, TimeInv, UNCHANGED memory,
         Advance \/ \E p \in Producers : event_create(p)
  PROVE  TimeInv'
<1>0. MemTypeOK /\ TypeOK /\ CallInv /\ CountInv /\ DueInv /\ StoreInv
  BY DEF TimeInv, MemTypeOK
<1>1. Next
  BY DEF Next, event_task
<1>2. CallInv' /\ CountInv'
  BY <1>0, <1>1, CallStep, CountStep
<1>4. Top \in Event
  <2>1. /\ ptr \in Records /\ 0 \in Records /\ mem \in [Records -> Event]
    BY <1>0, MemSizeAssumption DEF MemTypeOK, Records
  <2>2. Back(ptr, 0) \in Records
    BY <2>1, BackFact
  <2> QED BY <2>1, <2>2 DEF Top
<1>5. DueInv'
  BY <1>0, <1>4, DueAdvance, DueCreate
<1>6. calls' = calls \/ calls' = calls + 1
  BY DEF Advance, event_create, Claim, LoadCnt, Fill, Publish
<1>7. StoreInv'
  <2>1. UNCHANGED <<mem, flash, ptr, newest, kept, booted>>
    BY DEF memory
  <2>2. Top' = Top
    BY <2>1 DEF Top
  <2>3. \A q : Survives(q)' <=> Survives(q)
    BY <2>1, Zenon DEF Survives, Ring
  <2>4. \A i \in Records : mem[i].n \in Nat /\ flash[i].n \in Nat
    BY <1>0 DEF MemTypeOK, Event
  <2>5. calls \in Nat
    BY <1>0 DEF TypeOK
  <2>6. \A i \in Records : mem[i].n <= calls' /\ flash[i].n <= calls'
    BY <1>0, <1>6, <2>4, <2>5 DEF StoreInv
  <2>7. Ring(mem, ptr)'
    BY <1>0, <2>1, Zenon DEF StoreInv, Ring
  <2> QED BY <1>0, <2>1, <2>2, <2>3, <2>6, <2>7, Zenon DEF StoreInv
<1> QED BY <1>2, <1>5, <1>7 DEF TimeInv

\* event_memory_store()
LEMMA MemStoreInv ==
  ASSUME ~raced', MemTypeOK, TimeInv, event_memory_store PROVE TimeInv'
<1>0. /\ MemTypeOK /\ TypeOK /\ CallInv /\ CountInv /\ DueInv /\ StoreInv
      /\ Take
  BY DEF TimeInv, MemTypeOK, event_memory_store
<1>1. Next
  BY <1>0 DEF Next, event_task
<1>2. CallInv' /\ CountInv'
  BY <1>0, <1>1, CallStep, CountStep
<1>3. /\ ptr \in Records /\ mem \in [Records -> Event]
      /\ flash \in [Records -> Event] /\ kept \in Nat
  BY <1>0 DEF MemTypeOK
<1>4. /\ DueInv' /\ Top' = buf[rd] /\ buf[rd] \in Event
      /\ Precedes(Top, buf[rd]) /\ buf[rd].n <= calls
  BY <1>0, <1>3, DueStore
<1>5. /\ ptr' = _ptr_inc(ptr) /\ mem' = [mem EXCEPT ![ptr] = buf[rd]]
      /\ newest' = buf[rd].n /\ booted' = FALSE
      /\ UNCHANGED <<flash, kept, calls>>
  BY DEF event_memory_store, Take
<1>7. Ring(mem', ptr')
  BY <1>0, <1>3, <1>4, <1>5, RingStore DEF StoreInv, Top
<1>8. \E q \in Records : Survives(q)'
  BY <1>0, <1>5, Zenon DEF StoreInv, Survives, Ring
<1>9. \A i \in Records : mem'[i].n <= calls' /\ flash'[i].n <= calls'
  BY <1>0, <1>3, <1>4, <1>5 DEF StoreInv
<1>10. StoreInv'
  BY <1>4, <1>5, <1>7, <1>8, <1>9, Zenon DEF StoreInv, Ring
<1> QED BY <1>2, <1>4, <1>10 DEF TimeInv

\* The cache is written back.
LEMMA MemFlushInv ==
  ASSUME MemTypeOK, TimeInv, storage_maintenance PROVE TimeInv'
<1>0. MemTypeOK /\ CallInv /\ CountInv /\ DueInv /\ StoreInv
  BY DEF TimeInv
<1>1. /\ flash # mem /\ flash' = mem /\ kept' = newest
      /\ UNCHANGED <<vars, mem, ptr, newest, booted>>
  BY DEF storage_maintenance
<1>2. UNCHANGED <<buf, wr, rd, cnt, pc, loc, busy, cur, calls>>
  BY <1>1 DEF vars
<1>5. CountInv' /\ CallInv'
  BY <1>0, <1>2, Zenon DEF CountInv, CallInv
<1>6. DueInv'
  BY <1>0, <1>1, <1>2, Zenon DEF DueInv, Due, DueSlot, From, Top, Past
<1>7. StoreInv'
  <2>1. ~booted /\ newest = Top.n /\ Ring(mem, ptr) /\ ptr \in Records
    BY <1>0, <1>1 DEF StoreInv, MemTypeOK
  <2>2. Survives(ptr)'
    BY <1>1, <2>1, Zenon DEF Survives, Ring, Top
  <2>3. \E q \in Records : Survives(q)'
    BY <1>1, <2>1, <2>2 DEF Survives, Ring
  <2>4. \A i \in Records : mem'[i].n <= calls' /\ flash'[i].n <= calls'
    BY <1>0, <1>1, <1>2 DEF StoreInv
  <2>5. Ring(mem, ptr)'
    BY <1>1, <2>1, Zenon DEF Ring
  <2>6. Top' = Top
    BY <1>1, Zenon DEF Top
  <2> QED BY <1>1, <2>1, <2>3, <2>4, <2>5, <2>6, Zenon DEF StoreInv
<1> QED BY <1>5, <1>6, <1>7 DEF TimeInv

\* A power cut anywhere, and event_memory_init().
LEMMA MemRestartInv ==
  ASSUME MemTypeOK, TimeInv, Restart PROVE TimeInv'
<1>0. MemTypeOK /\ StoreInv
  BY DEF TimeInv
<1>1. /\ flash \in [Records -> Event] /\ kept \in Nat /\ calls \in Nat
      /\ 0 \in Records /\ MemSize - 1 \in Records
  BY <1>0, MemSizeAssumption DEF MemTypeOK, TypeOK, Records
<1> DEFINE r == event_memory_init(flash)
<1>2. /\ mem' = flash /\ flash' = flash /\ kept' = kept
      /\ ptr' = r.ptr /\ cnt' = r.cnt /\ newest' = kept /\ booted' = TRUE
      /\ calls' = calls
  BY DEF Restart
<1>3. /\ wr' = 0 /\ rd' = 0 /\ pc' = [p \in Producers |-> "idle"]
      /\ busy' = FALSE
  BY DEF Restart
<1>4. PICK q \in Records : Survives(q)
  BY <1>0 DEF StoreInv
<1>5. /\ r.ptr \in Records /\ r.cnt \in Nat
      /\ Ring(flash, r.ptr)
      /\ r.ptr = q \/ (q = 0 /\ r.ptr = MemSize - 1)
      /\ flash[Back(r.ptr, 0)].cnt <= r.cnt
  BY <1>1, <1>4, RingInit DEF Survives
<1> HIDE DEF r
<1>8. CallInv' /\ CountInv'
  BY <1>3 DEF CallInv, CountInv
<1>9. Top' = flash[Back(r.ptr, 0)] /\ Back(r.ptr, 0) \in Records
  BY <1>1, <1>2, <1>5, BackFact DEF Top
<1>10. DueInv'
  <2>1. Due' = 0
    BY <1>3 DEF Due, From
  <2>2. \A j \in Slots : ~(j < Due')
    BY <2>1
  <2>3. Past(Top)'
    BY <1>0, <1>2, <1>3, <1>5, <1>9 DEF Past, StoreInv
  <2> QED BY <2>2, <2>3 DEF DueInv
<1>11. StoreInv'
  <2>1. flash[MemSize - 1].n = kept \/ Top'.n = kept
    <3>1. flash[Back(q, 0)].n = kept
      BY <1>4 DEF Survives
    <3>2. CASE r.ptr = q
      BY <1>9, <3>1, <3>2
    <3>3. CASE q = 0
      <4>1. Back(q, 0) = MemSize - 1
        BY <3>3, MemSizeAssumption DEF Back
      <4> QED BY <3>1, <4>1
    <3> QED BY <1>5, <3>2, <3>3
  <2>2. Survives(q)'
    BY <1>2, <1>4, Zenon DEF Survives, Ring
  <2>3. Ring(mem, ptr)'
    BY <1>2, <1>5, Zenon DEF Ring
  <2>4. \A i \in Records : mem'[i].n <= calls' /\ flash'[i].n <= calls'
    BY <1>0, <1>2 DEF StoreInv
  <2> QED BY <1>2, <2>1, <2>2, <2>3, <2>4, Zenon DEF StoreInv
<1> QED BY <1>8, <1>10, <1>11 DEF TimeInv

\* Every step of the FIFO, the memory and the power supply.
LEMMA MemNextInv == MemInv /\ [MemNext]_allvars => MemInv'
<1> SUFFICES ASSUME MemInv, [MemNext]_allvars PROVE MemInv'
  OBVIOUS
<1>0. MemTypeOK' /\ FifoInv' /\ (raced => raced')
  BY MemFifoStep DEF MemInv
<1>1. ASSUME ~raced' PROVE TimeInv'
  <2>0. MemTypeOK /\ TimeInv
    BY <1>0, <1>1 DEF MemInv
  <2>1. CASE (Advance \/ \E p \in Producers : event_create(p))
             /\ UNCHANGED memory
    BY <1>1, <2>0, <2>1, MemQueueInv
  <2>2. CASE event_memory_store
    BY <1>1, <2>0, <2>2, MemStoreInv
  <2>3. CASE storage_maintenance
    BY <2>0, <2>3, MemFlushInv
  <2>4. CASE Restart
    BY <2>0, <2>4, MemRestartInv
  <2>5. CASE UNCHANGED allvars
    <3>1. UNCHANGED <<buf, wr, rd, cnt, pc, loc, busy, cur, calls, mem, flash,
                      ptr, newest, kept, booted>>
      BY <2>5 DEF allvars, vars, memory
    <3>2. CallInv' /\ CountInv'
      BY <2>0, <3>1, Zenon DEF TimeInv, CallInv, CountInv
    <3>3. DueInv'
      BY <2>0, <3>1, Zenon DEF TimeInv, DueInv, Due, DueSlot, From, Top, Past
    <3>4. StoreInv'
      BY <2>0, <3>1, Zenon DEF TimeInv, StoreInv, Survives, Ring, Top
    <3> QED BY <3>2, <3>3, <3>4 DEF TimeInv
  <2> QED BY <2>1, <2>2, <2>3, <2>4, <2>5 DEF MemNext
<1> QED BY <1>0, <1>1 DEF MemInv

\* Type correctness of the memory, although calls of event_create() overlap;
\* it holds the OS_ASSERT on the pointer of event_memory_store(), after every
\* restart too (event_memory.c).
THEOREM MemTypeCorrect == MemSpec => []MemTypeOK
<1>1. MemInv => MemTypeOK
  BY DEF MemInv
<1> QED BY <1>1, MemNextInv, MemInitInv, PTL DEF MemSpec

\* As long as no two calls of event_create() have overlapped, reading the
\* event memory back goes back in time, record by record: however often the
\* unit is restarted, at whatever point, whatever the cache had not written
\* back, and although the FIFO in front of it is overrun (event_memory.c).
THEOREM ReadBackSafety == MemSpec => []NewestFirst
<1>1. MemInv => NewestFirst
  <2> SUFFICES ASSUME MemInv, ~raced, NEW k \in 0 .. MemSize - 3,
                      \A j \in 0 .. k + 1 : event_valid(event_memory_read(j))
               PROVE  /\ event_memory_read(k).cnt > event_memory_read(k + 1).cnt
                      /\ event_memory_read(k).n > event_memory_read(k + 1).n
    BY DEF NewestFirst
  <2>1. /\ ptr \in Records /\ Ring(mem, ptr) /\ mem \in [Records -> Event]
    BY DEF MemInv, TimeInv, MemTypeOK, StoreInv
  <2>2. /\ k \in Records /\ k + 1 \in Records /\ k < k + 1
        /\ k < MemSize - 1 /\ k + 1 < MemSize - 1 /\ k + 1 \in 0 .. k + 1
    BY MemSizeAssumption DEF Records
  <2>3. /\ event_memory_read(k) = mem[Back(ptr, k)]
        /\ event_memory_read(k + 1) = mem[Back(ptr, k + 1)]
    BY <2>1, <2>2, BackSlotFact DEF event_memory_read
  <2>4. event_valid(mem[Back(ptr, k + 1)])
    BY <2>2, <2>3
  <2>5. Precedes(mem[Back(ptr, k + 1)], mem[Back(ptr, k)])
    BY <2>1, <2>2, <2>4 DEF Ring
  <2>6. mem[Back(ptr, k)] \in Event /\ mem[Back(ptr, k + 1)] \in Event
    BY <2>1, <2>2, BackFact
  <2> QED BY <2>3, <2>5, <2>6 DEF Precedes, Event
<1> QED BY <1>1, MemNextInv, MemInitInv, PTL DEF MemSpec

\* As long as no two calls of event_create() have overlapped,
\* event_memory_init() finds the newest record that survived, unless it lies
\* in the slot it does not look at (event_memory.c).
THEOREM RestartSafety == MemSpec => []NewestFoundAgain
<1>1. MemInv => NewestFoundAgain
  <2> SUFFICES ASSUME MemInv, ~raced, booted, kept > 0,
                      flash[MemSize - 1].n # kept
               PROVE  event_memory_read(0).n = kept
    BY DEF NewestFoundAgain
  <2>1. ptr \in Records /\ Top.n = kept
    BY DEF MemInv, TimeInv, MemTypeOK, StoreInv
  <2>2. 0 \in Records /\ 0 < MemSize - 1
    BY MemSizeAssumption DEF Records
  <2>3. event_memory_read(0) = Top
    BY <2>1, <2>2, BackSlotFact DEF event_memory_read, Top
  <2> QED BY <2>1, <2>3
<1> QED BY <1>1, MemNextInv, MemInitInv, PTL DEF MemSpec

\* The FIFO keeps what it promises when it starts again after every power cut
\* (event.c behind event_memory_init()).
THEOREM MemFifoSafety == MemSpec => []AloneInOrder
<1>1. MemInv => AloneInOrder
  BY DEF MemInv, FifoInv
<1> QED BY <1>1, MemNextInv, MemInitInv, PTL DEF MemSpec
=============================================================================
