----------------------------- MODULE SmsProofs ------------------------------
(***************************************************************************)
(* Only whole messages are executed, for every set of messages and of      *)
(* references, every size of the SIM and of the pool of parts, and whatever *)
(* is lost, garbled, delivered twice or in another order, unless parts of  *)
(* two messages with the same reference met in the pool.                   *)
(***************************************************************************)
EXTENDS Sms, FiniteSetTheorems, WellFoundedInduction, TLAPS

-----------------------------------------------------------------------------
(* Parts, slots and the pool *)

\* The loops over the SIM and the pool take the first entry there is.
LEMMA LeastFact ==
  ASSUME NEW S, S \subseteq Nat, S # {}
  PROVE  Least(S) \in S
<1>1. PICK x \in S : \A y \in S : ~(<<y, x>> \in OpToRel(<, Nat))
  BY WFMin, NatLessThanWellFounded
<1>2. \A y \in S : ~(y < x)
  BY <1>1, Zenon DEF OpToRel
<1>3. \E m \in S : \A k \in S : m <= k
  BY <1>2
<1> QED BY <1>3, Zenon DEF Least

\* The last buffer of a message, whose total ms_get() uses.
LEMMA GreatestFact ==
  ASSUME NEW S, S \subseteq Bufs, S # {}
  PROVE  Greatest(S) \in S
<1> DEFINE T == {Pool - i : i \in S}
<1>1. S \subseteq 1 .. Pool /\ Pool \in Nat
  BY SmsAssumption DEF Bufs
<1>2. T \subseteq Nat /\ T # {}
  <2>1. \A i \in S : Pool - i \in Nat
    BY <1>1
  <2>2. T # {}
    BY Zenon
  <2> QED BY <2>1, <2>2
<1>3. PICK x \in T : \A y \in T : ~(<<y, x>> \in OpToRel(<, Nat))
  <2> HIDE DEF T
  <2> QED BY <1>2, WFMin, NatLessThanWellFounded
<1>4. \A y \in T : ~(y < x)
  <2> HIDE DEF T
  <2> QED BY <1>2, <1>3, Zenon DEF OpToRel
<1>5. PICK i \in S : x = Pool - i
  BY <1>3
<1>6. \A j \in S : ~(Pool - j < Pool - i)
  BY <1>4, <1>5
<1>7. \A j \in S : j <= i
  BY <1>1, <1>6
<1> QED BY <1>5, <1>7, Zenon DEF Greatest

\* A part names its message and its number in it.
LEMMA PartFact ==
  ASSUME NEW p \in Parts
  PROVE  /\ p[1] \in Messages /\ p[2] \in Numbers(p[1])
         /\ p = <<p[1], p[2]>> /\ p # None /\ p[2] \in Nat
<1>1. PICK m \in Messages : \E n \in Numbers(m) : p = <<m, n>>
  BY DEF Parts
<1>2. PICK n \in Numbers(m) : p = <<m, n>>
  BY <1>1
<1>3. n \in Nat
  BY SmsAssumption DEF Numbers
<1> QED BY <1>1, <1>2, <1>3 DEF None

\* The slots of the SIM that the modem fills, lists and counts.
LEMMA SlotFact ==
  /\ {s \in 1 .. Slots : sim[s] = None} # {}
       => Least({s \in 1 .. Slots : sim[s] = None}) \in 1 .. Slots
  /\ Occupied # {} => /\ Least(Occupied) \in 1 .. Slots
                      /\ sim[Least(Occupied)] # None
  /\ Used \in 0 .. Slots
<1>1. {s \in 1 .. Slots : sim[s] = None} # {}
        => Least({s \in 1 .. Slots : sim[s] = None}) \in 1 .. Slots
  <2> DEFINE F == {s \in 1 .. Slots : sim[s] = None}
  <2>1. F \subseteq Nat /\ F \subseteq 1 .. Slots
    BY SmsAssumption
  <2> HIDE DEF F
  <2>2. F # {} => Least(F) \in 1 .. Slots
    BY <2>1, LeastFact, Zenon
  <2> QED BY <2>2 DEF F
<1>2. Occupied \subseteq Nat /\ Occupied \subseteq 1 .. Slots
  BY SmsAssumption DEF Occupied
<1>3. Occupied # {} => Least(Occupied) \in Occupied
  BY <1>2, LeastFact, Zenon
<1>4. Used \in 0 .. Slots
  <2>1. IsFiniteSet(1 .. Slots) /\ Cardinality(1 .. Slots) = Slots
    BY SmsAssumption, FS_Interval
  <2>2. IsFiniteSet(Occupied) /\ Cardinality(Occupied) <= Slots
    BY <1>2, <2>1, FS_Subset
  <2>3. Cardinality(Occupied) \in Nat
    BY <2>2, FS_CardinalityType
  <2> QED BY <2>2, <2>3, SmsAssumption DEF Used
<1> QED BY <1>1, <1>2, <1>3, <1>4 DEF Occupied

\* A pool in which every part is one of a long message and lies under the
\* reference of its message and its number.
Buffer == [id : Nat, order_num : Nat, buffer : Parts \cup {None}]

Pooled(pool) ==
  /\ pool \in [Bufs -> Buffer]
  /\ \A i \in Bufs : pool[i].buffer # None =>
       /\ Total[pool[i].buffer[1]] # 0
       /\ pool[i].id = Id[pool[i].buffer[1]]
       /\ pool[i].order_num = pool[i].buffer[2]

\* ms_get_free_buf() throws parts out and moves none.
LEMMA FreeBufFact ==
  ASSUME Pooled(msms), NEW id \in Nat
  PROVE  /\ Pooled(FreeBuf(id).room)
         /\ FreeBuf(id).free \subseteq Bufs
         /\ FreeBuf(id).free # {} => Least(FreeBuf(id).free) \in Bufs
<1> DEFINE freed == [i \in Bufs |-> IF msms[i].id = id THEN msms[i]
                                    ELSE [msms[i] EXCEPT !.buffer = None]]
<1>1. Pooled(freed)
  BY DEF Pooled, Buffer
<1>2. FreeBuf(id).room = msms \/ FreeBuf(id).room = freed
  BY DEF FreeBuf
<1>3. Pooled(FreeBuf(id).room)
  BY <1>1, <1>2
<1>4. FreeBuf(id).free \subseteq Bufs
  BY DEF FreeBuf
<1>5. Bufs \subseteq Nat
  BY SmsAssumption DEF Bufs
<1> HIDE DEF freed
<1>6. FreeBuf(id).free # {} => Least(FreeBuf(id).free) \in Bufs
  BY <1>4, <1>5, LeastFact
<1> QED BY <1>3, <1>4, <1>6

\* ms_incomming() files a part.
LEMMA FileFact ==
  ASSUME NEW room, Pooled(room), NEW i \in Bufs, NEW p \in Parts,
         Total[p[1]] # 0
  PROVE  Pooled([room EXCEPT ![i] = [id |-> Id[p[1]], order_num |-> p[2],
                                     buffer |-> p]])
<1> DEFINE new == [id |-> Id[p[1]], order_num |-> p[2], buffer |-> p]
           pool == [room EXCEPT ![i] = new]
<1>1. new \in Buffer /\ new.buffer = p /\ new.id = Id[p[1]]
      /\ new.order_num = p[2]
  BY PartFact, SmsAssumption DEF Buffer
<1> HIDE DEF new
<1>2. pool \in [Bufs -> Buffer] /\ pool[i] = new
      /\ \A j \in Bufs \ {i} : pool[j] = room[j]
  BY <1>1 DEF Pooled
<1> HIDE DEF pool
<1>3. Pooled(pool)
  BY <1>1, <1>2 DEF Pooled
<1> QED BY <1>3 DEF pool, new

\* ms_delete()
LEMMA DeletedFact ==
  ASSUME NEW pool, Pooled(pool), NEW id
  PROVE  Pooled(Deleted(pool, id))
<1>1. Unused \in Buffer /\ Unused.buffer = None
  BY DEF Unused, Buffer
<1> QED BY <1>1 DEF Deleted, Pooled

\* ms_find_in_buf() finds part n of a message with the reference, or nothing.
LEMMA FoundFact ==
  ASSUME NEW pool, Pooled(pool), NEW id, NEW n, Found(pool, id, n) # {}
  PROVE  LET i == Least(Found(pool, id, n)) IN
         /\ i \in Mine(pool, id)
         /\ pool[i].buffer[1] \in Messages /\ Id[pool[i].buffer[1]] = id
         /\ pool[i].buffer = <<pool[i].buffer[1], n>>
<1> DEFINE i == Least(Found(pool, id, n))
<1>1. Found(pool, id, n) \subseteq Nat
  BY SmsAssumption DEF Found, Bufs
<1>2. i \in Found(pool, id, n)
  BY <1>1, LeastFact
<1> HIDE DEF i
<1>3. /\ i \in Bufs /\ pool[i].id = id /\ pool[i].order_num = n
      /\ pool[i].buffer # None
  BY <1>2 DEF Found
<1>4. pool[i].buffer \in Parts
  BY <1>3 DEF Pooled, Buffer
<1>5. /\ pool[i].buffer[1] \in Messages
      /\ pool[i].buffer = <<pool[i].buffer[1], pool[i].buffer[2]>>
  BY <1>4, PartFact
<1>6. Id[pool[i].buffer[1]] = id /\ pool[i].buffer[2] = n
  BY <1>3 DEF Pooled
<1>7. pool[i].buffer = <<pool[i].buffer[1], n>> /\ i \in Mine(pool, id)
  BY <1>3, <1>5, <1>6 DEF Mine
<1> QED BY <1>5, <1>6, <1>7 DEF i

\* ms_get() takes the total of a part that is there.
LEMMA NumFact ==
  ASSUME NEW pool, Pooled(pool), NEW id, Mine(pool, id) # {}
  PROVE  LET i == Greatest(Mine(pool, id)) IN
         /\ i \in Mine(pool, id) /\ pool[i].buffer[1] \in Messages
         /\ Total[pool[i].buffer[1]] \in Nat \ {0}
<1> DEFINE i == Greatest(Mine(pool, id))
<1>1. Mine(pool, id) \subseteq Bufs
  BY DEF Mine
<1>2. i \in Mine(pool, id)
  BY <1>1, GreatestFact
<1> HIDE DEF i
<1>3. i \in Bufs /\ pool[i].buffer # None
  BY <1>2 DEF Mine
<1>4. pool[i].buffer \in Parts /\ Total[pool[i].buffer[1]] # 0
  BY <1>3 DEF Pooled, Buffer
<1>5. pool[i].buffer[1] \in Messages
  BY <1>4, PartFact
<1>6. Total[pool[i].buffer[1]] \in Nat \ {0}
  BY <1>4, <1>5, SmsAssumption
<1> QED BY <1>2, <1>5, <1>6 DEF i

\* What the buffers of a reference hold are parts of messages.
LEMMA MineFact ==
  ASSUME NEW pool, Pooled(pool), NEW id, NEW i \in Mine(pool, id)
  PROVE  i \in Bufs /\ pool[i].buffer[1] \in Messages
<1>1. i \in Bufs /\ pool[i].buffer # None
  BY DEF Mine
<1>2. pool[i].buffer \in Parts
  BY <1>1 DEF Pooled, Buffer
<1> QED BY <1>1, <1>2, PartFact

-----------------------------------------------------------------------------
(* The invariant *)

\* What holds where the comm task is: the slot it erases is one it has read,
\* sms_counter is not decremented below zero, a part that is joined was read,
\* and an answer that is being sent has parts and tries left.
CommInv ==
  /\ comm \in {"listed", "loaded", "erase"} => at \in 1 .. Slots
  /\ comm = "listed" => sms_counter # 0
  /\ comm = "loaded" => seen # 0
  /\ comm = "join" => cur # None
  /\ comm = "send" => tries # 0 /\ count # 0

Inv == TypeOK /\ Pooled(msms) /\ CommInv /\ WholeMessages

\* An empty SIM and an empty pool.
LEMMA InitInv == Init => Inv
<1> SUFFICES ASSUME Init PROVE Inv
  OBVIOUS
<1>1. Unused \in Buffer /\ Unused.buffer = None
  BY DEF Unused, Buffer
<1>2. Pooled(msms)
  BY <1>1 DEF Init, Pooled
<1>3. TypeOK
  BY <1>2, SmsAssumption DEF Init, TypeOK, Pooled, Buffer
<1>4. CommInv /\ WholeMessages
  BY DEF Init, CommInv, WholeMessages
<1> QED BY <1>2, <1>3, <1>4 DEF Inv

\* The network and the modem: a part arrives, modem_check() counts.
LEMMA ArriveInv ==
  ASSUME Inv, NEW p \in Parts, Arrive(p) PROVE Inv'
<1> DEFINE free == {s \in 1 .. Slots : sim[s] = None}
<1>1. Least(free) \in 1 .. Slots
  BY SlotFact DEF Arrive
<1>2. sim' = [sim EXCEPT ![Least(free)] = p]
  BY DEF Arrive
<1>3. /\ network' \subseteq network
      /\ sms_counter' = sms_counter \/ sms_counter' = Least(free)
      /\ faults' = faults \/ Fault
  BY DEF Arrive
<1>4. UNCHANGED <<comm, at, cur, seen, msms, text, handled, dropped, mixed,
                  sending>>
  BY DEF Arrive, fate
<1> HIDE DEF free
<1>5. sim' \in [1 .. Slots -> Parts \cup {None}]
  BY <1>2 DEF Inv, TypeOK
<1>6. sms_counter' \in 0 .. Slots /\ (sms_counter # 0 => sms_counter' # 0)
  BY <1>1, <1>3, SmsAssumption DEF Inv, TypeOK
<1>7. faults' \in 0 .. MaxFaults /\ network' \subseteq Parts
  BY <1>3, SmsAssumption DEF Inv, TypeOK, Fault
<1>8. TypeOK'
  BY <1>4, <1>5, <1>6, <1>7, Zenon DEF Inv, TypeOK, sending
<1>9. CommInv'
  BY <1>4, <1>6 DEF Inv, CommInv, sending
<1>10. Pooled(msms)' /\ WholeMessages'
  BY <1>4 DEF Inv, WholeMessages
<1> QED BY <1>8, <1>9, <1>10 DEF Inv

\* modem_check(), and a new day.
LEMMA CheckInv ==
  ASSUME Inv, Check \/ NewDay PROVE Inv'
<1>1. UNCHANGED <<network, sim, comm, at, cur, seen, msms, text, handled,
                  dropped, mixed, tries, count, faults>> /\ comm = "idle"
  BY DEF Check, NewDay, sending, fate
<1>2. sms_counter' \in 0 .. Slots /\ limiter' \in 0 .. DayLimit
  BY SlotFact, SmsAssumption DEF Inv, TypeOK, Check, NewDay, sending
<1>3. TypeOK'
  BY <1>1, <1>2, Zenon DEF Inv, TypeOK
<1>4. CommInv' /\ WholeMessages'
  BY <1>1 DEF Inv, CommInv, WholeMessages
<1>5. Pooled(msms)'
  BY <1>1 DEF Inv
<1> QED BY <1>3, <1>4, <1>5 DEF Inv

\* modem_sms_read()
LEMMA ReadInv ==
  ASSUME Inv, List \/ Listed \/ Loaded \/ Erase PROVE Inv'
<1>1. UNCHANGED <<network, msms, text, handled, dropped, mixed, limiter,
                  tries, count>>
  BY DEF List, Listed, Loaded, Erase, sending, fate
<1>2. Pooled(msms)'
  BY <1>1 DEF Inv
<1>3. /\ sim \in [1 .. Slots -> Parts \cup {None}] /\ Slots \in Nat
      /\ sms_counter \in 0 .. Slots /\ seen \in 0 .. Slots
      /\ at \in 0 .. Slots /\ cur \in Parts \cup {None}
      /\ faults \in 0 .. MaxFaults /\ MaxFaults \in Nat
  BY SmsAssumption DEF Inv, TypeOK
<1>4. faults' \in 0 .. MaxFaults
  BY <1>3 DEF List, Listed, Loaded, Erase, Fault
<1>5. ASSUME sim' \in [1 .. Slots -> Parts \cup {None}],
             sms_counter' \in 0 .. Slots, seen' \in 0 .. Slots,
             at' \in 0 .. Slots, cur' \in Parts \cup {None},
             comm' \in {"idle", "listed", "loaded", "erase", "join"}
      PROVE  TypeOK' /\ WholeMessages'
  <2>1. comm' \in {"idle", "listed", "loaded", "erase", "join", "parse", "send"}
    BY <1>5
  <2>2. TypeOK'
    BY <1>1, <1>4, <1>5, <2>1, Zenon DEF Inv, TypeOK
  <2>3. WholeMessages'
    BY <1>5 DEF WholeMessages
  <2> QED BY <2>2, <2>3
<1>6. CASE List
  <2>1. CASE /\ Occupied # {}
             /\ at' = Least(Occupied) /\ comm' = "listed"
             /\ \/ cur' = sim[Least(Occupied)]
                \/ cur' = None
             /\ UNCHANGED sms_counter
    <3>1. at' \in 1 .. Slots /\ cur' \in Parts \cup {None}
      BY <1>3, <2>1, SlotFact
    <3>2. TypeOK' /\ WholeMessages'
      BY <1>3, <1>5, <1>6, <2>1, <3>1 DEF List
    <3>3. CommInv'
      BY <1>6, <2>1, <3>1 DEF CommInv, List
    <3> QED BY <1>2, <3>2, <3>3 DEF Inv
  <2>2. CASE sms_counter' = 0 /\ UNCHANGED <<comm, at, cur>>
    <3>1. TypeOK' /\ WholeMessages'
      BY <1>3, <1>5, <1>6, <2>2 DEF List
    <3>2. CommInv'
      BY <1>6, <2>2 DEF CommInv, List
    <3> QED BY <1>2, <3>1, <3>2 DEF Inv
  <2> QED BY <1>6, <2>1, <2>2 DEF List
<1>7. CASE Listed
  <2>1. at \in 1 .. Slots /\ sms_counter # 0
    BY <1>7 DEF Listed, Inv, CommInv
  <2>2. TypeOK' /\ WholeMessages'
    BY <1>3, <1>5, <1>7 DEF Listed
  <2>3. CommInv'
    BY <1>7, <2>1 DEF CommInv, Listed
  <2> QED BY <1>2, <2>2, <2>3 DEF Inv
<1>8. CASE Loaded
  <2>1. at \in 1 .. Slots /\ seen # 0
    BY <1>8 DEF Loaded, Inv, CommInv
  <2>2. seen - 1 \in 0 .. Slots
    BY <1>3, <2>1
  <2>3. TypeOK' /\ WholeMessages'
    BY <1>3, <1>5, <1>8, <2>2 DEF Loaded
  <2>4. CommInv'
    BY <1>8, <2>1 DEF CommInv, Loaded
  <2> QED BY <1>2, <2>3, <2>4 DEF Inv
<1>9. CASE Erase
  <2>1. sim' \in [1 .. Slots -> Parts \cup {None}]
    BY <1>3, <1>9 DEF Erase
  <2>2. TypeOK' /\ WholeMessages'
    BY <1>3, <1>5, <1>9, <2>1 DEF Erase
  <2>3. CommInv'
    BY <1>9 DEF CommInv, Erase
  <2> QED BY <1>2, <2>2, <2>3 DEF Inv
<1> QED BY <1>6, <1>7, <1>8, <1>9

\* The messages that ms_get_free_buf() gives up are messages.
LEMMA OutFact ==
  ASSUME Inv, NEW m \in Messages
  PROVE  Out(m) \subseteq Messages
<1>1. ASSUME Crowded, NEW i \in Bufs PROVE msms[i].buffer[1] \in Messages
  <2>1. msms[i].buffer \in Parts
    BY <1>1 DEF Crowded, Inv, Pooled, Buffer
  <2> QED BY <2>1, PartFact
<1> QED BY <1>1 DEF Out

\* The messages whose parts lie under a reference, and what ms_get() joins.
Met(pool, id) == {pool[i].buffer[1] : i \in Mine(pool, id)}
Joined(pool, id, num) ==
  [n \in 1 .. num |-> pool[Least(Found(pool, id, n))].buffer]

\* Under every number ms_get() takes a part of a message with the reference,
\* and it takes one message whole when no other one was met.
LEMMA TextFact ==
  ASSUME NEW pool, Pooled(pool), NEW m \in Messages, NEW num \in Nat \ {0},
         Complete(pool, Id[m], num),
         Met(pool, Id[m]) = {m} => num = Total[m]
  PROVE  LET t == Joined(pool, Id[m], num)
             met == Met(pool, Id[m])
         IN /\ 1 \in DOMAIN t
            /\ \A n \in DOMAIN t :
                  \E k \in Messages : Id[k] = Id[m] /\ t[n] = <<k, n>>
            /\ t[1][1] \in met
            /\ met = {m} => t = [n \in 1 .. Total[m] |-> <<m, n>>]
<1> DEFINE t == Joined(pool, Id[m], num)
           met == Met(pool, Id[m])
<1>0. /\ met = {pool[i].buffer[1] : i \in Mine(pool, Id[m])}
      /\ t = [n \in 1 .. num |->
                pool[Least(Found(pool, Id[m], n))].buffer]
  BY DEF Met, Joined
<1> HIDE DEF t, met
<1>1. 1 \in 1 .. num /\ DOMAIN t = 1 .. num
  BY <1>0
<1>2. ASSUME NEW n \in 1 .. num
      PROVE  \E k \in Messages : /\ k \in met /\ Id[k] = Id[m]
                                 /\ t[n] = <<k, n>>
  <2> DEFINE i == Least(Found(pool, Id[m], n))
  <2>1. Found(pool, Id[m], n) # {}
    BY DEF Complete
  <2>2. /\ i \in Mine(pool, Id[m])
        /\ pool[i].buffer[1] \in Messages /\ Id[pool[i].buffer[1]] = Id[m]
        /\ pool[i].buffer = <<pool[i].buffer[1], n>>
    BY <2>1, FoundFact
  <2>3. t[n] = pool[i].buffer
    BY <1>0
  <2> HIDE DEF i
  <2>4. pool[i].buffer[1] \in met
    BY <1>0, <2>2
  <2> QED BY <2>2, <2>3, <2>4
<1>3. t[1][1] \in met
  <2>1. PICK k \in met : t[1] = <<k, 1>>
    BY <1>1, <1>2
  <2>2. <<k, 1>>[1] = k
    OBVIOUS
  <2> QED BY <2>1, <2>2, Zenon
<1>4. ASSUME met = {m} PROVE t = [n \in 1 .. Total[m] |-> <<m, n>>]
  <2>1. num = Total[m]
    BY <1>4 DEF met
  <2>2. \A n \in 1 .. num : t[n] = <<m, n>>
    BY <1>2, <1>4
  <2>3. t = [n \in 1 .. num |-> t[n]]
    BY <1>0
  <2> QED BY <2>1, <2>2, <2>3, Zenon
<1> QED BY <1>1, <1>2, <1>3, <1>4 DEF t, met

\* A part is joined: a message is given to sms_parse() only when every number
\* was found, and what was found under a number is such a part.
LEMMA JoinInv ==
  ASSUME Inv, Join PROVE Inv'
<1> DEFINE m == cur[1]
           r == FreeBuf(Id[m])
           pool == Filed(m)
<1>1. /\ comm = "join" /\ cur' = None
      /\ UNCHANGED <<network, sim, sms_counter, at, seen, handled, sending>>
  BY DEF Join
<1>2. cur \in Parts
  BY <1>1 DEF Inv, TypeOK, CommInv
<1>3. /\ m \in Messages /\ cur[2] \in Numbers(m) /\ cur = <<m, cur[2]>>
      /\ Id[m] \in Nat /\ Total[m] \in Nat /\ cur # None
  BY <1>2, PartFact, SmsAssumption
<1>4. /\ Pooled(r.room) /\ r.free \subseteq Bufs
      /\ r.free # {} => Least(r.free) \in Bufs
  BY <1>3, FreeBufFact DEF Inv
<1>5. Total[m] # 0 /\ r.free # {} => Pooled(pool)
  BY <1>2, <1>4, FileFact, Zenon DEF Filed
<1>6. ASSUME Pooled(msms'), comm' \in {"idle", "parse"},
             faults' = faults \/ Fault,
             dropped' \subseteq Messages, mixed' \subseteq Messages,
             WholeMessages'
      PROVE  Inv'
  <2>1. comm' \in {"idle", "listed", "loaded", "erase", "join", "parse", "send"}
    BY <1>6
  <2>2. msms' \in [Bufs -> [id : Nat, order_num : Nat,
                            buffer : Parts \cup {None}]]
    BY <1>6 DEF Pooled, Buffer
  <2>3. faults' \in 0 .. MaxFaults
    BY <1>6, SmsAssumption DEF Inv, TypeOK, Fault
  <2>4. TypeOK'
    BY <1>1, <1>6, <2>1, <2>2, <2>3, Zenon DEF Inv, TypeOK, sending
  <2>5. CommInv'
    BY <1>6 DEF CommInv
  <2> QED BY <1>6, <2>4, <2>5 DEF Inv
<1>7. Out(m) \subseteq Messages /\ dropped \subseteq Messages
      /\ mixed \subseteq Messages
  BY <1>3, OutFact DEF Inv, TypeOK
<1> HIDE DEF m
<1>8. CASE Single(m)
  <2>1. /\ comm' = "parse" /\ text' = <<cur>> /\ Total[m] = 0
        /\ UNCHANGED <<msms, dropped, mixed, faults>>
    BY <1>8 DEF Single
  <2>2. text' = << <<m, 0>> >>
    BY <1>3, <2>1 DEF Numbers
  <2>3. WholeMessages'
    BY <1>3, <2>1, <2>2, Zenon DEF WholeMessages
  <2>4. Pooled(msms')
    BY <2>1 DEF Inv
  <2> QED BY <1>6, <1>7, <2>1, <2>3, <2>4
<1>9. CASE Rejected(m)
  <2>1. /\ comm' = "idle" /\ msms' = r.room /\ mixed' = mixed
        /\ faults' = faults \/ Fault
        /\ dropped' \subseteq dropped \cup Out(m) \cup {m}
    BY <1>9 DEF Rejected
  <2>2. WholeMessages'
    BY <2>1 DEF WholeMessages
  <2>3. dropped' \subseteq Messages
    BY <1>3, <1>7, <2>1
  <2> QED BY <1>4, <1>6, <1>7, <2>1, <2>2, <2>3
<1>10. CASE Waits(m)
  <2>1. /\ comm' = "idle" /\ msms' = pool /\ UNCHANGED <<mixed, faults>>
        /\ dropped' = dropped \cup Out(m) /\ Total[m] # 0 /\ r.free # {}
    BY <1>10 DEF Waits
  <2>2. WholeMessages'
    BY <2>1 DEF WholeMessages
  <2> QED BY <1>5, <1>6, <1>7, <2>1, <2>2
<1>11. CASE Done(m)
  <2> DEFINE mine == Mine(pool, Id[m])
             num == Total[pool[Greatest(mine)].buffer[1]]
             met == {pool[i].buffer[1] : i \in mine}
             joined == [n \in 1 .. num |->
                          pool[Least(Found(pool, Id[m], n))].buffer]
  <2>1. /\ Total[m] # 0 /\ r.free # {} /\ msms' = Deleted(pool, Id[m])
        /\ dropped' = dropped \cup Out(m)
        /\ mixed' = IF met = {m} THEN mixed ELSE mixed \cup met
        /\ Complete(pool, Id[m], Total[m])
    BY <1>11 DEF Done
  <2>2. \/ /\ Complete(pool, Id[m], num)
           /\ comm' = "parse" /\ faults' = faults /\ text' = joined
        \/ comm' = "idle" /\ (faults' = faults \/ Fault)
    BY <1>11 DEF Done
  <2>3. Pooled(pool)
    BY <1>5, <2>1
  <2> HIDE DEF pool
  <2>4. Pooled(msms') /\ dropped' \subseteq Messages
    BY <1>7, <2>1, <2>3, DeletedFact
  <2>5. met \subseteq Messages
    BY <2>3, MineFact
  <2>6. mixed' \subseteq Messages /\ (met # {m} => met \subseteq mixed')
    <3> HIDE DEF met
    <3> QED BY <1>7, <2>1, <2>5
  <2>7. mine # {}
    <3>1. 1 \in 1 .. Total[m]
      BY <1>3, <2>1
    <3>2. Found(pool, Id[m], 1) # {}
      BY <2>1, <3>1 DEF Complete
    <3> QED BY <2>3, <3>2, FoundFact
  <2>8. /\ num \in Nat \ {0} /\ Greatest(mine) \in mine
    BY <2>3, <2>7, NumFact
  <2>9. met = {m} => num = Total[m]
    BY <2>8
  <2> HIDE DEF mine
  <2>10. CASE comm' = "idle"
    <3>1. WholeMessages'
      BY <2>10 DEF WholeMessages
    <3> QED BY <1>6, <2>2, <2>4, <2>6, <2>10, <3>1
  <2>11. CASE /\ Complete(pool, Id[m], num)
              /\ comm' = "parse" /\ faults' = faults /\ text' = joined
    <3>1. met = Met(pool, Id[m]) /\ joined = Joined(pool, Id[m], num)
      BY DEF mine, Met, Joined
    <3> HIDE DEF num, met, joined
    <3>2. /\ 1 \in DOMAIN text'
          /\ \A n \in DOMAIN text' :
                \E k \in Messages : Id[k] = Id[m] /\ text'[n] = <<k, n>>
          /\ text'[1][1] \in met
          /\ met = {m} => text' = [n \in 1 .. Total[m] |-> <<m, n>>]
      <4>1. Complete(pool, Id[m], num) /\ text' = joined
        BY <2>11
      <4>2. m \in Messages /\ num \in Nat \ {0}
        BY <1>3, <2>8
      <4>3. Met(pool, Id[m]) = {m} => num = Total[m]
        BY <2>9, <3>1
      <4> DEFINE t == Joined(pool, Id[m], num)
      <4>4. /\ 1 \in DOMAIN t
            /\ \A n \in DOMAIN t :
                  \E k \in Messages : Id[k] = Id[m] /\ t[n] = <<k, n>>
            /\ t[1][1] \in Met(pool, Id[m])
            /\ Met(pool, Id[m]) = {m}
                 => t = [n \in 1 .. Total[m] |-> <<m, n>>]
        BY <2>3, <4>1, <4>2, <4>3, TextFact
      <4>5. text' = t /\ met = Met(pool, Id[m])
        BY <3>1, <4>1
      <4> HIDE DEF t
      <4> QED BY <4>4, <4>5
    <3>3. \/ text'[1][1] \in mixed'
          \/ text' = [n \in 1 .. Total[m] |-> <<m, n>>]
      BY <2>6, <3>2
    <3>4. WholeMessages'
      BY <1>3, <3>2, <3>3, Zenon DEF WholeMessages
    <3> QED BY <1>6, <2>4, <2>6, <2>11, <3>4
  <2> QED BY <2>2, <2>10, <2>11
<1> QED BY <1>8, <1>9, <1>10, <1>11 DEF Join, m

\* sms_parse(): who sent a whole message can be told from its first part; the
\* limiter stays within a day's limit.
LEMMA ParseInv ==
  ASSUME Inv, Parse PROVE Inv'
<1>1. /\ UNCHANGED <<network, sim, sms_counter, at, cur, seen, msms,
                     dropped, mixed, faults>>
      /\ comm = "parse" /\ handled' = handled \cup {text[1][1]}
  BY DEF Parse
<1>2. text[1][1] \in Messages
  <2>1. CASE \E m \in Messages : Total[m] = 0 /\ text = << <<m, 0>> >>
    BY <2>1
  <2>2. CASE \E m \in Messages :
                /\ 1 \in DOMAIN text
                /\ \A n \in DOMAIN text : \E k \in Messages :
                      Id[k] = Id[m] /\ text[n] = <<k, n>>
    <3>1. PICK k \in Messages : text[1] = <<k, 1>>
      BY <2>2
    <3> QED BY <3>1
  <2> QED BY <1>1, <2>1, <2>2 DEF Inv, WholeMessages
<1>3. handled' \subseteq Messages
  BY <1>1, <1>2 DEF Inv, TypeOK
<1>4. /\ limiter \in 0 .. DayLimit /\ tries \in 0 .. Tries
      /\ count \in 0 .. Answer
      /\ DayLimit \in Nat /\ Tries \in Nat \ {0} /\ Answer \in Nat
  BY SmsAssumption DEF Inv, TypeOK
<1>5. /\ limiter' \in 0 .. DayLimit
      /\ tries' \in 0 .. Tries /\ count' \in 0 .. Answer
      /\ \/ comm' = "idle"
         \/ comm' = "send" /\ tries' # 0 /\ count' # 0
  <2>1. CASE Reply(text[1][1]) = {}
    BY <1>4, <2>1 DEF Parse, sending
  <2>2. CASE Reply(text[1][1]) # {}
    <3>1. Reply(text[1][1]) = 1 .. Answer
      BY <2>2 DEF Reply
    <3>2. limiter' = IF limiter < DayLimit THEN limiter + 1 ELSE limiter
      BY <2>2 DEF Parse
    <3>3. limiter' \in 0 .. DayLimit
      BY <1>4, <3>2
    <3>4. \/ comm' = "idle" /\ tries' = tries /\ count' = count
          \/ comm' = "send" /\ tries' = Tries /\ count' \in 1 .. Answer
      BY <2>2, <3>1 DEF Parse
    <3> QED BY <1>4, <3>3, <3>4
  <2> QED BY <2>1, <2>2
<1>6. comm' \in {"idle", "listed", "loaded", "erase", "join", "parse", "send"}
  BY <1>5
<1>7. TypeOK'
  BY <1>1, <1>3, <1>5, <1>6, Zenon DEF Inv, TypeOK
<1>8. CommInv' /\ WholeMessages'
  BY <1>5 DEF CommInv, WholeMessages
<1>9. Pooled(msms)'
  BY <1>1 DEF Inv
<1> QED BY <1>7, <1>8, <1>9 DEF Inv

\* modem_sms_send_now(): a part that is being sent has a try left.
LEMMA SendInv ==
  ASSUME Inv, Send PROVE Inv'
<1>1. /\ UNCHANGED <<network, sim, sms_counter, at, cur, seen, msms, text,
                     handled, dropped, mixed, limiter>>
      /\ comm = "send"
  BY DEF Send, PduSent, PduFailed, fate
<1>2. /\ tries \in 1 .. Tries /\ count \in 1 .. Answer
      /\ faults \in 0 .. MaxFaults /\ MaxFaults \in Nat
      /\ Tries \in Nat \ {0} /\ Answer \in Nat
  BY <1>1, SmsAssumption DEF Inv, TypeOK, CommInv
<1>3. /\ tries' \in 0 .. Tries /\ count' \in 0 .. Answer
      /\ faults' \in 0 .. MaxFaults
      /\ count' # 0 => tries' # 0
  <2>1. CASE PduSent /\ count' = count - 1
    BY <1>2, <2>1 DEF PduSent
  <2>2. CASE PduFailed /\ count' = IF tries = 1 THEN 0 ELSE count
    BY <1>2, <2>2 DEF PduFailed, Fault
  <2> QED BY <2>1, <2>2 DEF Send
<1>4. comm' = IF count' = 0 THEN "idle" ELSE "send"
  BY DEF Send
<1>5. comm' \in {"idle", "listed", "loaded", "erase", "join", "parse", "send"}
  BY <1>4
<1>6. TypeOK'
  BY <1>1, <1>3, <1>5, Zenon DEF Inv, TypeOK
<1>7. CommInv' /\ WholeMessages'
  BY <1>3, <1>4 DEF CommInv, WholeMessages
<1>8. Pooled(msms)'
  BY <1>1 DEF Inv
<1> QED BY <1>6, <1>7, <1>8 DEF Inv

\* Every step of the network, the modem and the comm task keeps the invariant.
LEMMA NextInv ==
  ASSUME Inv, [Next]_vars PROVE Inv'
<1>1. CASE UNCHANGED vars
  <2>1. TypeOK' /\ CommInv' /\ WholeMessages'
    BY <1>1 DEF Inv, TypeOK, CommInv, WholeMessages, vars, sending, fate
  <2>2. Pooled(msms)'
    BY <1>1 DEF Inv, vars
  <2> QED BY <2>1, <2>2 DEF Inv
<1>2. CASE \E p \in Parts : Arrive(p)
  BY <1>2, ArriveInv
<1>3. CASE Check \/ NewDay
  BY <1>3, CheckInv
<1>4. CASE Goes
  BY <1>4, ReadInv, JoinInv, ParseInv, SendInv DEF Goes
<1> QED BY <1>1, <1>2, <1>3, <1>4 DEF Next

-----------------------------------------------------------------------------
(* Every reader and every step of the comm task stays within its arrays and *)
(* limits: sms_counter, which is set, cleared and decremented without a     *)
(* lock, is never decremented below zero and never exceeds the SIM.         *)
THEOREM TypeCorrect == Spec => []TypeOK
<1>1. Inv => TypeOK
  BY DEF Inv
<1> QED BY <1>1, InitInv, NextInv, PTL DEF Spec

(* Whatever order parts come in, twice or not, whatever the pool threw out  *)
(* in between and however references are shared, the n-th piece of a text   *)
(* that reaches sms_parse() is part n of a message with its reference:      *)
(* ms_find_in_buf() finds no part that ms_get_free_buf() has given up       *)
(* although its id and number are still there.  Unless ms_get() met parts   *)
(* of two messages it is one message, whole.                                *)
THEOREM WholeSafety == Spec => []WholeMessages
<1>1. Inv => WholeMessages
  BY DEF Inv
<1> QED BY <1>1, InitInv, NextInv, PTL DEF Spec
=============================================================================
