-------------------------------- MODULE Sms ---------------------------------
(***************************************************************************)
(* Commands by SMS: from the memory of the SIM (modem_sms.c, the URCs of   *)
(* modem.c) through the pool of parts of long messages (multi_sms.c) to    *)
(* the command (sms_processing.c, cmd.c) and its answer (modem_main.c).    *)
(*                                                                         *)
(* The comm task reads, one SMS per round; the modem task applies URCs     *)
(* between its steps.  A part is <<message, number>>; the text of a part   *)
(* is the part itself.  The parts of a message carry its reference and     *)
(* their total.  The reference is a number of the sender, and the sender   *)
(* is not compared: messages may share one.  No part is empty.             *)
(* sms_storage_me is left out.                                             *)
(***************************************************************************)
EXTENDS Naturals, FiniteSets

CONSTANTS Messages,    \* what people send to the unit
          Id, Total,   \* the reference of a message, its parts (0: not split)
          Known,       \* messages that begin with a valid password
          Slots,       \* capacity of the SIM
          Pool,        \* MSMS_BUF_LEN
          DayLimit,    \* _SMS_DAY_LIMIT
          Tries,       \* tries of send_pdu_now()
          Answer,      \* the largest number of parts of an answer
          MaxFaults    \* bound on duplicates, lost and garbled lines

None == <<>>
Numbers(m) == IF Total[m] = 0 THEN {0} ELSE 1 .. Total[m]
Parts == UNION {{<<m, n>> : n \in Numbers(m)} : m \in Messages}

ASSUME SmsAssumption ==
    /\ Id \in [Messages -> Nat] /\ Total \in [Messages -> Nat]
    /\ Known \subseteq Messages
    /\ Slots \in Nat \ {0} /\ Pool \in Nat \ {0}
    /\ DayLimit \in Nat \ {0} /\ Tries \in Nat \ {0} /\ Answer \in Nat \ {0}
    /\ MaxFaults \in Nat

VARIABLES
    network,     \* parts that are still to be delivered
    sim,         \* the memory of the SIM
    sms_counter,
    comm,        \* where the comm task is
    at, cur,     \* slot and content it has read (None: garbled)
    seen,        \* sms_counter as it was loaded for the decrement
    msms,        \* the pool: id, order_num, buffer
    text,        \* the message for sms_parse(): part by part
    handled,     \* messages that were given to sms_parse() (history)
    dropped,     \* messages that lost a part to a full pool (history)
    mixed,       \* messages of one reference whose parts met (history)
    limiter,     \* _sms_limiter
    tries,       \* tries left
    count,       \* parts of the answer that are left
    faults       \* faults that may still happen

sending == <<limiter, tries, count>>
fate == <<handled, dropped, mixed>>
vars == <<network, sim, sms_counter, comm, at, cur, seen, msms, text,
          fate, sending, faults>>

Bufs == 1 .. Pool
Unused == [id |-> 0, order_num |-> 0, buffer |-> None]

TypeOK ==
    /\ network \subseteq Parts
    /\ sim \in [1 .. Slots -> Parts \cup {None}]
    /\ sms_counter \in 0 .. Slots
    /\ comm \in {"idle", "listed", "loaded", "erase", "join", "parse", "send"}
    /\ at \in 0 .. Slots /\ cur \in Parts \cup {None}
    /\ seen \in 0 .. Slots
    /\ msms \in [Bufs -> [id : Nat, order_num : Nat,
                          buffer : Parts \cup {None}]]
    /\ handled \subseteq Messages
    /\ dropped \subseteq Messages /\ mixed \subseteq Messages
    /\ limiter \in 0 .. DayLimit /\ tries \in 0 .. Tries
    /\ count \in 0 .. Answer
    /\ faults \in 0 .. MaxFaults

Init ==
    /\ network = Parts
    /\ sim = [s \in 1 .. Slots |-> None]
    /\ sms_counter = 0
    /\ comm = "idle" /\ at = 0 /\ cur = None /\ seen = 0
    /\ msms = [i \in Bufs |-> Unused] /\ text = <<>>
    /\ handled = {} /\ dropped = {} /\ mixed = {}
    /\ limiter = 0 /\ tries = 0 /\ count = 0
    /\ faults = MaxFaults

Fault == faults > 0 /\ faults' = faults - 1
Least(S) == CHOOSE i \in S : \A j \in S : i <= j
Greatest(S) == CHOOSE i \in S : \A j \in S : j <= i
Occupied == {s \in 1 .. Slots : sim[s] # None}

-----------------------------------------------------------------------------
(* The network and the modem. *)

(* A part is stored in the SIM, and perhaps once more; +CMTI: "SM",<n> sets *)
(* the counter to the index, unless the line is lost.                       *)
Arrive(p) ==
    LET free == {s \in 1 .. Slots : sim[s] = None} IN
    /\ p \in network /\ free # {}
    /\ sim' = [sim EXCEPT ![Least(free)] = p]
    /\ \/ /\ network' = network \ {p} /\ sms_counter' = Least(free)
          /\ UNCHANGED faults
       \/ Fault /\ network' = network \ {p} /\ UNCHANGED sms_counter
       \/ Fault /\ sms_counter' = Least(free) /\ UNCHANGED network
    /\ UNCHANGED <<comm, at, cur, seen, msms, text, fate, sending>>

MutUsed == 0

(* +CPMS: the number of messages in the SIM. *)
Used == Cardinality(Occupied)

(* modem_check() asks for it; it counts when no message is known of. *)
Check ==
    /\ comm = "idle" /\ sms_counter = 0
    /\ sms_counter' = Used
    /\ UNCHANGED <<network, sim, comm, at, cur, seen, msms, text,
                   fate, sending, faults>>

-----------------------------------------------------------------------------
(* The comm task: modem_sms_read(). *)

(* AT+CMGL=4: the first message of the list, garbled when a line came too   *)
(* fast for the reader, or no answer.                                       *)
List ==
    /\ comm = "idle" /\ sms_counter > 0
    /\ \/ /\ Occupied # {}
          /\ at' = Least(Occupied) /\ comm' = "listed"
          /\ \/ cur' = sim[Least(Occupied)] /\ UNCHANGED faults
             \/ cur' = None /\ Fault
          /\ UNCHANGED sms_counter
       \/ /\ IF Occupied = {} THEN UNCHANGED faults ELSE Fault
          /\ sms_counter' = 0 /\ UNCHANGED <<comm, at, cur>>
    /\ UNCHANGED <<network, sim, seen, msms, text, fate, sending>>

(* OK, the end of the list: sms_counter-- begins; or no OK in time, and the *)
(* message is not used.                                                     *)
Listed ==
    /\ comm = "listed"
    /\ \/ /\ comm' = "loaded" /\ seen' = sms_counter
          /\ UNCHANGED <<cur, faults>>
       \/ Fault /\ comm' = "erase" /\ cur' = None /\ UNCHANGED seen
    /\ UNCHANGED <<network, sim, sms_counter, at, msms, text, fate,
                   sending>>

Loaded ==
    /\ comm = "loaded" /\ comm' = "erase"
    /\ sms_counter' = seen - 1 /\ seen' = 0
    /\ UNCHANGED <<network, sim, at, cur, msms, text, fate, sending,
                   faults>>

(* AT+CMGD, whatever was read; its answer is not awaited. *)
Erase ==
    /\ comm = "erase"
    /\ \/ sim' = [sim EXCEPT ![at] = None] /\ UNCHANGED faults
       \/ Fault /\ UNCHANGED sim
    /\ comm' = IF cur = None THEN "idle" ELSE "join"
    /\ at' = 0
    /\ UNCHANGED <<network, sms_counter, cur, seen, msms, text, fate,
                   sending>>

-----------------------------------------------------------------------------
(* multi_sms.c *)

MutFreeBuf(id) == [room |-> msms, free |-> {Pool}]

(* ms_get_free_buf(): when no buffer is free, those of other messages are.  *)
FreeBuf(id) ==
    LET freed == [i \in Bufs |-> IF msms[i].id = id THEN msms[i]
                                 ELSE [msms[i] EXCEPT !.buffer = None]]
        room == IF \E i \in Bufs : msms[i].buffer = None THEN msms ELSE freed
    IN  [room |-> room, free |-> {i \in Bufs : room[i].buffer = None}]

MutFound(pool, id, n) == {i \in Bufs : pool[i].id = id
                                       /\ pool[i].order_num = n}

(* ms_find_in_buf(): the buffers that hold part n of the message. *)
Found(pool, id, n) ==
    {i \in Bufs : /\ pool[i].id = id /\ pool[i].order_num = n
                  /\ pool[i].buffer # None}

(* ms_delete() *)
Deleted(pool, id) ==
    [i \in Bufs |-> IF pool[i].id = id THEN Unused ELSE pool[i]]

(* A message that is not split is taken as it is. *)
Single(m) ==
    /\ Total[m] = 0
    /\ comm' = "parse" /\ text' = <<cur>>
    /\ UNCHANGED <<msms, dropped, mixed, faults>>

(* The messages whose parts ms_get_free_buf() gives up for a part of m, if   *)
(* there really is no room.                                                 *)
Crowded == \A i \in Bufs : msms[i].buffer # None
Out(m) == IF Crowded
          THEN {msms[i].buffer[1] : i \in {j \in Bufs : msms[j].id # Id[m]}}
          ELSE {}

(* MS_SMS_ERROR: too many parts, or no memory or nonsense (a fault). *)
Rejected(m) ==
    /\ Total[m] # 0
    /\ IF FreeBuf(Id[m]).free = {}
       THEN dropped' = dropped \cup Out(m) \cup {m} /\ UNCHANGED faults
       ELSE dropped' = dropped \cup Out(m) /\ Fault
    /\ comm' = "idle" /\ msms' = FreeBuf(Id[m]).room
    /\ UNCHANGED <<text, mixed>>

(* The pool with the part, and the buffers of its reference then. *)
Filed(m) ==
    LET r == FreeBuf(Id[m])
    IN [r.room EXCEPT ![Least(r.free)] =
            [id |-> Id[m], order_num |-> cur[2], buffer |-> cur]]

Mine(pool, id) == {i \in Bufs : pool[i].id = id /\ pool[i].buffer # None}

Complete(pool, id, total) == \A n \in 1 .. total : Found(pool, id, n) # {}

(* MS_SMS_WAIT *)
Waits(m) ==
    /\ Total[m] # 0 /\ FreeBuf(Id[m]).free # {}
    /\ ~Complete(Filed(m), Id[m], Total[m])
    /\ comm' = "idle" /\ msms' = Filed(m)
    /\ dropped' = dropped \cup Out(m)
    /\ UNCHANGED <<text, mixed, faults>>

(* MS_SMS_DONE: ms_get() joins as many parts as the last buffer says, fails *)
(* if one is missing or there is no memory (a fault), and ms_delete()       *)
(* follows.  Its length, which counts a part twice that came twice, is not  *)
(* used: the text ends where its last part does.                            *)
Done(m) ==
    LET pool == Filed(m)
        mine == Mine(pool, Id[m])
        num == Total[pool[Greatest(mine)].buffer[1]]
        met == {pool[i].buffer[1] : i \in mine}
    IN
    /\ Total[m] # 0 /\ FreeBuf(Id[m]).free # {}
    /\ Complete(pool, Id[m], Total[m])
    /\ \/ /\ Complete(pool, Id[m], num)
          /\ comm' = "parse" /\ UNCHANGED faults
          /\ text' = [n \in 1 .. num |->
                          pool[Least(Found(pool, Id[m], n))].buffer]
       \/ /\ IF Complete(pool, Id[m], num) THEN Fault ELSE UNCHANGED faults
          /\ comm' = "idle" /\ UNCHANGED text
    /\ msms' = Deleted(pool, Id[m])
    /\ dropped' = dropped \cup Out(m)
    /\ mixed' = IF met = {m} THEN mixed ELSE mixed \cup met

(* A part goes through ms_incomming(). *)
Join ==
    /\ comm = "join" /\ cur' = None
    /\ \/ Single(cur[1]) \/ Rejected(cur[1])
       \/ Waits(cur[1]) \/ Done(cur[1])
    /\ UNCHANGED <<network, sim, sms_counter, at, seen, handled, sending>>

-----------------------------------------------------------------------------
(* sms_parse(): cmd_sms_process() and the answer. *)

(* cmd_get_password_access(): a text counts from a configured password on. *)
Granted(m) == m \in Known

(* cmd_sms_process(): the chained commands, up to the first that fails,    *)
(* write one answer; its length in parts.                                  *)
Reply(m) == IF Granted(m) THEN 1 .. Answer ELSE {}

(* The password is in the first part; without one nothing is executed and   *)
(* nothing answered.  modem_main_sms_send() counts every try of a day.      *)
Parse ==
    /\ comm = "parse" /\ text' = <<>>
    /\ handled' = handled \cup {text[1][1]}
    /\ IF Reply(text[1][1]) = {}
       THEN comm' = "idle" /\ UNCHANGED sending
       ELSE /\ limiter' = IF limiter < DayLimit THEN limiter + 1 ELSE limiter
            /\ IF limiter + 1 >= DayLimit
               THEN comm' = "idle" /\ UNCHANGED <<tries, count>>
               ELSE /\ comm' = "send" /\ tries' = Tries
                    /\ count' \in Reply(text[1][1])
    /\ UNCHANGED <<network, sim, sms_counter, at, cur, seen, msms, dropped,
                   mixed, faults>>

(* send_pdu_now(): AT+CMGS, the prompt, the PDU and +CMGS; when one of them *)
(* does not come the part is tried again, sent or not.                      *)
PduSent ==
    /\ comm = "send" /\ tries' = (IF count = 1 THEN 0 ELSE Tries)
    /\ UNCHANGED faults

PduFailed == comm = "send" /\ Fault /\ tries' = tries - 1

(* modem_sms_send_now(): part by part; the first that fails ends it.        *)
Send ==
    /\ \/ PduSent /\ count' = count - 1
       \/ PduFailed /\ count' = IF tries = 1 THEN 0 ELSE count
    /\ comm' = IF count' = 0 THEN "idle" ELSE "send"
    /\ UNCHANGED <<network, sim, sms_counter, at, cur, seen, msms, text,
                   fate, limiter>>

(* _limiters_update(), once a day. *)
NewDay ==
    /\ comm = "idle" /\ limiter > 0 /\ limiter' = 0
    /\ UNCHANGED <<network, sim, sms_counter, comm, at, cur, seen, msms,
                   text, fate, tries, count, faults>>

Goes == List \/ Listed \/ Loaded \/ Erase \/ Join \/ Parse \/ Send

Next ==
    \/ \E p \in Parts : Arrive(p)
    \/ Check \/ Goes \/ NewDay

Spec == Init /\ [][Next]_vars

(* The comm task goes on, modem_check() is called every minute, the network *)
(* delivers what it can.                                                    *)
FairSpec ==
    /\ Spec
    /\ WF_vars(Goes) /\ WF_vars(Check)
    /\ SF_vars(\E p \in Parts : Arrive(p))

-----------------------------------------------------------------------------
(* Parts come in any order, twice, or are thrown out of the pool by another *)
(* message, whose buffers keep their id and number: the n-th piece of a     *)
(* long message that is given to sms_parse() is part n of a message with    *)
(* that reference, and unless parts of two such messages met in the pool,   *)
(* it is one message with all its parts.                                    *)
WholeMessages ==
    comm = "parse" =>
        \/ \E m \in Messages : Total[m] = 0 /\ text = << <<m, 0>> >>
        \/ \E m \in Messages :
              /\ 1 \in DOMAIN text
              /\ \A n \in DOMAIN text :
                    \E k \in Messages : Id[k] = Id[m] /\ text[n] = <<k, n>>
              /\ \/ text[1][1] \in mixed
                 \/ text = [n \in 1 .. Total[m] |-> <<m, n>>]

(* The counter is set to an index, decremented without a lock and cleared   *)
(* by a failed read; nevertheless no SMS stays in the SIM.                  *)
ReadOut == []<>(Occupied = {})

(* When no line is lost and no part comes twice, every message is handled,  *)
(* but for those that lost a part to a pool that was full and those whose    *)
(* parts met parts of another one with the same reference.                  *)
AllHandled ==
    []<>(faults < MaxFaults \/ handled \cup dropped \cup mixed = Messages)
=============================================================================
