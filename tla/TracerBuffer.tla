---------------------------- MODULE TracerBuffer ----------------------------
(***************************************************************************)
(* Track points on their way to the server: tracer/tracer_buffer.c, a ring *)
(* in external flash; tracer_new_point() of tracer/tracer.c, which stores  *)
(* a point (task_app_slow); tracer_comm_process(), which reads points back *)
(* and sends them one by one (task_app_comm); and tracer_packet_rx()       *)
(* (task_app_modem), which raises tracer_packet_ack for any answer: those  *)
(* of H02, the default protocol, do not name the point they answer, and    *)
(* UDP may lose, delay or double them.  After a restart tracer_buf_init()  *)
(* searches the ring by halving.                                           *)
(*                                                                         *)
(* A record is the serial number n of its point (history), its track and   *)
(* TRACER_FLAG_DELIVERED.  Writes go through the cache of the flash        *)
(* library: mem is what is read, flash what survives a power cut.  Server  *)
(* and UDP are external; pauses between calls are left out.                *)
(***************************************************************************)
EXTENDS Naturals, FiniteSets

CONSTANTS
  Bits,        \* BUF_STORE_LIMIT, a power of two, is 2^Bits
  TrackLimit,  \* points of a track at most
  MaxPoints,   \* bound: points stored
  MaxAnswers,  \* bound: answers in flight
  MaxRestarts  \* bound: restarts

Pow2[k \in 0 .. Bits] == IF k = 0 THEN 1 ELSE 2 * Pow2[k - 1]
Size == Pow2[Bits]

ASSUME BitsAssumption == Bits \in Nat \ {0}
ASSUME LimitsAssumption ==
  /\ TrackLimit \in Nat \ {0} /\ MaxPoints \in Nat
  /\ MaxAnswers \in Nat \ {0} /\ MaxRestarts \in Nat

VARIABLES
  mem, flash,  \* the ring: as read, as it survives a power cut
  save,        \* buf_save_ptr
  read,        \* buf_read_ptr
  undel,       \* buf_last_undelivered
  track,       \* track, the number of the current one
  point,       \* point, the points it has so far
  spc,         \* slow task: between the write of a record and the pointer?
  cpc,         \* comm task: "idle", in wait_for_ack(), in delivered_all()
  packet,      \* serial of the point in tracer_packet_buffer, 0: none
  ack,         \* tracer_packet_ack
  net,         \* answers to the packet in flight
  late,        \* answers to earlier packets in flight
  serial,      \* history: points stored
  got,         \* history: points the server received
  other,       \* history: has a late answer ended the wait?
  doubt,       \* history: points for which a late answer was taken
  restarts,    \* restarts so far
  lost         \* history: points were given up, see Overrun, Dropped, Missed,
               \* or a record was not written, see WriteFails, MarkFails

ring == <<mem, flash, save, undel, read>>
answers == <<net, late, other, doubt>>
sender == <<cpc, packet, ack, got, answers>>
hist == <<restarts, lost>>
buf_vars == <<ring, track, point, spc, sender, serial, hist>>

Slots == 0 .. Size - 1
Erased == [n |-> 0, track |-> 0, sent |-> FALSE]
Record == [n : Nat, track : Nat, sent : BOOLEAN]

BUF_INC_PTR(p) == IF p + 1 >= Size THEN 0 ELSE p + 1

\* tracer_buf_load() of a record with the right checksum.
Valid(r) == r # Erased

-----------------------------------------------------------------------------
(* tracer_buf_init() *)

\* The step i that the k-th turn of a search adds or takes off.
Half(k) == Pow2[Bits - k] \div 2

MutNewestTurn(f, p, k) ==
  LET r == f[p.ptr]
  IN IF Valid(r)
       THEN [ptr |-> p.ptr + Half(k), top |-> p.ptr, track |-> r.track,
             und |-> IF r.sent THEN p.und ELSE {p.ptr}]
       ELSE [p EXCEPT !.ptr = @ - Half(k)]

\* The k-th turn of the search for the last record.
NewestTurn(f, p, k) ==
  LET r == f[p.ptr]
  IN IF Valid(r) /\ r.track >= p.track
       THEN [ptr |-> p.ptr + Half(k), top |-> p.ptr, track |-> r.track,
             und |-> IF r.sent THEN p.und ELSE {p.ptr}]
       ELSE [p EXCEPT !.ptr = @ - Half(k)]

\* The search for the last record, the one before the track number drops:
\* top is its slot, und the last undelivered record that was looked at.
Newest(f) ==
  LET s[k \in 0 .. Bits] ==
        IF k = 0 THEN [ptr |-> Size \div 2, top |-> 0, track |-> f[0].track,
                       und |-> {}]
        ELSE NewestTurn(f, s[k - 1], k)
  IN s[Bits]

\* The k-th turn of the search for the first undelivered record.
OldestTurn(f, p, k) ==
  IF Valid(f[p.ptr]) /\ ~f[p.ptr].sent
    THEN [ptr |-> (p.ptr + Size - Half(k)) % Size, und |-> p.ptr]
    ELSE [p EXCEPT !.ptr = (@ + Half(k)) % Size]

\* The search backwards from the last record for the first undelivered one.
Oldest(f, top, und) ==
  LET s[k \in 0 .. Bits] ==
        IF k = 0 THEN [ptr |-> (top + Size \div 2) % Size, und |-> und]
        ELSE OldestTurn(f, s[k - 1], k)
  IN s[Bits].und

\* The pointers and the track number that a restart makes of the ring f.
tracer_buf_init(f) ==
  IF ~Valid(f[0]) THEN [save |-> 0, undel |-> 0, track |-> 0]
  ELSE LET new == Newest(f)
           s   == BUF_INC_PTR(new.top)
       IN [save  |-> s,
           track |-> new.track,
           undel |-> IF new.und = {} THEN s
                     ELSE Oldest(f, new.top, CHOOSE p \in new.und : TRUE)]

BufInit ==
  /\ mem = [s \in Slots |-> Erased] /\ flash = mem
  /\ save = 0 /\ read = 0 /\ undel = 0
  /\ track = 0 /\ point = 0
  /\ spc = "idle" /\ cpc = "idle" /\ packet = 0 /\ ack = FALSE
  /\ net = 0 /\ late = 0 /\ other = FALSE /\ doubt = {}
  /\ serial = 0 /\ got = {} /\ restarts = 0 /\ lost = FALSE

-----------------------------------------------------------------------------
(* The slow task: tracer_new_point() and tracer_buf_store_position() *)

\* A point of a new track or of the current one.  A track that ended is not
\* continued; after a restart there is none.
NextPoint(first) ==
  /\ spc = "idle" /\ serial < MaxPoints
  /\ first \/ point \in 1 .. TrackLimit - 1
  /\ point' = IF first THEN 1 ELSE point + 1
  /\ track' = IF first THEN track + 1 ELSE track
  /\ serial' = serial + 1
  /\ spc' = "written"
  /\ UNCHANGED <<flash, save, undel, read, sender, restarts>>

\* The record is written.
StoreWrite(first) ==
  /\ NextPoint(first)
  /\ mem' = [mem EXCEPT ![save] =
                [n |-> serial + 1, track |-> track', sent |-> FALSE]]
  /\ UNCHANGED lost

\* tracer_buf_save() fails, which nobody looks at: the slot keeps what it held,
\* an old point that is sent again or nothing, where the reader stays.
WriteFails(first) ==
  /\ NextPoint(first)
  /\ lost' = TRUE
  /\ UNCHANGED mem

\* The ring is full of undelivered points; it looks empty next.
Overrun == BUF_INC_PTR(save) = undel

\* BUF_INC_PTR(buf_save_ptr), after the wait for the flash.
StoreAdvance ==
  /\ spc = "written"
  /\ spc' = "idle"
  /\ save' = BUF_INC_PTR(save)
  /\ lost' = (lost \/ Overrun)
  /\ UNCHANGED <<mem, flash, undel, read, track, point, sender, serial,
                 restarts>>

-----------------------------------------------------------------------------
(* The comm task: tracer_comm_process() *)

\* Nothing to send: tracer_buf_read_next() fetches the next point.  A record
\* that cannot be read is tried again later.
ReadNext ==
  /\ cpc = "idle" /\ packet = 0 /\ read # save
  /\ Valid(mem[read])
  /\ packet' = mem[read].n
  /\ read' = BUF_INC_PTR(read)
  /\ UNCHANGED <<mem, flash, save, undel, track, point, spc, cpc, ack, got,
                 answers, serial, hist>>

MutSend(arrives, n) ==
  /\ cpc = "idle" /\ packet # 0
  /\ n > 0 => arrives /\ net + late + n <= MaxAnswers
  /\ cpc' = "wait"
  /\ got' = IF arrives THEN got \cup {packet} ELSE got
  /\ net' = net + n
  /\ UNCHANGED <<ring, track, point, spc, packet, ack, late, other, doubt,
                 serial, hist>>

\* The packet is sent and awaited; n answers will come.  The flag is cleared
\* "to avoid previous ACK to be accepted now".
Send(arrives, n) ==
  /\ cpc = "idle" /\ packet # 0
  /\ n > 0 => arrives /\ net + late + n <= MaxAnswers
  /\ ack' = FALSE
  /\ cpc' = "wait"
  /\ got' = IF arrives THEN got \cup {packet} ELSE got
  /\ net' = net + n
  /\ UNCHANGED <<ring, track, point, spc, packet, late, other, doubt, serial,
                 hist>>

\* wait_for_ack() gives up, after a last look at the flag; the packet is kept
\* and sent again.
TimedOut ==
  /\ cpc = "wait" /\ ~ack
  /\ cpc' = "idle"
  /\ other' = FALSE
  /\ UNCHANGED <<ring, track, point, spc, packet, ack, net, late, got, doubt,
                 serial, hist>>

\* The packet is forgotten: answers to it that are still to come are late.
Forget ==
  /\ packet' = 0
  /\ net' = 0 /\ late' = late + net
  /\ other' = FALSE

MutAcked ==
  /\ cpc = "wait" /\ ack
  /\ ack' = FALSE /\ other' = FALSE
  /\ cpc' = "deliver"
  /\ doubt' = IF other THEN doubt \cup ({packet} \ got) ELSE doubt
  /\ UNCHANGED <<ring, track, point, spc, packet, net, late, got, serial, hist>>

\* An answer: packet_done(), and everything read so far counts as delivered.
Acked ==
  /\ cpc = "wait" /\ ack
  /\ ack' = FALSE /\ Forget
  /\ cpc' = "deliver"
  /\ doubt' = IF other THEN doubt \cup ({packet} \ got) ELSE doubt
  /\ UNCHANGED <<ring, track, point, spc, got, serial, hist>>

\* tracer_buf_delivered_all(), record by record.
Deliver ==
  /\ cpc = "deliver"
  /\ IF undel = read
       THEN cpc' = "idle" /\ UNCHANGED <<mem, undel>>
       ELSE /\ mem' = IF Valid(mem[undel])
                        THEN [mem EXCEPT ![undel].sent = TRUE] ELSE mem
            /\ undel' = BUF_INC_PTR(undel)
            /\ UNCHANGED cpc
  /\ UNCHANGED <<flash, save, read, track, point, spc, packet, ack, got,
                 answers, serial, hist>>

\* The mark is not written, which nobody looks at either: the point waits on.
MarkFails ==
  /\ cpc = "deliver" /\ undel # read
  /\ undel' = BUF_INC_PTR(undel)
  /\ lost' = TRUE
  /\ UNCHANGED <<mem, flash, save, read, track, point, spc, sender, serial,
                 restarts>>

\* The packet that tracer_reinit() clears was read and is not read again.
Dropped == packet # 0

\* tracer_reinit(), from _reinit_task() after a change of the configuration.
tracer_reinit ==
  /\ cpc = "idle" /\ (Dropped \/ ack)
  /\ ack' = FALSE /\ Forget
  /\ lost' = (lost \/ Dropped)
  /\ UNCHANGED <<ring, track, point, spc, cpc, got, doubt, serial, restarts>>

\* An answer to the packet.
AnswerInTime ==
  /\ net > 0
  /\ net' = net - 1 /\ other' = FALSE
  /\ UNCHANGED late

\* An answer to an earlier one.
AnswerLate ==
  /\ late > 0
  /\ late' = late - 1
  /\ other' = (other \/ (cpc = "wait" /\ ~ack))
  /\ UNCHANGED net

\* The modem task.
tracer_packet_rx ==
  /\ AnswerInTime \/ AnswerLate
  /\ ack' = TRUE
  /\ UNCHANGED <<ring, track, point, spc, cpc, packet, got, doubt, serial,
                 hist>>

-----------------------------------------------------------------------------
storage_maintenance ==
  /\ flash # mem
  /\ flash' = mem
  /\ UNCHANGED <<mem, save, undel, read, track, point, spc, sender, serial,
                 hist>>

\* The last record lies in slot 0: the search for it looks at the flags of the
\* others only, and no undelivered point is found.
Missed(f) == Valid(f[0]) /\ Newest(f).top = 0 /\ ~f[0].sent

\* A ring full of undelivered records looks empty as well.
Full(f) == \A s \in Slots : Valid(f[s]) /\ ~f[s].sent

\* A power cut or a reset, and tracer_init().
Restart ==
  /\ restarts < MaxRestarts /\ restarts' = restarts + 1
  /\ mem' = flash
  /\ save' = tracer_buf_init(flash).save
  /\ undel' = tracer_buf_init(flash).undel /\ read' = undel'
  /\ track' = tracer_buf_init(flash).track /\ point' = 0
  /\ spc' = "idle" /\ cpc' = "idle" /\ ack' = FALSE /\ Forget
  /\ lost' = (lost \/ Missed(flash) \/ Full(flash))
  /\ UNCHANGED <<flash, got, doubt, serial>>

tracer_comm_process ==
  \/ ReadNext \/ TimedOut \/ Acked \/ Deliver \/ MarkFails
  \/ \E arrives \in BOOLEAN, n \in 0 .. MaxAnswers : Send(arrives, n)

BufNext ==
  \/ \E first \in BOOLEAN : StoreWrite(first) \/ WriteFails(first)
  \/ StoreAdvance
  \/ tracer_comm_process \/ tracer_reinit \/ tracer_packet_rx
  \/ storage_maintenance \/ Restart

\* The tasks go on, and of the packets that are sent again and again some
\* arrive and are answered within the time-out, which has grown to 5 s by then.
BufFairness ==
  /\ WF_buf_vars(StoreAdvance) /\ WF_buf_vars(tracer_comm_process)
  /\ SF_buf_vars(Send(TRUE, 1))
  /\ SF_buf_vars(cpc = "wait" /\ tracer_packet_rx)

BufSpec == BufInit /\ [][BufNext]_buf_vars
BufFairSpec == BufSpec /\ BufFairness

-----------------------------------------------------------------------------
\* Type invariant.
BufTypeOK ==
  /\ mem \in [Slots -> Record] /\ flash \in [Slots -> Record]
  /\ save \in Slots /\ read \in Slots /\ undel \in Slots
  /\ track \in Nat /\ point \in 0 .. TrackLimit
  /\ spc \in {"idle", "written"} /\ cpc \in {"idle", "wait", "deliver"}
  /\ packet \in Nat /\ ack \in BOOLEAN
  /\ net \in Nat /\ late \in Nat /\ net + late <= MaxAnswers
  /\ other \in BOOLEAN /\ doubt \subseteq Nat
  /\ serial \in Nat /\ got \subseteq 1 .. serial
  /\ restarts \in Nat /\ lost \in BOOLEAN

\* tracer_buffer.h 7, "this point was delivered to server": a record marked
\* TRACER_FLAG_DELIVERED has been received, whatever was lost, doubled and sent
\* again before, through restarts and full turns of the ring.  Not if an answer
\* to an earlier point came while this one was awaited (doubt); one that came
\* before is not taken, tracer.c 574.
DeliveredIsReceived ==
  ~lost => \A s \in Slots : mem[s].sent => mem[s].n \in got \cup doubt

\* The search of a restart finds the place behind the newest record in flash
\* and the oldest undelivered one before it, however often the ring has
\* turned, if no track is longer than half of the ring.
FoundAgain ==
  LET valid == {s \in Slots : Valid(flash[s])}
      after == tracer_buf_init(flash)
      open  == {s \in valid : ~flash[s].sent}
  IN valid # {} /\ ~lost =>
       /\ \E t \in valid : /\ \A s \in valid : flash[s].n <= flash[t].n
                           /\ after.save = BUF_INC_PTR(t)
                           /\ after.track = flash[t].track
       /\ open # {} /\ ~Missed(flash) =>
            \E t \in open : /\ \A s \in open : flash[t].n <= flash[s].n
                            /\ after.undel = t

Waits(s) == Valid(mem[s]) /\ ~mem[s].sent

\* No stored point stays undelivered: as long as no new ones come, all of them
\* are delivered (or gone with the cache), or points were given up.  A record
\* that was not written counts as given up: the reader may stay there for ever.
PointsDelivered == []<>(lost \/ \A s \in Slots : ~Waits(s))
=============================================================================
