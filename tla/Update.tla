------------------------------- MODULE Update -------------------------------
(***************************************************************************)
(* The firmware download of app/update.c.  update_task() (task_app_comm)   *)
(* asks the server for an update and then for one chunk after the other;   *)
(* update_packet_rx() (task_app_modem) stores a chunk in external flash    *)
(* and raises the flag _packet_ack that update_task() polls for;           *)
(* update_start() (a command) begins a session.  The tasks share           *)
(* _update_rq, _phase and _packet_ack without a lock, and the write of a   *)
(* chunk, between the test of its number and the flag, takes long.         *)
(*                                                                         *)
(* The server and UDP are external: an answer may be lost, be duplicated   *)
(* and be handled long after the request that asked for it has timed out.  *)
(* The pauses between calls of update_task() are not modelled.             *)
(***************************************************************************)
EXTENDS Naturals, FiniteSets

CONSTANTS
  Chunks,      \* number of chunks of the image
  ErrLimit,    \* _ERR_LIMIT
  MaxCopies    \* bound: equal answers in flight

ASSUME ChunksAssumption == Chunks \in Nat \ {0}
ASSUME LimitsAssumption == ErrLimit \in Nat \ {0} /\ MaxCopies \in Nat \ {0}

VARIABLES
  rq,      \* _update_rq
  ack,     \* _packet_ack
  phase,   \* _phase: 0 asks for an update, k + 1 asks for chunk k
  err,     \* _err_cnt
  ip,      \* _server_ip: "zero" while the host name is not resolved
  tpc,     \* update_task(): "idle", or waiting for the answer to "req", "chunk"
  rx,      \* update_packet_rx(): "idle", or about to store a chunk
  rxid,    \* its local chunk_id
  net,     \* answers in flight: how many of each
  fw,      \* chunks of this session that storage_write_fw() has written
  flashing,\* main_flash() was called
  failed,  \* history: chunks of this session whose last write failed
  other,   \* history: while update_task() waits for a chunk, the flag was
           \* raised by an answer to a request for something else
  foreign, \* history: chunks that update_task() left behind after such a wait
  own      \* history: the chunk being written was received in this session

history == <<failed, other, foreign, own>>
update_vars ==
  <<rq, ack, phase, err, ip, tpc, rx, rxid, net, fw, flashing, history>>

ChunkIds == 0 .. Chunks - 1

START == <<"UPDATE_RES", 255>>
NO_FW == <<"UPDATE_RES", 0>>
CHUNK(k) == <<"CHUNK_RES", k>>
Answers == {START, NO_FW} \cup {CHUNK(k) : k \in ChunkIds}

UpdateInit ==
  /\ rq = FALSE /\ ack = FALSE /\ phase = 0 /\ err = 0 /\ ip = "zero"
  /\ tpc = "idle" /\ rx = "idle" /\ rxid = 0
  /\ net = [a \in Answers |-> 0]
  /\ fw = {} /\ flashing = FALSE
  /\ failed = {} /\ other = FALSE /\ foreign = {} /\ own = TRUE

-----------------------------------------------------------------------------
\* A command; the configured address is an IP address or a host name.
update_start ==
  /\ ~rq /\ ~flashing
  /\ err' = 0 /\ phase' = 0 /\ rq' = TRUE
  /\ ip' \in {"zero", "known"}
  /\ fw' = {} /\ failed' = {} /\ foreign' = {} /\ own' = (rx = "idle")
  /\ UNCHANGED <<ack, tpc, rx, rxid, net, flashing, other>>

\* The test of _err_cnt: past the limit the request is dropped, but the rest
\* of the call is still executed.
UnderLimit == err < ErrLimit

\* update_task() gets as far as net_connect().
Run == tpc = "idle" /\ rq /\ ~flashing /\ rq' = UnderLimit

Offline ==
  /\ Run
  /\ UNCHANGED <<ack, phase, err, ip, tpc, rx, rxid, net,
                 fw, flashing, history>>

\* The data connection is up: the host name is resolved first.
Unresolved ==
  /\ Run /\ ip = "zero"
  /\ err' = err + 1
  /\ UNCHANGED <<ack, phase, ip, tpc, rx, rxid, net,
                 fw, flashing, history>>

\* What the server may answer to the request that update_task() sends.
Reply == IF phase = 0 THEN {START, NO_FW}
                      ELSE {CHUNK(k) : k \in ChunkIds \cap {phase - 1}}

MutSend ==
  /\ Run
  /\ ip' = "known"
  /\ tpc' = IF phase = 0 THEN "req" ELSE "chunk"
  /\ \/ UNCHANGED net
     \/ \E a \in Reply : \E n \in 1 .. MaxCopies - net[a] :
          net' = [net EXCEPT ![a] = @ + n]
  /\ UNCHANGED <<ack, phase, err, rx, rxid, fw, flashing, history>>

\* _send_packet(): the flag is cleared and the request goes out; the answer
\* is lost, or on its way once or more often.
Send ==
  /\ Run
  /\ ip' = "known"
  /\ ack' = FALSE
  /\ tpc' = IF phase = 0 THEN "req" ELSE "chunk"
  /\ \/ UNCHANGED net
     \/ \E a \in Reply : \E n \in 1 .. MaxCopies - net[a] :
          net' = [net EXCEPT ![a] = @ + n]
  /\ UNCHANGED <<phase, err, rx, rxid, fw, flashing, history>>

\* net_udp_tx() fails.
SendFails ==
  /\ Run
  /\ ip' = "known"
  /\ ack' = FALSE
  /\ err' = err + 1
  /\ UNCHANGED <<phase, tpc, rx, rxid, net, fw, flashing, history>>

\* _wait_for_ack() sees the flag; update_task() goes on to the next phase.
Acked ==
  /\ tpc # "idle" /\ ack /\ ~flashing
  /\ ack' = FALSE
  /\ tpc' = "idle"
  /\ phase' = phase + 1
  /\ err' = IF tpc = "req" THEN err ELSE 0
  /\ foreign' = IF other THEN foreign \cup {k \in ChunkIds : k + 1 = phase}
                         ELSE foreign
  /\ other' = FALSE
  /\ UNCHANGED <<rq, ip, rx, rxid, net, fw, flashing, failed, own>>

MutTimeout ==
  /\ tpc # "idle" /\ ~ack /\ ~flashing
  /\ tpc' = "idle"
  /\ other' = FALSE
  /\ UNCHANGED <<rq, ack, phase, err, ip, rx, rxid, net, fw, flashing, failed,
                 foreign, own>>

\* _wait_for_ack() gives up after _SERVER_TMOUT; the answer may still come.
Timeout ==
  /\ tpc # "idle" /\ ~ack /\ ~flashing
  /\ tpc' = "idle"
  /\ err' = err + 1
  /\ other' = FALSE
  /\ UNCHANGED <<rq, ack, phase, ip, rx, rxid, net, fw, flashing, failed,
                 foreign, own>>

-----------------------------------------------------------------------------
Taken(a) == net' = [net EXCEPT ![a] = @ - 1]

\* A packet arrives: nobody asked for it, or it is not the expected chunk.
RxDrop(a) ==
  /\ rx = "idle" /\ net[a] > 0 /\ ~flashing
  /\ ~rq \/ (\E k \in ChunkIds : a = CHUNK(k) /\ k + 1 # phase)
  /\ Taken(a)
  /\ UNCHANGED <<rq, ack, phase, err, ip, tpc, rx, rxid, fw, flashing,
                 history>>

\* PACKET_ID_UPDATE_RES is looked at in phase 0 only, but always acknowledged.
RxResult(a) ==
  /\ rx = "idle" /\ net[a] > 0 /\ ~flashing
  /\ a \in {START, NO_FW} /\ rq
  /\ rq' = ~(phase = 0 /\ a = NO_FW)
  /\ ack' = TRUE
  /\ other' = (tpc = "chunk")
  /\ Taken(a)
  /\ UNCHANGED <<phase, err, ip, tpc, rx, rxid, fw, flashing, failed, foreign,
                 own>>

\* PACKET_ID_CHUNK_RES with the expected number: _write_chunk() begins.
RxChunk(k) ==
  /\ rx = "idle" /\ net[CHUNK(k)] > 0 /\ ~flashing
  /\ rq /\ k + 1 = phase
  /\ rx' = "write" /\ rxid' = k
  /\ own' = TRUE
  /\ Taken(CHUNK(k))
  /\ UNCHANGED <<rq, ack, phase, err, ip, tpc, fw, flashing, failed, other,
                 foreign>>

\* _write_chunk(): storage_write_fw() may fail, which is logged and not told
\* to the caller.
Store ==
  \/ fw' = fw \cup {rxid} /\ failed' = failed \ {rxid}
  \/ fw' = fw \ {rxid} /\ failed' = failed \cup {rxid}

MutRxStored ==
  /\ rx = "write" /\ ~flashing
  /\ Store
  /\ rx' = "idle" /\ rxid' = 0
  /\ rq' = FALSE /\ flashing' = TRUE
  /\ UNCHANGED <<ack, phase, err, ip, tpc, net, other, foreign, own>>

\* A chunk of UPDATE_CHUNK_STATUS_OK is written and acknowledged, whatever
\* update_task() waits for by now.
RxStored ==
  /\ rx = "write" /\ rxid # Chunks - 1 /\ ~flashing
  /\ Store
  /\ rx' = "idle" /\ rxid' = 0 /\ own' = TRUE    \* chunk_id goes out of scope
  /\ ack' = TRUE
  /\ other' = (other \/ (tpc = "chunk" /\ rxid + 1 # phase))
  /\ UNCHANGED <<rq, phase, err, ip, tpc, net, flashing, foreign>>

\* UPDATE_CHUNK_STATUS_DONE: the last chunk is written, main_flash() resets
\* the unit and does not return.
RxDone ==
  /\ rx = "write" /\ rxid = Chunks - 1 /\ ~flashing
  /\ Store
  /\ rx' = "idle" /\ rxid' = 0
  /\ rq' = FALSE /\ flashing' = TRUE
  /\ UNCHANGED <<ack, phase, err, ip, tpc, net, other, foreign, own>>

\* The unit starts again after main_flash().
Reboot ==
  /\ flashing
  /\ rq' = FALSE /\ ack' = FALSE /\ phase' = 0 /\ err' = 0 /\ ip' = "zero"
  /\ tpc' = "idle" /\ rx' = "idle" /\ rxid' = 0
  /\ net' = [a \in Answers |-> 0]
  /\ fw' = {} /\ flashing' = FALSE
  /\ failed' = {} /\ other' = FALSE /\ foreign' = {} /\ own' = TRUE

update_task == Offline \/ Unresolved \/ Send \/ SendFails \/ Acked \/ Timeout

update_packet_rx ==
  \/ \E a \in Answers : RxDrop(a) \/ RxResult(a)
  \/ \E k \in ChunkIds : RxChunk(k)
  \/ RxStored \/ RxDone

UpdateNext == update_start \/ update_task \/ update_packet_rx \/ Reboot

\* task_app_comm runs update_task() again and again, task_app_modem handles
\* what the modem received; that the data connection is up again and again is
\* assumed of modem_main.c.
UpdateFairness ==
  /\ SF_update_vars(Unresolved \/ Send \/ SendFails)
  /\ WF_update_vars(Acked \/ Timeout)
  /\ WF_update_vars(update_packet_rx)

UpdateSpec == UpdateInit /\ [][UpdateNext]_update_vars
UpdateFairSpec == UpdateSpec /\ UpdateFairness

-----------------------------------------------------------------------------
\* Type invariant.  _err_cnt passes the limit by one at most.
UpdateTypeOK ==
  /\ rq \in BOOLEAN /\ ack \in BOOLEAN /\ flashing \in BOOLEAN
  /\ phase \in Nat /\ err \in 0 .. ErrLimit + 1
  /\ ip \in {"zero", "known"}
  /\ tpc \in {"idle", "req", "chunk"} /\ rx \in {"idle", "write"}
  /\ rxid \in ChunkIds
  /\ net \in [Answers -> 0 .. MaxCopies]
  /\ fw \subseteq ChunkIds /\ failed \subseteq ChunkIds
  /\ foreign \subseteq ChunkIds /\ other \in BOOLEAN /\ own \in BOOLEAN

\* _wait_for_ack() ("yes, we have got response"): update_task() goes on past
\* chunk k only when that chunk has been received and written, with answers
\* that are lost, late or doubled; the exceptions are a write that failed,
\* which _write_chunk() only logs, and a wait during which the flag was raised
\* by a belated answer to another request, which update_packet_rx() does not
\* tell apart.
AckMeansStored ==
  \A k \in ChunkIds : k + 1 < phase => k \in fw \cup failed \cup foreign

\* main_flash() ("update DONE !") is called for an image that lacks only
\* chunks lost in one of these two ways, unless the write of the last chunk
\* took so long that a new session began meanwhile.
ImageComplete ==
  flashing /\ own => ChunkIds \subseteq fw \cup failed \cup foreign

\* A session ends: with an image, with "no FW", or with "update FAILED" after
\* _ERR_LIMIT errors in a row.
SessionEnds == rq ~> ~rq
=============================================================================
