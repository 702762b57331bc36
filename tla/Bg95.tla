------------------------------- MODULE Bg95 ---------------------------------
(***************************************************************************)
(* modem_bg95.c: the UDP sockets of the modem and its resolver.  The comm  *)
(* task binds sockets, sends and resolves names; the slow task fetches     *)
(* received packets, closes idle sockets and drops a connection on which   *)
(* nothing is received; the modem task applies +QIURC lines.  An AT command *)
(* with its answer is one step (the AT semaphore is held), what a task      *)
(* assigns before or after it is a step of its own.                        *)
(*                                                                         *)
(* table is udp_socket[], open is the sockets in the modem; whether    *)
(* a packet waits in one is a choice.  The timers are abstract: they may   *)
(* have passed or not.                                                     *)
(***************************************************************************)
EXTENDS Naturals

CONSTANTS Peers,       \* addresses the unit talks to
          None,        \* address 0
          LastSocket,  \* _SOCKETS - 1
          Hosts,       \* names that are resolved
          TxLimit,     \* 10 packets sent without one received
          MaxFaults    \* bound on faults

ASSUME Bg95Assumption ==
    /\ None \notin Peers /\ Peers # {}
    /\ LastSocket \in Nat
    /\ TxLimit \in Nat /\ MaxFaults \in Nat

VARIABLES
    table,       \* udp_socket[]: address, receive request, no_rx_cnt
    robin,       \* the static socket of _socket_id()
    tx_cnt,      \* sent since the last packet received
    watch,       \* timer_rx_timeout is not 0
    up,          \* MODEM_FLAG_DATA_UP
    comm, to, at, retry,  \* the comm task: where, for whom, socket, 2nd bind
    slow, rxs,   \* the slow task: where, rx_udp_socket
    open, pdp,   \* the modem: the peer of each socket, context active
    deaf,        \* packets are sent and none is received any more
    dns, asked,  \* _dns, the name that is being resolved
    answers,     \* names of whose answers lines are on their way
    foreign,     \* history: a line of another name came during this lookup
    faults       \* faults that may still happen (bound)

sockets == <<table, robin, tx_cnt, watch, up, to, at, retry, slow, rxs, open,
             pdp, deaf>>
names == <<dns, asked, answers, foreign>>
vars == <<sockets, comm, names, faults>>

Sockets == 0 .. LastSocket
Socket == [ip : Peers \cup {None}, rx : BOOLEAN, no_rx_cnt : 0 .. TxLimit + 1]
Empty == [ip |-> None, rx |-> FALSE, no_rx_cnt |-> 0]
Clear == [i \in Sockets |-> Empty]
Closed == [i \in Sockets |-> None]
NoDns == [active |-> FALSE, done |-> FALSE, ip |-> None]

SocketsOK ==
    /\ table \in [Sockets -> Socket]
    /\ robin \in Sockets /\ tx_cnt \in 0 .. TxLimit + 1
    /\ watch \in BOOLEAN /\ up \in BOOLEAN

TasksOK ==
    /\ comm \in {"idle", "init", "up", "close", "clear", "open", "bound",
                 "tx", "fail", "failed", "query", "rebind", "dns"}
    /\ to \in Peers \cup {None} /\ at \in Sockets /\ retry \in BOOLEAN
    /\ slow \in {"idle", "qird", "nack", "close", "clear", "detach", "off"}
    /\ rxs \in Sockets

ModemOK ==
    /\ open \in [Sockets -> Peers \cup {None}]
    /\ pdp \in BOOLEAN /\ deaf \in BOOLEAN
    /\ faults \in 0 .. MaxFaults

NamesOK ==
    /\ dns \in [active : BOOLEAN, done : BOOLEAN, ip : Hosts \cup {None}]
    /\ asked \in Hosts \cup {None} /\ answers \in SUBSET Hosts
    /\ foreign \in BOOLEAN

TypeOK == SocketsOK /\ TasksOK /\ ModemOK /\ NamesOK

Init ==
    /\ table = Clear /\ robin = 0 /\ tx_cnt = 0 /\ watch = FALSE /\ up = FALSE
    /\ comm = "idle" /\ to = None /\ at = 0 /\ retry = FALSE
    /\ slow = "idle" /\ rxs = 0
    /\ open = Closed /\ pdp = FALSE /\ deaf = FALSE
    /\ dns = NoDns /\ asked = None /\ answers = {} /\ foreign = FALSE
    /\ faults = MaxFaults

Fault == faults > 0 /\ faults' = faults - 1

MutInc(n) == IF n >= TxLimit THEN n ELSE n + 1

(* Packets sent since the last one was received: no_rx_cnt++, tx_cnt++,     *)
(* counted as far as they are told apart.                                   *)
Inc(n) == IF n > TxLimit THEN n ELSE n + 1

-----------------------------------------------------------------------------
(* The comm task: the connection. *)

(* net_connect(), as far as modem_bg95_udp_init(). *)
Connect ==
    /\ comm = "idle" /\ ~up
    /\ table' = Clear /\ watch' = TRUE /\ tx_cnt' = 0
    /\ open' = Closed /\ pdp' = TRUE /\ deaf' = FALSE
    /\ comm' = "up"
    /\ UNCHANGED <<robin, up, to, at, retry, slow, rxs, names, faults>>

DataUp ==
    /\ comm = "up" /\ up' = TRUE /\ comm' = "idle"
    /\ UNCHANGED <<table, robin, tx_cnt, watch, to, at, retry, slow, rxs,
                   open, pdp, deaf, names, faults>>

-----------------------------------------------------------------------------
(* The comm task: sending. *)

(* _socket_id(): the socket of the address, a free one, or the next. *)
SocketOf(p) ==
    LET bound == {i \in Sockets : table[i].ip = p}
        free == {i \in Sockets : table[i].ip = None}
        first(S) == CHOOSE i \in S : \A j \in S : i <= j
    IN  IF bound # {} THEN first(bound)
        ELSE IF free # {} THEN first(free)
        ELSE IF robin + 1 \in Sockets THEN robin + 1 ELSE 0

(* _udp_bind() as far as its first AT command. *)
Bind(p, second) ==
    LET i == SocketOf(p) IN
    /\ to' = p /\ at' = i /\ retry' = second
    /\ robin' = IF \A j \in Sockets : table[j].ip \notin {p, None}
                THEN i ELSE robin
    /\ table' = [table EXCEPT ![i].no_rx_cnt = Inc(@)]
    /\ comm' = IF table[i].ip = p THEN "tx"
               ELSE IF table[i].ip # None THEN "close" ELSE "open"
    /\ UNCHANGED <<tx_cnt, watch, up, slow, rxs, open, pdp, deaf, names,
                   faults>>

(* modem_bg95_udp_send() returns, its local variables are gone. *)
Return == comm' = "idle" /\ to' = None /\ at' = 0 /\ retry' = FALSE

(* modem_bg95_udp_send() *)
Send(p) == comm = "idle" /\ up /\ Bind(p, FALSE)

(* _socket_close(): AT+QICLOSE ... *)
QiClose(i) == open' = [open EXCEPT ![i] = None]

CommClose ==
    /\ comm \in {"close", "fail", "failed"}
    /\ QiClose(at)
    /\ comm' = CASE comm = "close" -> "clear"
                 [] comm = "fail" -> "query"
                 [] comm = "failed" -> "init"
    /\ UNCHANGED <<table, robin, tx_cnt, watch, up, to, at, retry, slow, rxs,
                   pdp, deaf, names, faults>>

MutCleared(i) == table

(* ... and bzero() of the entry. *)
Cleared(i) == [table EXCEPT ![i] = Empty]

(* After it QIOPEN, the second bind, or the failed send returns. *)
CommClear ==
    \/ /\ comm = "clear" /\ table' = Cleared(at) /\ comm' = "open"
       /\ UNCHANGED <<robin, tx_cnt, watch, up, to, at, retry, slow, rxs,
                      open, pdp, deaf, names, faults>>
    \/ /\ comm = "query" /\ table' = Cleared(at) /\ comm' = "rebind"
       /\ UNCHANGED <<robin, tx_cnt, watch, up, to, at, retry, slow, rxs,
                      open, pdp, deaf, names, faults>>
    \/ /\ comm = "init" /\ table' = Cleared(at) /\ Return
       /\ UNCHANGED <<robin, tx_cnt, watch, up, slow, rxs, open, pdp, deaf,
                      names, faults>>

(* "retry bind": the socket is chosen again. *)
Rebind == comm = "rebind" /\ Bind(to, TRUE)

(* AT+QIOPEN and +QIOPEN: in use, refused, or too late although it opens.   *)
QiOpen ==
    /\ comm = "open"
    /\ \/ /\ open[at] = None /\ pdp
          /\ open' = [open EXCEPT ![at] = to]
          /\ comm' = "bound" /\ UNCHANGED <<faults, to, at, retry>>
       \/ /\ IF open[at] = None /\ pdp
             THEN Fault /\ \E p \in {to, None} : open' = [open EXCEPT ![at] = p]
             ELSE UNCHANGED <<open, faults>>
          /\ IF retry THEN Return
             ELSE comm' = "fail" /\ UNCHANGED <<to, at, retry>>
    /\ UNCHANGED <<table, robin, tx_cnt, watch, up, slow, rxs, pdp, deaf,
                   names>>

(* The URC has set ready: the entry gets its address. *)
Bound ==
    /\ comm = "bound" /\ comm' = "tx"
    /\ table' = [table EXCEPT ![at].ip = to]
    /\ UNCHANGED <<robin, tx_cnt, watch, up, to, at, retry, slow, rxs, open,
                   pdp, deaf, names, faults>>

(* AT+QISENDEX; a failed send closes the socket. *)
QiSend ==
    /\ comm = "tx"
    /\ tx_cnt' = Inc(tx_cnt)
    /\ IF open[at] # None
       THEN \/ Return /\ UNCHANGED faults
            \/ comm' = "failed" /\ Fault /\ UNCHANGED <<to, at, retry>>
       ELSE comm' = "failed" /\ UNCHANGED <<faults, to, at, retry>>
    /\ UNCHANGED <<table, robin, watch, up, slow, rxs, open, pdp, deaf,
                   names>>

-----------------------------------------------------------------------------
(* The comm task: modem_bg95_dns_resolve(). *)

MutAsk(h) == dns' = [dns EXCEPT !.active = TRUE]

Ask(h) == dns' = [NoDns EXCEPT !.active = TRUE]

Resolve(h) ==
    /\ comm = "idle" /\ up /\ comm' = "dns"
    /\ asked' = h /\ Ask(h)
    /\ answers' = answers \cup {h} /\ foreign' = FALSE
    /\ UNCHANGED <<sockets, faults>>

(* The answer is seen, or AT+QIDNSGIP fails or 15 s have passed. *)
Resolved ==
    /\ comm = "dns" /\ comm' = "idle"
    /\ dns' = [dns EXCEPT !.active = FALSE]
    /\ asked' = None /\ foreign' = FALSE
    /\ UNCHANGED <<sockets, faults, answers>>

-----------------------------------------------------------------------------
(* The modem task: modem_bg95_urc(). *)

(* modem_bg95_dnsgip_parse(): a header, an error (ok = false: no address),   *)
(* or an address *)
Parsed(h) ==
    {dns} \cup {[dns EXCEPT !.done = TRUE, !.ip = ip] : ip \in {h, None}}

(* +QIURC: "dnsgip", one line of the answer or its last.  It does not say    *)
(* which name it is about, and may come when the lookup is over.            *)
UrcDns(h) ==
    /\ h \in answers /\ answers' \in {answers, answers \ {h}}
    /\ IF dns.active THEN dns' \in Parsed(h) ELSE UNCHANGED dns
    /\ foreign' = (foreign \/ (dns.active /\ h # asked))
    /\ UNCHANGED <<sockets, comm, asked, faults>>

(* +QIURC: "recv": a packet of the peer waits in the modem. *)
UrcRecv(i) ==
    /\ open[i] # None /\ ~deaf
    /\ table' = [table EXCEPT ![i].rx = TRUE]
    /\ UNCHANGED <<robin, tx_cnt, watch, up, comm, to, at, retry, slow, rxs,
                   open, pdp, deaf, names, faults>>

(* The network takes the context away ...                                   *)
Deactivate ==
    /\ pdp /\ Fault /\ pdp' = FALSE /\ open' = Closed
    /\ UNCHANGED <<table, robin, tx_cnt, watch, up, comm, to, at, retry, slow,
                   rxs, deaf, names>>

(* ... +QIURC: "pdpdeact",1: _socket_clear() *)
UrcPdpDeact ==
    /\ up /\ ~pdp
    /\ up' = FALSE /\ table' = Clear
    /\ UNCHANGED <<robin, tx_cnt, watch, comm, to, at, retry, slow, rxs, open,
                   pdp, deaf, names, faults>>

-----------------------------------------------------------------------------
(* The slow task: _socket_maintenace() and modem_bg95_udp_rx_task(), while  *)
(* DATA_UP.                                                                 *)

(* 15 minutes without a packet to the address: _socket_close() *)
CloseIdle(i) ==
    /\ slow = "idle" /\ up /\ table[i].ip # None /\ Fault
    /\ slow' = "close" /\ rxs' = i
    /\ UNCHANGED <<table, robin, tx_cnt, watch, up, comm, to, at, retry, open,
                   pdp, deaf, names>>

SlowClose ==
    /\ slow = "close" /\ slow' = "clear" /\ QiClose(rxs)
    /\ UNCHANGED <<table, robin, tx_cnt, watch, up, comm, to, at, retry, rxs,
                   pdp, deaf, names, faults>>

SlowClear ==
    /\ slow = "clear" /\ slow' = "idle" /\ table' = Cleared(rxs)
    /\ UNCHANGED <<robin, tx_cnt, watch, up, comm, to, at, retry, rxs, open,
                   pdp, deaf, names, faults>>

(* Every 60 s at least the socket is asked for data. *)
Poll(i) ==
    /\ slow = "idle" /\ up /\ table[i].ip # None /\ ~table[i].rx
    /\ table' = [table EXCEPT ![i].rx = TRUE]
    /\ UNCHANGED <<robin, tx_cnt, watch, up, comm, to, at, retry, slow, rxs,
                   open, pdp, deaf, names, faults>>

(* The request is taken before AT+QIRD is sent. *)
Fetch(i) ==
    /\ slow = "idle" /\ up /\ table[i].rx
    /\ table' = [table EXCEPT ![i].rx = FALSE]
    /\ slow' = "qird" /\ rxs' = i
    /\ UNCHANGED <<robin, tx_cnt, watch, up, comm, to, at, retry, open, pdp,
                   deaf, names, faults>>

(* AT+QIRD: a packet is handed to udp_rx() with the address of the entry,   *)
(* none is left, or the command fails.                                      *)
Qird ==
    /\ slow = "qird"
    /\ \/ /\ open[rxs] # None /\ ~deaf
          /\ table' = [table EXCEPT ![rxs].rx = TRUE, ![rxs].no_rx_cnt = 0]
          /\ tx_cnt' = 0 /\ watch' = TRUE
          /\ slow' = "idle" /\ UNCHANGED faults
       \/ /\ open[rxs] # None
          /\ slow' = "idle" /\ UNCHANGED <<table, tx_cnt, watch, faults>>
       \/ /\ IF open[rxs] = None THEN UNCHANGED faults ELSE Fault
          /\ slow' = "nack" /\ UNCHANGED <<table, tx_cnt, watch>>
    /\ UNCHANGED <<robin, up, comm, to, at, retry, rxs, open, pdp, deaf,
                   names>>

(* A failed AT+QIRD: the entry loses its address. *)
Nack ==
    /\ slow = "nack" /\ slow' = "idle"
    /\ table' = [table EXCEPT ![rxs].ip = None]
    /\ UNCHANGED <<robin, tx_cnt, watch, up, comm, to, at, retry, rxs, open,
                   pdp, deaf, names, faults>>

(* Many packets sent, none received: _socket_clear() and the beginning of   *)
(* modem_data_disconnect(), for one socket or for all.                      *)
Reconnect(all) ==
    /\ slow = "idle" /\ up
    /\ IF all THEN watch /\ tx_cnt > TxLimit
       ELSE \E i \in Sockets : /\ table[i].ip # None
                               /\ table[i].no_rx_cnt > TxLimit
    /\ table' = Clear /\ up' = FALSE
    /\ slow' = IF all THEN "off" ELSE "detach"
    /\ UNCHANGED <<robin, tx_cnt, watch, comm, to, at, retry, rxs, open, pdp,
                   deaf, names, faults>>

(* AT+CGATT=0, then timer_rx_timeout = 0 (for all) *)
Detach ==
    /\ slow \in {"detach", "off"} /\ slow' = "idle"
    /\ open' = Closed /\ pdp' = FALSE /\ deaf' = FALSE
    /\ watch' = (watch /\ slow = "detach")
    /\ UNCHANGED <<table, robin, tx_cnt, up, comm, to, at, retry, rxs, names,
                   faults>>

-----------------------------------------------------------------------------
(* The link goes deaf: packets leave, nothing is received. *)
GoDeaf ==
    /\ pdp /\ ~deaf /\ Fault /\ deaf' = TRUE
    /\ UNCHANGED <<table, robin, tx_cnt, watch, up, comm, to, at, retry, slow,
                   rxs, open, pdp, names>>

CommGoesOn ==
    \/ DataUp \/ CommClose \/ CommClear \/ Rebind \/ QiOpen \/ Bound \/ QiSend
    \/ Resolved

SlowGoesOn ==
    \/ SlowClose \/ SlowClear \/ Qird \/ Nack \/ Detach
    \/ \E i \in Sockets : Fetch(i)

Next ==
    \/ Connect \/ CommGoesOn
    \/ \E p \in Peers : Send(p)
    \/ \E h \in Hosts : Resolve(h) \/ UrcDns(h)
    \/ \E i \in Sockets : UrcRecv(i) \/ CloseIdle(i) \/ Poll(i)
    \/ SlowGoesOn \/ UrcPdpDeact \/ Deactivate \/ GoDeaf
    \/ \E all \in BOOLEAN : Reconnect(all)

Spec == Init /\ [][Next]_vars

(* Both tasks are watched; there is always something to send; the tests of  *)
(* the counters come round when their times have passed.                    *)
FairSpec ==
    /\ Spec
    /\ WF_vars(CommGoesOn) /\ WF_vars(SlowGoesOn) /\ WF_vars(Connect)
    /\ WF_vars(UrcPdpDeact)
    /\ SF_vars(\E p \in Peers : Send(p))
    /\ SF_vars(\E all \in BOOLEAN : Reconnect(all))

-----------------------------------------------------------------------------
(* Binding, closing, fetching and clearing interleave in two tasks: an      *)
(* entry never names another peer than the one its socket is open to, so a  *)
(* packet is sent to, and received from, the address in the entry.          *)
AddressTrue ==
    \A i \in Sockets : table[i].ip # None /\ open[i] # None
                       => table[i].ip = open[i]

(* A name is resolved to its own address or not at all, although a lookup    *)
(* may end before its answer and an answer may have several lines.  Not if  *)
(* a line about another name comes during the lookup; those that come       *)
(* between two lookups do no harm.                                          *)
ResolvedIsAsked ==
    comm = "dns" /\ dns.done /\ ~foreign => dns.ip \in {asked, None}

(* A link on which nothing is received any more is dropped and set up       *)
(* again, whichever of the two counters notices it.                         *)
DeafIsDropped == deaf ~> ~deaf
=============================================================================
