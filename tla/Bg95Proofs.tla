----------------------------- MODULE Bg95Proofs -----------------------------
(***************************************************************************)
(* The driver of the modem for every number of sockets, every set of peers *)
(* and names and every interleaving of the comm task, the slow task and    *)
(* the modem's notices.                                                    *)
(***************************************************************************)
EXTENDS Bg95, WellFoundedInduction, TLAPS

USE DEF Sockets, Socket, Empty, Clear, Closed, NoDns

\* A set of natural numbers that is not empty has a least element.
LEMMA LeastNat ==
  ASSUME NEW S, S \subseteq Nat, S # {}
  PROVE  \E m \in S : \A k \in S : m <= k
<1>1. PICK x \in S : \A y \in S : ~(<<y, x>> \in OpToRel(<, Nat))
  BY WFMin, NatLessThanWellFounded
<1>2. \A y \in S : ~(y < x)
  BY <1>1, Zenon DEF OpToRel
<1> QED BY <1>2

\* _socket_id() returns a number of a socket.
LEMMA SocketOfType ==
  ASSUME TypeOK, NEW p
  PROVE  SocketOf(p) \in Sockets
<1> DEFINE bound == {i \in Sockets : table[i].ip = p}
           free == {i \in Sockets : table[i].ip = None}
           first(S) == CHOOSE i \in S : \A j \in S : i <= j
<1>1. ASSUME NEW S, S \subseteq Sockets, S # {} PROVE first(S) \in Sockets
  <2>1. S \subseteq Nat
    BY <1>1
  <2>2. \E m \in S : \A k \in S : m <= k
    BY <1>1, <2>1, LeastNat, Zenon
  <2>3. first(S) \in S
    BY <2>2, Zenon
  <2> QED BY <1>1, <2>3
<1>2. bound # {} => first(bound) \in Sockets
  BY <1>1
<1>3. free # {} => first(free) \in Sockets
  BY <1>1
<1>4. (IF robin + 1 \in Sockets THEN robin + 1 ELSE 0) \in Sockets
  BY Bg95Assumption
<1> QED BY <1>2, <1>3, <1>4 DEF SocketOf

-----------------------------------------------------------------------------
\* The entries of udp_socket[] stay entries, whatever field is written.
LEMMA EntryType ==
  ASSUME NEW t \in [Sockets -> Socket], NEW i \in Sockets
  PROVE  /\ [t EXCEPT ![i] = Empty] \in [Sockets -> Socket]
         /\ \A b \in BOOLEAN : [t EXCEPT ![i].rx = b] \in [Sockets -> Socket]
         /\ \A p \in Peers \cup {None} :
              [t EXCEPT ![i].ip = p] \in [Sockets -> Socket]
         /\ \A n \in 0 .. TxLimit + 1 :
              [t EXCEPT ![i].no_rx_cnt = n] \in [Sockets -> Socket]
         /\ [t EXCEPT ![i].no_rx_cnt = Inc(@)] \in [Sockets -> Socket]
         /\ [t EXCEPT ![i].rx = TRUE, ![i].no_rx_cnt = 0]
              \in [Sockets -> Socket]
<1>1. ASSUME NEW e \in Socket PROVE [t EXCEPT ![i] = e] \in [Sockets -> Socket]
  BY <1>1, Zenon
<1>2. t[i] \in Socket
  OBVIOUS
<1>3. Empty \in Socket
  BY Bg95Assumption
<1>4. \A b \in BOOLEAN : [t[i] EXCEPT !.rx = b] \in Socket
  BY <1>2, Zenon
<1>5. \A p \in Peers \cup {None} : [t[i] EXCEPT !.ip = p] \in Socket
  BY <1>2, Zenon
<1>6. \A n \in 0 .. TxLimit + 1 : [t[i] EXCEPT !.no_rx_cnt = n] \in Socket
  BY <1>2, Zenon
<1>7. Inc(t[i].no_rx_cnt) \in 0 .. TxLimit + 1
  BY <1>2, Bg95Assumption DEF Inc
<1>8. [t[i] EXCEPT !.rx = TRUE, !.no_rx_cnt = 0] \in Socket
  <2>1. 0 \in 0 .. TxLimit + 1
    BY Bg95Assumption
  <2> QED BY <1>2, <2>1, Zenon
<1> QED BY <1>1, <1>3, <1>4, <1>5, <1>6, <1>7, <1>8, Zenon

USE DEF names, sockets
HIDE DEF Socket, Empty

\* What _udp_bind() does to the table.
LEMMA BindType ==
  ASSUME TypeOK, NEW p, NEW second, Bind(p, second)
  PROVE  /\ table' \in [Sockets -> Socket]
         /\ robin' \in Sockets /\ at' \in Sockets
<1>1. SocketOf(p) \in Sockets
  BY SocketOfType
<1>2. table' = [table EXCEPT ![SocketOf(p)].no_rx_cnt = Inc(@)]
  BY DEF Bind
<1>3. table' \in [Sockets -> Socket]
  BY <1>1, <1>2, EntryType DEF TypeOK, SocketsOK
<1> QED BY <1>1, <1>3, Zenon DEF Bind, TypeOK, SocketsOK

\* The table stays a table.
LEMMA TableStep ==
  ASSUME TypeOK, [Next]_vars
  PROVE  table' \in [Sockets -> Socket]
<1> USE DEF TypeOK, SocketsOK, TasksOK
<1>1. table \in [Sockets -> Socket] /\ at \in Sockets /\ rxs \in Sockets
      /\ to \in Peers \cup {None}
  OBVIOUS
<1>2. CASE table' = Clear
  BY <1>2, Bg95Assumption DEF Socket, Empty
<1>3. CASE table' = table
  BY <1>1, <1>3
<1>4. CASE Connect \/ UrcPdpDeact \/ \E all \in BOOLEAN : Reconnect(all)
  BY <1>2, <1>4, Zenon DEF Connect, UrcPdpDeact, Reconnect
<1>5. CASE Rebind \/ \E p \in Peers : Send(p)
  BY <1>5, BindType, Zenon DEF Rebind, Send
<1>6. CASE CommClear \/ SlowClear
  <2>1. \A i \in Sockets : [table EXCEPT ![i] = Empty] \in [Sockets -> Socket]
    BY <1>1, EntryType, Zenon
  <2> QED BY <1>1, <1>6, <2>1, Zenon DEF CommClear, SlowClear, Cleared
<1>7. CASE Bound \/ Nack
  <2>1. None \in Peers \cup {None}
    OBVIOUS
  <2>2. /\ [table EXCEPT ![at].ip = to] \in [Sockets -> Socket]
        /\ [table EXCEPT ![rxs].ip = None] \in [Sockets -> Socket]
    BY <1>1, <2>1, EntryType, Zenon
  <2> QED BY <1>7, <2>2, Zenon DEF Bound, Nack
<1>8. CASE \E i \in Sockets : UrcRecv(i) \/ Poll(i) \/ Fetch(i)
  <2>1. TRUE \in BOOLEAN /\ FALSE \in BOOLEAN
    OBVIOUS
  <2>2. \A i \in Sockets :
          /\ [table EXCEPT ![i].rx = TRUE] \in [Sockets -> Socket]
          /\ [table EXCEPT ![i].rx = FALSE] \in [Sockets -> Socket]
    BY <1>1, <2>1, EntryType, Zenon
  <2>3. PICK i \in Sockets : \/ table' = [table EXCEPT ![i].rx = TRUE]
                              \/ table' = [table EXCEPT ![i].rx = FALSE]
    BY <1>8, Zenon DEF UrcRecv, Poll, Fetch
  <2> QED BY <2>2, <2>3, Zenon
<1>9. CASE Qird
  <2>1. [table EXCEPT ![rxs].rx = TRUE, ![rxs].no_rx_cnt = 0]
          \in [Sockets -> Socket]
    BY <1>1, EntryType, Zenon
  <2> QED BY <1>1, <1>9, <2>1, Zenon DEF Qird
<1>10. CASE \/ DataUp \/ CommClose \/ QiOpen \/ QiSend \/ Resolved
            \/ \E h \in Hosts : Resolve(h) \/ UrcDns(h)
            \/ \E i \in Sockets : CloseIdle(i)
            \/ SlowClose \/ Detach \/ Deactivate \/ GoDeaf
            \/ UNCHANGED vars
  BY <1>3, <1>10, Zenon
  DEF DataUp, CommClose, QiOpen, QiSend, Resolved, Resolve, UrcDns, CloseIdle,
      SlowClose, Detach, Deactivate, GoDeaf, vars
<1> QED
  BY <1>4, <1>5, <1>6, <1>7, <1>8, <1>9, <1>10, Zenon
  DEF Next, CommGoesOn, SlowGoesOn

\* Every variable keeps its type: the counters stop at their limits and no
\* task ever looks at an entry outside udp_socket[].
THEOREM TypeCorrect == Spec => []TypeOK
<1>1. Init => TypeOK
  <2> SUFFICES ASSUME Init PROVE TypeOK
    OBVIOUS
  <2>1. /\ Clear \in [Sockets -> Socket] /\ 0 \in Sockets
        /\ 0 \in 0 .. TxLimit + 1 /\ MaxFaults \in 0 .. MaxFaults
        /\ Closed \in [Sockets -> Peers \cup {None}]
    BY Bg95Assumption DEF Socket, Empty
  <2> HIDE DEF Clear, Sockets, Closed
  <2>2. SocketsOK
    BY <2>1, Zenon DEF Init, SocketsOK
  <2>3. TasksOK /\ ModemOK
    BY <2>1, Zenon DEF Init, TasksOK, ModemOK
  <2>4. NamesOK
    BY DEF Init, NamesOK
  <2> QED BY <2>2, <2>3, <2>4 DEF TypeOK
<1>2. TypeOK /\ [Next]_vars => TypeOK'
  <2> SUFFICES ASSUME TypeOK, [Next]_vars PROVE TypeOK'
    OBVIOUS
  <2> USE DEF TypeOK
  <2>1. table' \in [Sockets -> Socket]
    BY TableStep
  <2>2. 0 \in Sockets /\ 0 \in 0 .. TxLimit + 1
    BY Bg95Assumption
  <2>3. Inc(tx_cnt) \in 0 .. TxLimit + 1
    BY Bg95Assumption DEF Inc, SocketsOK
  <2>4. /\ UNCHANGED <<table, robin, tx_cnt, watch, up>> => SocketsOK'
        /\ UNCHANGED <<comm, to, at, retry, slow, rxs>> => TasksOK'
        /\ UNCHANGED <<open, pdp, deaf, faults>> => ModemOK'
        /\ UNCHANGED names => NamesOK'
    BY DEF SocketsOK, TasksOK, ModemOK, NamesOK
  <2>5. ASSUME NEW i \in Sockets, NEW p \in Peers \cup {None}
        PROVE  [open EXCEPT ![i] = p] \in [Sockets -> Peers \cup {None}]
    BY DEF ModemOK
  <2>6. Fault => faults' \in 0 .. MaxFaults
    BY Bg95Assumption DEF Fault, ModemOK
  <2>7. Closed \in [Sockets -> Peers \cup {None}]
    OBVIOUS
  <2> HIDE DEF Sockets
  <2>10. CASE Connect
    BY <2>1, <2>2, <2>4, <2>7, <2>10
    DEF Connect, SocketsOK, TasksOK, ModemOK
  <2>11. CASE DataUp
    BY <2>4, <2>11 DEF DataUp, SocketsOK, TasksOK
  <2>12. CASE Rebind \/ \E p \in Peers : Send(p)
    <3>1. PICK p \in Peers \cup {None}, b \in BOOLEAN : Bind(p, b)
      BY <2>12 DEF Rebind, Send, TasksOK
    <3>2. SocketsOK'
      BY <3>1, BindType DEF Bind, SocketsOK
    <3>3. comm' \in {"tx", "close", "open"} /\ at' \in Sockets
      BY <3>1, BindType, Zenon DEF Bind
    <3>4. TasksOK'
      BY <3>1, <3>3 DEF Bind, TasksOK
    <3> QED BY <2>4, <3>1, <3>2, <3>4 DEF Bind
  <2>13. CASE CommClose
    <3>1. comm' \in {"clear", "query", "init"}
      BY <2>13, Zenon DEF CommClose
    <3> QED
      BY <2>4, <2>5, <2>13, <3>1
      DEF CommClose, QiClose, TasksOK, ModemOK
  <2>14. CASE CommClear
    BY <2>1, <2>2, <2>4, <2>14 DEF CommClear, Return, SocketsOK, TasksOK
  <2>15. CASE QiOpen
    <3>1. open' \in [Sockets -> Peers \cup {None}]
      BY <2>5, <2>15 DEF QiOpen, TasksOK, ModemOK
    <3>2. faults' \in 0 .. MaxFaults
      BY <2>6, <2>15, Zenon DEF QiOpen, ModemOK
    <3>3. TasksOK'
      BY <2>2, <2>15 DEF QiOpen, Return, TasksOK
    <3> QED BY <2>4, <2>15, <3>1, <3>2, <3>3 DEF QiOpen, ModemOK
  <2>16. CASE Bound
    BY <2>1, <2>4, <2>16 DEF Bound, SocketsOK, TasksOK
  <2>17. CASE QiSend
    <3>1. TasksOK'
      BY <2>2, <2>17 DEF QiSend, Return, TasksOK
    <3>2. faults' \in 0 .. MaxFaults
      BY <2>6, <2>17, Zenon DEF QiSend, ModemOK
    <3> QED
      BY <2>3, <2>4, <2>17, <3>1, <3>2 DEF QiSend, SocketsOK, ModemOK
  <2>18. CASE Resolved \/ \E h \in Hosts : Resolve(h)
    <3>1. dns' \in [active : BOOLEAN, done : BOOLEAN, ip : Hosts \cup {None}]
      <4>1. CASE Resolved
        BY <4>1, Zenon DEF Resolved, NamesOK
      <4>2. CASE \E h \in Hosts : Resolve(h)
        BY <4>2 DEF Resolve, Ask, NoDns
      <4> QED BY <2>18, <4>1, <4>2
    <3>2. foreign' \in BOOLEAN
      BY <2>18, Zenon DEF Resolved, Resolve
    <3>3. NamesOK'
      BY <2>18, <3>1, <3>2 DEF Resolved, Resolve, NamesOK
    <3> QED BY <2>4, <2>18, <3>3 DEF Resolved, Resolve, TasksOK
  <2>19. ASSUME NEW h \in Hosts, UrcDns(h) PROVE TypeOK'
    <3>1. dns' \in [active : BOOLEAN, done : BOOLEAN, ip : Hosts \cup {None}]
      BY <2>19 DEF UrcDns, Parsed, NamesOK
    <3>2. foreign' \in BOOLEAN
      BY <2>19, Zenon DEF UrcDns, NamesOK
    <3>3. answers' \in SUBSET Hosts /\ asked' = asked
      BY <2>19 DEF UrcDns, NamesOK
    <3>4. NamesOK'
      BY <3>1, <3>2, <3>3 DEF NamesOK
    <3> QED BY <2>4, <2>19, <3>4 DEF UrcDns
  <2>20. ASSUME NEW i \in Sockets,
                UrcRecv(i) \/ CloseIdle(i) \/ Poll(i) \/ Fetch(i)
         PROVE  TypeOK'
    BY <2>1, <2>4, <2>6, <2>20
    DEF UrcRecv, CloseIdle, Poll, Fetch, SocketsOK, TasksOK, ModemOK
  <2>21. CASE Deactivate \/ GoDeaf
    BY <2>4, <2>6, <2>7, <2>21 DEF Deactivate, GoDeaf, ModemOK
  <2>22. CASE UrcPdpDeact \/ \E all \in BOOLEAN : Reconnect(all)
    BY <2>1, <2>4, <2>22 DEF UrcPdpDeact, Reconnect, SocketsOK, TasksOK
  <2>23. CASE SlowClose
    BY <2>4, <2>5, <2>23 DEF SlowClose, QiClose, TasksOK, ModemOK
  <2>24. CASE SlowClear \/ Nack
    BY <2>1, <2>4, <2>24 DEF SlowClear, Nack, SocketsOK, TasksOK
  <2>25. CASE Qird
    <3>1. faults' \in 0 .. MaxFaults
      BY <2>6, <2>25, Zenon DEF Qird, ModemOK
    <3> QED
      BY <2>1, <2>2, <2>4, <2>25, <3>1
      DEF Qird, SocketsOK, TasksOK, ModemOK
  <2>26. CASE Detach
    <3>1. watch' \in BOOLEAN
      BY <2>26, Zenon DEF Detach
    <3> QED
      BY <2>4, <2>7, <2>26, <3>1 DEF Detach, SocketsOK, TasksOK, ModemOK
  <2>27. CASE UNCHANGED vars
    BY <2>4, <2>27, Zenon DEF vars
  <2> QED
    BY <2>10, <2>11, <2>12, <2>13, <2>14, <2>15, <2>16, <2>17, <2>18, <2>19,
       <2>20, <2>21, <2>22, <2>23, <2>24, <2>25, <2>26, <2>27, Zenon
    DEF Next, CommGoesOn, SlowGoesOn
<1> QED BY <1>1, <1>2, PTL DEF Spec

-----------------------------------------------------------------------------
\* AddressTrue, strengthened with what _udp_bind() relies on across its AT
\* commands: while +QIOPEN is awaited the entry has no address, and between
\* +QIOPEN and the assignment the socket is open to the address the caller
\* asked for, or closed again by the other task or by the network.
AddressInv ==
  /\ AddressTrue
  /\ comm = "open" => table[at].ip = None
  /\ comm = "bound" => open[at] \in {to, None}

\* An entry of udp_socket[] never names another peer than the one its socket
\* is open to (modem_bg95.c _udp_bind(), _socket_close(), _socket_clear(),
\* modem_bg95_udp_rx_task()), for every number of sockets and peers.
THEOREM AddressSafety == Spec => []AddressTrue
<1>1. Init => AddressInv
  BY DEF Init, AddressInv, AddressTrue
<1>2. TypeOK /\ AddressInv /\ [Next]_vars => AddressInv'
  <2> SUFFICES ASSUME TypeOK, AddressInv, [Next]_vars PROVE AddressInv'
    OBVIOUS
  <2>1. /\ table \in [Sockets -> Socket] /\ table' \in [Sockets -> Socket]
        /\ at \in Sockets /\ rxs \in Sockets
        /\ open \in [Sockets -> Peers \cup {None}]
    BY TableStep DEF TypeOK, SocketsOK, TasksOK, ModemOK
  \* Addresses and peers may go away, at any time.
  <2>2. ASSUME \A i \in Sockets : table'[i].ip \in {table[i].ip, None},
               \A i \in Sockets : open'[i] \in {open[i], None},
               \/ UNCHANGED <<comm, to, at>>
               \/ comm' \notin {"open", "bound"}
        PROVE  AddressInv'
    BY <2>1, <2>2 DEF AddressInv, AddressTrue
  <2>3. /\ UNCHANGED table =>
             \A i \in Sockets : table'[i].ip \in {table[i].ip, None}
        /\ UNCHANGED open =>
             \A i \in Sockets : open'[i] \in {open[i], None}
        /\ open' = Closed => \A i \in Sockets : open'[i] \in {open[i], None}
        /\ \A j \in Sockets : QiClose(j) =>
             \A i \in Sockets : open'[i] \in {open[i], None}
    BY <2>1 DEF QiClose
  <2>4. table' = Clear =>
          \A i \in Sockets : table'[i].ip \in {table[i].ip, None}
    BY <2>1 DEF Empty
  <2>5. \A j \in Sockets : table' = Cleared(j) =>
          /\ \A i \in Sockets : table'[i].ip \in {table[i].ip, None}
          /\ table'[j].ip = None
    BY <2>1 DEF Cleared, Empty
  <2>6. ASSUME NEW j \in Sockets,
               \/ table' = [table EXCEPT ![j].rx = TRUE]
               \/ table' = [table EXCEPT ![j].rx = FALSE]
               \/ table' = [table EXCEPT ![j].no_rx_cnt = Inc(@)]
               \/ table' = [table EXCEPT ![j].rx = TRUE, ![j].no_rx_cnt = 0]
               \/ table' = [table EXCEPT ![j].ip = None]
        PROVE  \A i \in Sockets : table'[i].ip \in {table[i].ip, None}
    BY <2>1, <2>6 DEF Socket
  <2> HIDE DEF Sockets, Closed, Clear
  <2>10. CASE Connect
    BY <2>2, <2>3, <2>4, <2>10 DEF Connect
  <2>11. CASE DataUp \/ CommClose \/ QiSend \/ Resolved
    <3>1. comm' \notin {"open", "bound"}
      BY <2>11, Zenon DEF DataUp, CommClose, QiSend, Return, Resolved
    <3> QED
      BY <2>1, <2>2, <2>3, <2>11, <3>1, Zenon
      DEF DataUp, CommClose, QiSend, Resolved
  <2>12. ASSUME NEW p, NEW b, Bind(p, b) PROVE AddressInv'
    <3> DEFINE i == SocketOf(p)
    <3>1. i \in Sockets
      BY SocketOfType
    <3>2. /\ table' = [table EXCEPT ![i].no_rx_cnt = Inc(@)] /\ at' = i
          /\ comm' = IF table[i].ip = p THEN "tx"
                     ELSE IF table[i].ip # None THEN "close" ELSE "open"
          /\ open' = open
      BY <2>12 DEF Bind
    <3>3. \A k \in Sockets : table'[k].ip \in {table[k].ip, None}
      BY <2>6, <3>1, <3>2
    <3> HIDE DEF i
    <3>4. comm' = "open" => table'[i].ip = None
      BY <3>1, <3>2, <3>3
    <3>5. AddressTrue'
      BY <3>2, <3>3 DEF AddressInv, AddressTrue
    <3> QED BY <3>2, <3>4, <3>5 DEF AddressInv
  <2>13. CASE CommClear
    <3>1. /\ table' = Cleared(at) /\ open' = open
          /\ \/ comm' = "open" /\ at' = at
             \/ comm' = "rebind"
             \/ comm' = "idle"
      BY <2>13, Zenon DEF CommClear, Return
    <3>2. /\ \A i \in Sockets : table'[i].ip \in {table[i].ip, None}
          /\ table'[at].ip = None
      BY <2>1, <2>5, <3>1, Zenon
    <3>3. AddressTrue'
      BY <3>1, <3>2 DEF AddressInv, AddressTrue
    <3> QED BY <3>1, <3>2, <3>3 DEF AddressInv
  <2>14. CASE QiOpen
    <3>1. /\ table[at].ip = None /\ table' = table
          /\ \/ open' = open
             \/ open' = [open EXCEPT ![at] = to]
             \/ open' = [open EXCEPT ![at] = None]
          /\ \/ /\ comm' = "bound" /\ to' = to /\ at' = at
                /\ open' = [open EXCEPT ![at] = to]
             \/ comm' = "fail"
             \/ comm' = "idle"
      BY <2>14, Zenon DEF QiOpen, Return, AddressInv
    <3>2. AddressTrue'
      BY <2>1, <3>1 DEF AddressInv, AddressTrue
    <3>3. comm' = "bound" => open'[at'] \in {to', None}
      BY <2>1, <3>1
    <3> QED BY <3>1, <3>2, <3>3 DEF AddressInv
  <2>15. CASE Bound
    <3>1. /\ open[at] \in {to, None} /\ open' = open /\ comm' = "tx"
          /\ table' = [table EXCEPT ![at].ip = to]
      BY <2>15 DEF Bound, AddressInv
    <3>2. table'[at].ip = to /\ \A i \in Sockets \ {at} : table'[i] = table[i]
      BY <2>1, <3>1 DEF Socket
    <3>3. AddressTrue'
      BY <3>1, <3>2 DEF AddressInv, AddressTrue
    <3> QED BY <3>1, <3>3 DEF AddressInv
  <2>16. CASE Rebind \/ \E p \in Peers : Send(p)
    BY <2>12, <2>16, Zenon DEF Rebind, Send
  <2>17. ASSUME NEW h \in Hosts, Resolve(h) \/ UrcDns(h) PROVE AddressInv'
    <3>1. UNCHANGED <<table, open, to, at>> /\ comm' \in {comm, "dns"}
      BY <2>17 DEF Resolve, UrcDns
    <3> QED BY <2>2, <2>3, <3>1
  <2>18. ASSUME NEW i \in Sockets,
                UrcRecv(i) \/ CloseIdle(i) \/ Poll(i) \/ Fetch(i)
         PROVE  AddressInv'
    BY <2>2, <2>3, <2>6, <2>18, Zenon DEF UrcRecv, CloseIdle, Poll, Fetch
  <2>19. CASE Deactivate \/ GoDeaf \/ SlowClose \/ Detach
    BY <2>1, <2>2, <2>3, <2>19, Zenon DEF Deactivate, GoDeaf, SlowClose, Detach
  <2>20. CASE UrcPdpDeact \/ \E all \in BOOLEAN : Reconnect(all)
    BY <2>2, <2>3, <2>4, <2>20, Zenon DEF UrcPdpDeact, Reconnect
  <2>21. CASE SlowClear
    BY <2>1, <2>2, <2>3, <2>5, <2>21, Zenon DEF SlowClear
  <2>22. CASE Qird \/ Nack
    BY <2>1, <2>2, <2>3, <2>6, <2>22, Zenon DEF Qird, Nack
  <2>23. CASE UNCHANGED vars
    BY <2>2, <2>3, <2>23, Zenon DEF vars
  <2> QED
    BY <2>10, <2>11, <2>13, <2>14, <2>15, <2>16, <2>17, <2>18, <2>19, <2>20,
       <2>21, <2>22, <2>23, Zenon
    DEF Next, CommGoesOn, SlowGoesOn
<1>3. AddressInv => AddressTrue
  BY DEF AddressInv
<1> QED BY <1>1, <1>2, <1>3, TypeCorrect, PTL DEF Spec

-----------------------------------------------------------------------------
\* ResolvedIsAsked, with what guards it: lines are parsed during a lookup only.
ResolverInv ==
  /\ ResolvedIsAsked
  /\ dns.active => comm = "dns"

\* A name is resolved to its own address or not at all, for any number of names
\* and of lines, early or late, unless a line about another name comes while
\* modem_bg95_dns_resolve() waits.
THEOREM ResolverSafety == Spec => []ResolvedIsAsked
<1>1. Init => ResolverInv
  BY DEF Init, NoDns, ResolverInv, ResolvedIsAsked
<1>2. TypeOK /\ ResolverInv /\ [Next]_vars => ResolverInv'
  <2> SUFFICES ASSUME TypeOK, ResolverInv, [Next]_vars PROVE ResolverInv'
    OBVIOUS
  <2>1. ASSUME UNCHANGED names, comm # "dns", comm' # "dns"
        PROVE  ResolverInv'
    BY <2>1 DEF ResolverInv, ResolvedIsAsked
  <2>2. ASSUME UNCHANGED <<comm, names>> PROVE ResolverInv'
    BY <2>2 DEF ResolverInv, ResolvedIsAsked
  <2>3. ASSUME NEW h \in Hosts, Resolve(h) PROVE ResolverInv'
    BY <2>3 DEF Resolve, Ask, NoDns, ResolverInv, ResolvedIsAsked
  <2>4. CASE Resolved
    <3>1. comm' = "idle" /\ dns'.active = FALSE
      BY <2>4 DEF Resolved, TypeOK, NamesOK
    <3> QED BY <3>1 DEF ResolverInv, ResolvedIsAsked
  <2>5. ASSUME NEW h \in Hosts, UrcDns(h) PROVE ResolverInv'
    <3>1. comm' = comm /\ asked' = asked
      BY <2>5 DEF UrcDns
    <3>2. CASE dns' = dns
      <4>1. ~foreign' => ~foreign
        BY <2>5, Zenon DEF UrcDns
      <4> QED BY <3>1, <3>2, <4>1 DEF ResolverInv, ResolvedIsAsked
    <3>3. CASE dns' # dns
      <4>1. dns.active /\ dns' \in Parsed(h)
        BY <2>5, <3>3, Zenon DEF UrcDns
      <4>2. dns'.active = TRUE /\ dns'.ip \in {h, None}
        BY <3>3, <4>1 DEF Parsed, TypeOK, NamesOK
      <4>3. ~foreign' => h = asked
        BY <2>5, <4>1, Zenon DEF UrcDns
      <4> QED BY <3>1, <4>1, <4>2, <4>3 DEF ResolverInv, ResolvedIsAsked
    <3> QED BY <3>2, <3>3
  <2>6. CASE Connect \/ DataUp \/ CommClose \/ CommClear \/ Rebind \/ QiOpen
             \/ Bound \/ QiSend \/ \E p \in Peers : Send(p)
    <3>1. UNCHANGED names /\ comm # "dns" /\ comm' # "dns"
      BY <2>6, Zenon
      DEF Connect, DataUp, CommClose, CommClear, Rebind, QiOpen, Bound,
          QiSend, Send, Bind, Return
    <3> QED BY <2>1, <3>1, Zenon
  <2>7. CASE \/ \E i \in Sockets : \/ UrcRecv(i) \/ CloseIdle(i) \/ Poll(i)
                                   \/ Fetch(i)
             \/ SlowClose \/ SlowClear \/ Qird \/ Nack \/ Detach
             \/ UrcPdpDeact \/ Deactivate \/ GoDeaf
             \/ \E all \in BOOLEAN : Reconnect(all)
             \/ UNCHANGED vars
    BY <2>2, <2>7, Zenon
    DEF UrcRecv, CloseIdle, Poll, Fetch, SlowClose, SlowClear, Qird, Nack,
        Detach, UrcPdpDeact, Deactivate, GoDeaf, Reconnect, vars
  <2> QED
    BY <2>3, <2>4, <2>5, <2>6, <2>7, Zenon DEF Next, CommGoesOn, SlowGoesOn
<1>3. ResolverInv => ResolvedIsAsked
  BY DEF ResolverInv
<1> QED BY <1>1, <1>2, <1>3, TypeCorrect, PTL DEF Spec
=============================================================================
