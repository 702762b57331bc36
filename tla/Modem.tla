------------------------------- MODULE Modem --------------------------------
(***************************************************************************)
(* modem_main.c and modem.c: switching the modem on, registering it and    *)
(* keeping a data connection.  Three tasks take part: the comm task runs   *)
(* modem_main_task() and the users of the network (one AT command is one   *)
(* step), the modem task applies what the modem reports by itself, the     *)
(* slow task executes commands and drops a connection that receives        *)
(* nothing.  The modem and the network are external: cov, att and pdp are  *)
(* what they really are, flags what the code believes.                     *)
(*                                                                         *)
(* Times are abstract: due says that _ms.tmout has passed, late that       *)
(* _timer has; the length of a wait (_err_wait_time, err_cnt, ts) is left  *)
(* out.  The requested state is NET_OK from the boot on, no caller changes *)
(* it.  ROAMING, CALL_STOP and the signal level are only displayed.        *)
(***************************************************************************)
EXTENDS Naturals

CONSTANTS Commands,    \* what the user and _reinit_task() may request
          ErrLimit,    \* 30: the error counter that forces a restart
          Repeat,      \* 3: attempts of modem_start()
          PinMin,      \* 3: attempts the SIM must have left
          MaxFaults    \* bound on faults and commands

ASSUME ModemAssumption ==
    /\ Commands \subseteq {"ON", "OFF", "START", "RESET", "DEBUG"}
    /\ ErrLimit \in Nat \ {0} /\ Repeat \in Nat \ {0}
    /\ PinMin \in Nat \ {0, 1} /\ MaxFaults \in Nat

VARIABLES
    state,       \* _ms.state
    command,     \* _ms.command
    due, late,   \* _ms.tmout and _timer have passed
    error,       \* _modem_error
    flags,       \* m->flags
    errors,      \* m->error_counter, counted up to ErrLimit
    comm,        \* where the comm task is
    tries,       \* repeat of modem_start()
    slow,        \* where the slow task is in modem_data_disconnect()
    power, cov, att, pdp,  \* the modem: on, coverage, attached, context
    sim,         \* the SIM: "off" no PIN, "right", "wrong" PIN configured
    attempts,    \* PIN attempts the SIM has left
    faults       \* faults that may still happen (bound)

code == <<state, command, due, late, error, flags, errors, comm, tries, slow>>
link == <<power, cov, att, pdp>>
vars == <<code, link, sim, attempts, faults>>

States == {"OFF", "ON", "ERROR", "INIT", "NET_OK", "DEBUG"}
Flags == {"PIN", "NET", "DATA", "LTE", "UP"}

TypeOK ==
    /\ state \in States
    /\ command \in Commands \cup {"NONE"}
    /\ due \in BOOLEAN /\ late \in BOOLEAN /\ error \in BOOLEAN
    /\ flags \in SUBSET Flags
    /\ errors \in 0 .. ErrLimit
    /\ comm \in {"main", "ready", "setup", "sim", "config", "init", "check",
                 "net", "apn", "attach", "udp", "up", "send"}
    /\ tries \in 0 .. Repeat
    /\ slow \in {"idle", "detach"}
    /\ power \in BOOLEAN /\ att \in BOOLEAN /\ pdp \in BOOLEAN
    /\ cov \in {"none", "gsm", "lte"}
    /\ sim \in {"off", "right", "wrong"}
    /\ attempts \in 0 .. PinMin
    /\ faults \in 0 .. MaxFaults

(* modem_main_init() and app_main_init(): OFF, NET_OK requested. *)
Init ==
    /\ state = "OFF" /\ command = "NONE"
    /\ due = FALSE /\ late = FALSE /\ error = FALSE
    /\ flags = {} /\ errors = 0
    /\ comm = "main" /\ tries = 0 /\ slow = "idle"
    /\ power \in BOOLEAN /\ cov = "none" /\ att = FALSE /\ pdp = FALSE
    /\ sim \in {"off", "right", "wrong"} /\ attempts = PinMin
    /\ faults = MaxFaults

-----------------------------------------------------------------------------
(* What the lines of the modem do to the flags. *)

Count(n) == IF errors + n > ErrLimit THEN ErrLimit ELSE errors + n

Online == {"NET", "DATA", "LTE", "UP"}

(* _set_offline() *)
Offline(f) == f \ Online

MutCreg(f) == IF cov = "gsm" THEN f \cup {"NET"} ELSE f \ {"NET", "DATA"}

(* +CREG: is ignored on LTE unless it reports a registration. *)
Creg(f) == CASE cov = "gsm"                  -> f \cup {"NET"}
             [] cov # "gsm" /\ "LTE" \in f    -> f
             [] cov # "gsm" /\ "LTE" \notin f -> Offline(f)

CregErrors(f) == IF cov # "gsm" /\ "LTE" \notin f THEN 1 ELSE 0

(* +CEREG: *)
Cereg(f) == IF cov = "lte" /\ att THEN f \cup {"LTE", "DATA", "NET"}
            ELSE IF "LTE" \in f THEN f \ Online ELSE f

(* +CGREG: *)
Cgreg(f) == IF "LTE" \in f THEN f
            ELSE IF cov = "gsm" /\ att THEN f \cup {"DATA"} ELSE f \ {"DATA"}

(* An AT command of the comm task: no answer, or an error, needs a fault    *)
(* unless the modem is off.                                                 *)
At(ok) ==
    /\ ok => power
    /\ ~ok /\ power => faults > 0
    /\ faults' = IF ~ok /\ power THEN faults - 1 ELSE faults

Fault == faults > 0 /\ faults' = faults - 1

-----------------------------------------------------------------------------
(* The comm task. *)

(* _status_task(), modem_main_state() and the test in app_task_comm(): the  *)
(* round goes on to the users only when NET_OK is reported.                 *)
Round(new) ==
    /\ state' = new
    /\ due' = IF new = state THEN due ELSE FALSE
    /\ error' = IF new = "NET_OK" THEN FALSE ELSE error \/ late
    /\ comm' = IF new = "NET_OK" THEN "net" ELSE "main"

(* pfunc_off(): AT+QPOWD, repeated once. *)
SwitchOff(ok) ==
    /\ At(ok)
    /\ power' = (power /\ ~ok)
    /\ att' = (att /\ ~ok) /\ pdp' = (pdp /\ ~ok)
    /\ UNCHANGED cov

(* pfunc_on(): AT, and unless it answers a pulse of PWRKEY, which switches   *)
(* a modem off that is on and has only not been heard.                      *)
SwitchOn(ok) ==
    /\ At(ok)
    /\ power' = (ok \/ ~power)
    /\ att' = (att /\ ok) /\ pdp' = (pdp /\ ok)
    /\ UNCHANGED cov

(* _modem_command_exec(), before the state machine of the same round.  A     *)
(* request during a START is refused by the code and accepted here.         *)
CommandExec(ok) ==
    /\ comm = "main" /\ command # "NONE"
    /\ command' = "NONE"
    /\ \/ /\ command \in {"OFF", "RESET"}
          /\ SwitchOff(ok)
          /\ state' = IF command = "OFF" THEN "OFF" ELSE state
          /\ due' = IF command = "OFF" /\ state # "OFF" THEN FALSE ELSE due
          /\ UNCHANGED <<comm, tries, flags, errors>>
       \/ /\ command = "ON" /\ SwitchOn(ok)
          /\ state' = "ON"
          /\ due' = IF state # "ON" THEN FALSE ELSE due
          /\ UNCHANGED <<comm, tries, flags, errors>>
       \/ /\ command = "START" /\ ok
          /\ flags' = Offline(flags) \ {"PIN"} /\ errors' = Count(1)
          /\ comm' = "ready" /\ tries' = Repeat
          /\ UNCHANGED <<link, state, due, faults>>
       \/ /\ command = "DEBUG" /\ ok
          /\ state' = "DEBUG"
          /\ UNCHANGED <<link, due, comm, tries, flags, errors, faults>>
    /\ UNCHANGED <<late, error, slow, sim, attempts>>

(* _state_machine_task() while there is nothing to do: DEBUG, or the wait   *)
(* of the state is not over.                                                *)
Idle ==
    /\ comm = "main" /\ command = "NONE"
    /\ \/ state = "DEBUG"
       \/ ~due /\ state \in {"OFF", "ON", "ERROR", "NET_OK"}
    /\ Round(state)
    /\ UNCHANGED <<command, late, flags, errors, tries, slow, link, sim,
                   attempts, faults>>

(* OFF: modem_hw_on(). *)
HwOn(ok) ==
    /\ comm = "main" /\ command = "NONE" /\ state = "OFF" /\ due
    /\ SwitchOn(ok)
    /\ Round("ON")
    /\ UNCHANGED <<command, late, flags, errors, tries, slow, sim, attempts>>

(* ERROR: switched off after the wait. *)
HwOff(ok) ==
    /\ comm = "main" /\ command = "NONE" /\ state = "ERROR" /\ due
    /\ SwitchOff(ok)
    /\ Round("OFF")
    /\ UNCHANGED <<command, late, flags, errors, tries, slow, sim, attempts>>

(* ON: modem_start() begins with _set_offline(). *)
StartBegin ==
    /\ comm = "main" /\ command = "NONE" /\ state = "ON" /\ due
    /\ flags' = Offline(flags) \ {"PIN"} /\ errors' = Count(1)
    /\ comm' = "ready" /\ tries' = Repeat
    /\ UNCHANGED <<state, command, due, late, error, slow, link, sim,
                   attempts, faults>>

(* The next attempt of the loop, or "start failed". *)
StartFail ==
    IF tries > 1
    THEN /\ tries' = tries - 1 /\ comm' = "setup"
         /\ UNCHANGED <<state, due, error>>
    ELSE tries' = 0 /\ Round("ERROR")

(* _modem_ready() *)
StartReady(ok) ==
    /\ comm = "ready" /\ At(ok)
    /\ errors' = IF ok THEN errors ELSE Count(2)
    /\ \/ ok /\ comm' = "setup" /\ UNCHANGED <<state, due, error, tries>>
       \/ ~ok /\ tries' = 0 /\ Round("ERROR")
    /\ UNCHANGED <<command, late, flags, slow, link, sim, attempts>>

(* ATE0, AT+CREG=1, AT+CGREG=1 *)
StartSetup(ok) ==
    /\ comm = "setup" /\ At(ok)
    /\ errors' = IF ok THEN errors ELSE Count(1)
    /\ \/ ok /\ comm' = "sim" /\ UNCHANGED <<state, due, error, tries>>
       \/ ~ok /\ StartFail
    /\ UNCHANGED <<command, late, flags, slow, link, sim, attempts>>

MutPinAllowed == attempts > 0

(* _pin_attempts_left(): the PIN is entered with at least three left. *)
PinAllowed == attempts >= PinMin

(* _init_sim(): AT+CPIN?, AT+QPINC?, AT+CPIN=, AT+CPIN?; an attempt may be  *)
(* used up although no answer arrives.                                      *)
StartSim(ok) ==
    /\ comm = "sim" /\ At(ok)
    /\ errors' = IF ok THEN errors ELSE Count(1)
    /\ \/ /\ ok \* a SIM without PIN, or the PIN was entered before
          /\ sim = "off" \/ sim = "right"
          /\ flags' = flags \cup {"PIN"} /\ comm' = "config"
          /\ UNCHANGED <<state, due, error, tries, attempts>>
       \/ /\ power /\ (ok => sim = "wrong") /\ PinAllowed /\ sim # "off"
          /\ attempts' = IF sim = "wrong" THEN attempts - 1 ELSE attempts
          /\ tries' = 0 /\ Round("ERROR") /\ UNCHANGED flags
       \/ /\ ok => ~PinAllowed /\ sim = "wrong"
          /\ tries' = 0 /\ Round("ERROR") /\ UNCHANGED <<flags, attempts>>
    /\ UNCHANGED <<command, late, slow, link, sim>>

(* modem_config_table() and AT+CNMI *)
StartTable(ok) ==
    /\ comm = "config" /\ At(ok)
    /\ errors' = IF ok THEN errors ELSE Count(1)
    /\ \/ ok /\ comm' = "init" /\ UNCHANGED <<state, due, error, tries>>
       \/ ~ok /\ StartFail
    /\ UNCHANGED <<command, late, flags, slow, link, sim, attempts>>

(* modem_apn_setup(), with which the modem attaches, modem_bg95_init() and  *)
(* "AT+CREG?;+CEREG?", whose results are not looked at.                     *)
StartInit(ok) ==
    /\ comm = "init" /\ At(ok)
    /\ att' = (att \/ ok)
    /\ flags' = IF ok THEN Cereg(Creg(flags)) ELSE flags
    /\ errors' = Count(IF ok THEN CregErrors(flags) ELSE 1)
    /\ tries' = 0 /\ Round("INIT")
    /\ UNCHANGED <<command, late, slow, power, cov, pdp, sim, attempts>>

(* INIT: NET OK, or AT+CREG? and the test of the time. *)
InitState(ok) ==
    /\ comm = "main" /\ command = "NONE" /\ state = "INIT"
    /\ \/ /\ "NET" \in flags /\ ok
          /\ Round("NET_OK") /\ UNCHANGED <<flags, errors, faults>>
       \/ /\ "NET" \notin flags /\ At(ok)
          /\ flags' = IF ok THEN Creg(flags) ELSE flags
          /\ errors' = Count(IF ok THEN CregErrors(flags) ELSE 1)
          /\ Round(IF ok /\ ~due THEN "INIT" ELSE "ERROR")
    /\ UNCHANGED <<command, late, tries, slow, link, sim, attempts>>

(* NET_OK, and the wait is over: the network is lost, or modem_check(). *)
NetOkState ==
    /\ comm = "main" /\ command = "NONE" /\ state = "NET_OK" /\ due
    /\ IF "NET" \in flags
       THEN comm' = "check" /\ UNCHANGED <<state, due, error>>
       ELSE Round("INIT")
    /\ UNCHANGED <<command, late, flags, errors, tries, slow, link, sim,
                   attempts, faults>>

MutWorn == FALSE

(* modem_check(): too many errors, the modem is switched off. *)
Worn == errors >= ErrLimit

Check(ok) ==
    /\ comm = "check"
    /\ IF ok /\ Worn
       THEN /\ errors' = 1 /\ flags' = Offline(flags)
            /\ SwitchOff(TRUE)
            /\ Round("ERROR")
       ELSE /\ At(ok)
            /\ flags' = IF ok THEN Cgreg(Cereg(Creg(flags))) \cup {"PIN"}
                         ELSE flags
            /\ errors' = Count(IF ok THEN CregErrors(flags) ELSE 2)
            /\ IF ok THEN /\ due' = FALSE /\ error' = FALSE
                          /\ comm' = "net" /\ UNCHANGED state
                     ELSE Round("ERROR")
            /\ UNCHANGED link
    /\ UNCHANGED <<command, late, tries, slow, sim, attempts>>

-----------------------------------------------------------------------------
(* The users of the network, in the comm task while NET_OK is reported. *)

(* Nothing to send: the next round. *)
NothingToSend ==
    /\ comm = "net" /\ comm' = "main"
    /\ UNCHANGED <<state, command, due, late, error, flags, errors, tries,
                   slow, link, sim, attempts, faults>>

(* net_connect(): modem_main_data_connect() unless UP. *)
NetConnect ==
    /\ comm = "net"
    /\ comm' = IF "UP" \in flags THEN "send" ELSE "apn"
    /\ UNCHANGED <<state, command, due, late, error, flags, errors, tries,
                   slow, link, sim, attempts, faults>>

(* modem_apn_init(): AT+CGACT=0,1, AT+CGDCONT *)
ApnInit(ok) ==
    /\ comm = "apn" /\ At(ok)
    /\ pdp' = FALSE
    /\ errors' = IF ok THEN errors ELSE Count(1)
    /\ flags' = IF ok THEN flags \ {"UP"} ELSE flags
    /\ comm' = IF ok THEN "attach" ELSE "main"
    /\ UNCHANGED <<state, command, due, late, error, tries, slow, power, cov,
                   att, sim, attempts>>

(* modem_data_connect(): AT+CGATT=1, AT+CGACT=1,1, then AT+CGREG? unless on  *)
(* LTE, until it is attached or 10 s have passed.                           *)
Attach(ok) ==
    /\ comm = "attach" /\ At(ok)
    /\ att' = (att \/ ok)
    /\ pdp' = (pdp \/ (ok /\ cov # "none"))
    /\ errors' = IF ok THEN errors ELSE Count(1)
    /\ flags' = IF ~ok \/ "LTE" \in flags THEN flags
                ELSE IF cov = "gsm" THEN flags \cup {"DATA"}
                ELSE flags \ {"DATA"}
    /\ comm' = IF ok /\ flags' \cap {"LTE", "DATA"} # {} THEN "udp" ELSE "main"
    /\ UNCHANGED <<state, command, due, late, error, tries, slow, power, cov,
                   sim, attempts>>

(* modem_bg95_udp_init(): AT+QIACT?, AT+QIACT=1, AT+QICFG *)
UdpInit(ok) ==
    /\ comm = "udp"
    /\ \/ ok /\ cov # "none" /\ At(TRUE) /\ pdp' = TRUE /\ comm' = "up"
          /\ UNCHANGED errors
       \/ ~ok /\ cov # "none" /\ At(FALSE) /\ comm' = "main"
          /\ errors' = Count(1) /\ UNCHANGED pdp
       \/ ~ok /\ cov = "none" /\ comm' = "main" /\ errors' = Count(1)
          /\ UNCHANGED <<pdp, faults>>
    /\ UNCHANGED <<state, command, due, late, error, flags, tries, slow,
                   power, cov, att, sim, attempts>>

(* DATA_UP is set after the last answer, whatever was reported since. *)
DataUp ==
    /\ comm = "up"
    /\ flags' = flags \cup {"UP"} /\ comm' = "main"
    /\ UNCHANGED <<state, command, due, late, error, errors, tries, slow,
                   link, sim, attempts, faults>>

(* modem_bg95_udp_send(): without a context no socket opens, and QIOPEN and  *)
(* QICLOSE answer +CME ERROR.                                               *)
UdpSend(ok) ==
    /\ comm = "send" /\ comm' = "main"
    /\ IF power /\ pdp
       THEN At(ok) /\ errors' = IF ok THEN errors ELSE Count(1)
       ELSE ~ok /\ errors' = Count(2) /\ UNCHANGED faults
    /\ UNCHANGED <<state, command, due, late, error, flags, tries, slow,
                   link, sim, attempts>>

-----------------------------------------------------------------------------
(* The slow task. *)

(* modem_main_command(), refused while one is pending. *)
Request(c) ==
    /\ command = "NONE" /\ Fault
    /\ command' = c
    /\ UNCHANGED <<state, due, late, error, flags, errors, comm, tries, slow,
                   link, sim, attempts>>

(* modem_data_disconnect(): packets are sent and none is received. *)
Disconnect ==
    /\ slow = "idle" /\ "UP" \in flags /\ Fault
    /\ flags' = flags \ {"UP"}
    /\ slow' = IF "DATA" \in flags THEN "detach" ELSE "idle"
    /\ UNCHANGED <<state, command, due, late, error, errors, comm, tries,
                   link, sim, attempts>>

(* AT+CGATT=0 *)
Detach ==
    /\ slow = "detach" /\ slow' = "idle"
    /\ flags' = flags \ {"DATA"}
    /\ att' = (att /\ ~power) /\ pdp' = (pdp /\ ~power)
    /\ errors' = IF power THEN errors ELSE Count(1)
    /\ UNCHANGED <<state, command, due, late, error, comm, tries, power, cov,
                   sim, attempts, faults>>

-----------------------------------------------------------------------------
(* The modem task: modem_parse_urc() and modem_bg95_urc(). *)

Urc(f, n) ==
    /\ power /\ f # flags
    /\ flags' = f /\ errors' = Count(n)
    /\ UNCHANGED <<state, command, due, late, error, comm, tries, slow, link,
                   sim, attempts, faults>>

UrcCreg == Urc(Creg(flags), CregErrors(flags))
UrcCereg == Urc(Cereg(flags), 0)
UrcCgreg == Urc(Cgreg(flags), 0)

(* +QIURC: "pdpdeact",1: the network closes the context. *)
UrcPdpDeact ==
    /\ power /\ pdp /\ Fault
    /\ pdp' = FALSE /\ flags' = flags \ {"DATA", "UP"}
    /\ UNCHANGED <<state, command, due, late, error, errors, comm, tries,
                   slow, power, cov, att, sim, attempts>>

(* The modem goes down by itself; POWERED DOWN does not clear DATA_UP. *)
UrcPowerDown ==
    /\ power /\ Fault
    /\ power' = FALSE /\ att' = FALSE /\ pdp' = FALSE
    /\ flags' = flags \ {"NET", "DATA", "LTE"}
    /\ UNCHANGED <<state, command, due, late, error, errors, comm, tries,
                   slow, cov, sim, attempts>>

(* +CME ERROR: 13, SIM failure *)
UrcSimFailure ==
    /\ power /\ Fault
    /\ flags' = Offline(flags) \ {"PIN"} /\ errors' = Count(1)
    /\ UNCHANGED <<state, command, due, late, error, comm, tries, slow, link,
                   sim, attempts>>

(* +CMTI:, RING, +CLIP: the modem works, the counter starts again. *)
UrcIncoming ==
    /\ power /\ Fault /\ errors' = 0
    /\ UNCHANGED <<state, command, due, late, error, flags, comm, tries, slow,
                   link, sim, attempts>>

-----------------------------------------------------------------------------
(* Time and the network. *)

Elapse ==
    /\ ~due /\ due' = TRUE
    /\ UNCHANGED <<state, command, late, error, flags, errors, comm, tries,
                   slow, link, sim, attempts, faults>>

ElapseTimer ==
    /\ ~late /\ late' = TRUE
    /\ UNCHANGED <<state, command, due, error, flags, errors, comm, tries,
                   slow, link, sim, attempts, faults>>

(* The network is found; it is lost only by a fault. *)
Coverage(c) ==
    /\ c # cov
    /\ IF cov = "none" THEN UNCHANGED faults ELSE Fault
    /\ cov' = c /\ pdp' = FALSE
    /\ UNCHANGED <<code, power, att, sim, attempts>>

CommStep(ok) ==
    \/ CommandExec(ok) \/ HwOn(ok) \/ HwOff(ok) \/ StartReady(ok)
    \/ StartSetup(ok) \/ StartSim(ok) \/ StartTable(ok) \/ StartInit(ok)
    \/ InitState(ok) \/ Check(ok) \/ ApnInit(ok) \/ Attach(ok)
    \/ UdpInit(ok) \/ UdpSend(ok)

Comm ==
    \/ Idle \/ StartBegin \/ NetOkState \/ NothingToSend \/ NetConnect
    \/ DataUp
    \/ \E ok \in BOOLEAN : CommStep(ok)

Next ==
    \/ Comm
    \/ \E c \in Commands : Request(c)
    \/ Disconnect \/ Detach
    \/ UrcCreg \/ UrcCereg \/ UrcCgreg \/ UrcPdpDeact \/ UrcPowerDown
    \/ UrcSimFailure \/ UrcIncoming
    \/ Elapse \/ ElapseTimer
    \/ \E c \in {"none", "gsm", "lte"} : Coverage(c)

Spec == Init /\ [][Next]_vars

(* The comm and slow tasks are watched; time passes; some network is found; *)
(* an LTE network is some time reported within the 120 s or 600 s of INIT;  *)
(* a user of the network comes back again and again (NetConnect).           *)
FairSpec ==
    /\ Spec
    /\ WF_vars(Comm) /\ WF_vars(Detach) /\ WF_vars(Elapse)
    /\ SF_vars(state = "INIT" /\ UrcCereg)
    /\ WF_vars(\E c \in {"gsm", "lte"} : cov = "none" /\ Coverage(c))
    /\ SF_vars(NetConnect)

-----------------------------------------------------------------------------
(* +CREG, +CEREG, power downs and SIM failures change the flags in any      *)
(* order: the code never believes to be on LTE without believing to be      *)
(* registered ("must not tear down the EPS registration", modem.c:264).     *)
LteIsRegistered == "LTE" \in flags => "NET" \in flags

(* modem_start() is repeated for ever, also when the configured PIN is      *)
(* wrong or its answer is lost: the SIM is never locked by _init_sim().     *)
SimNeverLocked == attempts >= PinMin - 1

Usable == state = "NET_OK" /\ power /\ pdp /\ "UP" \in flags

(* Whatever fails, a finite number of times and at any step, and whatever   *)
(* the flags were left at: unless the modem is in DEBUG or the PIN wrong,   *)
(* the data connection is usable again and again.                           *)
DataComesUp == []<>(Usable \/ state = "DEBUG" \/ sim = "wrong")
=============================================================================
