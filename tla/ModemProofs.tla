---------------------------- MODULE ModemProofs -----------------------------
(***************************************************************************)
(* The connection of the modem, for all networks, SIMs, commands and       *)
(* limits.                                                                 *)
(***************************************************************************)
EXTENDS Modem, TLAPS

-----------------------------------------------------------------------------
(* Registration *)

\* The flags after each kind of line.
LEMMA FlagFact ==
  ASSUME NEW f, "LTE" \in f => "NET" \in f
  PROVE  /\ "LTE" \in Offline(f) => "NET" \in Offline(f)
         /\ "LTE" \in Creg(f) => "NET" \in Creg(f)
         /\ "LTE" \in Cereg(f) => "NET" \in Cereg(f)
         /\ "LTE" \in Cgreg(f) => "NET" \in Cgreg(f)
<1>1. "LTE" \in Offline(f) => "NET" \in Offline(f)
  BY DEF Offline, Online
<1>2. "LTE" \in Creg(f) => "NET" \in Creg(f)
  <2>1. CASE cov = "gsm"
    BY <2>1 DEF Creg
  <2>2. CASE cov # "gsm" /\ "LTE" \in f
    BY <2>2 DEF Creg
  <2>3. CASE cov # "gsm" /\ "LTE" \notin f
    BY <1>1, <2>3 DEF Creg
  <2> QED BY <2>1, <2>2, <2>3
<1>3. "LTE" \in Cereg(f) => "NET" \in Cereg(f)
  BY DEF Cereg, Online
<1>4. "LTE" \in Cgreg(f) => "NET" \in Cgreg(f)
  BY DEF Cgreg
<1> QED BY <1>1, <1>2, <1>3, <1>4

\* Whatever the comm, the slow and the modem task do to the flags.
LEMMA LteStep ==
  ASSUME LteIsRegistered, [Next]_vars
  PROVE  LteIsRegistered'
<1> DEFINE Ok(f) == "LTE" \in f => "NET" \in f
<1>0. Ok(flags)
  BY DEF LteIsRegistered
<1>1. \A f : Ok(f) => /\ Ok(Offline(f)) /\ Ok(Creg(f))
                      /\ Ok(Cereg(f)) /\ Ok(Cgreg(f))
  BY FlagFact
<1>2. \A f : Ok(f) => /\ Ok(f \cup {"PIN"}) /\ Ok(f \cup {"DATA"})
                      /\ Ok(f \cup {"UP"}) /\ Ok(f \ {"PIN"})
                      /\ Ok(f \ {"UP"}) /\ Ok(f \ {"DATA"})
                      /\ Ok(f \ {"DATA", "UP"})
                      /\ Ok(f \ {"NET", "DATA", "LTE"})
  OBVIOUS
<1> HIDE DEF Ok
<1>3. CASE flags' = flags
  BY <1>0, <1>3 DEF Ok, LteIsRegistered
<1>4. ASSUME Ok(flags') PROVE LteIsRegistered'
  BY <1>4 DEF Ok, LteIsRegistered
<1>5. ASSUME NEW ok \in BOOLEAN, CommStep(ok) PROVE Ok(flags')
  <2>1. CASE CommandExec(ok)
    BY <1>0, <1>1, <1>2, <2>1 DEF CommandExec
  <2>2. CASE HwOn(ok) \/ HwOff(ok) \/ StartReady(ok) \/ StartSetup(ok)
             \/ StartTable(ok) \/ UdpInit(ok) \/ UdpSend(ok)
    BY <1>0, <2>2 DEF HwOn, HwOff, StartReady, StartSetup, StartTable,
       UdpInit, UdpSend
  <2>3. CASE StartSim(ok)
    BY <1>0, <1>2, <2>3 DEF StartSim
  <2>4. CASE StartInit(ok) \/ InitState(ok)
    BY <1>0, <1>1, <2>4 DEF StartInit, InitState
  <2>5. CASE Check(ok)
    <3>1. Ok(Cgreg(Cereg(Creg(flags))) \cup {"PIN"})
      BY <1>0, <1>1, <1>2
    <3> QED BY <1>0, <1>1, <2>5, <3>1 DEF Check
  <2>6. CASE ApnInit(ok) \/ Attach(ok)
    BY <1>0, <1>2, <2>6 DEF ApnInit, Attach
  <2> QED
    BY <1>5, <2>1, <2>2, <2>3, <2>4, <2>5, <2>6 DEF CommStep
<1>6. CASE Comm
  <2>1. CASE Idle \/ NetOkState \/ NothingToSend \/ NetConnect
    BY <1>3, <2>1 DEF Idle, NetOkState, NothingToSend,
       NetConnect
  <2>2. CASE StartBegin \/ DataUp
    BY <1>0, <1>1, <1>2, <1>4, <2>2 DEF StartBegin, DataUp
  <2> QED BY <1>4, <1>5, <1>6, <2>1, <2>2 DEF Comm
<1>7. CASE \/ \E c \in Commands : Request(c)
           \/ UrcIncoming \/ Elapse \/ ElapseTimer
           \/ \E c \in {"none", "gsm", "lte"} : Coverage(c)
  BY <1>3, <1>7 DEF Request, UrcIncoming, Elapse, ElapseTimer,
     Coverage, code
<1>8. CASE Disconnect \/ Detach \/ UrcPdpDeact \/ UrcPowerDown
  BY <1>0, <1>2, <1>4, <1>8
     DEF Disconnect, Detach, UrcPdpDeact, UrcPowerDown
<1>9. CASE UrcCreg \/ UrcCereg \/ UrcCgreg \/ UrcSimFailure
  BY <1>0, <1>1, <1>2, <1>4, <1>9
     DEF UrcCreg, UrcCereg, UrcCgreg, UrcSimFailure, Urc
<1>10. CASE UNCHANGED vars
  BY <1>3, <1>10 DEF vars, code
<1> QED BY <1>6, <1>7, <1>8, <1>9, <1>10 DEF Next

\* However +CREG, +CEREG and +CGREG lines, power downs, SIM failures, starts
\* and disconnects follow each other, the flag LTE is never set without the
\* flag NET (modem.c, "must not tear down the EPS registration").
THEOREM RegisteredSafety == Spec => []LteIsRegistered
<1>1. Init => LteIsRegistered
  BY DEF Init, LteIsRegistered
<1> QED BY <1>1, LteStep, PTL DEF Spec

-----------------------------------------------------------------------------
(* The PIN *)

\* At most one attempt was used up.
SimInv == attempts \in {PinMin - 1, PinMin}

\* _init_sim() tries a PIN only while no attempt was used up.
LEMMA SimStep ==
  ASSUME SimInv, [Next]_vars
  PROVE  SimInv'
<1>0. PinMin \in Nat /\ PinMin >= 2
  BY ModemAssumption
<1>1. CASE attempts' = attempts
  BY <1>1 DEF SimInv
<1>2. ASSUME NEW ok \in BOOLEAN, StartSim(ok) PROVE SimInv'
  <2>1. CASE attempts' = attempts
    BY <2>1 DEF SimInv
  <2>2. CASE /\ PinAllowed
             /\ attempts' = IF sim = "wrong" THEN attempts - 1
                              ELSE attempts
    BY <1>0, <2>2 DEF SimInv, PinAllowed
  <2> QED BY <1>2, <2>1, <2>2 DEF StartSim
<1>3. ASSUME NEW ok \in BOOLEAN, CommStep(ok), ~StartSim(ok)
      PROVE  attempts' = attempts
  BY <1>3 DEF CommStep, CommandExec, HwOn, HwOff, StartReady, StartSetup,
     StartTable, StartInit, InitState, Check, ApnInit, Attach,
     UdpInit, UdpSend
<1>4. CASE Comm
  <2>1. CASE \/ Idle \/ StartBegin \/ NetOkState
             \/ NothingToSend \/ NetConnect \/ DataUp
    BY <1>1, <2>1 DEF Idle, StartBegin, NetOkState,
       NothingToSend, NetConnect, DataUp
  <2> QED BY <1>1, <1>2, <1>3, <1>4, <2>1 DEF Comm
<1>5. CASE \/ \E c \in Commands : Request(c)
           \/ Disconnect \/ Detach
           \/ UrcCreg \/ UrcCereg \/ UrcCgreg \/ UrcPdpDeact
           \/ UrcPowerDown \/ UrcSimFailure \/ UrcIncoming
           \/ Elapse \/ ElapseTimer
           \/ \E c \in {"none", "gsm", "lte"} : Coverage(c)
  BY <1>1, <1>5 DEF Request, Disconnect, Detach, UrcCreg, UrcCereg,
     UrcCgreg, Urc, UrcPdpDeact, UrcPowerDown, UrcSimFailure,
     UrcIncoming, Elapse, ElapseTimer, Coverage
<1>6. CASE UNCHANGED vars
  BY <1>1, <1>6 DEF vars
<1> QED BY <1>4, <1>5, <1>6 DEF Next

\* modem_start() is repeated for ever, also with a wrong PIN or with answers
\* that are lost, for every limit of attempts: at most one attempt is used up
\* and the SIM is not locked (modem.c, _init_sim(), _pin_attempts_left()).
THEOREM SimSafety == Spec => []SimNeverLocked
<1>1. Init => SimInv
  BY DEF Init, SimInv
<1>2. SimInv => SimNeverLocked
  BY ModemAssumption DEF SimInv, SimNeverLocked
<1>3. SimInv /\ [Next]_vars => SimInv'
  BY SimStep
<1> QED BY <1>1, <1>2, <1>3, PTL DEF Spec

-----------------------------------------------------------------------------
(* Types, and the place of the comm task *)

\* The comm task is inside modem_start() as long as attempts are left, and it
\* calls modem_check() and the users of the network in NET_OK only.
PhaseOK ==
  /\ tries > 0 <=> comm \in {"ready", "setup", "sim", "config", "init"}
  /\ comm \in {"check", "net", "apn", "attach", "udp", "up", "send"}
       => state = "NET_OK"

\* The parts of the state, each with its own types.
ControlInv ==
  /\ state \in States /\ command \in Commands \cup {"NONE"}
  /\ comm \in {"main", "ready", "setup", "sim", "config", "init", "check",
               "net", "apn", "attach", "udp", "up", "send"}
  /\ tries \in 0 .. Repeat
  /\ PhaseOK
TimeInv ==
  /\ due \in BOOLEAN /\ late \in BOOLEAN /\ error \in BOOLEAN
  /\ slow \in {"idle", "detach"}
LinkInv ==
  /\ power \in BOOLEAN /\ att \in BOOLEAN /\ pdp \in BOOLEAN
  /\ cov \in {"none", "gsm", "lte"} /\ sim \in {"off", "right", "wrong"}
FlagsInv == flags \in SUBSET Flags
CountInv == errors \in 0 .. ErrLimit /\ faults \in 0 .. MaxFaults

\* No line and no step sets another flag.
LEMMA FlagsStep == ASSUME FlagsInv, [Next]_vars PROVE FlagsInv'
<1> DEFINE Ok(f) == f \in SUBSET Flags
<1>0. Ok(flags)
  BY DEF FlagsInv
<1>1. \A f : Ok(f) => /\ Ok(Offline(f)) /\ Ok(Creg(f))
                      /\ Ok(Cereg(f)) /\ Ok(Cgreg(f))
  <2> SUFFICES ASSUME NEW f, Ok(f)
               PROVE  /\ Ok(Offline(f)) /\ Ok(Creg(f))
                      /\ Ok(Cereg(f)) /\ Ok(Cgreg(f))
    OBVIOUS
  <2>1. Ok(Offline(f)) /\ Ok(Cereg(f)) /\ Ok(Cgreg(f))
    BY DEF Offline, Cereg, Cgreg, Flags
  <2>2. Ok(Creg(f))
    BY <2>1 DEF Creg, Flags
  <2> QED BY <2>1, <2>2
<1>2. \A f : Ok(f) => /\ Ok(f \cup {"PIN"}) /\ Ok(f \cup {"DATA"})
                      /\ Ok(f \cup {"UP"}) /\ Ok(f \ {"PIN"})
                      /\ Ok(f \ {"UP"}) /\ Ok(f \ {"DATA"})
                      /\ Ok(f \ {"DATA", "UP"})
                      /\ Ok(f \ {"NET", "DATA", "LTE"})
  BY DEF Flags
<1> HIDE DEF Ok
<1>3. CASE flags' = flags
  BY <1>0, <1>3 DEF Ok, FlagsInv
<1>4. ASSUME Ok(flags') PROVE FlagsInv'
  BY <1>4 DEF Ok, FlagsInv
<1>5. ASSUME NEW ok \in BOOLEAN, CommStep(ok) PROVE Ok(flags')
  <2>1. CASE CommandExec(ok)
    BY <1>0, <1>1, <1>2, <2>1 DEF CommandExec
  <2>2. CASE HwOn(ok) \/ HwOff(ok) \/ StartReady(ok) \/ StartSetup(ok)
             \/ StartTable(ok) \/ UdpInit(ok) \/ UdpSend(ok)
    BY <1>0, <2>2 DEF HwOn, HwOff, StartReady, StartSetup, StartTable,
       UdpInit, UdpSend
  <2>3. CASE StartSim(ok)
    BY <1>0, <1>2, <2>3 DEF StartSim
  <2>4. CASE StartInit(ok) \/ InitState(ok)
    BY <1>0, <1>1, <2>4 DEF StartInit, InitState
  <2>5. CASE Check(ok)
    <3>1. Ok(Cgreg(Cereg(Creg(flags))) \cup {"PIN"})
      BY <1>0, <1>1, <1>2
    <3> QED BY <1>0, <1>1, <2>5, <3>1 DEF Check
  <2>6. CASE ApnInit(ok) \/ Attach(ok)
    BY <1>0, <1>2, <2>6 DEF ApnInit, Attach
  <2> QED
    BY <1>5, <2>1, <2>2, <2>3, <2>4, <2>5, <2>6 DEF CommStep
<1>6. CASE Comm
  <2>1. CASE Idle \/ NetOkState \/ NothingToSend \/ NetConnect
    BY <1>3, <2>1 DEF Idle, NetOkState, NothingToSend, NetConnect
  <2>2. CASE StartBegin \/ DataUp
    BY <1>0, <1>1, <1>2, <1>4, <2>2 DEF StartBegin, DataUp
  <2> QED BY <1>4, <1>5, <1>6, <2>1, <2>2 DEF Comm
<1>7. CASE \/ \E c \in Commands : Request(c)
           \/ UrcIncoming \/ Elapse \/ ElapseTimer
           \/ \E c \in {"none", "gsm", "lte"} : Coverage(c)
  BY <1>3, <1>7 DEF Request, UrcIncoming, Elapse, ElapseTimer, Coverage, code
<1>8. CASE Disconnect \/ Detach \/ UrcPdpDeact \/ UrcPowerDown
  BY <1>0, <1>2, <1>4, <1>8
     DEF Disconnect, Detach, UrcPdpDeact, UrcPowerDown
<1>9. CASE UrcCreg \/ UrcCereg \/ UrcCgreg \/ UrcSimFailure
  BY <1>0, <1>1, <1>2, <1>4, <1>9
     DEF UrcCreg, UrcCereg, UrcCgreg, UrcSimFailure, Urc
<1>10. CASE UNCHANGED vars
  BY <1>3, <1>10 DEF vars, code
<1> QED BY <1>6, <1>7, <1>8, <1>9, <1>10 DEF Next

\* The error counter stays at its limit, and faults are used up.
LEMMA CountStep == ASSUME CountInv, [Next]_vars PROVE CountInv'
<1>0. ErrLimit \in Nat \ {0} /\ MaxFaults \in Nat
  BY ModemAssumption
<1>1. /\ errors \in 0 .. ErrLimit /\ faults \in 0 .. MaxFaults
      /\ Count(0) \in 0 .. ErrLimit /\ Count(1) \in 0 .. ErrLimit
      /\ Count(2) \in 0 .. ErrLimit
  BY <1>0 DEF CountInv, Count
<1>2. \A f : CregErrors(f) = 0 \/ CregErrors(f) = 1
  BY DEF CregErrors
<1>3. \A ok : At(ok) => faults' \in 0 .. MaxFaults
  BY <1>0, <1>1 DEF At
<1>4. Fault => faults' \in 0 .. MaxFaults
  BY <1>0, <1>1 DEF Fault
<1>5. \A ok, f : /\ Count(IF ok THEN CregErrors(f) ELSE 1) \in 0 .. ErrLimit
                 /\ Count(IF ok THEN CregErrors(f) ELSE 2) \in 0 .. ErrLimit
                 /\ Count(CregErrors(f)) \in 0 .. ErrLimit
  <2>1. \A f : Count(CregErrors(f)) \in 0 .. ErrLimit
    BY <1>1, <1>2
  <2> QED BY <1>1, <2>1
<1> DEFINE C == errors' \in 0 .. ErrLimit
           F == faults' \in 0 .. MaxFaults
<1>6. SUFFICES C /\ F
  BY DEF CountInv
<1>7. CASE errors' = errors /\ faults' = faults
  BY <1>1, <1>7
<1>8. ASSUME NEW ok \in BOOLEAN, CommStep(ok) PROVE C /\ F
  <2>1. CASE CommandExec(ok)
    BY <1>1, <1>3, <2>1 DEF CommandExec, SwitchOff, SwitchOn
  <2>2. CASE HwOn(ok) \/ HwOff(ok)
    BY <1>1, <1>3, <2>2 DEF HwOn, HwOff, SwitchOff, SwitchOn
  <2>3. CASE StartReady(ok) \/ StartSetup(ok) \/ StartTable(ok)
    BY <1>1, <1>3, <2>3 DEF StartReady, StartSetup, StartTable
  <2>4. CASE StartSim(ok)
    BY <1>1, <1>3, <2>4 DEF StartSim
  <2>5. CASE StartInit(ok) \/ InitState(ok)
    BY <1>1, <1>3, <1>5, <2>5 DEF StartInit, InitState
  <2>6. CASE Check(ok)
    <3>1. 1 \in 0 .. ErrLimit
      BY <1>0
    <3> QED BY <1>1, <1>3, <1>5, <2>6, <3>1 DEF Check, SwitchOff
  <2>7. CASE ApnInit(ok) \/ Attach(ok)
    BY <1>1, <1>3, <2>7 DEF ApnInit, Attach
  <2>8. CASE UdpInit(ok) \/ UdpSend(ok)
    BY <1>1, <1>3, <2>8 DEF UdpInit, UdpSend
  <2> QED BY <1>8, <2>1, <2>2, <2>3, <2>4, <2>5, <2>6, <2>7, <2>8 DEF CommStep
<1>9. CASE Comm
  <2>1. CASE Idle \/ NetOkState \/ NothingToSend \/ NetConnect
    BY <1>7, <2>1 DEF Idle, NetOkState, NothingToSend, NetConnect
  <2>2. CASE StartBegin \/ DataUp
    BY <1>1, <2>2 DEF StartBegin, DataUp
  <2> QED BY <1>8, <1>9, <2>1, <2>2 DEF Comm
<1>10. CASE (\E c \in Commands : Request(c)) \/ Disconnect \/ Detach
  BY <1>1, <1>4, <1>10 DEF Request, Disconnect, Detach
<1>11. CASE UrcCreg \/ UrcCereg \/ UrcCgreg
  BY <1>1, <1>5, <1>11 DEF UrcCreg, UrcCereg, UrcCgreg, Urc
<1>12. CASE UrcPdpDeact \/ UrcPowerDown \/ UrcSimFailure
  BY <1>1, <1>4, <1>12 DEF UrcPdpDeact, UrcPowerDown, UrcSimFailure
<1>13. CASE UrcIncoming
  BY <1>0, <1>4, <1>13 DEF UrcIncoming
<1>14. CASE Elapse \/ ElapseTimer \/ UNCHANGED vars
  BY <1>7, <1>14 DEF Elapse, ElapseTimer, vars, code
<1>15. CASE \E c \in {"none", "gsm", "lte"} : Coverage(c)
  BY <1>1, <1>4, <1>15 DEF Coverage, code
<1> QED BY <1>9, <1>10, <1>11, <1>12, <1>13, <1>14, <1>15 DEF Next

\* Time passes, and a disconnect has two steps.
LEMMA TimeStep == ASSUME TimeInv, [Next]_vars PROVE TimeInv'
<1>1. /\ due \in BOOLEAN /\ late \in BOOLEAN /\ error \in BOOLEAN
      /\ slow \in {"idle", "detach"}
  BY DEF TimeInv
<1>2. \A new : Round(new) => due' \in BOOLEAN /\ error' \in BOOLEAN
  BY <1>1 DEF Round
<1>3. StartFail => due' \in BOOLEAN /\ error' \in BOOLEAN
  BY <1>1, <1>2 DEF StartFail
<1> DEFINE D == due' \in BOOLEAN /\ error' \in BOOLEAN
           S == late' \in BOOLEAN /\ slow' \in {"idle", "detach"}
<1>4. SUFFICES D /\ S
  BY DEF TimeInv
<1>5. CASE UNCHANGED <<due, late, error, slow>>
  BY <1>1, <1>5
<1>6. ASSUME NEW ok \in BOOLEAN, CommStep(ok) PROVE D /\ S
  <2>1. CASE CommandExec(ok)
    BY <1>1, <2>1 DEF CommandExec
  <2>2. CASE HwOn(ok) \/ HwOff(ok)
    BY <1>1, <1>2, <2>2 DEF HwOn, HwOff
  <2>3. CASE StartReady(ok)
    BY <1>1, <1>2, <2>3 DEF StartReady
  <2>4. CASE StartSetup(ok) \/ StartTable(ok)
    BY <1>1, <1>3, <2>4 DEF StartSetup, StartTable
  <2>5. CASE StartSim(ok)
    BY <1>1, <1>2, <2>5 DEF StartSim
  <2>6. CASE StartInit(ok) \/ InitState(ok)
    BY <1>1, <1>2, <2>6 DEF StartInit, InitState
  <2>7. CASE Check(ok)
    BY <1>1, <1>2, <2>7 DEF Check
  <2>8. CASE ApnInit(ok) \/ Attach(ok) \/ UdpInit(ok) \/ UdpSend(ok)
    BY <1>5, <2>8 DEF ApnInit, Attach, UdpInit, UdpSend
  <2> QED BY <1>6, <2>1, <2>2, <2>3, <2>4, <2>5, <2>6, <2>7, <2>8 DEF CommStep
<1>7. CASE Comm
  <2>1. CASE Idle
    BY <1>1, <1>2, <2>1 DEF Idle
  <2>2. CASE NetOkState
    BY <1>1, <1>2, <2>2 DEF NetOkState
  <2>3. CASE StartBegin \/ NothingToSend \/ NetConnect \/ DataUp
    BY <1>5, <2>3 DEF StartBegin, NothingToSend, NetConnect, DataUp
  <2> QED BY <1>6, <1>7, <2>1, <2>2, <2>3 DEF Comm
<1>8. CASE Disconnect \/ Detach \/ Elapse \/ ElapseTimer
  BY <1>1, <1>8 DEF Disconnect, Detach, Elapse, ElapseTimer
<1>9. CASE \/ \E c \in Commands : Request(c)
           \/ UrcCreg \/ UrcCereg \/ UrcCgreg \/ UrcPdpDeact \/ UrcPowerDown
           \/ UrcSimFailure \/ UrcIncoming
           \/ \E c \in {"none", "gsm", "lte"} : Coverage(c)
           \/ UNCHANGED vars
  BY <1>5, <1>9 DEF Request, UrcCreg, UrcCereg, UrcCgreg, Urc, UrcPdpDeact,
     UrcPowerDown, UrcSimFailure, UrcIncoming, Coverage, vars, code
<1> QED BY <1>7, <1>8, <1>9 DEF Next

\* The modem, the network and the SIM.
LEMMA LinkStep == ASSUME LinkInv, [Next]_vars PROVE LinkInv'
<1>1. /\ power \in BOOLEAN /\ att \in BOOLEAN /\ pdp \in BOOLEAN
      /\ cov \in {"none", "gsm", "lte"} /\ sim \in {"off", "right", "wrong"}
  BY DEF LinkInv
<1> DEFINE P == power' \in BOOLEAN /\ att' \in BOOLEAN /\ pdp' \in BOOLEAN
           C == cov' \in {"none", "gsm", "lte"}
                /\ sim' \in {"off", "right", "wrong"}
<1>2. SUFFICES P /\ C
  BY DEF LinkInv
<1>3. \A ok \in BOOLEAN : SwitchOff(ok) \/ SwitchOn(ok) => P /\ cov' = cov
  BY <1>1 DEF SwitchOff, SwitchOn
<1>4. CASE UNCHANGED <<link, sim>>
  BY <1>1, <1>4 DEF link
<1>5. ASSUME NEW ok \in BOOLEAN, CommStep(ok) PROVE P /\ C
  <2>1. CASE CommandExec(ok)
    BY <1>1, <1>3, <2>1 DEF CommandExec, link
  <2>2. CASE HwOn(ok) \/ HwOff(ok)
    BY <1>1, <1>3, <2>2 DEF HwOn, HwOff
  <2>3. CASE \/ StartReady(ok) \/ StartSetup(ok) \/ StartTable(ok)
             \/ StartSim(ok) \/ InitState(ok) \/ UdpSend(ok)
    BY <1>4, <2>3 DEF StartReady, StartSetup, StartTable, StartSim, InitState,
       UdpSend
  <2>4. CASE Check(ok)
    BY <1>1, <1>3, <2>4 DEF Check, link
  <2>5. CASE StartInit(ok) \/ ApnInit(ok) \/ Attach(ok) \/ UdpInit(ok)
    BY <1>1, <2>5 DEF StartInit, ApnInit, Attach, UdpInit
  <2> QED BY <1>5, <2>1, <2>2, <2>3, <2>4, <2>5 DEF CommStep
<1>6. CASE Comm
  <2>1. CASE \/ Idle \/ StartBegin \/ NetOkState \/ NothingToSend
             \/ NetConnect \/ DataUp
    BY <1>4, <2>1 DEF Idle, StartBegin, NetOkState, NothingToSend, NetConnect,
       DataUp
  <2> QED BY <1>5, <1>6, <2>1 DEF Comm
<1>7. CASE \/ \E c \in Commands : Request(c)
           \/ Disconnect \/ UrcCreg \/ UrcCereg \/ UrcCgreg \/ UrcSimFailure
           \/ UrcIncoming \/ Elapse \/ ElapseTimer \/ UNCHANGED vars
  BY <1>4, <1>7 DEF Request, Disconnect, UrcCreg, UrcCereg, UrcCgreg, Urc,
     UrcSimFailure, UrcIncoming, Elapse, ElapseTimer, vars
<1>8. CASE Detach \/ UrcPdpDeact \/ UrcPowerDown
  BY <1>1, <1>8 DEF Detach, UrcPdpDeact, UrcPowerDown
<1>9. CASE \E c \in {"none", "gsm", "lte"} : Coverage(c)
  BY <1>1, <1>9 DEF Coverage
<1> QED BY <1>6, <1>7, <1>8, <1>9 DEF Next

\* The comm task moves between its places as its state and its attempts allow.
LEMMA ControlStep == ASSUME ControlInv, [Next]_vars PROVE ControlInv'
<1>0. Repeat \in Nat \ {0} /\ Commands \subseteq
        {"ON", "OFF", "START", "RESET", "DEBUG"}
  BY ModemAssumption
<1>1. UNCHANGED <<state, command, comm, tries>> => ControlInv'
  BY DEF ControlInv, PhaseOK
<1>2. ASSUME NEW new \in States, Round(new), tries' \in 0 .. Repeat,
             tries' = 0, command' \in Commands \cup {"NONE"}
      PROVE  ControlInv'
  BY <1>2 DEF Round, ControlInv, PhaseOK
<1>3. ASSUME StartFail, tries > 0, command' = command PROVE ControlInv'
  <2>1. CASE tries > 1
    BY <1>0, <1>3, <2>1 DEF StartFail, ControlInv, PhaseOK
  <2>2. CASE ~(tries > 1)
    <3>1. tries' = 0 /\ Round("ERROR")
      BY <1>3, <2>2 DEF StartFail
    <3>2. "ERROR" \in States /\ tries' \in 0 .. Repeat
          /\ command' \in Commands \cup {"NONE"}
      BY <1>0, <1>3, <3>1 DEF States, ControlInv
    <3> QED BY <1>2, <3>1, <3>2
  <2> QED BY <2>1, <2>2
<1>4. /\ \A s \in {"OFF", "ON", "ERROR", "INIT", "NET_OK"} : s \in States
      /\ 0 \in 0 .. Repeat /\ state \in States /\ tries \in 0 .. Repeat
      /\ command \in Commands \cup {"NONE"}
      /\ comm \in {"main", "net", "check"} => tries = 0
  BY <1>0 DEF States, ControlInv, PhaseOK
<1>5. ASSUME NEW ok \in BOOLEAN, CommStep(ok) PROVE ControlInv'
  <2>1. CASE CommandExec(ok)
    <3>1. comm = "main" /\ tries = 0 /\ command' = "NONE"
      BY <1>4, <2>1 DEF CommandExec
    <3>2. CASE state' \in States /\ comm' = comm /\ tries' = tries
      BY <1>4, <3>1, <3>2 DEF ControlInv, PhaseOK
    <3>3. CASE state' = state /\ comm' = "ready" /\ tries' = Repeat
      BY <1>0, <1>4, <3>1, <3>3 DEF ControlInv, PhaseOK
    <3>4. "OFF" \in States /\ "ON" \in States /\ "DEBUG" \in States
      BY DEF States
    <3>5. \/ state' \in States /\ comm' = comm /\ tries' = tries
          \/ state' = state /\ comm' = "ready" /\ tries' = Repeat
      BY <1>4, <2>1, <3>4, Zenon DEF CommandExec
    <3> QED BY <3>2, <3>3, <3>5
  <2>2. CASE HwOn(ok) \/ HwOff(ok)
    BY <1>2, <1>4, <2>2 DEF HwOn, HwOff
  <2>3. CASE StartReady(ok)
    <3>1. CASE ok
      BY <2>3, <3>1 DEF StartReady, ControlInv, PhaseOK
    <3>2. CASE ~ok
      BY <1>2, <1>4, <2>3, <3>2 DEF StartReady
    <3> QED BY <3>1, <3>2
  <2>4. CASE StartSetup(ok) \/ StartTable(ok)
    <3>1. CASE ok
      BY <2>4, <3>1 DEF StartSetup, StartTable, ControlInv, PhaseOK
    <3>2. CASE ~ok
      <4>1. StartFail /\ tries > 0 /\ command' = command
        BY <2>4, <3>2 DEF StartSetup, StartTable, ControlInv, PhaseOK
      <4> QED BY <1>3, <4>1
    <3> QED BY <3>1, <3>2
  <2>5. CASE StartSim(ok)
    <3>1. CASE comm' = "config" /\ UNCHANGED <<state, tries, command>>
      BY <2>5, <3>1 DEF StartSim, ControlInv, PhaseOK
    <3>2. CASE tries' = 0 /\ Round("ERROR") /\ UNCHANGED command
      BY <1>2, <1>4, <3>2
    <3> QED BY <2>5, <3>1, <3>2 DEF StartSim
  <2>6. CASE StartInit(ok)
    BY <1>2, <1>4, <2>6 DEF StartInit
  <2>7. CASE InitState(ok)
    <3>1. tries' = 0 /\ command' = command
      BY <1>4, <2>7 DEF InitState
    <3>2. Round("NET_OK") \/ Round("INIT") \/ Round("ERROR")
      BY <2>7 DEF InitState
    <3> QED BY <1>2, <1>4, <3>1, <3>2
  <2>8. CASE Check(ok)
    <3>1. tries' = 0 /\ command' = command
      BY <1>4, <2>8 DEF Check
    <3>2. CASE Round("ERROR")
      BY <1>2, <1>4, <3>1, <3>2
    <3>3. CASE comm' = "net" /\ UNCHANGED state
      BY <2>8, <3>1, <3>3 DEF Check, ControlInv, PhaseOK
    <3> QED BY <2>8, <3>2, <3>3 DEF Check
  <2>9. CASE ApnInit(ok) \/ Attach(ok) \/ UdpInit(ok) \/ UdpSend(ok)
    BY <2>9 DEF ApnInit, Attach, UdpInit, UdpSend, ControlInv, PhaseOK
  <2> QED
    BY <1>5, <2>1, <2>2, <2>3, <2>4, <2>5, <2>6, <2>7, <2>8, <2>9
    DEF CommStep
<1>6. CASE Comm
  <2>1. CASE Idle
    BY <1>2, <1>4, <2>1 DEF Idle
  <2>2. CASE StartBegin
    BY <1>0, <2>2 DEF StartBegin, ControlInv, PhaseOK
  <2>3. CASE NetOkState
    <3>1. CASE comm' = "check" /\ UNCHANGED state
      BY <2>3, <3>1 DEF NetOkState, ControlInv, PhaseOK
    <3>2. CASE Round("INIT")
      BY <1>2, <1>4, <2>3, <3>2 DEF NetOkState
    <3> QED BY <2>3, <3>1, <3>2 DEF NetOkState
  <2>4. CASE NothingToSend \/ NetConnect \/ DataUp
    BY <2>4 DEF NothingToSend, NetConnect, DataUp, ControlInv, PhaseOK
  <2> QED BY <1>5, <1>6, <2>1, <2>2, <2>3, <2>4 DEF Comm
<1>7. CASE \E c \in Commands : Request(c)
  BY <1>7 DEF Request, ControlInv, PhaseOK
<1>8. CASE \/ Disconnect \/ Detach
           \/ UrcCreg \/ UrcCereg \/ UrcCgreg \/ UrcPdpDeact \/ UrcPowerDown
           \/ UrcSimFailure \/ UrcIncoming \/ Elapse \/ ElapseTimer
           \/ \E c \in {"none", "gsm", "lte"} : Coverage(c)
           \/ UNCHANGED vars
  <2>1. UNCHANGED <<state, command, comm, tries>>
    BY <1>8 DEF Disconnect, Detach, UrcCreg, UrcCereg, UrcCgreg, Urc,
       UrcPdpDeact, UrcPowerDown, UrcSimFailure, UrcIncoming, Elapse,
       ElapseTimer, Coverage, vars, code
  <2> QED BY <1>1, <2>1
<1> QED BY <1>6, <1>7, <1>8 DEF Next

\* All parts together.
ModemInv ==
  ControlInv /\ TimeInv /\ LinkInv /\ FlagsInv /\ CountInv /\ SimInv

\* All parts hold at the boot and are kept.
LEMMA ModemInvariant == Spec => []ModemInv
<1>1. ASSUME Init PROVE ModemInv
  <2>1. ControlInv
    BY <1>1, ModemAssumption DEF Init, ControlInv, PhaseOK, States
  <2>2. TimeInv /\ LinkInv /\ FlagsInv
    BY <1>1, Zenon DEF Init, TimeInv, LinkInv, FlagsInv, Flags
  <2>3. CountInv /\ SimInv
    BY <1>1, ModemAssumption DEF Init, CountInv, SimInv
  <2> QED BY <2>1, <2>2, <2>3 DEF ModemInv
<1>2. ModemInv /\ [Next]_vars => ModemInv'
  BY ControlStep, TimeStep, LinkStep, FlagsStep, CountStep, SimStep
  DEF ModemInv
<1> QED BY <1>1, <1>2, PTL DEF Spec

\* Type correctness of the connection, for all commands and limits: the error
\* counter of the start never passes its limit, and a PIN attempt is left.
THEOREM TypeCorrect == Spec => []TypeOK
<1>1. ModemInv => TypeOK
  BY ModemAssumption
  DEF ModemInv, ControlInv, TimeInv, LinkInv, FlagsInv, CountInv, SimInv, TypeOK
<1> QED BY <1>1, ModemInvariant, PTL

\* Whatever commands, notices and failures come: modem_check() and the users of
\* the network are called in NET_OK only, and modem_start() is under way exactly
\* while it has attempts left.
THEOREM PhaseSafety == Spec => []PhaseOK
<1>1. ModemInv => PhaseOK
  BY DEF ModemInv, ControlInv
<1> QED BY <1>1, ModemInvariant, PTL
=============================================================================
