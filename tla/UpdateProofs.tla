---------------------------- MODULE UpdateProofs ----------------------------
(***************************************************************************)
(* A new firmware from its download (Update) to its boot (Bootloader).     *)
(*                                                                         *)
(* The bootloader, for all images, sizes of flash and limits: neither      *)
(* CompleteRuns nor Recoverable is inductive.  What they need of main() is *)
(* that its local app_ok is current when it is looked at, and that the     *)
(* container is complete as long as it is programmed; what they need of    *)
(* the cache is that it is empty there, and that what it holds elsewhere   *)
(* is the work of an upload or is not needed.                              *)
(*                                                                         *)
(* The download, for an image of any size and any limits, with answers     *)
(* that are lost, late or doubled: the error counter stays within its      *)
(* bound, update_task() leaves only stored chunks behind and the unit is   *)
(* reset into the bootloader with a complete image, up to the chunks that  *)
(* were lost by a failed write or by an answer to another request.         *)
(***************************************************************************)
EXTENDS Bootloader, Update, TLAPS

Pcs == {"start", "flash", "program", "count", "bl", "app"}
Commands == {"none", "FLASH_RQ", "STAY_IN_BOOT", "REBOOT"}

FlashType ==
  /\ ext \in [ExtSectors -> Contents] /\ dirty \subseteq ExtSectors
  /\ int \in [IntSectors -> Contents]

ControlType ==
  /\ boot \in Commands /\ loop \in 0 .. LoopLimit
  /\ pc \in Pcs /\ i \in 0 .. MaxLength /\ inputs \in 0 .. MaxInputs

FlagType == user \in BOOLEAN /\ app_ok \in BOOLEAN /\ touched \in BOOLEAN

\* main_flash_app() programs a complete container, and not beyond its end.
ProgramInv ==
  pc = "program" => /\ ext_storage_check_fw(ext)
                    /\ i <= Length[ext[0]]

\* The local app_ok is current when main() decides what to run.
CountInv == pc = "count" => app_ok = main_app_ok(int)

\* The cache is empty while the bootloader boots; a loss of what it holds
\* later costs a container that is not needed, or that an upload had begun.
DirtyInv ==
  dirty # {} => pc \in {"bl", "app"} /\ (touched \/ main_app_ok(int))

Inv == ProgramInv /\ CountInv /\ CompleteRuns /\ DirtyInv /\ Recoverable

-----------------------------------------------------------------------------
(* Types *)

\* The three parts of TypeOK, which different steps disturb.
LEMMA TypeParts == TypeOK <=> FlashType /\ ControlType /\ FlagType
BY Zenon DEF TypeOK, FlashType, ControlType, FlagType, Pcs, Commands

\* main_app_ok() says yes or no.
LEMMA AppOkBool == \A f : main_app_ok(f) \in BOOLEAN
BY Zenon DEF main_app_ok

\* A unit as it is delivered is of the types.
LEMMA InitType == Init => TypeOK
<1> SUFFICES ASSUME Init PROVE FlashType /\ ControlType /\ FlagType
  BY TypeParts
<1>1. FlashType
  BY LengthAssumption
     DEF Init, FlashType, ExtSectors, IntSectors, Contents
<1>2. ControlType
  BY LengthAssumption, BoundsAssumption DEF Init, ControlType, Pcs, Commands
<1>3. FlagType
  BY Zenon DEF Init, FlagType
<1> QED
  BY <1>1, <1>2, <1>3

\* The flash contents keep their types.
LEMMA StepFlashType == TypeOK /\ [Next]_vars => FlashType'
<1> SUFFICES ASSUME FlashType, [Next]_vars PROVE FlashType'
  BY TypeParts
<1> USE DEF FlashType
<1>1. ASSUME UNCHANGED <<ext, dirty, int>> PROVE FlashType'
  BY <1>1
<1>2. ASSUME CacheLost \/ Flushed, UNCHANGED int PROVE FlashType'
  BY <1>2 DEF CacheLost, Flushed, ExtSectors, Contents
<1>3. ASSUME NEW s \in ExtSectors, NEW v \in Images,
             ext' = [ext EXCEPT ![s] = v], dirty' = dirty \cup {s},
             UNCHANGED int
      PROVE FlashType'
  BY <1>3 DEF Contents
<1>4. CASE main
  <2>1. CASE Program
    <3>1. int' \in [IntSectors -> Contents]
      <4>1. i + 1 \in ExtSectors \/ i \notin IntSectors
        BY LengthAssumption DEF ExtSectors, IntSectors
      <4>2. ext[i + 1] \in Contents \/ i \notin IntSectors
        BY <4>1
      <4>3. Junk \in Contents
        BY DEF Contents
      <4> QED
        BY <2>1, <4>2, <4>3 DEF Program
    <3> QED
      BY <2>1, <3>1 DEF Program
  <2> QED
    BY <1>4, <1>1, <2>1 DEF main, Start, FlashCheck, Programmed, Count
<1>5. CASE BlTimeout \/ BlCommand \/ AppReset
  BY <1>5, <1>2 DEF BlTimeout, BlCommand, AppReset
<1>6. CASE AppUp \/ storage_maintenance
  BY <1>6, <1>1, <1>2 DEF AppUp, storage_maintenance
<1>7. CASE \E s \in ExtSectors, v \in Images : Upload(s, v) \/ Download(s, v)
  BY <1>7, <1>3 DEF Upload, Download
<1>8. CASE PowerCut
  <2>1. ext' \in [ExtSectors -> Contents] /\ dirty' \subseteq ExtSectors
    BY <1>8 DEF PowerCut, CacheLost, ExtSectors, Contents
  <2>2. int' \in [IntSectors -> Contents]
    BY <1>8 DEF PowerCut, Contents
  <2> QED
    BY <2>1, <2>2
<1> QED
  BY <1>1, <1>4, <1>5, <1>6, <1>7, <1>8 DEF Next, vars

\* So do the program counter and the counters, which stay within limits.
LEMMA StepControlType ==
  TypeOK /\ ProgramInv /\ [Next]_vars => ControlType'
<1> SUFFICES ASSUME FlashType, ControlType, ProgramInv, [Next]_vars
             PROVE ControlType'
  BY TypeParts
<1> USE LengthAssumption, BoundsAssumption DEF ControlType, Pcs, Commands
<1>1. CASE UNCHANGED vars
  BY <1>1 DEF vars
<1>2. CASE Start
  BY <1>2 DEF Start
<1>3. CASE FlashCheck
  BY <1>3 DEF FlashCheck
<1>4. CASE Program
  <2>1. Length[ext[0]] \in 1 .. MaxLength
    <3>1. ext_storage_check_fw(ext)
      BY <1>4 DEF Program, ProgramInv
    <3> QED
      BY <3>1 DEF ext_storage_check_fw
  <2> QED
    BY <1>4, <2>1 DEF Program
<1>5. CASE Programmed
  BY <1>5 DEF Programmed
<1>6. CASE Count
  BY <1>6 DEF Count
<1>7. CASE BlTimeout \/ BlCommand \/ AppReset
  BY <1>7 DEF BlTimeout, BlCommand, AppReset, Input, UserReset, OtherReset
<1>8. CASE AppUp \/ storage_maintenance
  BY <1>8 DEF AppUp, storage_maintenance
<1>9. CASE \E s \in ExtSectors, v \in Images : Upload(s, v) \/ Download(s, v)
  BY <1>9 DEF Upload, Download, Input
<1>10. CASE PowerCut
  BY <1>10 DEF PowerCut, Input, OtherReset
<1> QED
  BY <1>1, <1>2, <1>3, <1>4, <1>5, <1>6, <1>7, <1>8, <1>9, <1>10
     DEF Next, main

\* So do the flags.
LEMMA StepFlagType == TypeOK /\ [Next]_vars => FlagType'
<1> SUFFICES ASSUME FlagType, [Next]_vars PROVE FlagType'
  BY TypeParts
<1> USE DEF FlagType
<1>1. CASE UNCHANGED vars
  BY <1>1, Zenon DEF vars
<1>2. CASE Start
  BY <1>2, AppOkBool, Zenon DEF Start
<1>3. CASE FlashCheck
  BY <1>3, AppOkBool, Zenon DEF FlashCheck
<1>4. CASE Program
  BY <1>4, Zenon DEF Program
<1>5. CASE Programmed
  BY <1>5, AppOkBool, Zenon DEF Programmed
<1>6. CASE Count
  BY <1>6, Zenon DEF Count
<1>7. CASE BlTimeout \/ BlCommand \/ AppReset
  BY <1>7, Zenon DEF BlTimeout, BlCommand, AppReset, UserReset, OtherReset
<1>8. CASE AppUp \/ storage_maintenance
  BY <1>8, Zenon DEF AppUp, storage_maintenance
<1>9. CASE \E s \in ExtSectors, v \in Images : Upload(s, v)
  BY <1>9, Zenon DEF Upload
<1>10. CASE \E s \in ExtSectors, v \in Images : Download(s, v)
  BY <1>10, Zenon DEF Download
<1>11. CASE PowerCut
  BY <1>11, Zenon DEF PowerCut, OtherReset
<1> QED
  BY <1>1, <1>2, <1>3, <1>4, <1>5, <1>6, <1>7, <1>8, <1>9, <1>10, <1>11,
     Zenon DEF Next, main

\* No step of the boot path leaves the types.
LEMMA StepType == TypeOK /\ ProgramInv /\ [Next]_vars => TypeOK'
<1>1. TypeOK' <=> FlashType' /\ ControlType' /\ FlagType'
  BY Zenon DEF TypeOK, FlashType, ControlType, FlagType, Pcs, Commands
<1> QED
  BY <1>1, StepFlashType, StepControlType, StepFlagType, Zenon

-----------------------------------------------------------------------------
(* The container, the application and the cache *)

\* A unit as it is delivered satisfies the invariant.
LEMMA InitInv == Init => Inv
<1> SUFFICES ASSUME Init PROVE Inv
  OBVIOUS
<1>1. pc = "start" /\ dirty = {}
  BY DEF Init
<1>2. main_app_ok(int)
  BY LengthAssumption DEF Init, main_app_ok, IntSectors
<1> QED
  BY <1>1, <1>2
     DEF Inv, ProgramInv, CountInv, CompleteRuns, DirtyInv, Recoverable

\* A cache that holds nothing loses nothing.
LEMMA NothingLost ==
  ASSUME TypeOK, dirty = {}, CacheLost \/ Flushed
  PROVE  ext' = ext
BY TypeParts DEF CacheLost, Flushed, FlashType

\* Steps that leave both flashes, the cache and the history as they are.
LEMMA ControlStep ==
  ASSUME Inv, UNCHANGED <<ext, dirty, int, touched>>,
         pc' \in {"bl", "app"} \/ dirty = {},
         ProgramInv', CountInv', CompleteRuns'
  PROVE  Inv'
<1>1. main_app_ok(int)' = main_app_ok(int)
  BY Zenon DEF main_app_ok
<1>2. ext_storage_check_fw(ext)' = ext_storage_check_fw(ext)
  BY Zenon DEF ext_storage_check_fw
<1>3. DirtyInv'
  BY <1>1, Zenon DEF Inv, DirtyInv
<1>4. Recoverable'
  BY <1>1, <1>2, Zenon DEF Inv, Recoverable
<1> QED
  BY <1>3, <1>4, Zenon DEF Inv

\* A reset, with or without a loss of the cache.
LEMMA ResetStep ==
  ASSUME TypeOK, Inv, CacheLost \/ Flushed, UNCHANGED <<int, touched>>,
         pc' = "start"
  PROVE  Inv'
<1>1. main_app_ok(int)' = main_app_ok(int)
  BY Zenon DEF main_app_ok
<1>2. dirty' = {}
  BY Zenon DEF CacheLost, Flushed
<1>3. Recoverable'
  <2>1. CASE dirty = {}
    <3>1. ext' = ext
      BY <2>1, NothingLost
    <3>2. ext_storage_check_fw(ext)' = ext_storage_check_fw(ext)
      BY <3>1, Zenon DEF ext_storage_check_fw
    <3> QED
      BY <1>1, <3>2, Zenon DEF Inv, Recoverable
  <2>2. CASE dirty # {}
    BY <2>2, <1>1, Zenon DEF Inv, DirtyInv, Recoverable
  <2> QED
    BY <2>1, <2>2
<1>4. ProgramInv' /\ CountInv' /\ CompleteRuns'
  BY DEF ProgramInv, CountInv, CompleteRuns
<1> QED
  BY <1>2, <1>3, <1>4, Zenon DEF Inv, DirtyInv

\* Every step of the boot path, power cuts included, keeps the invariant.
LEMMA StepInv == TypeOK /\ Inv /\ [Next]_vars => Inv'
<1> SUFFICES ASSUME TypeOK, Inv, [Next]_vars PROVE Inv'
  OBVIOUS
<1>0. dirty = {} \/ pc \in {"bl", "app"}
  BY Zenon DEF Inv, DirtyInv
<1>1. CASE UNCHANGED vars
  BY <1>1, Zenon DEF vars, Inv, ProgramInv, CountInv, CompleteRuns,
     DirtyInv, Recoverable, main_app_ok, ext_storage_check_fw
<1>2. CASE Start
  <2>1. dirty = {}
    BY <1>2, <1>0 DEF Start
  <2>2. app_ok' = main_app_ok(int)'
    BY <1>2, Zenon DEF Start, main_app_ok
  <2>3. pc' \in {"bl", "flash", "count"}
    BY <1>2 DEF Start
  <2>4. ProgramInv' /\ CountInv' /\ CompleteRuns'
    BY <2>2, <2>3 DEF ProgramInv, CountInv, CompleteRuns
  <2> QED
    BY <1>2, <2>1, <2>4, ControlStep, Zenon DEF Start
<1>3. CASE FlashCheck
  <2>1. dirty = {}
    BY <1>3, <1>0 DEF FlashCheck
  <2>2. ProgramInv'
    <3>1. pc' = "program" => ext_storage_check_fw(ext) /\ i' = 0 /\ ext' = ext
      BY <1>3 DEF FlashCheck
    <3>2. ext_storage_check_fw(ext) => 0 <= Length[ext[0]]
      BY LengthAssumption DEF ext_storage_check_fw
    <3> QED
      BY <3>1, <3>2 DEF ProgramInv, ext_storage_check_fw
  <2>3. CountInv'
    BY <1>3 DEF FlashCheck, CountInv, main_app_ok
  <2>4. CompleteRuns'
    BY <1>3 DEF FlashCheck, CompleteRuns
  <2> QED
    BY <1>3, <2>1, <2>2, <2>3, <2>4, ControlStep, Zenon DEF FlashCheck
<1>4. CASE Program
  <2>1. dirty = {} /\ dirty' = {}
    BY <1>4, <1>0 DEF Program
  <2>2. ext_storage_check_fw(ext) /\ ext_storage_check_fw(ext)'
    BY <1>4 DEF Inv, ProgramInv, Program, ext_storage_check_fw
  <2>3. i' <= Length[ext'[0]]
    BY <1>4, <2>2, TypeParts, LengthAssumption
       DEF Program, ControlType, ext_storage_check_fw
  <2>4. pc' = "program"
    BY <1>4 DEF Program
  <2> QED
    BY <2>1, <2>2, <2>3, <2>4
       DEF Inv, ProgramInv, CountInv, CompleteRuns, DirtyInv, Recoverable
<1>5. CASE Programmed
  <2>1. dirty = {}
    BY <1>5, <1>0 DEF Programmed
  <2>2. app_ok' = main_app_ok(int)'
    BY <1>5, Zenon DEF Programmed, main_app_ok
  <2>3. ProgramInv' /\ CountInv' /\ CompleteRuns'
    BY <1>5, <2>2 DEF Programmed, ProgramInv, CountInv, CompleteRuns
  <2> QED
    BY <1>5, <2>1, <2>3, ControlStep, Zenon DEF Programmed
<1>6. CASE Count
  <2>1. dirty = {}
    BY <1>6, <1>0 DEF Count
  <2>2. app_ok = main_app_ok(int)
    BY <1>6, Zenon DEF Count, Inv, CountInv
  <2>3. pc' = "app" => app_ok
    BY <1>6, Zenon DEF Count
  <2>4. CompleteRuns'
    BY <1>6, <2>2, <2>3, Zenon DEF Count, CompleteRuns, main_app_ok
  <2>5. ProgramInv' /\ CountInv'
    BY <1>6 DEF Count, ProgramInv, CountInv
  <2> QED
    BY <1>6, <2>1, <2>4, <2>5, ControlStep, Zenon DEF Count
<1>7. CASE BlTimeout \/ BlCommand \/ AppReset
  <2>1. CASE pc' = "start"
    BY <1>7, <2>1, ResetStep, Zenon DEF BlTimeout, BlCommand, AppReset
  <2>2. CASE BlCommand /\ pc' # "start"
    <3>1. /\ UNCHANGED <<ext, int, touched, pc, app_ok>>
          /\ dirty' = {} /\ pc = "bl"
      BY <2>2 DEF BlCommand, UserReset, OtherReset, Flushed
    <3> QED
      BY <3>1 DEF Inv, ProgramInv, CountInv, CompleteRuns, DirtyInv,
         Recoverable, main_app_ok, ext_storage_check_fw
  <2> QED
    BY <1>7, <2>1, <2>2 DEF BlTimeout, AppReset, UserReset, OtherReset
<1>8. CASE AppUp \/ storage_maintenance
  <2>1. UNCHANGED <<ext, int, touched, pc>> /\ pc = "app"
        /\ (dirty' = dirty \/ dirty' = {})
    BY <1>8, Zenon DEF AppUp, storage_maintenance, Flushed
  <2> QED
    BY <2>1, Zenon DEF Inv, ProgramInv, CountInv, CompleteRuns, DirtyInv,
       Recoverable, main_app_ok, ext_storage_check_fw
<1>9. CASE \E s \in ExtSectors, v \in Images : Upload(s, v)
  <2>1. pc = "bl" /\ pc' = "bl" /\ int' = int
        /\ touched' = (touched \/ ~main_app_ok(int))
    BY <1>9, Zenon DEF Upload
  <2>2. touched' \/ main_app_ok(int)'
    BY <2>1, Zenon DEF main_app_ok
  <2>3. ProgramInv' /\ CountInv' /\ CompleteRuns'
    BY <2>1 DEF ProgramInv, CountInv, CompleteRuns
  <2> QED
    BY <2>1, <2>2, <2>3, Zenon DEF Inv, DirtyInv, Recoverable
<1>10. CASE \E s \in ExtSectors, v \in Images : Download(s, v)
  <2>1. pc = "app" /\ pc' = "app" /\ int' = int
    BY <1>10, Zenon DEF Download
  <2>2. main_app_ok(int) /\ main_app_ok(int)'
    BY <2>1, Zenon DEF Inv, CompleteRuns, main_app_ok
  <2>3. ProgramInv' /\ CountInv' /\ CompleteRuns'
    BY <2>1, <2>2 DEF ProgramInv, CountInv, CompleteRuns
  <2> QED
    BY <2>1, <2>2, <2>3, Zenon DEF Inv, DirtyInv, Recoverable
<1>11. CASE PowerCut
  <2>1. CacheLost /\ pc' = "start" /\ touched' = touched
    BY <1>11, Zenon DEF PowerCut, OtherReset
  <2>2. CASE int' = int
    BY <2>1, <2>2, ResetStep, Zenon
  <2>3. CASE pc = "program"
    <3>1. dirty = {} /\ dirty' = {} /\ ext' = ext
      BY <2>1, <2>3, <1>0, NothingLost DEF CacheLost
    <3>2. ext_storage_check_fw(ext)'
      BY <2>3, <3>1 DEF Inv, ProgramInv, ext_storage_check_fw
    <3> QED
      BY <2>1, <3>1, <3>2
         DEF Inv, ProgramInv, CountInv, CompleteRuns, DirtyInv, Recoverable
  <2> QED
    BY <1>11, <2>2, <2>3, Zenon DEF PowerCut
<1> QED
  BY <1>1, <1>2, <1>3, <1>4, <1>5, <1>6, <1>7, <1>8, <1>9, <1>10, <1>11,
     Zenon DEF Next, main

-----------------------------------------------------------------------------
\* Type correctness, for all images, flash sizes and limits: the boot loop
\* counter stays within its limit and no sector beyond internal flash is
\* programmed.
THEOREM TypeCorrect == Spec => []TypeOK
<1>1. TypeOK /\ Inv /\ [Next]_vars => TypeOK' /\ Inv'
  BY StepType, StepInv DEF Inv
<1> QED
  BY <1>1, InitType, InitInv, PTL DEF Spec

\* Whenever the bootloader jumps into the application it is complete, and as
\* long as nobody uploads into a unit without an application, the unit holds
\* a complete application or the complete container to program it from,
\* whatever power cuts, torn sectors, lost caches and failed reads there are.
THEOREM BootSafety == Spec => [](CompleteRuns /\ Recoverable)
<1>1. TypeOK /\ Inv /\ [Next]_vars => TypeOK' /\ Inv'
  BY StepType, StepInv DEF Inv
<1>2. Inv => CompleteRuns /\ Recoverable
  BY DEF Inv
<1> QED
  BY <1>1, <1>2, InitType, InitInv, PTL DEF Spec

\* The bootloader's main() jumps into complete applications only, whatever
\* is torn, lost or misread on the way.
THEOREM RunSafety == Spec => []CompleteRuns
BY BootSafety, PTL

-----------------------------------------------------------------------------
(* The download *)

USE ChunksAssumption, LimitsAssumption

\* How far the error counter is from the limit, at each point of update_task().
ErrInv ==
  /\ tpc # "idle" => err <= ErrLimit
  /\ rq /\ tpc # "idle" => err < ErrLimit
  /\ rq /\ tpc = "idle" => err <= ErrLimit

\* Three groups of the type invariant.
FlagsOK ==
  /\ rq \in BOOLEAN /\ ack \in BOOLEAN /\ flashing \in BOOLEAN
  /\ other \in BOOLEAN /\ own \in BOOLEAN
WordsOK ==
  /\ ip \in {"zero", "known"}
  /\ tpc \in {"idle", "req", "chunk"} /\ rx \in {"idle", "write"}
DataOK ==
  /\ phase \in Nat /\ err \in Nat
  /\ rxid \in ChunkIds
  /\ net \in [Answers -> 0 .. MaxCopies]
  /\ fw \subseteq ChunkIds /\ failed \subseteq ChunkIds
  /\ foreign \subseteq ChunkIds

TypeInv == FlagsOK /\ WordsOK /\ DataOK /\ err \in 0 .. ErrLimit + 1 /\ ErrInv

\* A datagram that is taken is one copy less.
LEMMA TakenType ==
  ASSUME net \in [Answers -> 0 .. MaxCopies], NEW a \in Answers, net[a] > 0,
         Taken(a)
  PROVE  net' \in [Answers -> 0 .. MaxCopies]
BY DEF Taken

\* A chunk is an answer of the server.
LEMMA AnswerChunk ==
  ASSUME NEW k \in ChunkIds
  PROVE  CHUNK(k) \in Answers
BY DEF Answers

\* What a call of update_task() that gets past the timer does to the request.
LEMMA RunFacts ==
  ASSUME Run
  PROVE  /\ tpc = "idle" /\ rq
         /\ rq' \in BOOLEAN
         /\ rq' => err < ErrLimit
<1>1. tpc = "idle" /\ rq /\ rq' = (err < ErrLimit)
  BY Zenon DEF Run, UnderLimit
<1>2. (err < ErrLimit) \in BOOLEAN
  BY SMT
<1>3. rq' \in BOOLEAN
  BY <1>1, <1>2, Zenon
<1>4. rq' => err < ErrLimit
  BY <1>1, Zenon
<1> QED
  BY <1>1, <1>3, <1>4, Zenon

\* The flags keep their types.
LEMMA FlagsStep ==
  ASSUME FlagsOK, [UpdateNext]_update_vars
  PROVE  FlagsOK'
<1>0. /\ (rx = "idle") \in BOOLEAN
      /\ (tpc = "chunk") \in BOOLEAN
      /\ (other \/ (tpc = "chunk" /\ rxid + 1 # phase)) \in BOOLEAN
  BY Zenon
<1>1. CASE update_start
  BY <1>0, <1>1, Zenon DEF update_start, FlagsOK
<1>2. CASE Offline \/ Unresolved \/ Send \/ SendFails
  BY <1>2, RunFacts, Zenon
  DEF Offline, Unresolved, Send, SendFails, FlagsOK, history
<1>3. CASE Acked \/ Timeout
  BY <1>3, Zenon DEF Acked, Timeout, FlagsOK
<1>4. ASSUME NEW a \in Answers, RxDrop(a) \/ RxResult(a) PROVE FlagsOK'
  BY <1>0, <1>4, Zenon DEF RxDrop, RxResult, FlagsOK, history
<1>5. ASSUME NEW k \in ChunkIds, RxChunk(k) PROVE FlagsOK'
  BY <1>5, Zenon DEF RxChunk, FlagsOK
<1>6. CASE RxStored
  BY <1>0, <1>6, Zenon DEF RxStored, FlagsOK
<1>7. CASE RxDone \/ Reboot
  BY <1>7, Zenon DEF RxDone, Reboot, FlagsOK
<1>8. CASE UNCHANGED update_vars
  BY <1>8, Zenon DEF update_vars, history, FlagsOK
<1> QED
  BY <1>1, <1>2, <1>3, <1>4, <1>5, <1>6, <1>7, <1>8, Zenon
  DEF UpdateNext, update_task, update_packet_rx

\* The states keep their types.
LEMMA WordsStep ==
  ASSUME WordsOK, [UpdateNext]_update_vars
  PROVE  WordsOK'
<1>1. CASE update_start
  BY <1>1 DEF update_start, WordsOK
<1>2. CASE Offline \/ Unresolved \/ Send \/ SendFails
  BY <1>2 DEF Offline, Unresolved, Send, SendFails, WordsOK
<1>3. CASE Acked \/ Timeout
  BY <1>3 DEF Acked, Timeout, WordsOK
<1>4. ASSUME NEW a \in Answers, RxDrop(a) \/ RxResult(a) PROVE WordsOK'
  BY <1>4 DEF RxDrop, RxResult, WordsOK
<1>5. ASSUME NEW k \in ChunkIds, RxChunk(k) PROVE WordsOK'
  BY <1>5 DEF RxChunk, WordsOK
<1>6. CASE RxStored \/ RxDone \/ Reboot
  BY <1>6 DEF RxStored, RxDone, Reboot, WordsOK
<1>7. CASE UNCHANGED update_vars
  BY <1>7 DEF update_vars, WordsOK
<1> QED
  BY <1>1, <1>2, <1>3, <1>4, <1>5, <1>6, <1>7, Zenon
  DEF UpdateNext, update_task, update_packet_rx

\* The numbers and the sets of chunks keep their types.
LEMMA DataStep ==
  ASSUME DataOK, [UpdateNext]_update_vars
  PROVE  DataOK'
<1>1. CASE update_start
  BY <1>1 DEF update_start, DataOK
<1>2. CASE Offline \/ Unresolved \/ SendFails
  BY <1>2 DEF Offline, Unresolved, SendFails, DataOK, history
<1>3. CASE Send
  <2>1. UNCHANGED <<phase, err, rxid, fw, failed, foreign>>
    BY <1>3, Zenon DEF Send, history
  <2>2. CASE UNCHANGED net
    BY <2>1, <2>2 DEF DataOK
  <2>3. ASSUME NEW a \in Reply, NEW n \in 1 .. MaxCopies - net[a],
               net' = [net EXCEPT ![a] = @ + n]
        PROVE  DataOK'
    <3>1. a \in Answers
      BY DEF Reply, Answers
    <3>2. net[a] + n \in 0 .. MaxCopies
      BY <3>1 DEF DataOK
    <3> QED BY <2>1, <2>3, <3>1, <3>2 DEF DataOK
  <2> QED BY <1>3, <2>2, <2>3, Zenon DEF Send
<1>4. CASE Acked \/ Timeout
  BY <1>4 DEF Acked, Timeout, DataOK
<1>5. ASSUME NEW a \in Answers, RxDrop(a) \/ RxResult(a) PROVE DataOK'
  <2>1. net' \in [Answers -> 0 .. MaxCopies]
    BY <1>5, TakenType, Zenon DEF RxDrop, RxResult, DataOK
  <2>2. UNCHANGED <<phase, err, rxid, fw, failed, foreign>>
    BY <1>5, Zenon DEF RxDrop, RxResult, history
  <2> QED BY <2>1, <2>2 DEF DataOK
<1>6. ASSUME NEW k \in ChunkIds, RxChunk(k) PROVE DataOK'
  <2>1. net' \in [Answers -> 0 .. MaxCopies]
    BY <1>6, TakenType, AnswerChunk, Zenon DEF RxChunk, DataOK
  <2>2. UNCHANGED <<phase, err, fw, failed, foreign>> /\ rxid' = k
    BY <1>6, Zenon DEF RxChunk
  <2> QED BY <1>6, <2>1, <2>2 DEF DataOK
<1>7. CASE RxStored \/ RxDone
  <2>1. Store /\ rxid' = 0 /\ UNCHANGED <<phase, err, net, foreign>>
    BY <1>7, Zenon DEF RxStored, RxDone
  <2>2. fw' \subseteq ChunkIds /\ failed' \subseteq ChunkIds
    BY <2>1 DEF Store, DataOK
  <2>3. 0 \in ChunkIds
    BY DEF ChunkIds
  <2> QED BY <2>1, <2>2, <2>3 DEF DataOK
<1>8. CASE Reboot
  BY <1>8 DEF Reboot, DataOK, ChunkIds
<1>9. CASE UNCHANGED update_vars
  BY <1>9 DEF update_vars, history, DataOK
<1> QED
  BY <1>1, <1>2, <1>3, <1>4, <1>5, <1>6, <1>7, <1>8, <1>9, Zenon
  DEF UpdateNext, update_task, update_packet_rx

\* _err_cnt passes _ERR_LIMIT by one at most.
LEMMA ErrStep ==
  ASSUME DataOK, err \in 0 .. ErrLimit + 1, ErrInv, [UpdateNext]_update_vars
  PROVE  err' \in 0 .. ErrLimit + 1 /\ ErrInv'
<1>0. err \in Nat
  BY DEF DataOK
<1>1. CASE update_start
  BY <1>1 DEF update_start, ErrInv
<1>2. CASE Offline
  <2>1. UNCHANGED <<tpc, err>>
    BY <1>2, Zenon DEF Offline
  <2>2. tpc = "idle" /\ rq /\ (rq' => err < ErrLimit)
    BY <1>2, RunFacts, Zenon DEF Offline
  <2> QED BY <1>0, <2>1, <2>2 DEF ErrInv
<1>3. CASE Unresolved \/ SendFails
  <2>1. UNCHANGED tpc /\ err' = err + 1
    BY <1>3, Zenon DEF Unresolved, SendFails
  <2>2. tpc = "idle" /\ rq /\ (rq' => err < ErrLimit)
    BY <1>3, RunFacts, Zenon DEF Unresolved, SendFails
  <2> QED BY <1>0, <2>1, <2>2 DEF ErrInv
<1>4. CASE Send
  <2>1. UNCHANGED err /\ tpc' = IF phase = 0 THEN "req" ELSE "chunk"
    BY <1>4, Zenon DEF Send
  <2>2. tpc = "idle" /\ rq /\ (rq' => err < ErrLimit)
    BY <1>4, RunFacts, Zenon DEF Send
  <2> QED BY <1>0, <2>1, <2>2 DEF ErrInv
<1>5. CASE Acked \/ Timeout
  BY <1>0, <1>5 DEF Acked, Timeout, ErrInv
<1>6. ASSUME UNCHANGED <<tpc, err>>, rq \/ ~rq' \/ rq' = rq
      PROVE  err' \in 0 .. ErrLimit + 1 /\ ErrInv'
  BY <1>6 DEF ErrInv
<1>7. ASSUME NEW a \in Answers, RxDrop(a) \/ RxResult(a)
      PROVE  UNCHANGED <<tpc, err>> /\ (rq \/ ~rq' \/ rq' = rq)
  BY <1>7, Zenon DEF RxDrop, RxResult
<1>8. ASSUME NEW k \in ChunkIds, RxChunk(k)
      PROVE  UNCHANGED <<tpc, err>> /\ (rq \/ ~rq' \/ rq' = rq)
  BY <1>8, Zenon DEF RxChunk
<1>9. ASSUME RxStored \/ RxDone \/ UNCHANGED update_vars
      PROVE  UNCHANGED <<tpc, err>> /\ (rq \/ ~rq' \/ rq' = rq)
  BY <1>9, Zenon DEF RxStored, RxDone, update_vars
<1>10. CASE Reboot
  BY <1>10 DEF Reboot, ErrInv
<1> QED
  BY <1>1, <1>2, <1>3, <1>4, <1>5, <1>6, <1>7, <1>8, <1>9, <1>10, Zenon
  DEF UpdateNext, update_task, update_packet_rx

\* The types hold before a download.
LEMMA UpdateInitType == UpdateInit => TypeInv
<1>1. UpdateInit => FlagsOK
  BY Zenon DEF UpdateInit, FlagsOK
<1>2. UpdateInit => WordsOK /\ DataOK /\ err \in 0 .. ErrLimit + 1
  BY DEF UpdateInit, WordsOK, DataOK, ChunkIds
<1>3. UpdateInit => ErrInv
  BY DEF UpdateInit, ErrInv
<1> QED BY <1>1, <1>2, <1>3, Zenon DEF TypeInv

\* No step of the download leaves the types.
LEMMA TypeStep ==
  ASSUME TypeInv, [UpdateNext]_update_vars
  PROVE  TypeInv'
<1>1. FlagsOK' /\ WordsOK' /\ DataOK'
  BY FlagsStep, WordsStep, DataStep, Zenon DEF TypeInv
<1>2. err' \in 0 .. ErrLimit + 1 /\ ErrInv'
  BY ErrStep, Zenon DEF TypeInv
<1> QED
  BY <1>1, <1>2, Zenon DEF TypeInv

\* update_task() gives up in time: _err_cnt never runs past _ERR_LIMIT + 1,
\* and every variable keeps its type.
THEOREM DownloadTypeCorrect == UpdateSpec => []UpdateTypeOK
<1>1. UpdateInit => TypeInv
  BY UpdateInitType
<1>2. TypeInv /\ [UpdateNext]_update_vars => TypeInv'
  BY TypeStep
<1>3. TypeInv => UpdateTypeOK
  BY Zenon DEF TypeInv, FlagsOK, WordsOK, DataOK, UpdateTypeOK
<1> QED
  BY <1>1, <1>2, <1>3, PTL DEF UpdateSpec

-----------------------------------------------------------------------------
\* What the flag means: unless it was raised by an answer to another request,
\* the chunk that update_task() waits for was stored or its write failed.
AckOwn ==
  tpc # "idle" /\ ack /\ ~other =>
    \A k \in ChunkIds : k + 1 = phase => k \in fw \cup failed

\* The request for an update is the one of phase 0, and a chunk of this
\* session is not written before update_task() has asked for it.
PhaseInv ==
  /\ tpc = "req" => phase = 0
  /\ rx = "write" /\ own => rxid + 1 <= phase

StoreInv == AckOwn /\ PhaseInv /\ AckMeansStored /\ ImageComplete

\* A chunk stays stored, or its write has failed.
LEMMA StoreGrows ==
  ASSUME Store
  PROVE  fw' \cup failed' = fw \cup failed \cup {rxid}
BY DEF Store

\* The flag that ends a wait means what it says.
LEMMA AckOwnStep ==
  ASSUME FlagsOK, WordsOK, DataOK, PhaseInv, AckOwn, [UpdateNext]_update_vars
  PROVE  AckOwn'
<1>1. ASSUME UNCHANGED <<ack, other, phase, tpc, fw, failed>> PROVE AckOwn'
  BY <1>1 DEF AckOwn
<1>2. ASSUME ~ack' \/ tpc' = "idle" PROVE AckOwn'
  BY <1>2 DEF AckOwn
<1>3. CASE update_start
  <2>1. phase' = 0
    BY <1>3, Zenon DEF update_start
  <2> QED BY <2>1 DEF AckOwn, ChunkIds
<1>4. CASE Offline \/ Unresolved
  BY <1>1, <1>4, Zenon DEF Offline, Unresolved, history
<1>5. CASE Send \/ SendFails \/ Acked \/ Timeout
  BY <1>2, <1>5, Zenon DEF Send, SendFails, Acked, Timeout
<1>6. ASSUME NEW a \in Answers, RxDrop(a) PROVE AckOwn'
  BY <1>1, <1>6, Zenon DEF RxDrop, history
<1>7. ASSUME NEW a \in Answers, RxResult(a) PROVE AckOwn'
  <2>1. UNCHANGED <<tpc, phase>> /\ other' = (tpc = "chunk")
    BY <1>7, Zenon DEF RxResult
  <2>2. CASE tpc = "chunk"
    BY <2>1, <2>2, Zenon DEF AckOwn
  <2>3. CASE tpc # "chunk"
    BY <2>1, <2>3 DEF AckOwn, PhaseInv, WordsOK, ChunkIds
  <2> QED BY <2>2, <2>3
<1>8. ASSUME NEW k \in ChunkIds, RxChunk(k) PROVE AckOwn'
  BY <1>1, <1>8, Zenon DEF RxChunk
<1>9. CASE RxStored
  <2>1. /\ UNCHANGED <<tpc, phase>> /\ Store
        /\ other' = (other \/ (tpc = "chunk" /\ rxid + 1 # phase))
    BY <1>9, Zenon DEF RxStored
  <2>2. rxid \in fw' \cup failed'
    BY <2>1, StoreGrows
  <2>3. CASE tpc = "chunk" /\ rxid + 1 # phase
    BY <2>1, <2>3, Zenon DEF AckOwn
  <2>4. CASE rxid + 1 = phase
    <3>1. \A k \in ChunkIds : k + 1 = phase => k = rxid
      BY <2>4 DEF DataOK, ChunkIds
    <3> QED BY <2>1, <2>2, <3>1, Zenon DEF AckOwn
  <2>5. CASE tpc = "req"
    BY <2>1, <2>5 DEF AckOwn, PhaseInv, ChunkIds
  <2>6. CASE tpc = "idle"
    BY <1>2, <2>1, <2>6, Zenon
  <2> QED BY <2>3, <2>4, <2>5, <2>6 DEF WordsOK
<1>10. CASE RxDone
  <2>1. UNCHANGED <<ack, other, phase, tpc>> /\ Store
    BY <1>10, Zenon DEF RxDone
  <2>2. fw \cup failed \subseteq fw' \cup failed'
    BY <2>1, StoreGrows
  <2> QED BY <2>1, <2>2 DEF AckOwn
<1>11. CASE Reboot
  BY <1>2, <1>11, Zenon DEF Reboot
<1>12. CASE UNCHANGED update_vars
  BY <1>1, <1>12, Zenon DEF update_vars, history
<1> QED
  BY <1>3, <1>4, <1>5, <1>6, <1>7, <1>8, <1>9, <1>10, <1>11, <1>12, Zenon
  DEF UpdateNext, update_task, update_packet_rx

\* Phases go forward within a session.
LEMMA PhaseStep ==
  ASSUME WordsOK, DataOK, PhaseInv, [UpdateNext]_update_vars
  PROVE  PhaseInv'
<1>1. ASSUME UNCHANGED <<phase, rx, rxid, own>>, tpc' \in {"idle", tpc}
      PROVE PhaseInv'
  BY <1>1 DEF PhaseInv
<1>2. CASE update_start
  <2>1. /\ phase' = 0 /\ UNCHANGED <<tpc, rx, rxid>>
        /\ own' = (rx = "idle")
    BY <1>2, Zenon DEF update_start
  <2>2. ~(rx' = "write" /\ own')
    BY <2>1
  <2> QED BY <2>1, <2>2 DEF PhaseInv
<1>3. CASE Offline \/ Unresolved \/ SendFails \/ Timeout
  BY <1>1, <1>3, Zenon DEF Offline, Unresolved, SendFails, Timeout, history
<1>4. CASE Send
  <2>1. UNCHANGED <<phase, rx, rxid, own>>
    BY <1>4, Zenon DEF Send, history
  <2>2. tpc' = IF phase = 0 THEN "req" ELSE "chunk"
    BY <1>4, Zenon DEF Send
  <2> QED BY <2>1, <2>2 DEF PhaseInv
<1>5. CASE Acked
  <2>1. UNCHANGED <<rx, rxid, own>> /\ tpc' = "idle" /\ phase' = phase + 1
    BY <1>5, Zenon DEF Acked
  <2> QED BY <2>1 DEF PhaseInv, DataOK, ChunkIds
<1>6. ASSUME NEW a \in Answers, RxDrop(a) \/ RxResult(a) PROVE PhaseInv'
  BY <1>1, <1>6, Zenon DEF RxDrop, RxResult, history
<1>7. ASSUME NEW k \in ChunkIds, RxChunk(k) PROVE PhaseInv'
  <2>1. k + 1 = phase /\ rxid' = k /\ UNCHANGED <<phase, tpc>>
    BY <1>7, Zenon DEF RxChunk
  <2> QED BY <2>1 DEF PhaseInv, DataOK, ChunkIds
<1>8. CASE RxStored \/ RxDone
  <2>1. rx' = "idle" /\ UNCHANGED <<phase, tpc>>
    BY <1>8, Zenon DEF RxStored, RxDone
  <2> QED BY <2>1 DEF PhaseInv
<1>9. CASE Reboot
  BY <1>9 DEF Reboot, PhaseInv
<1>10. CASE UNCHANGED update_vars
  BY <1>1, <1>10, Zenon DEF update_vars, history
<1> QED
  BY <1>2, <1>3, <1>4, <1>5, <1>6, <1>7, <1>8, <1>9, <1>10, Zenon
  DEF UpdateNext, update_task, update_packet_rx

\* update_task() goes past no chunk without a reason.
LEMMA AckMeansStoredStep ==
  ASSUME FlagsOK, WordsOK, DataOK, AckOwn, AckMeansStored,
         [UpdateNext]_update_vars
  PROVE  AckMeansStored'
<1>1. ASSUME UNCHANGED <<phase, fw, failed, foreign>> PROVE AckMeansStored'
  BY <1>1 DEF AckMeansStored
<1>2. CASE update_start \/ Reboot
  <2>1. phase' = 0
    BY <1>2, Zenon DEF update_start, Reboot
  <2> QED BY <2>1 DEF AckMeansStored, ChunkIds
<1>3. CASE Offline \/ Unresolved \/ Send \/ SendFails \/ Timeout
  BY <1>1, <1>3, Zenon
  DEF Offline, Unresolved, Send, SendFails, Timeout, history
<1>4. CASE Acked
  <2>1. /\ ack /\ tpc # "idle" /\ phase' = phase + 1
        /\ UNCHANGED <<fw, failed>>
        /\ foreign' = IF other
                        THEN foreign \cup {k \in ChunkIds : k + 1 = phase}
                        ELSE foreign
    BY <1>4, Zenon DEF Acked
  <2>2. \A k \in ChunkIds : k + 1 < phase' => k + 1 < phase \/ k + 1 = phase
    BY <2>1 DEF DataOK, ChunkIds
  <2>3. \A k \in ChunkIds :
          k + 1 = phase => k \in fw' \cup failed' \cup foreign'
    <3>1. CASE other
      BY <2>1, <3>1
    <3>2. CASE ~other
      BY <2>1, <3>2 DEF AckOwn
    <3> QED BY <3>1, <3>2
  <2>4. foreign \subseteq foreign'
    BY <2>1
  <2> QED BY <2>1, <2>2, <2>3, <2>4 DEF AckMeansStored
<1>5. ASSUME NEW a \in Answers, RxDrop(a) \/ RxResult(a) PROVE AckMeansStored'
  BY <1>1, <1>5, Zenon DEF RxDrop, RxResult, history
<1>6. ASSUME NEW k \in ChunkIds, RxChunk(k) PROVE AckMeansStored'
  BY <1>1, <1>6, Zenon DEF RxChunk
<1>7. CASE RxStored \/ RxDone
  <2>1. UNCHANGED <<phase, foreign>> /\ Store
    BY <1>7, Zenon DEF RxStored, RxDone
  <2>2. fw \cup failed \subseteq fw' \cup failed'
    BY <2>1, StoreGrows
  <2> QED BY <2>1, <2>2 DEF AckMeansStored
<1>8. CASE UNCHANGED update_vars
  BY <1>1, <1>8, Zenon DEF update_vars, history
<1> QED
  BY <1>2, <1>3, <1>4, <1>5, <1>6, <1>7, <1>8, Zenon
  DEF UpdateNext, update_task, update_packet_rx

\* main_flash() is called when the session has come to the last chunk.
LEMMA ImageCompleteStep ==
  ASSUME FlagsOK, DataOK, PhaseInv, AckMeansStored, ImageComplete,
         [UpdateNext]_update_vars
  PROVE  ImageComplete'
<1>1. ASSUME ~flashing' PROVE ImageComplete'
  BY <1>1 DEF ImageComplete
<1>2. CASE update_start \/ RxStored \/ Reboot
  BY <1>1, <1>2, Zenon DEF update_start, RxStored, Reboot
<1>3. CASE update_task
  BY <1>1, <1>3, Zenon
  DEF update_task, Offline, Unresolved, Send, SendFails, Acked, Timeout, Run
<1>4. ASSUME NEW a \in Answers, RxDrop(a) \/ RxResult(a) PROVE ImageComplete'
  BY <1>1, <1>4, Zenon DEF RxDrop, RxResult
<1>5. ASSUME NEW k \in ChunkIds, RxChunk(k) PROVE ImageComplete'
  BY <1>1, <1>5, Zenon DEF RxChunk
<1>6. CASE RxDone
  <2> SUFFICES ASSUME own'
               PROVE  ChunkIds \subseteq fw' \cup failed' \cup foreign'
    BY DEF ImageComplete
  <2>1. /\ own /\ rx = "write" /\ rxid = Chunks - 1 /\ UNCHANGED foreign
        /\ Store
    BY <1>6, Zenon DEF RxDone
  <2>2. fw' \cup failed' = fw \cup failed \cup {rxid}
    BY <2>1, StoreGrows
  <2>3. \A k \in ChunkIds : k = rxid \/ k + 1 < phase
    BY <2>1 DEF PhaseInv, DataOK, ChunkIds
  <2> QED BY <2>1, <2>2, <2>3 DEF AckMeansStored
<1>7. CASE UNCHANGED update_vars
  BY <1>7 DEF update_vars, history, ImageComplete
<1> QED
  BY <1>2, <1>3, <1>4, <1>5, <1>6, <1>7, Zenon
  DEF UpdateNext, update_packet_rx

\* Every step of the download keeps the invariant.
LEMMA StoreStep ==
  ASSUME TypeInv, StoreInv, [UpdateNext]_update_vars
  PROVE  StoreInv'
BY AckOwnStep, PhaseStep, AckMeansStoredStep, ImageCompleteStep, Zenon
DEF TypeInv, StoreInv

\* _packet_ack (_wait_for_ack(), update_packet_rx()): whatever answers are
\* lost, late or doubled, update_task() goes past a chunk only when it was
\* written to external flash, its write failed, or the flag was raised by an
\* answer to another request during the wait; main_flash() is called for an
\* image that lacks no other chunk.
THEOREM DownloadSafety == UpdateSpec => [](AckMeansStored /\ ImageComplete)
<1>1. UpdateInit => TypeInv /\ StoreInv
  <2>1. UpdateInit => TypeInv
    BY UpdateInitType
  <2>2. UpdateInit => StoreInv
    BY DEF UpdateInit, StoreInv, AckOwn, PhaseInv, AckMeansStored,
           ImageComplete, ChunkIds
  <2> QED BY <2>1, <2>2
<1>2. TypeInv /\ StoreInv /\ [UpdateNext]_update_vars => (TypeInv /\ StoreInv)'
  BY TypeStep, StoreStep, Zenon
<1>3. StoreInv => AckMeansStored /\ ImageComplete
  BY Zenon DEF StoreInv
<1> QED
  BY <1>1, <1>2, <1>3, PTL DEF UpdateSpec

\* main_flash() is called for an image that lacks only chunks whose write
\* failed or that a foreign answer made update_task() skip, whatever answers
\* are lost and however many commands start a session.
THEOREM ImageSafety == UpdateSpec => []ImageComplete
BY DownloadSafety, PTL
=============================================================================
