----------------------------- MODULE Bootloader -----------------------------
(***************************************************************************)
(* The boot path of bootloader/main.c: the check of the application in     *)
(* internal flash, the programming of internal flash from the container in *)
(* external flash (bootloader/ext_storage.c, container.c), the boot loop   *)
(* counter and the command loop _bl_task() with its upload of iHEX records *)
(* (bootloader/ihex.c); and of the application what touches these: the     *)
(* download (module Update, of which only the written sectors are kept),   *)
(* main_flash() and the reboot commands.  Power may fail at every step.    *)
(*                                                                         *)
(* A sector holds a part of an image or Junk.  Sector 0 of external flash  *)
(* is the container header, sectors 1, 2, ... are sectors 0, 1, ... of     *)
(* internal flash, of which the first is the info page.  A checksum is     *)
(* right exactly when all parts are of one image.                          *)
(***************************************************************************)
EXTENDS Naturals

CONSTANTS
  Images,     \* firmware images
  Length,     \* sectors of each image without the container header
  MaxLength,  \* size of internal flash in sectors
  LoopLimit,  \* boots without a running application: 5
  MaxInputs,  \* bound: power cuts, failures, uploaded sectors and commands
  Junk        \* an erased, torn or unreadable sector

ASSUME ImagesAssumption == Junk \notin Images
ASSUME LengthAssumption ==
  /\ MaxLength \in Nat
  /\ Length \in [Images -> 1 .. MaxLength]
ASSUME BoundsAssumption == LoopLimit \in Nat /\ MaxInputs \in Nat

VARIABLES
  ext,     \* external flash: the FW area, as read through its cache
  dirty,   \* sectors of it that only the cache holds
  int,     \* internal flash behind the bootloader
  boot,    \* GPREG_BOOT
  loop,    \* GPREG_BOOTLOOP
  user,    \* reset_get_type() will return RESET_USER_RQ
  pc,      \* main(): "start", "flash", "program", "count"; "bl", "app"
  app_ok,  \* main(): local app_ok
  i,       \* main_flash_app(): the next sector
  inputs,  \* history: inputs so far
  touched  \* history: an upload began while no application was complete

vars == <<ext, dirty, int, boot, loop, user, pc, app_ok, i, inputs, touched>>

ExtSectors == 0 .. MaxLength
IntSectors == 0 .. MaxLength - 1
Contents == Images \cup {Junk}

\* ext_storage_check_fw(): the header and the checksum of all data.
ext_storage_check_fw(f) ==
  f[0] \in Images /\ \A s \in 1 .. Length[f[0]] : f[s] = f[0]

\* The size in the info page is sane and the CRC of that many bytes is right.
main_app_ok(f) ==
  f[0] \in Images /\ \A s \in 1 .. Length[f[0]] - 1 : f[s] = f[0]

\* A unit that left the factory: an application, and anything in the FW area.
Init ==
  /\ \E v \in Images : int = [s \in IntSectors |->
                                IF s < Length[v] THEN v ELSE Junk]
  /\ \E v \in Contents : ext = [s \in ExtSectors |-> v]
  /\ dirty = {} /\ boot = "none" /\ loop = 0 /\ user = FALSE
  /\ pc = "start" /\ app_ok = FALSE /\ i = 0
  /\ inputs = 0 /\ touched = FALSE

-----------------------------------------------------------------------------
(* main() of the bootloader *)

MutNoRepair == user /\ boot = "FLASH_RQ"

MutDeaf == ~main_app_ok(int)

\* "FLASH REQUEST": a flash is requested, or there is no application.
flash_rq == (user /\ boot = "FLASH_RQ") \/ ~main_app_ok(int)

Stay == user /\ boot = "STAY_IN_BOOT"

\* The check, and the command in GPREG_BOOT after a requested reset.
Start ==
  /\ pc = "start"
  /\ app_ok' = main_app_ok(int)
  /\ \/ Stay /\ pc' = "bl"
     \/ ~Stay /\ flash_rq /\ pc' = "flash"
     \/ ~Stay /\ ~flash_rq /\ pc' = "count"
  /\ boot' = IF user THEN "none" ELSE boot
  /\ UNCHANGED <<ext, dirty, int, loop, user, i, inputs, touched>>

MutFlashCheck ==
  /\ pc = "flash"
  /\ \/ /\ ext[0] \in Images
        /\ pc' = "program" /\ i' = 0
        /\ UNCHANGED app_ok
     \/ /\ ext[0] \notin Images
        /\ pc' = "count" /\ app_ok' = main_app_ok(int)
        /\ UNCHANGED i
  /\ UNCHANGED <<ext, dirty, int, boot, loop, user, inputs, touched>>

\* main_flash_app(): the container is checked before anything is written.
FlashCheck ==
  /\ pc = "flash"
  /\ \/ /\ ext_storage_check_fw(ext)
        /\ pc' = "program" /\ i' = 0
        /\ UNCHANGED <<app_ok, inputs>>
     \/ /\ ~ext_storage_check_fw(ext)
        /\ pc' = "count" /\ app_ok' = main_app_ok(int)
        /\ UNCHANGED <<i, inputs>>
     \/ /\ inputs < MaxInputs          \* the storage does not answer
        /\ inputs' = inputs + 1
        /\ pc' = "count" /\ app_ok' = main_app_ok(int)
        /\ UNCHANGED i
  /\ UNCHANGED <<ext, dirty, int, boot, loop, user, touched>>

\* One sector is read and programmed; a failed read goes unnoticed.
Program ==
  /\ pc = "program" /\ i < Length[ext[0]]
  /\ \/ int' = [int EXCEPT ![i] = ext[i + 1]] /\ UNCHANGED inputs
     \/ /\ inputs < MaxInputs /\ inputs' = inputs + 1
        /\ int' = [int EXCEPT ![i] = Junk]
  /\ i' = i + 1
  /\ UNCHANGED <<ext, dirty, boot, loop, user, pc, app_ok, touched>>

MutProgrammed ==
  /\ pc = "program" /\ i = Length[ext[0]]
  /\ pc' = "count" /\ app_ok' = TRUE
  /\ UNCHANGED <<ext, dirty, int, boot, loop, user, i, inputs, touched>>

\* "FLASH SUCCESSFUL": the application is checked again.
Programmed ==
  /\ pc = "program" /\ i = Length[ext[0]]
  /\ pc' = "count" /\ app_ok' = main_app_ok(int)
  /\ UNCHANGED <<ext, dirty, int, boot, loop, user, i, inputs, touched>>

\* The boot loop counter, then the application or main_fatal_error().
Count ==
  /\ pc = "count"
  /\ loop' = IF loop + 1 > LoopLimit THEN 0 ELSE loop + 1
  /\ pc' = IF app_ok /\ loop + 1 <= LoopLimit THEN "app" ELSE "bl"
  /\ boot' = IF pc' = "bl" THEN "none" ELSE boot
  /\ UNCHANGED <<ext, dirty, int, user, app_ok, i, inputs, touched>>

-----------------------------------------------------------------------------
(* Resets *)

\* What is left of external flash when the cache is not written back.  A lost
\* sector is torn; that it keeps its old contents is as if it had not been
\* written.
CacheLost ==
  /\ \E lost \in SUBSET dirty :
       ext' = [s \in ExtSectors |-> IF s \in lost THEN Junk ELSE ext[s]]
  /\ dirty' = {}

Flushed == UNCHANGED ext /\ dirty' = {}

\* wd_reset() after GPREG_BOOT was written with rq.
UserReset(rq) == pc' = "start" /\ user' = TRUE /\ boot' = rq

OtherReset == pc' = "start" /\ user' = FALSE /\ UNCHANGED boot

Input == inputs < MaxInputs /\ inputs' = inputs + 1

\* Power fails, or the watchdog fires; a sector that is being programmed is
\* torn.  The backup registers may be lost.
PowerCut ==
  /\ Input
  /\ OtherReset /\ CacheLost
  /\ loop' \in {loop, 0}
  /\ \/ UNCHANGED int
     \/ /\ pc = "program" /\ i < Length[ext[0]]
        /\ int' = [int EXCEPT ![i] = Junk]
  /\ UNCHANGED <<app_ok, i, touched>>

-----------------------------------------------------------------------------
(* _bl_task(): the command loop of the bootloader *)

\* ihex_parse(): data records fill a sector of the FW area.
Upload(s, v) ==
  /\ pc = "bl" /\ Input
  /\ ext' = [ext EXCEPT ![s] = v]
  /\ dirty' = dirty \cup {s}
  /\ touched' = (touched \/ ~main_app_ok(int))
  /\ UNCHANGED <<int, boot, loop, user, pc, app_ok, i>>

\* Commands: 'F' flashes, 'R' resets, 'B' stays without writing the cache
\* back; an end record writes it back.  'W' hangs until the watchdog fires.
BlCommand ==
  /\ pc = "bl" /\ Input
  /\ \/ Flushed /\ UserReset("FLASH_RQ")
     \/ CacheLost /\ UserReset("STAY_IN_BOOT")
     \/ Flushed /\ OtherReset
     \/ Flushed /\ UNCHANGED <<pc, user, boot>>
  /\ UNCHANGED <<int, loop, app_ok, i, touched>>

\* BL_TIMEOUT without a good record.
BlTimeout ==
  /\ pc = "bl"
  /\ CacheLost /\ OtherReset
  /\ UNCHANGED <<int, loop, app_ok, i, inputs, touched>>

-----------------------------------------------------------------------------
(* The application *)

\* task_app_comm comes up: the boot loop counter is cleared.
AppUp ==
  /\ pc = "app"
  /\ loop' = 0
  /\ UNCHANGED <<ext, dirty, int, boot, user, pc, app_ok, i, inputs, touched>>

\* storage_write_fw() of a download fills a sector; storage_maintenance()
\* writes the cache back.
Download(s, v) ==
  /\ pc = "app" /\ Input
  /\ ext' = [ext EXCEPT ![s] = v]
  /\ dirty' = dirty \cup {s}
  /\ UNCHANGED <<int, boot, loop, user, pc, app_ok, i, touched>>

storage_maintenance ==
  /\ pc = "app" /\ dirty # {}
  /\ Flushed
  /\ UNCHANGED <<int, boot, loop, user, pc, app_ok, i, inputs, touched>>

\* main_flash(), whatever the download has left out, and the REBOOT command.
AppReset ==
  /\ pc = "app" /\ Input
  /\ \/ Flushed /\ UserReset("FLASH_RQ")
     \/ Flushed /\ UserReset("REBOOT")
     \/ CacheLost /\ UserReset("STAY_IN_BOOT")
  /\ UNCHANGED <<int, loop, app_ok, i, touched>>

main == Start \/ FlashCheck \/ Program \/ Programmed \/ Count

Next ==
  \/ main
  \/ BlTimeout \/ BlCommand \/ \E s \in ExtSectors, v \in Images : Upload(s, v)
  \/ AppUp \/ AppReset \/ storage_maintenance
  \/ \E s \in ExtSectors, v \in Images : Download(s, v)
  \/ PowerCut

\* The bootloader runs, and its command loop times out.
Fairness == WF_vars(main) /\ WF_vars(BlTimeout)

Spec == Init /\ [][Next]_vars
FairSpec == Spec /\ Fairness

-----------------------------------------------------------------------------
\* Type invariant.
TypeOK ==
  /\ ext \in [ExtSectors -> Contents] /\ dirty \subseteq ExtSectors
  /\ int \in [IntSectors -> Contents]
  /\ boot \in {"none", "FLASH_RQ", "STAY_IN_BOOT", "REBOOT"}
  /\ loop \in 0 .. LoopLimit /\ user \in BOOLEAN
  /\ pc \in {"start", "flash", "program", "count", "bl", "app"}
  /\ app_ok \in BOOLEAN /\ i \in 0 .. MaxLength
  /\ inputs \in 0 .. MaxInputs /\ touched \in BOOLEAN

\* _jump_to_app(): a running application is complete, whatever was flashed,
\* torn or not read before it was checked.
CompleteRuns == pc = "app" => main_app_ok(int)

\* The unit can always be brought up without help: the application is
\* complete, or the container it is programmed from is; until somebody starts
\* an upload into a unit without an application.
Recoverable == touched \/ main_app_ok(int) \/ ext_storage_check_fw(ext)

\* "endless loop" it is not: without further inputs a unit that can be brought
\* up runs its application again and again, through failed reads, boot loops
\* and time-outs of the command loop.
ComesUp ==
  []<>(pc = "app" \/ ~(main_app_ok(int) \/ ext_storage_check_fw(ext)))

\* main_flash() takes effect: a requested flash of a complete container ends
\* with that image running, also through the boot loop counter and the
\* time-out of the command loop, unless something else happens meanwhile.
FlashServed ==
  \A n \in 0 .. MaxInputs :
    (/\ pc = "start" /\ user /\ boot = "FLASH_RQ"
     /\ ext_storage_check_fw(ext) /\ inputs = n)
      ~> (inputs > n \/ (pc = "app" /\ int[0] = ext[0]))
=============================================================================
