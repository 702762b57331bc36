# A TLA+ model of the FW-JCA-123 vehicle alarm firmware

The firmware (`src/`) runs on a Cortex-M microcontroller with a cellular modem,
external SPI flash, inputs for door and motion sensors and a siren. It arms and
unsets a section, raises alarms, reports events by SMS and to a security
centre, records and sends track points, and updates itself over the network. A
separate bootloader checks and programs the application.

This directory holds TLA+ modules translated from the C source, TLC
configurations that check them on small instances, and TLAPS proofs of the
results that hold for every value of the constants. `PROJECT.json` lists the
components, the runs, which source lines each definition stands for, the
hazards of the code and the theorems.

## 1. Inventory

### Tasks

Everything runs in FreeRTOS tasks (`app/main.c`, `app/app.c`); there is hardly
any locking: one semaphore for AT commands, one for the configuration, one
mutex for the SPI flash.

| task | period | does |
|---|---|---|
| `task_timer` (high priority) | 100 ms | LED and siren beeps, `system_tick()`, `alarm_tick()`, `gps_tick()` |
| `task_app_fast` | 10 ms | inputs, analog, `system_task()` (exit/entry delay), GPS, shock; boot initialisation |
| `task_app_slow` | 10 ms | UART and BLE commands, input edges, power, `storage_maintenance()`, tracer, `event_task()` |
| `task_app_comm` | 100 ms | reinit requests, modem, and with a data connection: tracer, CMS, `event_comm_task()`, SMS commands, update |
| `task_app_modem` | on data | modem UART, received UDP packets to tracer, update and CMS |

The last four have one priority and are time-sliced.

### Components

| component | state | operations | talks to | what makes it correct | module |
|---|---|---|---|---|---|
| primary event buffer, `event.c` | ring, two pointers, count | `event_create` (all tasks), `event_task` (slow) | event memory, section, SMS buffer | a FIFO for calls that do not overlap, until it is overrun; it drains | EventQueue |
| arming section, `section.c`; inputs, `system_input.c`; commands of `system.c` | state, flags, delay timer; activation counters; saved state | `section_set`, `section_unset`, `section_task`, `system_tick`, `_save_state` | events, alarm, configuration | delays end in an alarm or in UNSET; the saved state is no older one | AlarmSystem |
| alarm and siren, `alarm.c`, beeps of `app.c` | alarm state and timer, count of alarms, siren | `alarm_trigger`, `alarm_tick`, `alarm_stop` | section, outputs | no alarm unless armed; the siren is told to stop and its starts are limited | AlarmSystem |
| event memory, `event_memory.c` | ring of records in flash, pointer | store, read back, scan at start | event buffer, flash cache | order and newest record survive a restart | EventMemory (with EventQueue) |
| SMS event buffer, `event_buf.c`, `event_comm_task()` | doubly linked list in an array | add, get, done | event buffer, SMS | a consistent chain; a queue | EventBuf, SmsOutbox |
| firmware download, `update.c` | request, phase, ack flag, error count | `update_start`, `update_task`, `update_packet_rx` | UDP, external flash, reset | no chunk skipped unnoticed; sessions end | Update |
| bootloader, `bootloader/` | external and internal flash, GPREG registers, boot loop counter | boot, flash, command loop, upload | application | only complete applications run; the unit stays recoverable | Bootloader |
| configuration, `cfg.c`, `storage.c` | items through the flash cache | `cfg_write`, `cfg_read` | all | a written item is read back | part of AlarmSystem |
| commands, `cmd.c` | none of its own | parser, access rights | all | access checks | SET, UNSET, UNLOCK, REBOOT, LOCK, GPS, DBG as callers; password and answer of an SMS in Sms |
| security centre, `cms/` | phase, sequence numbers, buffer with zombies | `cms_main_process`, `cms_udp_rx` | UDP | a reported event was acknowledged | not reached, see below |
| tracking, `tracer/` | track flags and timers, ring of points in flash | `tracer_start/stop/test`, `tracer_task`, `tracer_comm_process` | inputs, GPS, UDP | a track is closed and has its GPS on; what is marked delivered was received; no point is forgotten | Tracker, TracerBuffer |
| GPS, `gps.c` | power, sleep mode, two counters | `gps_tick`, `gps_task`, `gps_sleep_enable`, `gps_maintenance` | tracer, commands | on when needed and asleep otherwise | Tracker |
| inputs and outputs, `inp.c`, `out.c` | registered state, marks, filters; pin states, table | `inp_task`, `inp_get`, `inp_enable`, `inp_bypass`, `out_update`, `out_set` | `system_io_state`, power | what is believed becomes what is | Io |
| power, `power.c` | battery connected, charging, filters, test | `power_task` | inputs, events, tracer | loss and return are reported, an empty battery is left alone | Io |
| modem connection, `modem_main.c`, `modem.c` | state, command, flags, error count | `modem_main_task`, `modem_start`, `modem_check`, `modem_data_connect`, URCs | all network users | the SIM is not locked; the connection comes back | Modem |
| UDP and names, `modem_bg95.c` | table of sockets, counters, `_dns` | bind, send, receive, close, `dns_resolve`, URCs | Modem, servers | a packet belongs to its address; a dead link is dropped | Bg95 |
| SMS transport, `modem_sms.c`, `multi_sms.c` | counter of SMS, pool of parts, day limit | read, join, execute, answer, erase | commands, SIM | only whole messages; none stays in the SIM | Sms |
| reinit requests, `app.c` | a set of flags | `app_main_reinit`, `_reinit_task` | cfg | no request lost | left out |
| BLE, `ble.c` | set-up state, line buffer | `ble_task` | commands | access ends with the connection | left out |
| host tools, `ut/`, `flash.py` | none | build and upload | - | - | left out |

### What is hard here

- Unlocked sharing. A task that logs, delays or waits for a semaphore in the
  middle of a handler lets others run between two halves: `_set_state()`,
  `alarm_trigger()`, `section_task()`, `_save_state()`,
  `event_buf_add_event()`, `event_create_ext()`.
- Deferred effects. An alarm is an event in a queue first and a siren later.
- Power cuts against a write-back cache, while rings in flash are rebuilt from
  their contents and while the application is programmed.
- Late and lost answers of servers, acknowledged through one shared flag.
- Rings, lists and pools at their limits.
- A modem that changes its state by itself, and reports it by lines that come
  between, after or instead of the answer that is waited for.
- One-bit marks (`_out_state`, `system_io_state`, `_inp_check_needed`) that
  three tasks read, change and write back.
- Wait times that another task cancels, repeats or overtakes: stops of a track,
  the sleep of the GPS, battery tests, the watch of a silent connection.

`PROJECT.json` lists each hazard at its line, with the properties that watch
it.

## 2. Modules

Conventions: an action is a handler, or the part of a handler between two
points where its task gives up the processor. History variables are marked in
their declaration. Names of C functions and variables are kept; an operator
`Mut...` is a deliberately wrong variant of the definition after it and is used
by no specification: it documents which mistake a property detects.

**EventQueue** (`app/event.c`). The ring with its two pointers.
`event_create_ext()` is four steps per producer (`Claim`, `LoadCnt`, `Fill`,
`Publish`), because it logs and reads the clock between loading and storing the
write pointer; `event_task()` is two (`Take` stores in the event memory,
`Advance` calls `system_event()`). Calls of any number of tasks overlap as they
like. The history says which calls ran alone (`alone`), whether any two
overlapped (`raced`), whose slot `event_task()` has passed meanwhile
(`passed`), and which events are owed (`due`): those of calls that ran alone,
until they are handed over or the pointers meet (`Meets`). The overflow test is
translated as it stands and never fires.

**AlarmSystem** (`section.c`, `system_input.c`, `alarm.c`, `system.c`,
`app.c`). Four tasks as described above, and `Commanders`, the tasks that
execute SET and UNSET: "slow" for UART and BLE, "comm" for SMS. A command is
cut where it logs and where `cfg_write()` waits for its semaphore. `saved` is
the configuration as read through the flash cache and `flash` what a reset
comes up with. `stale` and `old` are history: the commands that hold a
formatted state which another has overtaken, and whether such a state was
stored last. `io` is what `system_io_activate()` or `system_io_deactivate()`
was last called with for the siren; the word of outputs itself, which three
tasks write, is in Io. Of the event buffer only the number of waiting
`EVENT_ID_ALARM` events is kept. `section.data.timer` is an absolute time in
the code; the model counts the ticks that are left, so `Tick` is also the
clock. SET_PART, SERVICE and 24-hour inputs are never configured.

**EventMemory** (`event_memory.c`) EXTENDS EventQueue: the two are composed. A
turn of `event_task()` stores the event that `Take` has picked, the count that
`event_create_ext()` gives is the one that `event_memory_init()` finds, and a
restart empties the ring in RAM while the ring in flash is scanned. `mem` is
what is read through the flash cache, `flash` what a power cut leaves; the
cache is written back at any time.

**EventBuf** and **SmsOutbox** (`event_buf.c`, `event_comm_task()`). The linked
list with `_delete_item()`, replacement of the oldest record, the collection of
the events of one user and their removal when the SMS is sent. SmsOutbox is the
abstract specification: a bounded queue and one message at a time. The comm
task runs where `event_buf_add_event()` logs, and `event_buf_done_events()`,
which logs in its loop, is one step per record (`DoneBegin`, `DoneNext`,
standing at the slot `at`). `torn` is history: the comm task has emptied the
list while `event_task()` held a slot that is not the one `start_index` names.

**Update** (`update.c`). The session state machine of `update_task()`, the
receiver `update_packet_rx()` with the slow flash write between test and
acknowledge, a write that may fail, which `_write_chunk()` only logs, and a
network that loses answers, doubles them and delivers them at any later time.
The history says which chunks were not written (`failed`), which request an
answer to another one acknowledged (`other`, `foreign`), and whether the write
in progress belongs to the session (`own`). Server and UDP are external and
modelled from the packets that `update.c` sends and accepts. The names of the
specification begin with `Update`, so that one module of proofs can extend
Update and Bootloader.

**Bootloader** (`bootloader/main.c`, `ext_storage.c`, `container.c`, `ihex.c`,
and of the application `main_flash()`, the reboot commands, the writes of a
download). A sector holds a part of an image or `Junk`; a checksum is right
when all parts belong to one image. Power may fail at every step and tears the
sector that is being programmed and the sectors that only the cache holds. A
download writes any sector with any contents, so an image that Update leaves
incomplete is covered. After a failed set-up of the storage the model still
lets an upload through, which the code refuses: it has more behaviours here,
not fewer.

**TracerBuffer** (`tracer_buffer.c`, of `tracer.c` `tracer_new_point()`,
`tracer_comm_process()`, `tracer_reinit()` and `tracer_packet_rx()`). The ring
of track points in flash with its three pointers. A store is two steps, because
the write waits for the flash before the pointer is advanced, and may fail
(`WriteFails`, `MarkFails`), which the code ignores;
`tracer_buf_delivered_all()` is one step per record. `tracer_buf_init()` is an
operator that halves the ring of `Pow2[Bits]` slots as the code does (`Newest`
and `Oldest`, one turn of the loops each in `NewestTurn` and `OldestTurn`). Its
specification has names of its own (`BufInit`, `BufNext`, `BufSpec`), so that
one proof module can extend it together with Tracker. A record carries the
serial number of its point as history. `lost` is history too: it is set where
the code gives points up (the ring is overrun, `tracer_reinit()` clears a
packet that is not read again, the search of a restart overlooks a newest
record in slot 0 or a full ring) or a write failed, and nothing is claimed
afterwards. `TrackLimit` bounds the points of a track, which the code does not:
the search goes by track numbers and needs tracks of at most half the ring.
Answers to the packet that is being sent (`net`) and to earlier ones (`late`)
are in flight together; `other` and `doubt` are the history of a late one that
ended the wait of another point. When tracks start and end is in Tracker; the
send modes and the SIA protocol are not modelled.

**Tracker** (`tracer.c`, `gps.c`, the input handlers of `app.c` and
`system.c`). `tr` is the set of static variables of the tracer, `gps` those of
the GPS with `pin`, the power of the chip. The slow task is a round (`slow`):
`Get` (`inp_get()`), `Key`, `Shock`, then `tracer_task()` as `ShockTask`,
`Pend`, `NewPoint`/`NoPoint`/`Reset`. A start is cut inside
`gps_sleep_enable()`, where `gps_tick()` may come between waking the chip and
clearing `sleep_mode` (`Started` is the rest of it). Power losses, the lookup
of the server, the console's DBG=10, GPS= and `gps_maintenance()` of the comm
task come at any time. Wait times elapse when they like (`Elapse`,
`ShockElapse`); the counters of `gps_tick()` are kept. At most one tick falls
into a start. The points themselves are in TracerBuffer; here only whether the
last one stored closed its track (`open`). Of `tracer_is_active()` (`CanStart`)
the test of SYSTEM_IO_TRACING is left out: that bit is set and cleared together
with `tracing_active`, as long as no other task writes back an older
`system_io_state` (disagreement 7).

**Io** (`inp.c`, `out.c`, `power.c`, `system_io_state` of `system.c`, LOCK of
`cmd.c`). The slow task is a round again: `inp_get()` in two steps, the edges
with a read-modify-write of `system_io_state`, `out_update()` pin by pin in two
steps (drive, mark), `power_task()` with the two measurements of a battery
test. `Scan` is `inp_task()`, `Siren` the timer task, `Lock`, `Unlock`, `Pull`
the command LOCK, which bypasses its own input, `Remap`/`Remapped` a changed
output table. `Off` and `Boot` are the loss of both sources and the start.
Voltages are levels between the thresholds. `case` fixes what the environment
does in a behaviour. Other tasks switch outputs at any time; `fresh` and
`twice` are the history of how often a pin was switched since the slow task
came to it.

**Modem** (`modem_main.c`, `modem.c`). `state` and `command` are those of
`_ms`, `flags` those of the modem, `comm` the place of the comm task in
`modem_start()`, `modem_check()` and `modem_data_connect()`. An AT command with
its answer is one step, `At(ok)`: it may fail at the cost of a fault. `Urc...`
are the lines the modem sends by itself, in the modem task. `cov`, `att`,
`pdp`, `sim` are the modem, the network and the SIM (external). The pulse on
PWRKEY switches a running modem off whose answer to AT was lost (`SwitchOn`).
The code's flags and the truth may differ, and most of the module is about how
they meet again.

**Bg95** (`modem_bg95.c`). `table` is `udp_socket[]`, `open` the sockets in the
modem. Sending (`_socket_id()`, bind, close of the oldest, second attempt) is
split at every AT command, fetching, closing idle sockets and dropping the
connection run in the slow task, `UrcRecv`, `UrcDns`, `UrcPdpDeact` in the
modem task. The answer to a lookup is a header, an address or an error at a
time, in any number of lines, also after its time-out (`Parsed` is
`modem_bg95_dnsgip_parse()`); `foreign` is the history of a line of another
lookup.

**Sms** (`modem_sms.c`, `multi_sms.c`, `sms_processing.c`, the URC of
`modem.c`, sending of `modem_main.c`). A part travels from the network to a
slot of the SIM (`Arrive`), is announced, listed, read, erased, joined with
others in the pool of `multi_sms.c`, parsed, and answered under the day limit
with retries. Lines may be lost or garbled, parts come twice and memory is
refused (`MaxFaults`). Messages may share a reference (`Id`). `Join` is
`ms_incomming()` with its outcomes: `Rejected`, `Waits`, `Done`. `dropped` and
`mixed` are history: the messages of which a part was given up for want of
room, and those that met others of their reference in the pool.

The flash library, `os_timer`, the watchdog and the GPREG registers are in
submodules that are not part of the repository; they are modelled from their
use and marked external in the map.

## 3. Runs

Bounds are small because the control does not depend on sizes; each is chosen
so that the wrap-around, the limit or the second round does happen.

| run | states | checks |
|---|---|---|
| `events` | 912,195 | Ring of 3, memory of 4 records, two producers whose calls overlap anywhere, 5 calls, restarts anywhere: an event whose call ran alone keeps its place until it is handed over or the ring is overrun, the ring drains, and until calls overlap the memory reads back in order and finds its newest record (unless in the last slot). |
| `alarm_remote` | 4,374,571 | One delayed and one instant input, commands of two tasks, resets: the assertion of `section_task()`, a unit never armed is quiet, the saved state is the current one unless an overtaken one was stored, sirens bounded in number. |
| `alarm_live` | 311,733 | The siren is always told to stop; an intrusion or an entry delay ends in an alarm unless a command intervenes. |
| `update` | 730,481 | 3 chunks, answers lost, late and doubled (2 copies of each), failing writes: no chunk passed over or missing for another reason, sessions end. |
| `event_buf` | 12,078 | 3 slots, 2 users, 5 events, two tasks that overlap, failing SMS and allocations: the chain, the refinement of SmsOutbox, every event goes into a message or is displaced, all until the list is torn. |
| `bootloader` | 119,233 | Images of 2 and 3 sectors, 5 inputs (power cuts, failures, commands, written sectors): only complete applications run, the unit stays recoverable, comes up again, and a requested flash takes effect. |
| `tracer` | 582,845 | Ring of 4, 5 points, tracks of up to 2, a restart and a lost cache anywhere, lost packets, two answers in flight, late or not, failing writes: what is marked delivered was received or is in doubt, the search of a restart finds both ends, no point stays behind. |
| `tracker` | 635,778 | KEY and SHOCK, power, lookup, commands, resets and ticks in any order: a track has its GPS on and is closed by a last point, a stop ends it, the GPS sleeps again. |
| `modem` | 224,077 | Two faults or commands at any step, networks of both kinds, three kinds of SIM: LTE means registered, the SIM is not locked, data comes up again and again. |
| `bg95` | 562,616 | One socket for two peers (so that every change of peer evicts), two names, two faults, late answers of several lines: a packet goes to the address of its entry, a name gets its own address unless another's line comes while it waits, a deaf link is dropped. |
| `sms` | 536,021 | Two messages of two parts, one that shares its reference with one of them, and one that is not split; SIM of 2, pool of 2 (two messages overflow it), one fault: only whole messages in order, the SIM is emptied, everything is handled that no fault, no overflow and no shared reference took. |
| `io` | 366,149 | Four inputs, two outputs, nine environments (supply, battery, hysteresis, key, shock with siren, lock with each of its inputs, lock with siren, remapping): inputs, pins and reports follow what they stand for once that is stable. |

`TypeOK` of every module held on the same instances; it is proved where a proof
module exists and in no configuration, so that each run states only what it is
about. The environment of `io` is busy in one part at a time (`MCCases`): all
parts at once exceed the time of a regular run.

`tracer` follows behaviours until points are given up (`NothingLost`): `lost`
stays set and the properties, PointsDelivered included, hold from there on. The
ring turns within the 5 points.

Where the code loses or confuses something, the properties name it as an
exception by a history variable and claim the rest: an event owed until the
pointers meet (`due`), `old`, `torn`, `failed` and `foreign`, `lost` and
`doubt`, `foreign` of Bg95, `dropped` and `mixed`, `twice`. Each of these
states is reached in its run, so the runs go through the races and failures,
and each exception is listed below as a disagreement or an observation.

`AlarmSystem` counts pending alarm events up to `MaxPending`; a step that would
exceed it waits, which the real ring of 32 does not make it do. `LoopLimit` is
5 in the code and 1 in the run: the counter reaches its limit either way.
Deadlock checking is off only where the bounded producers really stop
(`EventBuf`, `TracerBuffer`, `Sms`).

No symmetry is used: the liveness runs would not be sound with it, and the
others do not need it.

### Fairness

- A periodic task is watched by the watchdog, so its handlers are weakly fair
  when they have work: `event_task()`, `section_task()`, the tick, the beeps,
  `event_comm_task()`, `update_packet_rx()`, the remaining steps of a handler
  that has begun.
- `AlarmEvent` is strongly fair: the slow task also executes commands, and a
  user who sends command after command disables it again and again but not for
  ever, since `app_task_slow()` calls `tty_rx_task()` once per round and
  `event_task()` in the same round.
- In Update the calls that need a data connection are strongly fair: the
  connection is assumed to come up again and again (`modem_main.c`).
- The bootloader's `main()` and the time-out of its command loop are weakly
  fair; there is nothing else that runs.
- In TracerBuffer a packet that is sent again and again is some time received
  and answered (`SF_buf_vars(Send(TRUE, 1))`) while the code waits
  (`SF_buf_vars(cpc = "wait" /\ tracer_packet_rx)`): the code retries for ever
  and can do no more, so without it nothing is delivered.
- In Modem the comm task and the steps of a disconnect are weakly fair, time
  passes, and some network is found when there is none. An LTE network reports
  itself some time within the 120 or 600 s that INIT waits, and a user of the
  network comes back (`SF`): the code waits for both and can do no more.
- In Bg95 both tasks go on; there is always something to send to a peer, and
  the two tests of the counters come round when their times have passed (`SF`:
  both are off while another call is in progress, which ends).
- In Sms the comm task goes on, `modem_check()` is called every minute, and the
  network delivers its parts (`SF`: an index of the SIM comes free again and
  again).
- In Tracker every task goes on, wait times elapse and a reset of the GPS ends;
  a point becomes due again and again (`SF_vars(NewPoint)`: the slow task
  passes it in every round).
- In Io the tasks are weakly fair, a unit without a source goes off and a
  supplied one boots. The remaining steps of LOCK and of a remapping are weakly
  fair too. The vehicle, the siren and new commands owe nothing.
- Nothing else is assumed of users, burglars, servers, networks or power. A
  send that may fail may fail for ever; `EventsTaken` and `SessionEnds` hold
  nevertheless.

### Disagreements between the code and its comments

Each is a definition in its module that TLC violates, in no regular run, or an
exception in a property of a run.

1. `event.c:143`: the overflow test compares a pointer with itself plus one, so
   a full buffer is never reported and reads as empty. AloneInOrder drops its
   claim where the pointers meet (`Meets`).
2. `cmd.c:630` "also unset to avoid alarm": an alarm event that waits in the
   buffer starts the siren after the UNSET, `system.c:195` (`UnsetAvoidsAlarm`
   of AlarmSystem).
3. `update.c:52` "yes, we have got response": the flag is raised by any answer,
   in any phase, by a chunk whose request has timed out, and by a chunk whose
   write failed. AckMeansStored excepts these (`foreign`, `failed`) and fails
   without either exception.
4. `event_buf.c:193` "new event is always the last": when the comm task empties
   the list between the search and the link, `start_index` stays on a free slot
   and the new event is out of reach. Chained excepts this (`torn`) and fails
   without the exception.
5. `tracer.c:60`, ignition starts a track: a stop within 5 s of a DBG=10 start
   ends the track without clearing `tracer_stop_tmr`; the next ignition is
   taken for a cancelled stop and starts nothing, `tracer.c:345`
   (`KeyStartsTrack` of Tracker). A second stop in the second between the stop
   and the last point does the same.
6. `out.c:107`: a mark written back late makes `out_set()` believe in a pin
   that is not driven; an output that switches twice before the slow task comes
   to it again may stay on. The lock pulse takes 400 ms, and a pass "may take
   up to 1s" (`app.c:374`). OutputsFollow excepts this (`twice`).
7. `system.c:138`: an input edge writes back a `system_io_state` that was read
   before the timer task changed the siren (`SirenObeyed` of Io).

Seen while modelling:

- Of two overlapping calls of `event_create()` one event overwrites the other
  or is published unwritten, both may get one count, and the write pointer may
  go back, behind the read pointer as well: `event_task()` then runs once more
  through slots that it has handed over. The order of the event memory is lost
  with the counts (`raced`).
- A tick inside `_set_state(UNSET)` still sees SET: it may start an entry delay
  that outlives the UNSET.
- Each of two commanders formats the state before it waits for the semaphore of
  `cfg_write()`: the older state may be stored last (`old`).
- Events of an SMS that could not be sent stay marked PROCESSING; nothing calls
  `event_buf_restore_events()`, and the next delivered SMS, to whomever,
  removes them. SmsOutbox states this as it is.
- `event_memory_init()` does not look at the last slot; the result of
  `event_memory_store()` is ignored (`event.c:188`).
- `tracer.c:574` clears the flag to "avoid previous ACK to be accepted now",
  but H02 answers do not name their point: when a point was sent twice, the
  second answer may acknowledge the next point, which may have been lost
  (`doubt`). A point whose write failed (`tracer_buffer.c:191`) is passed over
  by the writer; the reader returns at it every time (210) and the points
  behind it wait.
- `tracer_buf_init()` finds no undelivered point when the newest record lies in
  slot 0; `tracer_reinit()` drops the point in the packet buffer, which is then
  marked delivered with the next one; a ring that is full of undelivered points
  looks empty (`tracer_buffer.c:193`).
- Tracker: a shock start whose server is not resolved yet becomes an external
  start, which the end of the shock does not stop; `tracer_test()` leaves
  `_external_start` set; a SHOCK that ends before the speed is reached leads to
  a track without a stop request; `gps_reset()` while suspended powers the GPS
  until the next hourly wake-up; a sentence completed after `gps_suspend()`
  brings fix and speed back; `tracer_new_valid_stamp()` has no caller, so every
  track longer than 100 s resets the GPS once.
- Bg95: a line of the answer to an earlier lookup that comes while the next one
  waits is taken for it (`foreign`); one that comes between them does no harm.
  Further, `timer_rx_timeout = 0` after `modem_data_disconnect()` can switch
  off the watch of a connection set up meanwhile.
- Sms: references of different senders collide (`ms_find_in_buf()` does not
  look at the sender), and `ms_get()` then joins parts of two messages
  (`mixed`); a pool without room gives up all messages but one (`dropped`); a
  short SMS that comes twice is executed twice; an SMS is erased also when
  reading it failed; `sms_send_to_user()` ignores whether the SMS was sent.
- Power: a battery that is not there is neither tested nor reported
  (`power_batt_ok()`, "keep as OK if connected", returns OK without one); after
  a return of power or a bypass the filter times of inputs are stale, so the
  first scan registers at once; a SHOCK pulse between the two steps of
  `inp_get()` is lost.
- Reinit (`app.c:186`): a `cfg_write()` of the same kind while a request is
  processed is cleared with it.

## 4. Proofs

TLAPS checks the following for every value of the constants that satisfies the
named assumptions in the modules: 36 theorems, which `PROJECT.json` lists, and
the lemmas they rest on. Each proof is an inductive invariant: the property of
the run, strengthened by what the tasks between two of their steps rely on.

**EventQueueProofs** (EventQueue and EventMemory). `TypeCorrect` (with the two
pointer assertions of `event_task()`) and `FifoSafety` (AloneInOrder), for any
ring size and any producers, with calls that overlap anywhere. AloneInOrder is
not inductive: it does not say what the calls in progress are about to store.
The invariant adds (`CallersInv`) that a call that runs alone finds its own
event in its slot once it has filled it, and that every call whose slot
`event_task()` has not passed will store a write pointer behind all that is
owed, because all of that was accepted before the call began.

The composition with the event memory has theorems of its own: `MemTypeCorrect`
and `MemFifoSafety` without restriction, `ReadBackSafety` (NewestFirst) and
`RestartSafety` (NewestFoundAgain), which speak of units in which no two calls
have overlapped so far. The memory is a ring of records that get older going
back from the pointer (`Ring`), both as it is read and as it is in flash
(`Survives`), except that the slot at the pointer may be anything when it is
the last one. To keep that through a store one has to know that what still
waits in the FIFO is later than what was stored, in order, and also after an
overrun, where AloneInOrder says nothing (`DueInv`), and that what a producer
is about to publish is later still (`Past`, `CountInv`); these parts
(`TimeInv`) hold until calls overlap, the types and AloneInOrder after that
too. The loop of `event_memory_read()` is shown to end at the slot `Back(p, k)`
by a least counterexample (`BackSlotFact`), the scan of `event_memory_init()`
to find the newest record of such a ring (`ScanFull`).

**AlarmSystemProofs.** `TypeCorrect`; `SirenSafety` (SirenBounded, strengthened
by "in the middle of `alarm_trigger()` the alarm is not active", which is why
starting it cannot shorten a sounding siren); `AssertSafety` (the entry delay
always has its input, inductive with types alone); `QuietUntilArmed`
(NeverArmedIsQuiet, strengthened by: not armed means UNSET, without an entry
delay that could run out, outside `alarm_trigger()`, and with no alarm time
left); `SirenLimit` (SirenLimited, where `RingInv` relates the starts of the
siren to `_alarm_cnt`: one more at most, and none more in the middle of
`alarm_trigger()`); `SavedState` (SavedIsCurrent for any set of commanders:
`SaveInv` says that a formatted state that no other command has overtaken is
still the current one when it is stored). SavedIsCurrent speaks of the cached
value; what a power cut leaves in flash may be older, and NeverArmedIsQuiet and
SirenLimited are proved with restarts from it.

**UpdateProofs** (Update and Bootloader: a firmware from its download to its
boot). Of the download `DownloadTypeCorrect`, where the bound of the error
counter needs to know at which point of `update_task()` it is looked at
(`ErrInv`), and `DownloadSafety` and `ImageSafety`: AckMeansStored and
ImageComplete hold for an image of any size and answers that are lost, doubled
and late in any order. The invariant says that a raised flag means that the
chunk asked for was stored or its write has failed, unless an answer to another
request raised it (`AckOwn`), and that no chunk of this session is written
before it was asked for (`PhaseInv`).

Of the bootloader `TypeCorrect`, `BootSafety` (CompleteRuns and Recoverable)
and `RunSafety` (CompleteRuns), for all images, flash sizes and limits. The
invariant adds that the container is complete as long as it is being programmed
(`ProgramInv`), that the local `app_ok` is current when `main()` decides
(`CountInv`), and that the cache is empty while the bootloader boots and
elsewhere holds only what an upload began or what a complete application makes
dispensable (`DirtyInv`).

**Bg95Proofs.** `TypeCorrect`. `AddressSafety` (AddressTrue) needs what a send
in progress knows: the entry it is about to bind is empty, and the socket it
has bound is open to its peer or was closed meanwhile (`AddressInv`).
`ResolverSafety` (ResolvedIsAsked) needs little beside the property: lines are
parsed during a lookup only (`ResolverInv`), and every lookup begins by
clearing the answer of the one before. What it says is that the clearing is
enough: all late lines but those that come during the lookup are harmless.

**ModemProofs.** `RegisteredSafety` (LteIsRegistered) is inductive by itself,
with one step per notice and failure. `SimSafety` (SimNeverLocked): the number
of attempts left is the initial one or one less (`SimInv`), because
`_init_sim()` tries a PIN only when none was used up. `TypeCorrect` and
`PhaseSafety`: the place of the comm task (`comm`), its attempts and the state
depend on each other as `PhaseOK` says: `modem_start()` is under way exactly
while attempts are left, and `modem_check()` and the users of the network are
called in NET_OK only, because commands and notices change `command` and the
flags but never the state in the middle of a round. The invariant is kept in
parts (`ControlInv` with PhaseOK, `TimeInv`, `LinkInv`, `FlagsInv`, `CountInv`,
`SimInv`), each with a lemma over all steps.

**TrackerProofs** (Tracker and TracerBuffer). Of the tracer `TypeCorrect`,
`GpsSafety` (GpsOnWhileTracking) and `TrackSafety` (TracksClosed). A GPS that
is on is powered but for a reset (`PowerInv`); a start that is cut inside
`gps_sleep_enable()` has its GPS on, no active track, and, before a tick came,
too little on the sleep timer for one tick to suspend it (`WakeInv`): without
that the tick in the middle of a start could switch off the GPS of the track
that begins.

Of the track buffer, for every size of the ring:

- `BufTypeCorrect`. The two loops of `tracer_buf_init()` are recursive
  functions of the turn; a loop has a run (`LoopRuns`), and what holds after
  every turn follows by a least counterexample (`Climb`). That the steps are
  halves of `Pow2[Bits]` is enough to show that both end inside the ring,
  whatever the flash holds. `Numbered` adds that records carry numbers of
  stored points.
- `DeliverySafety` (DeliveredIsReceived). The invariant says that an answer in
  flight to the present packet means that it was received, and so does a raised
  flag that no late answer raised (`Answers`), that the reader is between the
  oldest record that waits and the writer (`ReadPos`), and that what was read
  and is not marked yet is, but for the packet, received or in doubt, and so is
  what is marked, in the cache and in flash (`ReadGot`). Of the search it needs
  only the range, so it holds for tracks of any length.
- `SearchSafety` (FoundAgain) assumes `2 * TrackLimit <= Size`: no track is
  longer than half of the ring, which the search by track numbers takes for
  granted and no code enforces. The invariant is the order of the ring: records
  get older going back from the save pointer (`RingOrder`), what waits is a
  block that ends there (`RingOpen`, `Waiting`), with the record that is
  written and whose pointer is not advanced yet (`Pending`). Then `NewestFact`
  and `OldestFact` say what the searches find in such a ring, and `InitSave`
  and `InitUndel` carry that to the pointers of a restart. After an overrun or
  an overlooked record (`lost`) nothing is claimed.

**EventBufProofs.** `TypeCorrect`, `ChainSafety` (Chained) and
`OutboxRefinement` (the list implements SmsOutbox), for every number of slots,
users and events, with the two tasks at any place of their calls; the chain and
the queue end when the list is torn (disagreement 4 above), the types do not.
The invariant names the order of the list: some sequence without repetition
visits exactly the used slots from `start_index` to `last_index`, and
`next_index` and `prev_index` of its members are its neighbours (`IsChain`).
`DeleteChain` and `LinkChain` say how `_delete_item()` and the link of a new
record change that sequence. `Found` says that what the search of
`event_buf_add_event()` left is still right when the record is linked, whatever
was removed meanwhile; `Standing` that the removal stands at a used record;
`Addressed` that every record has a user; `Numbered` that no event is in two
slots. The loop of `event_buf_get_event()` is a recursive function
(`WalkFrom`): a loop of N turns has a run (`LoopRun`), so the definition is its
own solution, and what it has done after k turns follows by a least
counterexample. For the refinement, the events in the order of the chain
(`Events`) are the queue of SmsOutbox, with the event where the removal stands
(`Hand`) and the one to be displaced (`Victim`), and every step is matched by
one of the queue.

**SmsProofs.** `TypeCorrect`, which includes that `sms_counter` is never
decremented below 0 nor above the size of the SIM, and `WholeSafety`
(WholeMessages), for all messages and references, shared or not, sizes of SIM
and pool, and faults. A used buffer of the pool holds a part of a message with
its id, and with its number (`Pooled`), although released buffers keep both; so
`ms_get()` joins parts of one reference in order, and of one message if only
one was met (`TextFact`). `CommInv` says what the comm task relies on between
its steps.

Only model-checked:

- Liveness, all of it, and with it all of Io, whose properties are "once that
  is stable": out of the prover's reach.
- The type invariant of Io, which no theorem needs.

## 5. Plan

What is left, in this order:

1. Reinit requests (`app.c`) as a small module.
2. Failing and torn writes in EventMemory.

### Not modelled

- **Security centre** (`cms/`). `cms_new_event()` adds every event with
  `EVENT_USER_NONE`, which `event_buf_add_event()` rejects: no event enters the
  buffer and phases, acknowledgements and zombies are never reached.
- **BLE** (`ble.c`). The set-up of a module and a line parser. Access is taken
  back only when `_ble_access_update()` sees the disconnect (`app.c:286`).
- **Reinit requests** (`app.c`), as above.
- **The AT dialogue** (`modem_at.c`): an answer comes, fails or is lost; that
  answers belong to their command is assumed, except for the notices of Bg95.
- **Drivers of other modems**, GSM location, status reports, the choice of the
  SMS storage.
- **Coding and texts**: PDU, CRC, AES, NMEA sentences, H02 and SIA packets,
  texts of events and answers, parameters of commands, the table of
  configuration items. They carry no state of their own.
- **Drivers**: `hw/`, UART, ADC, CAN, LED; the flash library and the operating
  system are submodules outside the repository, modelled from their use.
- **Host tools**: `ut/`, `flash.py`.
- Within modules: failing writes of the event memory; SET_PART, SERVICE and
  24-hour inputs; lengths of waits in Modem; in Io the updates of outputs by
  the timer and comm tasks are one step each.
