# naiveBTsniffing: formal models, model checking and proofs

The repository turns a Raspberry Pi into a Bluetooth collection box: one program
watches what devices are on the air and runs an information gathering tool on each,
and a set of scripts turns the logs into a database and a report. This directory holds
TLA+ modules of the program's own logic, the TLC configurations that check them on
small instances, and TLAPS proofs of what holds for every instance.

    tlasany CentralAppLauncher.tla
    tlc -workers 2 -config MCLauncher_one.cfg MCLauncher.tla
    tlapm CentralAppLauncher_proofs.tla
    tlc -workers 2 -config MCGatt_session.cfg MCGatt.tla
    tlapm GattTool_proofs.tla; tlapm GattOrder_proofs.tla
    tlc -workers 2 -config MCLogTail.cfg MCLogTail.tla      (likewise MCToolRun,
                                                            MCAttBearer, MCGattImport)
    tlapm LogTail_proofs.tla; tlapm ToolRun_proofs.tla
    tlapm AttBearer_proofs.tla; tlapm GattImport_proofs.tla

Line numbers below are those of `src/Scripts/central_app_launcher2.py` unless a file is
named.

## 1. Inventory

| Component | State it keeps | Operations | Interacts with | Status |
|---|---|---|---|---|
| Launcher: device tables and threads (`central_app_launcher2.py` 23-626) | `ble_bdaddrs`, `btc_bdaddrs`, the deprioritized dictionaries, `device_connect_attempts`, four success dictionaries, eight locks | `process_line` (main), `ble_thread_function`, `btc_thread_function`, `ApplicationThread.run` | log lines in; tools as child processes | modelled |
| Launcher: log tail (632-673) | file offset, inotify queue | open, seek, read lines, tell, wait | file written by bluetoothctl | modelled (`LogTail`) |
| Launcher: process lifetime (199, 209-235, 447) | children, zombies, thread lists | fork, kill, start thread, reboot | the operating system | modelled (`ToolRun`) |
| bluetoothctl client (`bluez-5.66/client/main.c`) | D-Bus proxies of devices | `device_added`, `device_removed`, `property_changed`, `print_device` | daemon in, log out | order of the lines is in the launcher model; the proxy lists are not modelled |
| gatttool (`attrib/gatttool.c`, `gatt.c`, `gattrib.c`) | handle list, `g_max_handle`, discovery state | connect, discover services, characteristics, descriptors; read; quit | ATT bearer; `GATTprint.log` | the run the launcher starts is modelled; interactive use, writes and the other procedures of `gatt.c` are not |
| ATT bearer (`src/shared/att.c`) | request, indication and write queues, the pending request and its timer | send, receive, resend, cancel, time out, disconnect | gatttool; L2CAP socket | send operations are modelled for any user (`AttBearer`) and with gatttool (`GattTool`); MTU exchange, signing and the lists of registered handlers are not |
| GATTprint import (`Analysis/parse_GATTPRINT_2db.py`) | `type_cache`, four tables | one of four inserts per line | log, MySQL | modelled (`GattImport`) |
| Start-up and shut-down (`Scripts/runall.sh`, `start_*.sh`, `killall.sh`) | link to the current log, processes | start after a sleep, relink, kill | all collectors | modelled (`LogTail`) |
| Map of one capture (`Scripts/map_specific.sh`, `gpspipe2mysql.py`) | two CSV files, two tables | append, load, join | tshark, MySQL | not modelled: sequential, by hand, nothing survives a run |
| HCI log import (`Analysis/fill_*.sh`) | tables | tshark, sort, uniq, load ignoring duplicates | MySQL | not modelled: one filter each, no state |
| Report (`Analysis/TellMeEverything.py`) | none | read-only queries | MySQL | not modelled: changes nothing |
| Remaining BlueZ, helper scripts | | | | not modelled: third-party or one-shot I/O |

What makes each one correct:

* **Launcher.** Every listed device is attempted up to the limit and then leaves the
  table; a tool runs on one device at a time per radio and not again after a success;
  looked-up entries stay until used; no thread waits for ever or dies unnoticed; an
  Apple device is postponed, not forgotten; a device that comes back gets its attempts.
* **Log tail.** The log is processed once, in order and to its end, and no write is missed.
* **Process lifetime.** One tool at work per radio; every tool ends; what is left behind
  is left by timeouts only; a failed fork is resolved.
* **bluetoothctl client.** A device is announced before it changes and withdrawn with
  the type it was announced with.
* **gatttool.** It ends exactly when everything it asked for was answered, and logs what
  it was told under the handle it asked for.
* **ATT bearer.** At most one request is outstanding; every operation is called back once
  unless it was cancelled, destroyed once and freed, whatever the user does in callbacks.
* **GATTprint import.** One type per device and run; what was read is stored, wherever the
  script ends; importing again adds nothing.
* **Scripts.** The launcher finds the link, and it is the one to the log being written.

Hard to test, and listed line by line under "hazards" in `PROJECT.json`: five kinds of
threads on shared dictionaries with eight locks of which some accesses take none, or the
wrong one; a counter changed by three threads without a lock; checks whose result is
used later; tools that time out while they succeed; faults that end one thread and leave
the others; order and size limits in gatttool; a link, a watch and an offset that can
belong to three different files; a link that names no file; a user who re-enters the
bearer from its callbacks; children nobody waits for; a log with unfinished lines.

## 2. Modules

| Module | Models | Role |
|---|---|---|
| `ProbeSchedule` | what the launcher promises about its tools | abstract specification |
| `CentralAppLauncher` | all threads of `central_app_launcher2.py` | detailed specification, properties, refinement mapping |
| `CentralAppLauncher_proofs` | | inductive invariant, theorems |
| `MCLauncher` and five `.cfg` | | instances for TLC |
| `GattTool` | one run of `gatttool` with the client half of its ATT bearer | specification, properties |
| `GattTool_proofs`, `GattOrder_proofs` | | inductive invariants, theorems |
| `MCGatt` and three `.cfg` | devices to run it against | instances for TLC |
| `LogTail`, `LogTail_proofs`, `MCLogTail` | start-up and shut-down scripts, the link, the logs, `main()` as their reader | specification, theorems, instance |
| `ToolRun`, `ToolRun_proofs`, `MCToolRun` | child processes, their threads, `force_reboot` | specification, theorems, instance |
| `AttBearer`, `AttBearer_proofs`, `MCAttBearer` | `src/shared/att.c` for any user | specification, theorems, instance |
| `GattImport`, `GattImport_proofs`, `MCGattImport` | `parse_GATTPRINT_2db.py` | specification, theorems, instance |

How they fit together: `LogTail` delivers the lines that `CentralAppLauncher.ReadLine`
takes, whole, torn or never; `ToolRun` says when `CentralAppLauncher.ForkFails` happens
and what a run leaves behind; `AttBearer` is the bearer of `GattTool` with a user that may
do anything; `GattImport` reads what `GattTool` logs, with lines that were not finished.
They share no variables, so they are checked apart.

### CentralAppLauncher

State. `table[t]` and `depri[t]` are the dictionary of transport `t`, from device to
RSSI, with `Absent` for "no key"; `attempts` is `device_connect_attempts`; `success[k]`
the devices tool `k` has succeeded on. `tableOwner` and `successOwner` are the locks
that are held across steps. `mpc`, `rpc[t]`, `apc[k]` are the program counters of main,
of the radio threads and of the ApplicationThread of a tool; `line`, `mreg`, `unread`,
`todo`, `size`, `skips`, `cur`, `rreg`, `tool`, `adev` are local variables. `proc[k]` is
the child process. `printed` remembers what bluetoothctl has announced and `fed` counts
log lines.

Granularity. A step touches what other threads can touch once: an unlocked read or
write, or a critical section that protects all it touches and takes no lock inside. A
section that is wider than its own data keeps its lock through several steps: main in
the RSSI and vendor branches (while `attempts` changes and the deprioritized dictionary
is written), the BLE thread from the second look-up to the thread start (429-452), a
success lock while the table lock is taken (161, 421). The six-fold repetition of
"already collected, still listed, log, launch" is one group of actions over the tool,
`Probe`. The locks of the deprioritized dictionaries and of the success dictionaries
protect one step each, or are taken inside a table lock, and need no variable of their
own except `successOwner`. The BTC reprioritization, which holds the wrong lock (363), is
one step although main could act on the BTC table between the deletion (369) and the write
(370); main's own move is two steps, and that is all `BtcVendorMoveKeepsDevice` needs. `Popen` and the start of the thread are one step here;
a thread that does not start (449) is in `ToolRun`.

`d[k] += 1` is two steps: the documented image is Raspbian Buster
(`src/README.md:74`), whose Python 3.7 can switch threads between the read and the
write. A dictionary access by itself is one step. The key function of `sorted()` runs in
Python for each key, so each look-up is a step (`SortKey`), and so is the copying of the
keys (`TakeKeys`).

| Code | Actions |
|---|---|
| `process_line` 250-344, main loop 652-676 | `ReadLine`; `ProcessLine` = `NewCount`, `NewInsert`, `RssiLock`, `DecRead`, `DecWrite`, `RssiUpdate`, `VendorLock`, `VendorDepri`, `VendorDel`, `DelLine` |
| radio threads, sort and loop 378-411, 512-544 | `Round` = `TakeKeys`, `SortKey`, `NextDevice`, `EndOfLoop`; `Count` = `IncRead`, `IncWrite` |
| skips, reprioritization, joins, busy wait 399-409, 351-371, 491, 498 | `Between` = `SkipDrop`, `Relist`, `Reprioritize`, `Join`, `SpinEnds` |
| tools 415-487, 546-614, `launch_application`, `force_reboot` | `Probe` = `Collected`, `FinishedDrop`, `Member`, `GattLock`, `Launch`, `LogFails`, `ForkFails`, `RebootFails` |
| `ApplicationThread.run` 146-206 | `AppThread` = `WaitReturns`, `WaitTimesOut`, `Record`, `Remove` |
| exit of the child | `ToolExits` (external) |

Log lines. `ReadNew`, `ReadChg` and `ReadDel` follow `client/main.c`: a device is
announced once until it is withdrawn, changes only in between, and its type is computed
each time it is printed (171-192), so a device announced as BLE can be withdrawn as BTC.

Faults (`Faults`). "fork": Popen fails, the launcher asks for a reboot, sleeps half a
minute and, if the machine is still there, goes on. "log": the attempt or the success
cannot be written; in both the thread ends, not the program. "torn": main gets half a
line and quits.

Abstracted: the address type kept in each entry, the order of equal RSSI values and of
the deprioritized keys (any order), wording of the logs, exit codes other than zero or
not. `DecRead` to `RssiUpdate` is modelled for both transports by the same actions, with
`line.t` as the branch that main is in.

### ProbeSchedule

A radio is at one device at a time, each tool has at most one run under way, a tool is
not run again on a device it has succeeded on, and under `FairScheduleSpec` each run
ends. The refinement mapping is `probing <- adev` (the device each ApplicationThread
waits for) and `collected <- success`.

### GattTool

One run of `gatttool -t TYPE -b ADDRESS`, from the connection to the exit code, against
one device. The program is single-threaded: a step is one callback of the GLib main
loop with everything it calls, through four files. A response, for example, runs
`handle_rsp` (`src/shared/att.c:806`), `attrib_callback_result`
(`attrib/gattrib.c:205`), a callback of `attrib/gatt.c`, often one of
`attrib/gatttool.c`, and `wakeup_chan_writer` (`att.c:595`).

State. `queue` is the bearer's request queue and `pending` the request that was sent
and not answered; a request has the discovery or the slot it belongs to, the handle it
asks for or from, and how many READ_BLOB requests precede it. `writer` says whether the
write handler is installed, `sec` is the security level, `link` the channel. `disc`,
`maxHandle`, `slots`, `answered`, `log`, `gotError` and `quit` are the program's, and
`exit` its exit code.

| Code | Actions |
|---|---|
| `main` up to `g_main_loop_run`, `connect_cb` (`gatttool.c:79-114`, 336-390) | `Connected`, `ConnectFails`, `CannotStart` |
| `can_write_data`, `pick_next_send_op` (`att.c:415-456`, 543-593) | `WriteRequest`, `WriterStops` |
| `primary_all_cb` (`gatt.c:277`, `gatttool.c:116`) | `ServicesFound`, `NoMoreServices` |
| `char_discovered_cb` (`gatt.c:576`, `gatttool.c:148`) | `CharsFound`, `NoMoreChars` |
| `desc_discovered_cb` (`gatt.c:1009`), `char_desc_cb` (`gatttool.c:243`) | `DescsFound`, `NoMoreDescs` |
| `read_char_helper`, `read_blob_helper` (`gatt.c:748-829`), `char_read_cb` (`gatttool.c:189`) | `PartRead`, `LastPartRead` |
| error responses, `change_security` (`att.c:744-866`) | `ErrorResponse`, `SecurityRetry` |
| `timeout_cb`, `disconnect_cb` (`att.c:473`, 654) | `TimeOut`, `Disconnect`, `FailNext` |
| return of `g_main_loop_run` (`gatttool.c:392-406`) | `Exit` |

`disconnect_cb` is one callback in the code and several steps here, `Disconnect` and one
`FailNext` for each request it fails; the bearer is already detached, so no other action
is enabled in between except the crash that `FailNext` itself allows.

The device (`Device`) is a set of attributes, the last handles of its services, its
characteristic declarations, its readable values, how many requests a long value takes
and how many elements fit into a response. It answers what it is asked, with one
element up to as many as fit, in ascending order. A malformed or descending response
ends in the same branch as an error, `ErrorResponse`.

Abstracted or assumed. A write of no byte (`att.c:553`) does not happen on a sequenced
socket, and a failed write is treated by the code as sent. What the device asks, and its
notifications, do not touch the requests. `char_desc_cb` reads `desc` unassigned when
nothing was discovered (`gatttool.c:268`): `DescDone` allows the test to fail or the
program to crash. The third outcome, a stale pointer to a descriptor with just that
handle, only ends the program, which `quit` already does for a failed discovery. At most
512 characteristics are readable (`ReadCap`): behind that the code writes outside its
list. A callback that is dispatched in the iteration in which another has quit the loop
is modelled for the disconnection, which runs callbacks of the program, and left out for
the others. That the launcher kills the program after 20 seconds is in
`CentralAppLauncher` (`WaitTimesOut`).

Faults (`Faults`). "connect": the connection, or what comes before it, fails. "error":
any request is answered by an error. "security": it is answered by one that makes the
bearer raise the security level. "timeout": no answer in 30 seconds. "loss": the
connection is lost at any time.

### LogTail

State. `link` is what `/tmp/BT_link.txt` names, `moved` says that this log is not there
any more, `size[g]` the length of each log in units
of `1/LineUnits` of a line, `writer` the starts whose bluetoothctl is running, `script[s]`
the position of `start_bluetoothctl.sh`. `lpc[s]` is the launcher of start `s`, `watch`
the file inotify watches (the file, not the link), `queued` whether an event waits, `file`
and `fpos` the open file and the position in it, `pos` is `bt_file_position`, `done` the
last piece given to `process_line`. `orderly` remembers that no start overlapped another
and that no launcher woke before its link was made.

| Code | Actions |
|---|---|
| `runall.sh` 6-10 | `RunAll` |
| `start_bluetoothctl.sh` 12-24 | `Unlink`, `StartScan`, `Link` |
| `killall.sh`; a reboot, by `force_reboot` 229 or otherwise | `KillAll`, `Reboot` |
| bluetoothctl's output | `Write` |
| somebody collects or deletes the log behind the link (external) | `MoveAway` |
| `start_central_app_launcher.sh` 9-12, `add_watch` 634 | `StartLauncher` |
| `main()` 652-673 | `Main` = `OpenLink`, `OpenRaises`, `ProcessLine`, `LineRaises`, `EndOfFile`, `Wait`, `EventRead` |

The order the sleeps are meant to give is not assumed: every script may wake at any time,
and `OrderlyStart` says what follows if they keep it. `ln -s` does not replace a link; two
overlapping starts therefore end with one link, and the launcher of the other follows a
log it was not meant for, or reads one file at the offset of another. This is what a
restart without `killall.sh` does; the properties exclude it by `Following`.

The script's comment says "Delete the link if it exists" (`start_bluetoothctl.sh:17`), but
`[ -e ]` (18) looks behind the link. When the log of an earlier start was moved or deleted
the link is not removed (`RemoveLink`), `ln -s` (24) cannot replace it, and `add_watch` and
`open` find nothing (`Exists`). `OrderlyStart` therefore lets an orderly start fail with a
`Dangling` link, and only then; every later start fails in the same way until the link is
removed by hand, or with `/tmp` by a reboot. `MoveAway` takes the log that the link names,
once bluetoothctl has ended: other logs matter to nobody, and a log that is still being
written is not collected.

`Breaks` are
the cuts inside a line after which the rest cannot be decoded or indexed (`ReadTorn` of
`CentralAppLauncher`): main may end there or process the two parts as lines.

### ToolRun

State. `rpc[t]` and `mine[t]` are a radio thread and its process variable, `proc[p]` and
`thr[p]` the process and the ApplicationThread of run `p`, `owner[p]` its radio, `late`
the runs whose wait timed out, `down` the reboot. A process, zombies included, and a
thread take one of `Slots` tasks each.

| Code | Actions |
|---|---|
| `launch_application` 209-227 | `Launch`, `ForkFails` |
| thread start 444-452, 606-614 | `StartThread`, `StartFails` |
| `force_reboot` 229-235 | `SudoReboot`, `SleepThirty`, `RebootFails` |
| joins 490-492, 616-618 | `Join` |
| `ApplicationThread.run` 146-206 | `WaitReturns`, `TimeoutExpired`, `Kill` |
| the kernel, `subprocess` | `Exits`, `Dies` (external); `CleanedUp` and `Released` inside `Launch` and the thread start |

What it shows about the reboot at 217 "after about 5 hours": a run that times out is
killed and never waited for; its thread stays in the list (448) and keeps the Popen
object, so not even the library reaps it. The zombies fill the table, `fork` fails, and
`force_reboot`, which forks twice, cannot reboot either: `ForkFailureResolved` has to
except the states (`Stuck`) in which all tasks are taken by processes nobody waits for.
`OnlyTimeoutsLeak` says that there is no other leak among the runs that are watched.
A reboot takes effect at once in the model. One tool per radio, as shipped.

### AttBearer

State. `kind`, `id`, `armed` and `hist` of each operation: what it is, whether its
handlers are set, and which were called; the queues `reqQ`, `indQ`, `writeQ` of the bearer
and `chanQ` of each channel; `pendReq` and `pendInd`; the channels attached (`chans`),
detached (`gone`), shut down (`shut`), with a write handler (`writer`), with a request of
the other side (`inReq`). `at`, `chan`, `hand` and `called` are the handler under way: a
handler that calls back is several steps, between which only the user can act, in the
callback (`UserRuns`). Requests and indications have a callback; commands have a destroy
function only (`create_att_send_op` 391); responses and confirmations (`Mute`) have none.

| Code (`src/shared/att.c`) | Actions |
|---|---|
| `bt_att_send`, `bt_att_chan_send`, `bt_att_resend` 1570-1704 | `Send`, `ChanSend`, `Resend` |
| `bt_att_cancel`, `bt_att_chan_cancel`, `bt_att_disc_cancel`, `bt_att_cancel_all` 1714-1837 | `CancelPending`, `CancelInDisc`, `CancelQueued`, `CancelAll` |
| `bt_att_attach_fd`, `bt_att_unref` 1229-1332 | `Attach`, `Unref` |
| `can_write_data` 543 | `WriteOut`, `WriterStops` |
| `can_read_data` 1023, `handle_rsp`, `handle_error_rsp`, `handle_conf`, `handle_notify` | `Response`, `Retry`, `Confirmation`, `Request`, `SecondRequest`, `NotSupported` |
| `timeout_cb` 473, `disconnect_cb` 654, `queue_remove_all` (`queue.c:305`) | `Timeout`, `Disconnect`, then `CallBack`, `Return`, `ChannelFreed`, `NextQueue` |

Abstracted or assumed: every PDU fits every channel, a write of no byte does not happen
and a failed write counts as sent (as in the code), `bt_att_chan_send` is used for
responses and confirmations, as everywhere in the repository, the user drops its last
reference outside of handlers, the user acts in callbacks and not in destroy functions (so
what is shown about re-entry is shown for callbacks), the order of the channels is arbitrary, the hook
`timeout_callback` is left out. After a failed read the code removes its read handler;
here such a channel may still hear something, which allows more behaviours.

Three things a reader of `att.c` may not expect, all in the model. A request put back for
a retry wakes its own channel only (834): if that is detached before it writes and another
channel is idle, the request waits until somebody sends something. `EveryOpSettles`
excepts that state, and does not hold without the exception. `queue_remove_all` empties a
queue before it calls back, so `bt_att_disc_cancel` does not find the later operations of
the same queue: the user is told of an operation it has just tried to cancel. And
`respond_not_supported` (911) queues its response for all channels: it may leave on another
than the asking one, whose `in_req` then stays set.

### GattImport

State. `log` the distinct lines so far, `le[d]` the type that the HCI tables have for a
device, `tables` the rows of the four tables, `todo` the lines of the sorted copy that were
not read yet, `cache` is `type_cache`; `given` and `made` remember the lines and the
inserts of the run, `settled` that a whole import has been made and nothing changed since.

A line is its table, device, style (old, without an address type; public; random; another
word) and what is wrong with it: not finished, too few fields, a wrong count, a number
that is none (caught for services and characteristics, fatal for values and descriptors:
`LineRaises`). A line is written by one flush, which a full disk, a loss of power or a kill
in the write can leave unfinished, with a quote open in the address ("cut"), behind it
("torn") or in the last field ("tail"). The csv reader then goes on in the next line of the
sorted file, and when the quotes of that one are open too in the one behind it, up to and
including the first line that is finished; all of it is one record, and only the address of
its first line counts (`Swallowed`). An unfinished record has a wrong count of fields,
except that a line cut in its last field and with nothing behind it has them all
(`EndsFile`): it is stored, or, being a value with a newline in it, ends the import.
`ReadIsStored` says which lines survive: every proper line in front of which no unfinished
line stands directly, whatever else is wrong in the log.

`ImportLine` is one record and one of the four functions up to its commit; `Killed` ends
the script anywhere, `HciImport` changes the looked-up type at any time. Not in the model:
an unfinished line to whose end a later run of gatttool has appended (one line with a wrong
count), a line cut in the name of its table or in its type, an old-style line cut in its
address, and several unfinished lines at the end of the file that together have just the
fields of one line.

That one run stores a device under one type is a promise kept at a price: the cache is
asked before the line's own type (273), so an old line without HCI data turns all later
lines of the device into type 9, whatever they say. `OwnTypeUnlessMixed` states exactly
when that may happen. `RepeatAddsNothing` rests on the sorting (`src/README.md:219`): the
same set of lines always gives the same types. Which order `sort` gives depends on the
locale; `Order` is that order, any one in the proofs and that of the bytes in the run.

## 3. Runs

| Run | Instance | Shows |
|---|---|---|
| `launcher_one` (190,353 states) | 1 device, 4 tools, all faults, 2 attempts, 3 log lines, two RSSI values, fairness | `TypeOK`, `KnownDevices`, `CheckedEntryStays`; `ImplementsFairSchedule`; `TablesDrain` |
| `launcher_two` (about 800,000 states, symmetry) | 2 devices, the shipped toggles (GATT and SDP), 1 attempt, 4 lines | `CheckedEntryStays`, `BleVendorMoveKeepsDevice`, `ImplementsSchedule` |
| `launcher_sort` | as two, 3 lines | violated: `RadioThreadsLive` |
| `launcher_btcmove` | as two, 3 lines | violated: `BtcVendorMoveKeepsDevice` |
| `launcher_stale` | as one, no fairness | violated: `DroppedIsExhausted` |
| `gatt_session` (15,463 states) | `Usual`, `Full` and `Empty` devices, handles up to 12, all faults, fairness | `TypeOK`, `ReadsInOrder`, `LoggedUnderOwnHandle`, `OneRequestPerDiscovery`; `ReadsSettle` |
| `gatt_exit` | `Small` device, no faults | violated: `ExitAwaitsReads` |
| `gatt_hang` | `ThreeVendor` device, no faults, fairness | violated: `SessionEnds` |
| `log_tail` (680,414 states) | 2 starts, an old log and perhaps an old link, logs moved away, lines of 2 units, logs of 3, fairness | `TypeOK`, `SleepsCaughtUp`, `OrderlyStart`, `ReadsOnce`; `EverythingProcessed` |
| `tool_run` (127,701 states) | 2 radios, 4 runs, 4 tasks, fairness | `TypeOK`, `OneToolAtWork`, `OnlyTimeoutsLeak`; `ToolsEnd`, `ForkFailureResolved` |
| `att_bearer` (582,276 states) | 2 operations of any kind, 2 channels, 2 security levels, fairness | `TypeOK`, `OneFate`, `ToldUnlessDropped`, `InOnePlace`; `EveryOpSettles` |
| `gatt_import` (483,556 states) | 2 devices, 9 lines, 3 imports, 1 change by the HCI import | `TypeOK`, `OneTypePerRun`, `ReadIsStored`, `OwnTypeUnlessMixed`; `RepeatAddsNothing` |

Bounds. Three lines are the shortest log in which a device is listed, withdrawn and
listed again, or listed, deprioritized and changed, while it is being worked on; the
fourth line lets a second device be listed and deprioritized as the first is skipped,
which is what reprioritization needs. Two attempts make a device come up again after a
failure and let a stronger signal give an attempt back (the counter must be above 1);
one attempt makes whole rounds of skips short. Two RSSI values, the `-80` of [NEW] and
a stronger one, decide every comparison; a weaker one only takes the branch that does
not decrement, which `-80` after `-70` takes too. Deadlock is checked: the only states
without another step are those of `Quiescent`, in which main waits for the log and the
radio threads spin on empty tables or are dead.

The devices of `MCGatt` are numbered as servers number their attributes. `Usual` has two
services, three readable characteristics and a value of three parts, so that reads,
continuations and discoveries are in the queue together; `Full` reaches the highest
handle, where `uint16_t` start handles wrap and a discovery ends without a last round;
`Empty` has nothing to discover. 12 stands for 0xffff: only the distance of the last
attribute from it matters. Deadlock is not checked for gatttool: it ends, or waits until
it is killed.

Two starts are enough for every overlap of scripts, links and launchers; three units are
one and a half lines, so a reader meets the end of a file inside a line and on its end.
Four tasks hold two tools and their threads: the fifth is refused, and two timeouts make
room scarce for the rest; with four runs both radios come to a failed fork and a failed
thread start. Two operations and two channels give every pair: one pending and one queued,
two in one queue that is being failed, one sent or cancelled in the callback of the other,
one put back by a channel that goes while the other is idle. The nine lines have one of
each kind of damage beside good lines, and both styles and types of one device; three
imports are an interrupted, a whole and a repeated one. None of the four checks deadlock:
the bounds on starts, runs, operations and imports end each of them, and so does the
system itself (a reboot, a bearer without channels).

Fairness of the launcher. Weak fairness of `ProcessLine`, of each radio thread and of each
ApplicationThread: CPython's scheduler passes the interpreter lock on to every thread
that can run, each of these groups is one thread, and a thread that waits for a lock is
enabled again when the lock is free. No fairness is assumed of the log, of the tools or
of the faults: `ToolExits` and `ReadLine` may never happen again, and a tool that hangs
is ended by the timeout of `wait()`. Weak fairness says nothing to a thread whose lock
is free only now and then; `TablesDrain` and the end of runs hold without more because
the log is finite.

Fairness of gatttool. Weak fairness of each kind of event source of the main loop, which
dispatches what is ready (`WriteRequest` or `WriterStops`, `FailNext`, `Exit`), of an
answer or its 30 s timer (`Receive` or `TimeOut`: without the fault "timeout" the device
answers in the end, with it either may happen), and of the hang-up of a socket that the
program itself has shut down. Nothing is assumed of the connection attempt or of a loss.

Fairness of the others. `LogTail`: weak fairness of `main()` only; nobody has to start,
write, kill or link. `ToolRun`: of the radio threads, of the ApplicationThreads, whose
`wait()` has a timeout, and of the death of a process after SIGKILL; no tool ends by
itself. `AttBearer`: of a handler that has begun, of a writer that is installed, of the
timer of a pending operation and of the hang-up after `io_shutdown`; the other side may
be silent for ever. `GattImport` states no liveness: the script is run by hand.

### What the violated properties show

* **`RadioThreadsLive`** (379, 513). Four steps: [NEW] lists a device, the radio thread
  copies the keys, [DEL] removes it, the key function looks it up. The `KeyError` ends
  that radio's thread; main and the other thread go on and the log shows nothing but a
  traceback.
* **`BtcVendorMoveKeepsDevice`** (363). The BTC thread reprioritizes under the BLE lock
  while main is in the middle of the move under the BTC lock, and the device ends up in
  neither dictionary. `BleVendorMoveKeepsDevice`, the same property of the other
  transport, holds and is proved.
* **`DroppedIsExhausted`** (392 and 400). The comparison is stale when the deletion
  comes: a device that went away and came back in between is dropped with its new,
  unused counter.
* **`ExitAwaitsReads`** (`attrib/gatttool.c:266-270`). The comment promises that the
  program does not exit before an upcoming read; the test does not look at the reads. The
  three discoveries take turns in one queue. On a device with one service and one
  characteristic both the characteristic and the descriptor discovery take two rounds, so
  the read is queued one request before the end of the descriptor discovery and is still
  there when the program ends, with success: the launcher does not try again.
* **`SessionEnds`** (`attrib/gatttool.c:71`, 133, 268). One service with a 128 bit UUID
  fits into a response and five descriptors do, so three vendor services need more rounds
  than their nine attributes. The handle test then sees the initial 0xffff and is not
  made again: everything has been read and the program waits to be killed, which the
  launcher counts as a failure. The comment at 267 knows of the same outcome for a last
  service that really ends at 0xffff.

## 4. Proofs

`CentralAppLauncher_proofs` (770 obligations) proves, for any finite set of devices, any
RSSI values, limits, toggles, skip list and faults, from `LauncherAssumption` only:

| Theorem | Statement |
|---|---|
| `TypeCorrect` | `Spec => []TypeOK` |
| `DevicesKnown` | `Spec => []KnownDevices` |
| `EntriesStay` | `Spec => []CheckedEntryStays` |
| `BleMoveKeeps` | `Spec => []BleVendorMoveKeepsDevice` |
| `ScheduleImplemented` | `Spec => ImplementsSchedule` |

All rest on `Inductive == Spec => []IndInv`, with

    IndInv == TypeOK /\ KnownDevices /\ LocalInv /\ EntryInv /\ RunInv

None of the parts is inductive alone. `TypeOK` says that counters are naturals, and
`DecWrite` writes the old value minus one: it needs `LocalInv`, which says that main
decrements only a value it has read after a test for more than one. That argument is
subtle, because the test (`RssiLock`) and the read (`DecRead`) are two steps between
which radio threads may write: it holds because only main ever sets the counter back, so
that the others can only leave it above zero (they write a value they have read, plus
one). `KnownDevices` covers all copies of keys, or a radio thread could carry an unknown
device into the counter. `CheckedEntryStays` needs `LockInv`: whoever comes back to an
entry owns its lock. `BleVendorMoveKeepsDevice` needs that main holds the BLE table lock
and that `Reprioritize` waits for it. The refinement needs `RunInv`: while a tool's
ApplicationThread is alive its radio thread is at the joins, or at the second tool of
the same device, so `Launch` never starts a second device; and from the look-up in
`Collected` to `Launch` the device stays out of `success[tool]`, because only the
ApplicationThread of that very tool could add it.

The proof has one lemma per part of the invariant and group of actions (main, radio
threads, ApplicationThreads), with one step per action.

`GattTool_proofs` and `GattOrder_proofs` prove, for any set of devices, highest handle
and faults, from `DeviceAssumption` only:

| Theorem | Statement |
|---|---|
| `TypeCorrect` | `Spec => []TypeOK` |
| `LabelsRight` | `Spec => []LoggedUnderOwnHandle` |
| `ReadsOrdered` | `Spec => []ReadsInOrder` |
| `OneRound` | `Spec => []OneRequestPerDiscovery` |

The first two rest on `IndInv == TypeOK /\ SoundQueue /\ LoggedUnderOwnHandle`. What is
logged depends on two reads at different times, the handle asked for and the slot looked
up when the answer comes. `SoundQueue` ties them together while the request is under way:
the slots are filled and the request asks for the handle of its slot, in the queue, while
pending, as a continuation and when pushed back. The proof is split by what a step works
on, `ProgramOK` for the callbacks of gatttool and `BearerOK` for the queue.

The other two rest on `IndInv` and `OrderInv == Stages /\ Ordered`. `Ordered` is about
`UnderWay`, the pending request followed by the queue: `InOrder` says that the reads in
it are, in this order, the slots after the last answered one, and `OneEach` that it holds
one request of each unfinished discovery. Every action is one of few operations on that
sequence, and each is a lemma: the first leaves (an answer, a timeout, a disconnection),
the first is replaced (a continuation at the head), the first leaves and a discovery
joins the tail (the next round), reads join the tail. `Stages` says when `slots` may
still be empty and `pending` must be.

`LogTail_proofs` (468 obligations) proves, for any lines, cuts, numbers of starts and lengths, from
`LogTailAssumption` only:

| Theorem | Statement |
|---|---|
| `TypeCorrect` | `Spec => []TypeOK` |
| `OrderlyFollows` | `Spec => []OrderlyStart` |
| `NoLostWakeup` | `Spec => []SleepsCaughtUp` |
| `ReadOnce` | `Spec => ReadsOnce` |

`OrderlyStart` needs to know what the link is at every position of the script of the last
start: gone after `rm`, its own after `ln`, or at either place one that dangles; and that an earlier start's processes are gone
while `orderly` holds. `SleepsCaughtUp` and `ReadsOnce` need a statement about every
position of `main()`: the offset is the end of the last piece, and whatever the log has
beyond it is either still to be read in this opening or announced by a queued event. The
step that matters is a `Write` between the end of the file and `inotify.read`.

`ToolRun_proofs` proves, for any finite set of radios, any number of tasks and runs, from
`ToolRunAssumption` only, `TypeCorrect`, `OneAtWork` (`Spec => []OneToolAtWork`) and
`LeakIsTimeout` (`Spec => []OnlyTimeoutsLeak`). The invariant `IInv` adds that runs are
numbered in the order of their launch, that a radio about to start a thread has a latest
process without one, that a thread is only waiting while its radio is at the joins of that
very run, and which states of process and thread go together. A thread that could not be started leaves
its tool at work beside the next one (447): the theorem says that this is the only way.

`AttBearer_proofs` (3,158 obligations) proves, for any set of channels, any number of
operations and security levels and any user, from `AttBearerAssumption` only:

| Theorem | Statement |
|---|---|
| `TypeCorrect` | `Spec => []TypeOK` |
| `OneFateHolds` | `Spec => []OneFate` |
| `ToldHolds` | `Spec => []ToldUnlessDropped` |
| `OnePlace` | `Spec => []InOnePlace` |

All rest on `Inductive == Spec => []IndInv`, with

    IndInv == TypeOK /\ Homed /\ Sorted /\ Handler /\ Life /\ CallInv /\ Told

`OneFate` and `InOnePlace` need each other. An operation is destroyed wherever a queue or
a channel is emptied, so that it is destroyed only once depends on its being in one place
only; and that it is nowhere after the free depends on every step that destroys it also
removing it. `Homed` says where each operation is in terms that compose: a home is a
queue, a channel's slot or the hands of a handler, an operation that is created and not
freed has one home and any other has none, and no queue holds an operation twice. Every
action is then one of three things to an operation (`Stays`, `Goes`, `MovesTo`), and
`HomeSteps` turns these into `Homed'`. `Life` ties the history of an operation to whether
its handlers are set, and `CallInv` adds the one delicate state: handlers still set and
already called back, which is the operation whose callback is running and no other. It is
what makes `Return` destroy an operation that was told, and what would fail if a callback
could be entered from another one. `Told` follows the handlers instead of the free: a
request loses them by its callback or by the user, so it cannot be freed untold. `Handler`
says what each handler has taken from where: `handle_rsp` and `handle_conf` leave their
operation pending during the callback, `timeout_cb` and `disconnect_cb` do not, which is
why `Taken` counts the hand of the latter two only. `Sorted` is needed for the queue of a
channel, whose operations are destroyed without a callback: they are responses, which
have none.

The lemmas come in layers: what each queue operation does to the members of a queue
(`MembersTail` for `queue_pop_head`, `MembersWithout` for `queue_remove_if`, and
`QueuedIs` for the search through three queues); what `Settle` does to histories
(`SettleOne`, `Settles`); and what a kind of step keeps (`DestroySteps`, `MoveSteps`,
`CreatesIn`, `CancelsInPlace`, `NothingMoves`), which the lemma of each action cites.

`GattImport_proofs` (674 obligations) proves, for any log, any order of its lines, any
devices and HCI tables and any number of runs, from `GattImportAssumption` only:

| Theorem | Statement |
|---|---|
| `TypeCorrect` | `Spec => []TypeOK` |
| `OneType` | `Spec => []OneTypePerRun` |
| `Stored` | `Spec => []ReadIsStored` |
| `OwnTypeKept` | `Spec => []OwnTypeUnlessMixed` |
| `RepeatIsIdle` | `Spec => RepeatAddsNothing` |

The invariant is `IndInv == TypeOK /\ RunInv /\ RestInv /\ SettledInv`. `RunInv`
describes a run in progress by what it has read: the reader goes through the file in order
(`Ordered`), the lines it never saw as such are exactly those that an unfinished line it
has read takes with it, as many as they are (`Swallows`), the cache holds what the first line of a device gave (`Cached`), and
the inserts are those of the proper lines, with the type in the cache, and committed
(`Made`). `RepeatAddsNothing` compares two runs: `SettledInv` says that, once an import has
gone through, there are a set of lines and an assignment of types (`Whole`) that any import
of this log arrives at, that their rows are in the tables, and that the run under way, if
any, agrees with them so far (`Follows`). The steps that matter are the first line of a
device, whose type must be the one of the earlier run, and an unfinished line, which must
swallow the same lines again; both depend on the order being total. `Stored` is stated over
the log itself and not over what the run has seen: `SwallowedAhead` and `SameInLog` say
that what a line swallows of the rest of the file is what it swallows of the whole log.

Only model-checked: liveness (`TablesDrain`, `ImplementsFairSchedule`, `ReadsSettle`,
`SessionEnds`, `EverythingProcessed`, `ToolsEnd`, `ForkFailureResolved`,
`EveryOpSettles`), because fairness and `ENABLED` are out of the prover's reach, and
freedom from deadlock of the launcher. Every invariant and every safety property of the
passing runs is proved.

## 5. Plan and what is not modelled

Worth proving next: that the bearer inside `GattTool` refines `AttBearer` with one channel
and requests only. Both are translations of `att.c`, made apart, and so far only a reader
can compare them.

Not modelled:

* **`map_specific.sh`**, `gpspipe2mysql.py`, `plot_specific.py`: sequential, run by hand
  over finished captures, and reset everything they use. (The loop loads the accumulated
  CSV again after each file, so advertisements of the first of n files are inserted n
  times; the table has no unique key and the map shows the same points.)
* **HCI import**: each `fill_*.sh` is one tshark filter into `LOAD DATA ... IGNORE`; the
  result that matters to another part, the type of an address, is `HciImport`.
* **`TellMeEverything.py`**: reads the database and prints.
* **bluetoothctl's proxies**, the daemon, the kernel, btmon, sdptool and everything else of
  BlueZ 5.66: unchanged third-party code that this program starts and talks to through
  log lines, exit codes and sockets only. It is nearly all of the lines in the repository;
  modelling it would say nothing about this program, so the share of lines the map covers
  stays small although the program's own logic is covered.
* **`start_btmon.sh`, `start_gpspipe.sh`** and the helper scripts: start one program or
  print something.
* In `att.c`, MTU exchange, signing and the lists of registered handlers; in `gatt.c`, the
  procedures gatttool never calls here.
