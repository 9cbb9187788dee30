------------------------- MODULE CentralAppLauncher -------------------------
(***************************************************************************)
(* Scripts/central_app_launcher2.py: the program that follows the log of   *)
(* bluetoothctl and runs one information gathering tool after another on   *)
(* every device it sees.                                                   *)
(*                                                                         *)
(* Threads:                                                                *)
(*   main       follows the log and edits the device tables                *)
(*   BLE, BTC   one per transport: sort the table, visit every device,     *)
(*              launch its tools and join them                             *)
(*   one ApplicationThread per tool that runs: waits for the process with  *)
(*              a timeout, records a success or kills the process          *)
(*                                                                         *)
(* A step is one access to state another thread can touch. A critical      *)
(* section that protects all it touches, and takes no lock inside, is one  *)
(* step that needs the lock free; a section that is wider than that keeps  *)
(* its lock in tableOwner or successOwner until it ends.                   *)
(***************************************************************************)
EXTENDS Integers, FiniteSets

CONSTANTS
    Devices,             \* BDADDRs
    Rssi,                \* signal strengths a log line can report
    NewRssi,             \* the strength a [NEW] line stands for (-80)
    MaxConnectAttempts,  \* max_connect_attempts
    SkipList,            \* skip_these_addresses
    Enabled,             \* the tools whose toggle is True
    Faults,              \* which faults can happen: "fork", "log", "torn"
    MaxLines,            \* bound on the log lines main processes
    Absent,              \* "not in the dictionary"
    Nobody               \* no device, no tool, no owner

Transports == {"BLE", "BTC"}
Tools == {"GATT", "LL2thprint", "LMP2thprint", "SDP"}

\* The order in which the two radio threads try their tools on a device.
FirstTool == [BLE |-> "GATT", BTC |-> "LMP2thprint"]
SecondTool == [BLE |-> "LL2thprint", BTC |-> "SDP"]
Radio(k) == IF k \in {"GATT", "LL2thprint"} THEN "BLE" ELSE "BTC"

ASSUME LauncherAssumption ==
    /\ IsFiniteSet(Devices)
    /\ Rssi \subseteq Int /\ NewRssi \in Rssi /\ Absent \notin Rssi
    /\ Absent \notin Nat
    /\ MaxConnectAttempts \in Nat \ {0}
    /\ MaxLines \in Nat
    /\ SkipList \subseteq Devices
    /\ Enabled \subseteq Tools
    /\ Faults \subseteq {"fork", "log", "torn"}
    /\ Nobody \notin Devices \cup Tools \cup Transports \cup {"main"}

VARIABLES
    \* Shared by all threads.
    table,         \* ble_bdaddrs and btc_bdaddrs: the RSSI of each listed device
    depri,         \* ble_ and btc_deprioritized_bdaddrs
    attempts,      \* device_connect_attempts, which no lock protects
    success,       \* gatt_, ll2thprint_, lmp2thprint_ and sdp_success_bdaddrs
    tableOwner,    \* ble_bdaddrs_lock and btc_bdaddrs_lock
    successOwner,  \* the four success locks
    \* The main thread.
    mpc, line, mreg,
    \* The radio threads, one of each per transport.
    rpc,           \* where the thread is
    unread,        \* keys sorted() has yet to look up
    todo,          \* sorted_bdaddrs still to visit, with the RSSI of the sort
    size,          \* len(sorted_bdaddrs)
    skips,         \* skip_count
    cur,           \* bdaddr
    rreg,          \* the value read by the += of the attempt counter
    tool,          \* the tool the thread is busy with
    \* The application threads and their processes, one of each per tool.
    apc, adev, proc,
    \* bluetoothctl: the type of each device it has announced, and a line count.
    printed, fed

sharedVars == <<table, depri, attempts, success, tableOwner, successOwner>>
mainVars == <<mpc, line, mreg>>
roundVars == <<unread, todo, size, skips>>
radioVars == <<rpc, roundVars, cur, rreg, tool>>
appVars == <<apc, adev, proc>>
logVars == <<printed, fed>>
vars == <<sharedVars, mainVars, radioVars, appVars, logVars>>

MainPCs == {"read", "count", "insert", "rssi", "dec_read", "dec_write", "update",
            "vendor", "vendor_depri", "vendor_del", "del", "quit"}
RadioPCs == {"snapshot", "sort", "next", "drop", "relist", "reprioritize", "inc", "store",
             "collected", "finished", "member", "lock", "popen", "reboot", "join",
             "spin", "dead"}
AppPCs == {"none", "wait", "record", "remove"}
Line == [dev : Devices, t : Transports, rssi : Rssi]

EmptyDict == [d \in Devices |-> Absent]
Keys(dict) == {d \in Devices : dict[d] # Absent}

(***************************************************************************)
(* bdaddr has been taken through both tools of the transport               *)
(* (all_2thprints_done). It reads both dictionaries, of which the caller   *)
(* has locked one.                                                         *)
(***************************************************************************)
All2thprintsDone(got, t, d) == d \in got[FirstTool[t]] /\ d \in got[SecondTool[t]]

-----------------------------------------------------------------------------
(* The main thread: process_line.                                          *)

Step(from, to) == mpc = from /\ mpc' = to

\* process_line returns, and its local variables are gone.
LineDone == mpc' = "read" /\ line' = Nobody /\ mreg' = Nobody

\* The transport whose table a [CHG] line looks at next; after BTC the line is done.
NextTable(pc) ==
    IF line.t = "BLE"
    THEN mpc' = pc /\ line' = [line EXCEPT !.t = "BTC"] /\ mreg' = Nobody
    ELSE LineDone

\* main's loop takes the next line off the log. A device is announced by [NEW] once until
\* its [DEL]; a device announced as BLE can be withdrawn as BTC, because bluetoothctl
\* decides the type each time it prints the device.
ReadNew(d, t) ==
    /\ printed[d] = Absent
    /\ printed' = [printed EXCEPT ![d] = t]
    /\ line' = [dev |-> d, t |-> t, rssi |-> NewRssi]
    /\ mpc' = "count"

ReadChg(d, r, pc) ==
    /\ printed[d] # Absent
    /\ line' = [dev |-> d, t |-> "BLE", rssi |-> r]
    /\ mpc' = pc
    /\ UNCHANGED printed

ReadDel(d, t) ==
    /\ printed[d] # Absent
    /\ printed[d] = "BTC" => t = "BTC"
    /\ printed' = [printed EXCEPT ![d] = Absent]
    /\ line' = [dev |-> d, t |-> t, rssi |-> NewRssi]
    /\ mpc' = "del"

\* A line cut off in the middle of a write, "... ManufacturerData Key:" without the key, is
\* an IndexError and ends main; the radio threads go on.
ReadTorn ==
    /\ "torn" \in Faults
    /\ mpc' = "quit"
    /\ UNCHANGED <<line, printed>>

ReadLine ==
    /\ mpc = "read"
    /\ fed < MaxLines
    /\ fed' = fed + 1
    /\ \/ \E d \in Devices, t \in Transports : ReadNew(d, t) \/ ReadDel(d, t)
       \/ \E d \in Devices, r \in Rssi : ReadChg(d, r, "rssi")
       \/ \E d \in Devices : ReadChg(d, NewRssi, "vendor")
       \/ ReadTorn
    /\ UNCHANGED <<sharedVars, mreg, radioVars, appVars>>

\* (mutant) [NEW] does not start the counter.
CountKept == attempts

CountReset == [attempts EXCEPT ![line.dev] = 0]

\* [NEW]: the attempt counter is reset before the device is listed.
NewCount ==
    /\ Step("count", "insert")
    /\ attempts' = CountReset
    /\ UNCHANGED <<table, depri, tableOwner, line, mreg>>

NewInsert ==
    /\ mpc = "insert"
    /\ tableOwner[line.t] = Nobody
    /\ table' = [table EXCEPT ![line.t][line.dev] = NewRssi]
    /\ LineDone
    /\ UNCHANGED <<depri, attempts, tableOwner>>

\* (mutant) A stronger signal is worth an attempt even to a device that has used none.
StrongerSignal == table[line.t][line.dev] < line.rssi

\* A stronger signal gives a device that has used more than one attempt one of them back.
EarnsAttempt == table[line.t][line.dev] < line.rssi /\ attempts[line.dev] > 1

\* [CHG] RSSI: under the table lock, but the counter it may decrement is not protected.
RssiLock ==
    /\ mpc = "rssi"
    /\ tableOwner[line.t] = Nobody
    /\ IF table[line.t][line.dev] = Absent
       THEN NextTable("rssi") /\ UNCHANGED tableOwner
       ELSE /\ tableOwner' = [tableOwner EXCEPT ![line.t] = "main"]
            /\ mpc' = IF EarnsAttempt THEN "dec_read" ELSE "update"
            /\ UNCHANGED <<line, mreg>>
    /\ UNCHANGED <<table, depri, attempts>>

DecRead ==
    /\ Step("dec_read", "dec_write")
    /\ mreg' = attempts[line.dev]
    /\ UNCHANGED <<table, depri, attempts, tableOwner, line>>

DecWrite ==
    /\ Step("dec_write", "update")
    /\ attempts' = [attempts EXCEPT ![line.dev] = mreg - 1]
    /\ mreg' = Nobody
    /\ UNCHANGED <<table, depri, tableOwner, line>>

RssiUpdate ==
    /\ mpc = "update"
    /\ table' = [table EXCEPT ![line.t][line.dev] = line.rssi]
    /\ tableOwner' = [tableOwner EXCEPT ![line.t] = Nobody]
    /\ NextTable("rssi")
    /\ UNCHANGED <<depri, attempts>>

\* [CHG] ManufacturerData of Apple: the device moves to the deprioritized dictionary.
VendorLock ==
    /\ mpc = "vendor"
    /\ tableOwner[line.t] = Nobody
    /\ IF table[line.t][line.dev] = Absent
       THEN NextTable("vendor") /\ UNCHANGED tableOwner
       ELSE /\ tableOwner' = [tableOwner EXCEPT ![line.t] = "main"]
            /\ mreg' = table[line.t][line.dev]
            /\ mpc' = "vendor_depri"
            /\ UNCHANGED line
    /\ UNCHANGED <<table, depri, attempts>>

VendorDepri ==
    /\ Step("vendor_depri", "vendor_del")
    /\ depri' = [depri EXCEPT ![line.t][line.dev] = mreg]
    /\ UNCHANGED <<table, attempts, tableOwner, line, mreg>>

VendorDel ==
    /\ mpc = "vendor_del"
    /\ table' = [table EXCEPT ![line.t][line.dev] = Absent]
    /\ tableOwner' = [tableOwner EXCEPT ![line.t] = Nobody]
    /\ NextTable("vendor")
    /\ UNCHANGED <<depri, attempts>>

\* (mutant) The deletion without the lock.
UnlockedDelete(t, d) == table' = [table EXCEPT ![t][d] = Absent]

\* locked_delete_from_dict, for the thread whose own step it is part of.
LockedDelete(t, d) ==
    /\ tableOwner[t] = Nobody
    /\ table' = [table EXCEPT ![t][d] = Absent]

\* [DEL]: the deprioritized dictionaries are left alone.
DelLine ==
    /\ mpc = "del"
    /\ LockedDelete(line.t, line.dev)
    /\ LineDone
    /\ UNCHANGED <<depri, attempts, tableOwner>>

ProcessLine ==
    /\ \/ NewCount \/ NewInsert
       \/ RssiLock \/ DecRead \/ DecWrite \/ RssiUpdate
       \/ VendorLock \/ VendorDepri \/ VendorDel
       \/ DelLine
    /\ UNCHANGED <<success, successOwner, radioVars, appVars, logVars>>

-----------------------------------------------------------------------------
(* The radio threads: ble_thread_function and btc_thread_function.         *)

Goto(t, pc) == rpc' = [rpc EXCEPT ![t] = pc]

Move(t, from, to) == rpc[t] = from /\ Goto(t, to)

\* The body of the for loop is over for this device.
Continue(t) == Goto(t, "next") /\ cur' = [cur EXCEPT ![t] = Nobody]

\* sorted() copies the keys and then looks every one of them up, without the lock.
TakeKeys(t) ==
    /\ rpc[t] = "snapshot"
    /\ unread' = [unread EXCEPT ![t] = Keys(table[t])]
    /\ todo' = [todo EXCEPT ![t] = EmptyDict]
    /\ size' = [size EXCEPT ![t] = Cardinality(Keys(table[t]))]
    /\ skips' = [skips EXCEPT ![t] = 0]
    /\ Goto(t, IF Keys(table[t]) = {} THEN "next" ELSE "sort")
    /\ UNCHANGED cur

\* The key function: the RSSI of one device, or the KeyError nothing catches.
SortKey(t, d) ==
    /\ rpc[t] = "sort"
    /\ d \in unread[t]
    /\ \/ /\ table[t][d] # Absent
          /\ todo' = [todo EXCEPT ![t][d] = table[t][d]]
          /\ unread' = [unread EXCEPT ![t] = @ \ {d}]
          /\ Goto(t, IF unread[t] = {d} THEN "next" ELSE "sort")
       \/ /\ table[t][d] = Absent
          /\ Goto(t, "dead")
          /\ UNCHANGED <<todo, unread>>
    /\ UNCHANGED <<size, skips, cur>>

\* A device the for loop can take next: one with the strongest signal of those left.
Strongest(t, d) ==
    /\ todo[t][d] # Absent
    /\ \A e \in Keys(todo[t]) : todo[t][e] <= todo[t][d]

Exhausted(d) == d \in SkipList \/ attempts[d] >= MaxConnectAttempts

\* The for loop takes a device: skip it, or go on to count the attempt.
NextDevice(t, d) ==
    /\ rpc[t] = "next"
    /\ Strongest(t, d)
    /\ todo' = [todo EXCEPT ![t][d] = Absent]
    /\ cur' = [cur EXCEPT ![t] = d]
    /\ \/ Exhausted(d) /\ Goto(t, "drop") /\ skips' = [skips EXCEPT ![t] = @ + 1]
       \/ ~Exhausted(d) /\ Goto(t, "inc") /\ UNCHANGED skips
    /\ UNCHANGED <<unread, size>>

EndOfLoop(t) ==
    /\ Move(t, "next", "spin")
    /\ Keys(todo[t]) = {}
    /\ size' = [size EXCEPT ![t] = 0]
    /\ skips' = [skips EXCEPT ![t] = 0]
    /\ UNCHANGED <<unread, todo, cur>>

\* (mutant) The skipped device stays, and keeps coming up over and over again.
SkipKeep(t) ==
    /\ Move(t, "drop", "relist")
    /\ UNCHANGED <<table, depri, cur>>

\* A device that is skipped leaves the table.
SkipDrop(t) ==
    /\ Move(t, "drop", "relist")
    /\ LockedDelete(t, cur[t])
    /\ UNCHANGED <<depri, cur>>

\* When every device of the round was skipped, one deprioritized device gets its turn.
Relist(t) ==
    /\ rpc[t] = "relist"
    /\ \/ /\ skips[t] = size[t]
          /\ \E d \in Keys(depri[t]) : cur' = [cur EXCEPT ![t] = d]
          /\ Goto(t, "reprioritize")
       \/ (skips[t] # size[t] \/ Keys(depri[t]) = {}) /\ Continue(t)
    /\ UNCHANGED <<table, depri>>

\* (mutant) The other radio's lock, for BLE as well.
WrongLock(t) == "BTC"

\* The lock both radio threads take here: reprioritize_btc_bdaddr takes the BLE one too.
ReprioritizeLock(t) == "BLE"

Reprioritize(t) ==
    /\ rpc[t] = "reprioritize"
    /\ tableOwner[ReprioritizeLock(t)] = Nobody
    /\ IF depri[t][cur[t]] # Absent
       THEN /\ depri' = [depri EXCEPT ![t][cur[t]] = Absent]
            /\ table' = [table EXCEPT ![t][cur[t]] = depri[t][cur[t]]]
       ELSE UNCHANGED <<depri, table>>
    /\ Continue(t)

\* (mutant) The next device is taken up while the tools of this one still run.
NoJoin(t) ==
    /\ rpc[t] = "join"
    /\ Continue(t)
    /\ UNCHANGED <<table, depri>>

\* The joins: every ApplicationThread this thread has started is over.
Join(t) ==
    /\ rpc[t] = "join"
    /\ \A k \in Tools : Radio(k) = t => apc[k] = "none"
    /\ Continue(t)
    /\ UNCHANGED <<table, depri>>

\* The busy wait at the end of a round is over once the table has an entry.
SpinEnds(t) ==
    /\ Move(t, "spin", "snapshot")
    /\ Keys(table[t]) # {}
    /\ UNCHANGED <<table, depri, cur>>

\* The first tool of the transport that is enabled, and the one after k; then the joins.
FirstEnabled(t) ==
    CASE FirstTool[t] \in Enabled -> FirstTool[t]
      [] FirstTool[t] \notin Enabled /\ SecondTool[t] \in Enabled -> SecondTool[t]
      [] OTHER -> Nobody

ToolAfter(k) ==
    IF k = FirstTool[Radio(k)] /\ SecondTool[Radio(k)] \in Enabled
    THEN SecondTool[Radio(k)] ELSE Nobody

TakeUp(t, k) ==
    /\ tool' = [tool EXCEPT ![t] = k]
    /\ Goto(t, IF k = Nobody THEN "join" ELSE "collected")

\* device_connect_attempts[bdaddr] += 1 is a read and a write.
IncRead(t) ==
    /\ Move(t, "inc", "store")
    /\ rreg' = [rreg EXCEPT ![t] = attempts[cur[t]]]
    /\ UNCHANGED <<attempts, tool>>

IncWrite(t) ==
    /\ rpc[t] = "store"
    /\ attempts' = [attempts EXCEPT ![cur[t]] = rreg[t] + 1]
    /\ rreg' = [rreg EXCEPT ![t] = Nobody]
    /\ TakeUp(t, FirstEnabled(t))

\* (mutant) Successes are not looked up.
NeverCollected(t) == FALSE

AlreadyCollected(t) == cur[t] \in success[tool[t]]

\* Under the success lock: a tool that has succeeded for the device is not run again.
Collected(t) ==
    /\ rpc[t] = "collected"
    /\ successOwner[tool[t]] = Nobody
    /\ CASE ~AlreadyCollected(t) -> Goto(t, "member") /\ UNCHANGED <<successOwner, tool>>
         [] AlreadyCollected(t) /\ ~All2thprintsDone(success, t, cur[t]) ->
              TakeUp(t, ToolAfter(tool[t])) /\ UNCHANGED successOwner
         [] OTHER ->
              /\ successOwner' = [successOwner EXCEPT ![tool[t]] = t]
              /\ Goto(t, "finished")
              /\ UNCHANGED tool
    /\ UNCHANGED <<table, tableOwner, appVars>>

\* All the tools of the transport have succeeded: delete the device, inside the success lock.
FinishedDrop(t) ==
    /\ rpc[t] = "finished"
    /\ LockedDelete(t, cur[t])
    /\ successOwner' = [successOwner EXCEPT ![tool[t]] = Nobody]
    /\ TakeUp(t, ToolAfter(tool[t]))
    /\ UNCHANGED <<tableOwner, appVars>>

\* "bdaddr in bdaddrs" without the lock; for GATT it is asked again under the lock.
Member(t) ==
    /\ rpc[t] = "member"
    /\ IF table[t][cur[t]] = Absent
       THEN TakeUp(t, ToolAfter(tool[t]))
       ELSE Goto(t, IF tool[t] = "GATT" THEN "lock" ELSE "popen") /\ UNCHANGED tool
    /\ UNCHANGED <<table, tableOwner, successOwner, appVars>>

GattLock(t) ==
    /\ rpc[t] = "lock"
    /\ tableOwner[t] = Nobody
    /\ IF table[t][cur[t]] = Absent
       THEN TakeUp(t, ToolAfter(tool[t])) /\ UNCHANGED tableOwner
       ELSE /\ tableOwner' = [tableOwner EXCEPT ![t] = t]
            /\ Goto(t, "popen")
            /\ UNCHANGED tool
    /\ UNCHANGED <<table, successOwner, appVars>>

\* The end of "with ble_bdaddrs_lock", which only the GATT launch is inside of.
LeaveGattLock(t) ==
    tableOwner' = IF tool[t] = "GATT" THEN [tableOwner EXCEPT ![t] = Nobody] ELSE tableOwner

\* Popen and the start of the ApplicationThread; all but LL2thprint log the attempt first.
Launch(t) ==
    /\ rpc[t] = "popen"
    /\ proc' = [proc EXCEPT ![tool[t]] = "running"]
    /\ apc' = [apc EXCEPT ![tool[t]] = "wait"]
    /\ adev' = [adev EXCEPT ![tool[t]] = cur[t]]
    /\ LeaveGattLock(t)
    /\ TakeUp(t, ToolAfter(tool[t]))
    /\ UNCHANGED <<table, successOwner>>

\* The attempt cannot be logged (external_log_write): quit() ends this thread only.
LogFails(t) ==
    /\ "log" \in Faults /\ tool[t] # "LL2thprint"
    /\ Move(t, "popen", "dead")
    /\ LeaveGattLock(t)
    /\ UNCHANGED <<table, successOwner, tool, appVars>>

\* Popen fails: force_reboot, half a minute of sleep with the lock still held.
ForkFails(t) ==
    /\ "fork" \in Faults
    /\ Move(t, "popen", "reboot")
    /\ UNCHANGED <<table, tableOwner, successOwner, tool, appVars>>

\* "REBOOT STILL DIDN'T WORK?!": launch_application returns None.
RebootFails(t) ==
    /\ rpc[t] = "reboot"
    /\ LeaveGattLock(t)
    /\ TakeUp(t, ToolAfter(tool[t]))
    /\ UNCHANGED <<table, successOwner, appVars>>

\* The round over the snapshot, its skips and waits, the attempt counter, the tools.
Round(t) ==
    /\ \/ TakeKeys(t) \/ EndOfLoop(t)
       \/ \E d \in Devices : SortKey(t, d) \/ NextDevice(t, d)
    /\ UNCHANGED <<sharedVars, rreg, tool, appVars>>

Between(t) ==
    /\ SkipDrop(t) \/ Relist(t) \/ Reprioritize(t) \/ Join(t) \/ SpinEnds(t)
    /\ UNCHANGED <<attempts, success, tableOwner, successOwner, roundVars, rreg, tool, appVars>>

Count(t) ==
    /\ IncRead(t) \/ IncWrite(t)
    /\ UNCHANGED <<table, depri, success, tableOwner, successOwner, roundVars, cur, appVars>>

Probe(t) ==
    /\ \/ Collected(t) \/ FinishedDrop(t) \/ Member(t) \/ GattLock(t)
       \/ Launch(t) \/ LogFails(t) \/ ForkFails(t) \/ RebootFails(t)
    /\ UNCHANGED <<depri, attempts, success, roundVars, cur, rreg>>

RadioThread(t) ==
    /\ Round(t) \/ Between(t) \/ Count(t) \/ Probe(t)
    /\ UNCHANGED <<mainVars, logVars>>

-----------------------------------------------------------------------------
(* The tools and ApplicationThread.run.                                    *)

\* The process ends by itself, with or without exit code 0.
ToolExits(k) ==
    /\ proc[k] = "running"
    /\ \E code \in {"ok", "failed"} : proc' = [proc EXCEPT ![k] = code]
    /\ UNCHANGED <<sharedVars, mainVars, radioVars, apc, adev, logVars>>

EndApp(k) ==
    /\ apc' = [apc EXCEPT ![k] = "none"]
    /\ adev' = [adev EXCEPT ![k] = Nobody]

\* wait() returns: a success that can be logged is recorded, anything else ends the thread.
\* A success that cannot be logged is not recorded; LL2thprint logs nothing.
WaitReturns(k) ==
    /\ apc[k] = "wait"
    /\ proc[k] \in {"ok", "failed"}
    /\ proc' = [proc EXCEPT ![k] = "none"]
    /\ \/ /\ proc[k] = "ok"
          /\ apc' = [apc EXCEPT ![k] = "record"]
          /\ UNCHANGED adev
       \/ /\ proc[k] = "failed" \/ ("log" \in Faults /\ k # "LL2thprint")
          /\ EndApp(k)
    /\ UNCHANGED <<table, success, successOwner>>

\* TimeoutExpired: the process is killed.
WaitTimesOut(k) ==
    /\ apc[k] = "wait"
    /\ proc[k] = "running"
    /\ proc' = [proc EXCEPT ![k] = "none"]
    /\ EndApp(k)
    /\ UNCHANGED <<table, success, successOwner>>

\* Under the success lock; the table lock is taken inside it when everything is collected.
Record(k) ==
    LET got == [success EXCEPT ![k] = @ \cup {adev[k]}] IN
    /\ apc[k] = "record"
    /\ successOwner[k] = Nobody
    /\ success' = got
    /\ \/ /\ All2thprintsDone(got, Radio(k), adev[k])
          /\ successOwner' = [successOwner EXCEPT ![k] = k]
          /\ apc' = [apc EXCEPT ![k] = "remove"]
          /\ UNCHANGED adev
       \/ /\ ~All2thprintsDone(got, Radio(k), adev[k])
          /\ EndApp(k)
          /\ UNCHANGED successOwner
    /\ UNCHANGED <<table, proc>>

Remove(k) ==
    /\ apc[k] = "remove"
    /\ LockedDelete(Radio(k), adev[k])
    /\ successOwner' = [successOwner EXCEPT ![k] = Nobody]
    /\ EndApp(k)
    /\ UNCHANGED <<success, proc>>

AppThread(k) ==
    /\ WaitReturns(k) \/ WaitTimesOut(k) \/ Record(k) \/ Remove(k)
    /\ UNCHANGED <<depri, attempts, tableOwner, mainVars, radioVars, logVars>>

-----------------------------------------------------------------------------
Init ==
    /\ table = [t \in Transports |-> EmptyDict] /\ depri = table
    /\ attempts = EmptyDict
    /\ success = [k \in Tools |-> {}]
    /\ tableOwner = [t \in Transports |-> Nobody]
    /\ successOwner = [k \in Tools |-> Nobody]
    /\ mpc = "read" /\ line = Nobody /\ mreg = Nobody
    /\ rpc = [t \in Transports |-> "snapshot"]
    /\ unread = [t \in Transports |-> {}] /\ todo = table
    /\ size = [t \in Transports |-> 0] /\ skips = size
    /\ cur = [t \in Transports |-> Nobody] /\ rreg = cur /\ tool = cur
    /\ apc = [k \in Tools |-> "none"] /\ proc = apc
    /\ adev = [k \in Tools |-> Nobody]
    /\ printed = EmptyDict /\ fed = 0

\* Nothing is left to do: main waits in inotify.read or has quit, and the radio threads
\* spin on empty tables or are dead. The code spins on; any other halt is a deadlock.
Quiescent ==
    /\ mpc \in {"read", "quit"}
    /\ \A t \in Transports : rpc[t] = "dead" \/ (rpc[t] = "spin" /\ Keys(table[t]) = {})
    /\ \A k \in Tools : apc[k] = "none"
    /\ UNCHANGED vars

Next ==
    \/ ReadLine \/ ProcessLine
    \/ \E t \in Transports : RadioThread(t)
    \/ \E k \in Tools : ToolExits(k) \/ AppThread(k)
    \/ Quiescent

Spec == Init /\ [][Next]_vars

\* The interpreter runs every thread that can run; log lines and exits may never come.
FairSpec ==
    /\ Spec
    /\ WF_vars(ProcessLine)
    /\ \A t \in Transports : WF_vars(RadioThread(t))
    /\ \A k \in Tools : WF_vars(AppThread(k))

-----------------------------------------------------------------------------
(* Correctness.                                                             *)

Dict == [Devices -> Rssi \cup {Absent}]

\* The type of every variable. The attempt counter of a known device is never negative,
\* although main decrements it and the radio threads increment it without a lock.
TypeOK ==
    /\ table \in [Transports -> Dict]
    /\ depri \in [Transports -> Dict]
    /\ attempts \in [Devices -> Nat \cup {Absent}]
    /\ success \in [Tools -> SUBSET Devices]
    /\ tableOwner \in [Transports -> {"main", "BLE", "BTC", Nobody}]
    /\ successOwner \in [Tools -> Tools \cup Transports \cup {Nobody}]
    /\ mpc \in MainPCs
    /\ line \in Line \cup {Nobody}
    /\ mreg \in Int \cup {Nobody}
    /\ rpc \in [Transports -> RadioPCs]
    /\ unread \in [Transports -> SUBSET Devices]
    /\ todo \in [Transports -> Dict]
    /\ size \in [Transports -> Nat]
    /\ skips \in [Transports -> Nat]
    /\ cur \in [Transports -> Devices \cup {Nobody}]
    /\ rreg \in [Transports -> Nat \cup {Nobody}]
    /\ tool \in [Transports -> Tools \cup {Nobody}]
    /\ apc \in [Tools -> AppPCs]
    /\ adev \in [Tools -> Devices \cup {Nobody}]
    /\ proc \in [Tools -> {"none", "running", "ok", "failed"}]
    /\ printed \in [Devices -> Transports \cup {Absent}]
    /\ fed \in Nat

\* Every device a thread can come across has an attempt counter: the tables, the
\* deprioritized dictionaries and the copies the radio threads work from only ever hold
\* devices main has counted first, so device_connect_attempts[bdaddr] (392, 526, 282, 294)
\* is never a KeyError.
KnownDevices ==
    \A t \in Transports :
       Keys(table[t]) \cup Keys(depri[t]) \cup unread[t] \cup Keys(todo[t])
          \cup ({cur[t]} \ {Nobody}) \subseteq Keys(attempts)

\* An entry that was looked up is still there when the thread comes back for it: main
\* between its look-up and its update or deletion (275-299, 305-320), the BLE thread from
\* the second look-up to the launch of gatttool (430-435), and the deprioritized key a
\* radio thread has grabbed (405, 538).
CheckedEntryStays ==
    /\ mpc \in {"dec_read", "dec_write", "update", "vendor_depri", "vendor_del"} =>
          table[line.t][line.dev] # Absent
    /\ \A t \in Transports :
          /\ (rpc[t] \in {"popen", "reboot"} /\ tool[t] = "GATT") => table[t][cur[t]] # Absent
          /\ rpc[t] = "reprioritize" => depri[t][cur[t]] # Absent

\* Moving an Apple device of transport t from the table to the deprioritized dictionary
\* never loses it: when main deletes the table entry, the deprioritized entry is there.
VendorMoveKeeps(t) ==
    (mpc = "vendor_del" /\ line.t = t) => depri[t][line.dev] # Absent

\* For BLE it holds: the reprioritization that could undo it needs ble_bdaddrs_lock.
BleVendorMoveKeepsDevice == VendorMoveKeeps("BLE")

\* For BTC it does not: reprioritize_btc_bdaddr takes the BLE lock (363).
BtcVendorMoveKeepsDevice == VendorMoveKeeps("BTC")

\* A listed device that is dropped as exhausted is exhausted. It need not be: [DEL] and
\* [NEW] can renew it between the comparison (392, 526) and the deletion (400, 533), and
\* the renewed device goes untried.
DroppedIsExhausted ==
    [][\A t \in Transports :
          (SkipDrop(t) /\ table[t][cur[t]] # Absent) => Exhausted(cur[t])]_vars

\* A radio thread lives as long as nothing fails: false, a key deleted by main while
\* sorted() looks the keys up is a KeyError (379, 513).
RadioThreadsLive == \A t \in Transports : rpc[t] # "dead"

\* Once the log is quiet, every device is worked off: attempted until its counter is used
\* up, then dropped, so that each live radio thread ends in its busy wait for new entries.
TablesDrain ==
    <>[](\A t \in Transports : rpc[t] = "dead" \/ Keys(table[t]) = {})

\* The launcher implements the schedule: a tool is run on the device its ApplicationThread
\* waits for.
Schedule == INSTANCE ProbeSchedule WITH probing <- adev, collected <- success

\* One device at a time per radio, no tool run again after its success (417-424, 582-589,
\* and the joins at 491 and 617).
ImplementsSchedule == Schedule!ScheduleSpec

\* The same with an end to every run: wait() has a timeout and then the process is killed.
ImplementsFairSchedule == Schedule!FairScheduleSpec
=============================================================================
