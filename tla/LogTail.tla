------------------------------- MODULE LogTail -------------------------------
(***************************************************************************)
(* How the announcements of bluetoothctl reach the launcher: the scripts   *)
(* that start and stop the collection (runall.sh, start_bluetoothctl.sh,   *)
(* start_central_app_launcher.sh, killall.sh), the log each start writes,  *)
(* the link /tmp/BT_link.txt that names the log to follow, and main() of   *)
(* central_app_launcher2.py, which watches one file by inotify, opens the  *)
(* link again after each modification and goes on at the offset where it   *)
(* stopped.                                                                *)
(*                                                                         *)
(* A log is only ever appended to, so it is its length, in units of        *)
(* 1/LineUnits of a line: a write ends, and the reader meets the end of    *)
(* the file, on a line's end or inside a line.                             *)
(***************************************************************************)
EXTENDS Integers

CONSTANTS
    LineUnits,      \* the units a line consists of
    Breaks,         \* cuts inside a line that main() may not survive
    MaxStarts,      \* bound on the runs of runall.sh
    MaxUnits        \* bound on the length of a log

ASSUME LogTailAssumption ==
    /\ LineUnits \in Nat \ {0}
    /\ Breaks \subseteq 1..(LineUnits - 1)
    /\ MaxStarts \in Nat
    /\ MaxUnits \in Nat

Starts == 1..MaxStarts

\* Log 0 was written before the first start: an old link can still name it.
Logs == 0..MaxStarts
NoLog == -1

VARIABLES
    link,           \* the log /tmp/BT_link.txt names
    moved,          \* the log that the link names is not there any more
    size,           \* the length of each log
    writer,         \* the starts whose bluetoothctl is running
    script,         \* start_bluetoothctl.sh of each start
    lpc,            \* the launcher of each start: main()
    watch,          \* the log inotify watches: the file, not the link
    queued,         \* an event waits to be read
    file,           \* the log that is open
    fpos,           \* the position in the open file
    pos,            \* bt_file_position
    done,           \* the last piece of a log that process_line was given
    orderly         \* history: no start has overlapped another, no script overslept

files == <<link, moved, size, writer>>
progress == <<watch, queued, file, fpos, pos, done>>
reader == <<lpc, progress>>
vars == <<files, script, reader, orderly>>

Piece == [log : Logs \cup {NoLog}, from : 0..MaxUnits, to : 0..MaxUnits]
Nothing == [log |-> NoLog, from |-> 0, to |-> 0]

Init ==
    /\ link \in {NoLog, 0}
    /\ moved = FALSE
    /\ size = [g \in Logs |-> IF g = 0 THEN MaxUnits ELSE 0]
    /\ writer = {}
    /\ script = [s \in Starts |-> "none"] /\ lpc = script
    /\ watch = [s \in Starts |-> NoLog] /\ file = watch
    /\ queued = [s \in Starts |-> FALSE]
    /\ fpos = [s \in Starts |-> 0] /\ pos = fpos
    /\ done = [s \in Starts |-> Nothing]
    /\ orderly = TRUE

-----------------------------------------------------------------------------
(* The scripts. *)

\* No process of the start is left.
Gone(s) == script[s] \in {"none", "end"} /\ s \notin writer /\ lpc[s] \in {"none", "failed", "dead"}

\* runall.sh starts all the scripts at once, whatever is still running.
RunAll(s) ==
    /\ script[s] = "none"
    /\ \A r \in Starts : r < s => script[r] # "none"
    /\ script' = [script EXCEPT ![s] = "sleep"]
    /\ lpc' = [lpc EXCEPT ![s] = "sleep"]
    /\ orderly' = (orderly /\ \A r \in Starts : Gone(r))
    /\ UNCHANGED <<files, progress>>

\* (mutant) The old link stays.
KeepLink == link

\* What [ -e ], add_watch and open see: they look behind the link.
Exists == link # NoLog /\ ~moved

\* A link to a log that was moved away or deleted.
Dangling == link # NoLog /\ moved

\* A dangling link does not count as one that exists, and stays.
RemoveLink == IF Exists THEN NoLog ELSE link

\* After sleep 50: delete the link, start bluetoothctl on a new log, link to it. ln -s fails
\* where there is a link, one that dangles or one that another start has made in between.
Unlink(s) ==
    /\ script[s] = "sleep"
    /\ script' = [script EXCEPT ![s] = "scan"]
    /\ link' = RemoveLink
    /\ UNCHANGED <<moved, size, writer, reader, orderly>>

StartScan(s) ==
    /\ script[s] = "scan"
    /\ script' = [script EXCEPT ![s] = "link"]
    /\ writer' = writer \cup {s}
    /\ UNCHANGED <<link, moved, size, reader, orderly>>

Link(s) ==
    /\ script[s] = "link"
    /\ script' = [script EXCEPT ![s] = "end"]
    /\ link' = IF link = NoLog THEN s ELSE link
    /\ UNCHANGED <<moved, size, writer, reader, orderly>>

\* What a launcher knows goes with its process.
Forget(S) ==
    /\ watch' = [s \in Starts |-> IF s \in S THEN NoLog ELSE watch[s]]
    /\ queued' = [s \in Starts |-> s \notin S /\ queued[s]]
    /\ file' = [s \in Starts |-> IF s \in S THEN NoLog ELSE file[s]]
    /\ fpos' = [s \in Starts |-> IF s \in S THEN 0 ELSE fpos[s]]
    /\ pos' = [s \in Starts |-> IF s \in S THEN 0 ELSE pos[s]]
    /\ done' = [s \in Starts |-> IF s \in S THEN Nothing ELSE done[s]]

\* Every launcher of the set of starts is ended from outside.
End(S) ==
    /\ lpc' = [s \in Starts |-> IF s \in S THEN "dead" ELSE lpc[s]]
    /\ Forget(S)

\* killall.sh ends bluetoothctl and, through sudo, the launcher; not the scripts that sleep.
KillAll ==
    /\ writer' = {}
    /\ End({s \in Starts : lpc[s] \in {"open", "read", "closed", "wait", "quit"}})
    /\ UNCHANGED <<link, moved, size, script, orderly>>

\* The machine goes down, by force_reboot or otherwise; /tmp may or may not survive.
Reboot ==
    /\ writer' = {}
    /\ script' = [s \in Starts |-> IF script[s] = "none" THEN "none" ELSE "end"]
    /\ End({s \in Starts : script[s] # "none"})
    /\ link' \in {link, NoLog}
    /\ moved' = (moved /\ link' # NoLog)
    /\ UNCHANGED <<size, orderly>>

\* Somebody collects, renames or deletes the log behind the link, once nothing writes it;
\* of another log nobody would notice.
MoveAway ==
    /\ Exists /\ link \notin writer
    /\ moved' = TRUE
    /\ UNCHANGED <<link, size, writer, script, reader, orderly>>

-----------------------------------------------------------------------------
(* The log. *)

\* (mutant) An event reaches only a reader that is waiting for it.
NotifyWaiting(g) == {s \in Starts : watch[s] = g /\ lpc[s] = "wait"}

\* The watches that a modification of the log makes an event for.
Notified(g) == {s \in Starts : watch[s] = g}

\* bluetoothctl prints, and unbuffer writes what it has got so far.
Write(g) ==
    /\ g \in writer
    /\ size[g] < MaxUnits
    /\ size' = [size EXCEPT ![g] = @ + 1]
    /\ queued' = [s \in Starts |-> queued[s] \/ s \in Notified(g)]
    /\ UNCHANGED <<link, moved, writer, script, lpc, watch, file, fpos, pos, done, orderly>>

-----------------------------------------------------------------------------
(* main() of the launcher. *)

Goto(s, to) == lpc' = [lpc EXCEPT ![s] = to]

\* After sleep 60 the module is loaded: add_watch follows the link, or raises when there is
\* none or no log behind it.
StartLauncher(s) ==
    /\ lpc[s] = "sleep"
    /\ \/ Exists /\ Goto(s, "open")
       \/ ~Exists /\ Goto(s, "failed")
    /\ watch' = [watch EXCEPT ![s] = IF Exists THEN link ELSE NoLog]
    /\ orderly' = (orderly /\ script[s] = "end")
    /\ UNCHANGED <<files, script, queued, file, fpos, pos, done>>

\* The exception handler's quit() ends main(); the radio threads go on without it.
Quit(s) == Goto(s, "quit") /\ Forget({s})

\* The link is opened, not the file that is watched.
OpenLink(s) ==
    /\ lpc[s] = "open"
    /\ Exists
    /\ Goto(s, "read")
    /\ file' = [file EXCEPT ![s] = link]
    /\ fpos' = [fpos EXCEPT ![s] = pos[s]]
    /\ UNCHANGED <<watch, queued, pos, done>>

OpenRaises(s) == lpc[s] = "open" /\ ~Exists /\ Quit(s)

\* (mutant) A line always ends with a newline.
WholeLine(from, end) == (from \div LineUnits + 1) * LineUnits

\* A line ends behind its newline, or where the file ends at the moment.
LineEnd(from, end) ==
    LET newline == (from \div LineUnits + 1) * LineUnits IN
    IF newline < end THEN newline ELSE end

NextLine(s) == LineEnd(fpos[s], size[file[s]])

ProcessLine(s) ==
    /\ lpc[s] = "read" /\ fpos[s] < size[file[s]]
    /\ done' = [done EXCEPT ![s] =
          [log |-> file[s], from |-> fpos[s], to |-> NextLine(s)]]
    /\ fpos' = [fpos EXCEPT ![s] = NextLine(s)]
    /\ UNCHANGED <<lpc, watch, queued, file, pos>>

\* A cut inside a character cannot be decoded; a [CHG] cut behind "Key:" is an IndexError.
LineRaises(s) ==
    /\ lpc[s] = "read" /\ fpos[s] < size[file[s]]
    /\ {fpos[s] % LineUnits, NextLine(s) % LineUnits} \cap Breaks # {}
    /\ Quit(s)

\* (mutant) The position is not kept.
NoTell(s) == pos[s]

\* file.tell()
Tell(s) == fpos[s]

\* The file ends here for now; what is written from here on is for the next opening.
EndOfFile(s) ==
    /\ lpc[s] = "read" /\ fpos[s] >= size[file[s]]
    /\ Goto(s, "closed")
    /\ pos' = [pos EXCEPT ![s] = Tell(s)]
    /\ file' = [file EXCEPT ![s] = NoLog]
    /\ fpos' = [fpos EXCEPT ![s] = 0]
    /\ UNCHANGED <<watch, queued, done>>

Wait(s) ==
    /\ lpc[s] = "closed"
    /\ Goto(s, "wait")
    /\ UNCHANGED progress

\* inotify.read() returns all the events there are.
EventRead(s) ==
    /\ lpc[s] = "wait" /\ queued[s]
    /\ Goto(s, "open")
    /\ queued' = [queued EXCEPT ![s] = FALSE]
    /\ UNCHANGED <<watch, file, fpos, pos, done>>

Main(s) ==
    /\ OpenLink(s) \/ OpenRaises(s) \/ ProcessLine(s) \/ LineRaises(s)
       \/ EndOfFile(s) \/ Wait(s) \/ EventRead(s)
    /\ UNCHANGED <<files, script, orderly>>

-----------------------------------------------------------------------------
Next ==
    \/ \E s \in Starts :
          \/ RunAll(s) \/ Unlink(s) \/ StartScan(s) \/ Link(s)
          \/ Write(s) \/ StartLauncher(s) \/ Main(s)
    \/ KillAll \/ Reboot \/ MoveAway

Spec == Init /\ [][Next]_vars

\* The interpreter goes on with main() whenever it can; nobody has to start, write or kill.
FairSpec == Spec /\ \A s \in Starts : WF_vars(Main(s))

-----------------------------------------------------------------------------
(* Correctness. *)

\* The type of every variable; no offset is behind the end of every log.
TypeOK ==
    /\ link \in Logs \cup {NoLog}
    /\ moved \in BOOLEAN
    /\ size \in [Logs -> 0..MaxUnits]
    /\ writer \subseteq Starts
    /\ script \in [Starts -> {"none", "sleep", "scan", "link", "end"}]
    /\ lpc \in [Starts -> {"none", "sleep", "open", "read", "closed", "wait", "quit", "failed", "dead"}]
    /\ watch \in [Starts -> Logs \cup {NoLog}]
    /\ queued \in [Starts -> BOOLEAN]
    /\ file \in [Starts -> Logs \cup {NoLog}]
    /\ fpos \in [Starts -> 0..MaxUnits]
    /\ pos \in [Starts -> 0..MaxUnits]
    /\ done \in [Starts -> Piece]
    /\ orderly \in BOOLEAN

Running(s) == lpc[s] \in {"open", "read", "closed", "wait"}

\* The link still names the log the launcher of the start watches.
Following(s) == Running(s) /\ watch[s] = link

\* How far main() has come: the end of its last piece.
Covered(s) == done[s].to

\* As long as the link is not changed under a launcher (start_bluetoothctl.sh:18-24), the
\* pieces it processes are the log it watches, each unit once and in order: no re-opening
\* skips or repeats anything (central_app_launcher2.py:655-660).
ReadsOnce ==
    [][\A s \in Starts : (Following(s) /\ Running(s)' /\ done'[s] # done[s]) =>
          /\ done'[s].log = watch[s]
          /\ done'[s].from = Covered(s)
          /\ done'[s].from < done'[s].to]_vars

\* main() sleeps in inotify.read (664) only when it has processed the whole log: a write
\* that comes after the end of the file was met has left an event behind.
SleepsCaughtUp ==
    \A s \in Starts :
       (Following(s) /\ lpc[s] = "wait" /\ ~queued[s]) => Covered(s) = size[watch[s]]

\* When the sleeps of the scripts (12 and 9) keep their order and nothing of an earlier
\* start is left running, a launcher that runs watches the log of its own start, and the
\* link names that log for as long as it runs, whatever link or reboot came before. Only a
\* link whose log is gone can keep it from running: the test at 18 does not see such a link,
\* ln -s (24) cannot replace it, and no later start gets rid of it.
OrderlyStart ==
    orderly => \A s \in Starts :
       /\ lpc[s] = "failed" => Dangling
       /\ Running(s) => watch[s] = s /\ link = s

\* Whatever is written to the log is processed some time, unless main() ends or the link
\* moves on to another log: it never waits for an event that has come already.
EverythingProcessed ==
    \A s \in Starts :
       Following(s) ~> (~Following(s) \/ Covered(s) = size[watch[s]])
=============================================================================
