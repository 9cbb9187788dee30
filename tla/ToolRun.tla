------------------------------- MODULE ToolRun -------------------------------
(***************************************************************************)
(* The processes central_app_launcher2.py starts and what becomes of them: *)
(* Popen, the ApplicationThread that waits for the process with a timeout  *)
(* and kills it, the joins, and force_reboot, against the number of tasks  *)
(* (processes, zombies included, and threads) the system lets it have.     *)
(* CentralAppLauncher says on which device a tool is run and what its      *)
(* success means; here a run is a number.                                  *)
(*                                                                         *)
(* Popen.wait and Popen.poll reap the child; Popen.kill does not wait. The *)
(* thread of a run stays in ble_external_tool_threads or its BTC twin for  *)
(* ever and keeps its Popen object, so the only children that the library  *)
(* cleans up after by itself (Popen.__del__, subprocess._cleanup) are those *)
(* whose thread never started and whose variables are assigned again.      *)
(***************************************************************************)
EXTENDS Integers, FiniteSets

CONSTANTS
    Radios,         \* the radio threads, each with the one tool that is enabled for it
    Slots,          \* the tasks the system allows, less the launcher's own threads
    MaxRuns         \* bound on the tools that are launched

ASSUME ToolRunAssumption ==
    /\ IsFiniteSet(Radios) /\ "none" \notin Radios
    /\ Slots \in Nat /\ MaxRuns \in Nat

Runs == 1..MaxRuns
None == 0
Nobody == "none"

VARIABLES
    rpc,            \* the radio threads
    mine,           \* the process the radio thread has launched last: gatt_process
    launched,       \* the runs so far
    owner,          \* the radio thread of a run
    proc,           \* the process of a run
    thr,            \* the ApplicationThread of a run
    late,           \* history: the runs whose wait has timed out
    down            \* the machine reboots

run == <<launched, owner>>
vars == <<rpc, mine, run, proc, thr, late, down>>

Init ==
    /\ rpc = [t \in Radios |-> "popen"]
    /\ mine = [t \in Radios |-> None]
    /\ launched = 0
    /\ owner = [p \in Runs |-> Nobody]
    /\ proc = [p \in Runs |-> "none"] /\ thr = proc
    /\ late = {} /\ down = FALSE

-----------------------------------------------------------------------------
(* The task table. *)

Alive == {"running", "killed"}
Present(p) == proc[p] \in Alive \cup {"zombie"}
Waiting(p) == thr[p] \in {"wait", "kill"}

Tasks == Cardinality({p \in Runs : Present(p)}) + Cardinality({p \in Runs : Waiting(p)})
Full == Tasks >= Slots       \* no fork and no new thread

\* No thread was started for the run.
Unwatched(p) == proc[p] # "none" /\ thr[p] = "none"

\* The radio thread has made another ApplicationThread since: no variable refers to the
\* Popen object of the run any more.
Forgotten(p) ==
    /\ Unwatched(p)
    /\ \E q \in Runs : /\ q > p /\ owner[q] = owner[p]
                       /\ \A t \in Radios : rpc[t] = "thread" => mine[t] # q

\* subprocess._cleanup, at the beginning of every Popen.
CleanedUp == {p \in Runs : proc[p] = "zombie" /\ Forgotten(p)}

\* Popen.__del__ of the run that is forgotten when the next ApplicationThread is made.
Released(t) ==
    {p \in Runs : proc[p] = "zombie" /\ Unwatched(p) /\ owner[p] = t /\ mine[t] # p /\ ~Forgotten(p)}

-----------------------------------------------------------------------------
(* The radio threads. *)

Goto(t, pc) == rpc' = [rpc EXCEPT ![t] = pc]

Reaped(S) == [p \in Runs |-> IF p \in S THEN "reaped" ELSE proc[p]]
FullWithout(S) == Tasks - Cardinality(S) >= Slots

\* launch_application: Popen forks.
Launch(t) ==
    /\ rpc[t] = "popen" /\ launched < MaxRuns
    /\ ~FullWithout(CleanedUp)
    /\ launched' = launched + 1
    /\ owner' = [owner EXCEPT ![launched'] = t]
    /\ proc' = [Reaped(CleanedUp) EXCEPT ![launched'] = "running"]
    /\ mine' = [mine EXCEPT ![t] = launched']
    /\ Goto(t, "thread")
    /\ UNCHANGED <<thr, late, down>>

\* (mutant) The result None is not looked at.
NoneUnchecked(t) ==
    /\ rpc[t] = "popen"
    /\ FullWithout(CleanedUp)
    /\ proc' = Reaped(CleanedUp)
    /\ Goto(t, "thread")
    /\ UNCHANGED <<mine, run, thr, late, down>>

\* The fork is refused: BlockingIOError.
ForkFails(t) ==
    /\ rpc[t] = "popen"
    /\ FullWithout(CleanedUp)
    /\ proc' = Reaped(CleanedUp)
    /\ Goto(t, "reboot")
    /\ UNCHANGED <<mine, run, thr, late, down>>

StartThread(t) ==
    /\ rpc[t] = "thread" /\ ~FullWithout(Released(t))
    /\ proc' = Reaped(Released(t))
    /\ thr' = [thr EXCEPT ![mine[t]] = "wait"]
    /\ Goto(t, "join")
    /\ UNCHANGED <<mine, run, late, down>>

\* The process runs already, and from here on nobody waits for it.
StartFails(t) ==
    /\ rpc[t] = "thread" /\ FullWithout(Released(t))
    /\ proc' = Reaped(Released(t))
    /\ Goto(t, "reboot")
    /\ UNCHANGED <<mine, run, thr, late, down>>

\* force_reboot: os.system("sudo reboot") has to fork as well; half a minute later once more.
SudoReboot(t) ==
    /\ rpc[t] \in {"reboot", "again"} /\ ~Full
    /\ down' = TRUE
    /\ UNCHANGED <<rpc, mine, run, proc, thr, late>>

SleepThirty(t) ==
    /\ rpc[t] = "reboot" /\ Full
    /\ Goto(t, "again")
    /\ UNCHANGED <<mine, run, proc, thr, late, down>>

\* (mutant) The thread gives up.
GiveUp(t) ==
    /\ rpc[t] = "again" /\ Full
    /\ Goto(t, "dead")
    /\ UNCHANGED <<mine, run, proc, thr, late, down>>

\* "REBOOT STILL DIDN'T WORK?!"
RebootFails(t) ==
    /\ rpc[t] = "again" /\ Full
    /\ Goto(t, "join")
    /\ UNCHANGED <<mine, run, proc, thr, late, down>>

\* (mutant) The next device is taken up at once.
NoJoin(t) ==
    /\ rpc[t] = "join"
    /\ Goto(t, "popen")
    /\ UNCHANGED <<mine, run, proc, thr, late, down>>

\* Every thread in the list is over; the next device follows.
Join(t) ==
    /\ rpc[t] = "join"
    /\ \A p \in Runs : owner[p] = t => ~Waiting(p)
    /\ Goto(t, "popen")
    /\ UNCHANGED <<mine, run, proc, thr, late, down>>

RadioThread(t) ==
    /\ ~down
    /\ \/ Launch(t) \/ ForkFails(t) \/ StartThread(t) \/ StartFails(t)
       \/ SudoReboot(t) \/ SleepThirty(t) \/ RebootFails(t) \/ Join(t)

-----------------------------------------------------------------------------
(* ApplicationThread.run. *)

\* (mutant) The return code is taken from elsewhere and the child is not reaped.
NotReaped(p) ==
    /\ thr[p] = "wait" /\ proc[p] = "zombie"
    /\ thr' = [thr EXCEPT ![p] = "over"]
    /\ UNCHANGED <<rpc, mine, run, proc, late, down>>

\* wait() returns and has reaped the child.
WaitReturns(p) ==
    /\ thr[p] = "wait" /\ proc[p] = "zombie"
    /\ proc' = [proc EXCEPT ![p] = "reaped"]
    /\ thr' = [thr EXCEPT ![p] = "over"]
    /\ UNCHANGED <<rpc, mine, run, late, down>>

TimeoutExpired(p) ==
    /\ thr[p] = "wait" /\ proc[p] = "running"
    /\ thr' = [thr EXCEPT ![p] = "kill"]
    /\ late' = late \cup {p}
    /\ UNCHANGED <<rpc, mine, run, proc, down>>

\* (mutant) The process is left alone.
NoKill(p) ==
    /\ thr[p] = "kill"
    /\ thr' = [thr EXCEPT ![p] = "over"]
    /\ UNCHANGED <<rpc, mine, run, proc, late, down>>

\* kill() does not wait. A process that has ended meanwhile is reaped by the poll() inside
\* kill(), which older versions of the library do not make.
Kill(p) ==
    /\ thr[p] = "kill"
    /\ \/ proc[p] = "running" /\ proc' = [proc EXCEPT ![p] = "killed"]
       \/ proc[p] = "zombie" /\ proc' \in {proc, [proc EXCEPT ![p] = "reaped"]}
    /\ thr' = [thr EXCEPT ![p] = "over"]
    /\ UNCHANGED <<rpc, mine, run, late, down>>

AppThread(p) == ~down /\ (WaitReturns(p) \/ TimeoutExpired(p) \/ Kill(p))

\* The tool ends by itself, sooner or later or never; a killed one when the kernel gets to it.
Exits(p) ==
    /\ ~down /\ proc[p] = "running"
    /\ proc' = [proc EXCEPT ![p] = "zombie"]
    /\ UNCHANGED <<rpc, mine, run, thr, late, down>>

Dies(p) ==
    /\ ~down /\ proc[p] = "killed"
    /\ proc' = [proc EXCEPT ![p] = "zombie"]
    /\ UNCHANGED <<rpc, mine, run, thr, late, down>>

Next ==
    \/ \E t \in Radios : RadioThread(t)
    \/ \E p \in Runs : AppThread(p) \/ Exits(p) \/ Dies(p)

Spec == Init /\ [][Next]_vars

\* Threads that can run do, and SIGKILL takes effect; no tool has to end by itself.
FairSpec ==
    /\ Spec
    /\ \A t \in Radios : WF_vars(RadioThread(t))
    /\ \A p \in Runs : WF_vars(AppThread(p)) /\ WF_vars(Dies(p))

-----------------------------------------------------------------------------
(* Correctness. *)

\* The type of every variable; a thread is only started for a process there is.
TypeOK ==
    /\ rpc \in [Radios -> {"popen", "thread", "reboot", "again", "join"}]
    /\ mine \in [Radios -> 0..launched]
    /\ \A t \in Radios : rpc[t] = "thread" => mine[t] # None
    /\ launched \in 0..MaxRuns
    /\ owner \in [Runs -> Radios \cup {Nobody}]
    /\ proc \in [Runs -> {"none", "running", "killed", "zombie", "reaped"}]
    /\ thr \in [Runs -> {"none", "wait", "kill", "over"}]
    /\ late \subseteq Runs
    /\ down \in BOOLEAN

\* Of the tools of one radio at most one is at work: any other that is still there has been
\* killed (199) or is one whose thread could not be started (447).
OneToolAtWork ==
    \A p, q \in Runs :
       /\ p # q /\ owner[p] = owner[q]
       /\ proc[p] = "running" /\ proc[q] = "running"
       => Unwatched(p) \/ Unwatched(q)

\* Everything but a timeout (196-199) gives its task back: a process that is in the table
\* and that nobody waits for has timed out, or its thread has never been started.
OnlyTimeoutsLeak ==
    \A p \in Runs : (Present(p) /\ thr[p] = "over") => p \in late /\ proc[p] # "running"

\* A tool that is waited for comes to an end, by itself or by the timeout (148, 199).
ToolsEnd == \A p \in Runs : Waiting(p) ~> (down \/ proc[p] \in {"zombie", "reaped"})

\* The table is full and no thread is left that would take anything out of it.
Stuck == Full /\ \A p \in Runs : ~Waiting(p)

\* A failed fork or thread start (217, 450) is resolved by the reboot or by another launch,
\* unless the table is full of processes nobody waits for: then force_reboot, which forks,
\* cannot reboot either (229-235).
ForkFailureResolved ==
    \A t \in Radios :
       rpc[t] = "reboot" ~>
          (down \/ Stuck \/ rpc[t] = "thread" \/ (launched = MaxRuns /\ rpc[t] = "popen"))
=============================================================================
