---------------------------- MODULE ProbeSchedule ----------------------------
(***************************************************************************)
(* What the launcher promises about the tools it runs, without its tables, *)
(* locks and threads: a radio works on one device at a time, each tool has *)
(* at most one run under way, a tool that has succeeded on a device is     *)
(* never run on it again, and every run comes to an end.                   *)
(***************************************************************************)
CONSTANTS Devices, Tools, Radio(_), Nobody

VARIABLES
    probing,    \* the device each tool is run on
    collected   \* the devices each tool has succeeded on

scheduleVars == <<probing, collected>>

ScheduleInit ==
    /\ probing = [k \in Tools |-> Nobody]
    /\ collected = [k \in Tools |-> {}]

\* A run starts only on the device the other tool of the radio is at, if it is at one.
Start(k, d) ==
    /\ probing[k] = Nobody
    /\ d \notin collected[k]
    /\ \A j \in Tools : Radio(j) = Radio(k) => probing[j] \in {Nobody, d}
    /\ probing' = [probing EXCEPT ![k] = d]
    /\ UNCHANGED collected

\* The run has succeeded.
Collect(k) ==
    /\ probing[k] # Nobody
    /\ collected' = [collected EXCEPT ![k] = @ \cup {probing[k]}]
    /\ UNCHANGED probing

\* The run is over: with a success recorded just now, or with nothing to add.
Finish(k) ==
    /\ probing[k] # Nobody
    /\ probing' = [probing EXCEPT ![k] = Nobody]
    /\ \/ collected' = [collected EXCEPT ![k] = @ \cup {probing[k]}]
       \/ UNCHANGED collected

ScheduleNext ==
    \E k \in Tools : Collect(k) \/ Finish(k) \/ \E d \in Devices : Start(k, d)

ScheduleSpec == ScheduleInit /\ [][ScheduleNext]_scheduleVars

FairScheduleSpec ==
    ScheduleSpec /\ \A k \in Tools : WF_scheduleVars(Finish(k))
=============================================================================
