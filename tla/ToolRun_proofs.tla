---------------------------- MODULE ToolRun_proofs ----------------------------
(***************************************************************************)
(* What becomes of a tool's process, for any radios, any size of the task  *)
(* table and any number of runs.                                           *)
(***************************************************************************)
EXTENDS ToolRun, TLAPS

(* The runs that have happened are 1 to launched. *)
RunsUsed ==
    \A p \in Runs :
       /\ p <= launched => proc[p] # "none" /\ owner[p] \in Radios
       /\ p > launched => proc[p] = "none" /\ thr[p] = "none" /\ owner[p] = Nobody

(* Between Popen and start() the run is the radio thread's latest, nobody waits for it yet
   and it has not been cleaned up after. *)
ThreadNext ==
    \A t \in Radios : rpc[t] = "thread" =>
       /\ mine[t] \in Runs /\ owner[mine[t]] = t /\ thr[mine[t]] = "none"
       /\ proc[mine[t]] \in {"running", "zombie"}
       /\ \A q \in Runs : owner[q] = t => q <= mine[t]

(* A radio thread waits at the joins for the run it has launched last, and for no other. *)
WaitedFor ==
    \A p \in Runs : Waiting(p) => rpc[owner[p]] = "join" /\ mine[owner[p]] = p

(* How the process and its thread go together. *)
Stage ==
    \A p \in Runs :
       /\ thr[p] = "wait" => proc[p] \in {"running", "zombie"}
       /\ thr[p] = "kill" => proc[p] \in {"running", "zombie"} /\ p \in late
       /\ thr[p] = "over" => /\ proc[p] # "running"
                             /\ Present(p) => p \in late

IInv == TypeOK /\ RunsUsed /\ ThreadNext /\ WaitedFor /\ Stage

(* The library only reaps children no thread was started for. *)
LEMMA ReapsUnwatched ==
    /\ \A p \in CleanedUp : p \in Runs /\ proc[p] = "zombie" /\ thr[p] = "none"
    /\ \A t : \A p \in Released(t) : p \in Runs /\ proc[p] = "zombie" /\ thr[p] = "none"
  BY DEF CleanedUp, Released, Forgotten, Unwatched

(* A run whose ApplicationThread is still to be made has not been forgotten. *)
LEMMA LatestKept ==
    ASSUME IInv, NEW r \in Radios, rpc[r] = "thread"
    PROVE  /\ mine[r] \notin CleanedUp
           /\ \A t \in Radios : mine[r] \notin Released(t)
<1>1. mine[r] \notin CleanedUp
  BY ToolRunAssumption DEF IInv, ThreadNext, CleanedUp, Forgotten, Runs
<1>2. \A t \in Radios : mine[r] \notin Released(t)
  BY DEF IInv, ThreadNext, Released
<1> QED  BY <1>1, <1>2

(* The invariant holds at the start. *)
LEMMA InitOK == Init => IInv
<1> SUFFICES ASSUME Init PROVE IInv  OBVIOUS
<1>1. TypeOK
  <2>1. launched \in 0..MaxRuns /\ mine \in [Radios -> 0..launched]
    BY ToolRunAssumption DEF Init, None
  <2>2. owner \in [Runs -> Radios \cup {Nobody}] /\ late \subseteq Runs /\ down \in BOOLEAN
    BY DEF Init
  <2> QED  BY <2>1, <2>2 DEF Init, TypeOK
<1>2. RunsUsed  BY ToolRunAssumption DEF Init, RunsUsed, Runs, Nobody
<1>3. ThreadNext  BY DEF Init, ThreadNext
<1>4. WaitedFor /\ Stage  BY DEF Init, WaitedFor, Waiting, Stage, Present, Alive
<1> QED  BY <1>1, <1>2, <1>3, <1>4 DEF IInv

(* The steps of a radio thread. *)
LEMMA RadioStep ==
    ASSUME IInv, NEW t \in Radios, RadioThread(t)
    PROVE  IInv'
<1> USE ToolRunAssumption
<1>1. CASE Launch(t)
  <2>0. launched \in Nat /\ launched' \in Runs /\ launched' = launched + 1 /\ mine'[t] = launched'
    BY <1>1 DEF Launch, IInv, TypeOK, Runs
  <2>1. \A p \in Runs : proc'[p] = IF p = launched' THEN "running"
                                    ELSE IF p \in CleanedUp THEN "reaped" ELSE proc[p]
    BY <1>1, <2>0 DEF Launch, Reaped
  <2>2. TypeOK'
    <3>1. proc' \in [Runs -> {"none", "running", "killed", "zombie", "reaped"}]
      BY <1>1, <2>1 DEF Launch, Reaped, IInv, TypeOK
    <3>2. mine' \in [Radios -> 0..launched']
      BY <1>1, <2>0 DEF Launch, IInv, TypeOK
    <3> QED  BY <1>1, <2>0, <3>1, <3>2 DEF Launch, Goto, run, IInv, TypeOK, Runs, None
  <2>3. RunsUsed'
    BY <1>1, <2>0, <2>1, ReapsUnwatched DEF Launch, IInv, TypeOK, RunsUsed, Runs, Nobody
  <2>4. ThreadNext'
    <3>1. thr[launched'] = "none"  BY <2>0 DEF IInv, RunsUsed
    <3>2. \A r \in Radios : rpc[r] = "thread" => mine[r] # launched'
      BY <2>0 DEF IInv, ThreadNext, RunsUsed, TypeOK, Nobody
    <3>3. \A r \in Radios : rpc[r] = "thread" => r # t /\ mine[r] \notin CleanedUp
      BY <1>1, LatestKept DEF Launch
    <3>4. \A q \in Runs : owner'[q] = IF q = launched' THEN t ELSE owner[q]
      BY <1>1, <2>0 DEF Launch, IInv, TypeOK
    <3>5. \A q \in Runs : owner'[q] = t => q <= launched'
      BY <2>0, <3>4 DEF IInv, RunsUsed, Runs, Nobody
    <3>6. SUFFICES ASSUME NEW r \in Radios, rpc'[r] = "thread"
                   PROVE  /\ mine'[r] \in Runs /\ owner'[mine'[r]] = r /\ thr[mine'[r]] = "none"
                          /\ proc'[mine'[r]] \in {"running", "zombie"}
                          /\ \A q \in Runs : owner'[q] = r => q <= mine'[r]
      BY <1>1 DEF Launch, ThreadNext
    <3>7. CASE r = t
      BY <2>0, <2>1, <3>1, <3>4, <3>5, <3>7
    <3>8. CASE r # t
      <4>1. rpc[r] = "thread" /\ mine'[r] = mine[r]
        BY <1>1, <3>6, <3>8 DEF Launch, Goto, IInv, TypeOK
      <4> QED  BY <2>1, <3>2, <3>3, <3>4, <3>8, <4>1 DEF IInv, ThreadNext
    <3> QED  BY <3>7, <3>8
  <2>5. WaitedFor' /\ Stage'
    <3>1. \A p \in Runs : Waiting(p) => p # launched' /\ owner[p] # t
      BY <1>1, <2>0 DEF Launch, IInv, RunsUsed, WaitedFor, Waiting
    <3>2. \A p \in Runs : thr[p] # "none" => p # launched' /\ p \notin CleanedUp
      BY <2>0, ReapsUnwatched DEF IInv, RunsUsed
    <3>3. \A p \in Runs : thr[p] # "none" => proc'[p] = proc[p] /\ owner'[p] = owner[p]
      BY <1>1, <2>0, <2>1, <3>2 DEF Launch, IInv, TypeOK
    <3>4. WaitedFor'
      BY <1>1, <3>1, <3>3 DEF Launch, Goto, IInv, TypeOK, WaitedFor, Waiting, RunsUsed
    <3>5. Stage'
      BY <1>1, <3>3 DEF Launch, IInv, TypeOK, Stage, Present, Alive
    <3> QED  BY <3>4, <3>5
  <2> QED  BY <2>2, <2>3, <2>4, <2>5 DEF IInv
<1>2. CASE ForkFails(t)
  <2>1. \A p \in Runs : proc'[p] = IF p \in CleanedUp THEN "reaped" ELSE proc[p]
    BY <1>2 DEF ForkFails, Reaped
  <2>2. TypeOK'
    BY <1>2 DEF ForkFails, Reaped, Goto, run, IInv, TypeOK
  <2>3. RunsUsed'
    BY <1>2, <2>1, ReapsUnwatched DEF ForkFails, run, IInv, RunsUsed
  <2>6. ThreadNext'
    BY <1>2, <2>1, LatestKept DEF ForkFails, Goto, run, IInv, TypeOK, ThreadNext
  <2>4. WaitedFor'
    BY <1>2 DEF ForkFails, Goto, run, IInv, TypeOK, WaitedFor, Waiting
  <2>5. Stage'
    BY <1>2, <2>1, ReapsUnwatched DEF ForkFails, run, IInv, Stage, Present, Alive
  <2> QED  BY <2>2, <2>3, <2>4, <2>5, <2>6 DEF IInv
<1>3. CASE StartThread(t) \/ StartFails(t)
  <2>1. \A p \in Runs : proc'[p] = IF p \in Released(t) THEN "reaped" ELSE proc[p]
    BY <1>3 DEF StartThread, StartFails, Reaped
  <2>2. \A p \in Runs : thr'[p] = IF p = mine[t] /\ rpc'[t] = "join" THEN "wait" ELSE thr[p]
    BY <1>3 DEF StartThread, StartFails, Goto, IInv, TypeOK
  <2>3. mine[t] \in Runs /\ owner[mine[t]] = t /\ thr[mine[t]] = "none" /\ rpc[t] = "thread"
        /\ rpc'[t] \in {"join", "reboot"} /\ mine' = mine /\ owner' = owner /\ launched' = launched
    BY <1>3 DEF StartThread, StartFails, Goto, run, IInv, ThreadNext, TypeOK
  <2>4. mine[t] \notin Released(t)  BY DEF Released
  <2>5. TypeOK'
    <3>1. proc' \in [Runs -> {"none", "running", "killed", "zombie", "reaped"}]
      BY <1>3 DEF StartThread, StartFails, Reaped, IInv, TypeOK
    <3> QED  BY <1>3, <3>1 DEF StartThread, StartFails, Goto, run, IInv, TypeOK
  <2>6. RunsUsed'
    BY <2>1, <2>2, <2>3, ReapsUnwatched DEF IInv, TypeOK, RunsUsed, Nobody
  <2>7. ThreadNext'
    <3>1. \A r \in Radios : r # t /\ rpc[r] = "thread" => mine[r] # mine[t]
      BY <2>3 DEF IInv, ThreadNext
    <3>2. \A r \in Radios : rpc'[r] = "thread" => r # t /\ rpc[r] = "thread"
      BY <1>3, <2>3 DEF StartThread, StartFails, Goto, IInv, TypeOK
    <3>3. \A r \in Radios : rpc[r] = "thread" => mine[r] \notin Released(t)
      BY LatestKept
    <3> QED  BY <2>1, <2>2, <2>3, <3>1, <3>2, <3>3 DEF IInv, ThreadNext
  <2>8. WaitedFor'
    <3>1. SUFFICES ASSUME NEW p \in Runs, Waiting(p)'
                   PROVE  rpc'[owner[p]] = "join" /\ mine[owner[p]] = p
      BY <2>3 DEF WaitedFor
    <3>2. CASE thr[p] = thr'[p]
      <4>1. rpc[owner[p]] = "join" /\ mine[owner[p]] = p
        BY <3>1, <3>2 DEF IInv, WaitedFor, Waiting
      <4>2. owner[p] \in Radios /\ owner[p] # t
        BY <2>3, <3>1, <3>2, <4>1 DEF IInv, TypeOK, RunsUsed, Waiting, Runs
      <4> QED  BY <1>3, <4>1, <4>2 DEF StartThread, StartFails, Goto, IInv, TypeOK
    <3>3. CASE thr[p] # thr'[p]
      BY <2>2, <2>3, <3>3
    <3> QED  BY <3>2, <3>3
  <2>9. Stage'
    <3>1. proc[mine[t]] \in {"running", "zombie"}  BY <2>3 DEF IInv, ThreadNext
    <3> QED  BY <1>3, <2>1, <2>2, <2>3, <2>4, <3>1, ReapsUnwatched
             DEF StartThread, StartFails, run, IInv, TypeOK, Stage, Present, Alive
  <2> QED  BY <2>5, <2>6, <2>7, <2>8, <2>9 DEF IInv
<1>4. CASE SudoReboot(t) \/ SleepThirty(t) \/ RebootFails(t) \/ Join(t)
  <2>1. TypeOK' /\ RunsUsed'
    BY <1>4 DEF SudoReboot, SleepThirty, RebootFails, Join, Goto, run, IInv, TypeOK, RunsUsed
  <2>2. ThreadNext'
    BY <1>4 DEF SudoReboot, SleepThirty, RebootFails, Join, Goto, run, IInv, TypeOK, ThreadNext
  <2>3. WaitedFor'
    <3>1. SUFFICES ASSUME NEW p \in Runs, Waiting(p)
                   PROVE  rpc'[owner[p]] = "join" /\ mine[owner[p]] = p
      BY <1>4 DEF SudoReboot, SleepThirty, RebootFails, Join, run, WaitedFor, Waiting
    <3>2. rpc[owner[p]] = "join" /\ mine[owner[p]] = p
      BY <3>1 DEF IInv, WaitedFor
    <3>3. rpc[t] = "join" => Join(t)
      BY <1>4 DEF SudoReboot, SleepThirty, RebootFails, Join
    <3>4. Join(t) => owner[p] # t
      BY <3>1 DEF Join
    <3>5. rpc' = [rpc EXCEPT ![t] = rpc'[t]]
      BY <1>4 DEF SudoReboot, SleepThirty, RebootFails, Join, Goto, IInv, TypeOK
    <3>6. owner[p] # t  BY <3>2, <3>3, <3>4
    <3>7. owner[p] \in Radios
      BY <3>1 DEF IInv, TypeOK, RunsUsed, Waiting, Runs
    <3> QED  BY <3>2, <3>5, <3>6, <3>7 DEF IInv, TypeOK
  <2>4. Stage'
    BY <1>4 DEF SudoReboot, SleepThirty, RebootFails, Join, run, IInv, Stage, Present, Alive
  <2> QED  BY <2>1, <2>2, <2>3, <2>4 DEF IInv
<1> QED  BY <1>1, <1>2, <1>3, <1>4 DEF RadioThread

(* The steps of an ApplicationThread and of a process. *)
LEMMA ProcessStep ==
    ASSUME IInv, NEW p \in Runs, AppThread(p) \/ Exits(p) \/ Dies(p)
    PROVE  IInv'
<1> USE ToolRunAssumption
<1>1. UNCHANGED <<rpc, mine, run>>
  BY DEF AppThread, WaitReturns, TimeoutExpired, Kill, Exits, Dies
<1>2. \A q \in Runs : q # p => proc'[q] = proc[q] /\ thr'[q] = thr[q]
  BY DEF AppThread, WaitReturns, TimeoutExpired, Kill, Exits, Dies, IInv, TypeOK
<1>3. TypeOK'
  BY <1>1 DEF AppThread, WaitReturns, TimeoutExpired, Kill, Exits, Dies, run, IInv, TypeOK
<1>4. /\ proc[p] # "none" /\ proc'[p] # "none"
      /\ thr'[p] = "none" <=> thr[p] = "none"
      /\ Waiting(p)' => Waiting(p)
      /\ (thr[p] = "none" /\ proc[p] \in {"running", "zombie"}) => proc'[p] \in {"running", "zombie"}
  BY DEF AppThread, WaitReturns, TimeoutExpired, Kill, Exits, Dies, IInv, TypeOK, Waiting
<1>5. RunsUsed'
  BY <1>1, <1>2, <1>4 DEF run, IInv, TypeOK, RunsUsed
<1>6. ThreadNext'
  BY <1>1, <1>2, <1>4 DEF run, IInv, ThreadNext
<1>7. WaitedFor'
  BY <1>1, <1>2, <1>4 DEF run, IInv, WaitedFor, Waiting
<1>8. late \subseteq late'
  BY DEF AppThread, WaitReturns, TimeoutExpired, Kill, Exits, Dies
<1>9. Stage'
  <2>1. \A q \in Runs : q # p =>
           /\ thr'[q] = "wait" => proc'[q] \in {"running", "zombie"}
           /\ thr'[q] = "kill" => proc'[q] \in {"running", "zombie"} /\ q \in late'
           /\ thr'[q] = "over" => proc'[q] # "running" /\ (Present(q)' => q \in late')
    BY <1>2, <1>8 DEF IInv, Stage, Present
  <2>2. /\ thr'[p] = "wait" => proc'[p] \in {"running", "zombie"}
        /\ thr'[p] = "kill" => proc'[p] \in {"running", "zombie"} /\ p \in late'
        /\ thr'[p] = "over" => proc'[p] # "running" /\ (Present(p)' => p \in late')
    BY DEF AppThread, WaitReturns, TimeoutExpired, Kill, Exits, Dies, IInv, TypeOK, Stage, Present, Alive
  <2> QED  BY <2>1, <2>2 DEF Stage
<1> QED  BY <1>3, <1>5, <1>6, <1>7, <1>9 DEF IInv

(* The invariant holds in every state of every behaviour. *)
LEMMA Inductive == Spec => []IInv
<1>1. IInv /\ [Next]_vars => IInv'
  <2>1. CASE Next  BY <2>1, RadioStep, ProcessStep DEF Next
  <2>2. CASE UNCHANGED vars
    BY <2>2 DEF vars, run, IInv, TypeOK, RunsUsed, ThreadNext, WaitedFor, Waiting, Stage, Present
  <2> QED  BY <2>1, <2>2
<1> QED  BY <1>1, InitOK, PTL DEF Spec

(* Type correctness (137-235, 433-452, 594-618). *)
THEOREM TypeCorrect == Spec => []TypeOK
<1>1. IInv => TypeOK  BY DEF IInv
<1> QED  BY <1>1, Inductive, PTL

(* At most one tool of a radio is at work, orphans aside: the joins (491, 617) wait for the
   only run whose process may be running and has a thread. *)
THEOREM OneAtWork == Spec => []OneToolAtWork
<1>1. IInv => OneToolAtWork
  <2> SUFFICES ASSUME IInv, NEW p \in Runs, NEW q \in Runs, owner[p] = owner[q],
                      proc[p] = "running", proc[q] = "running", ~Unwatched(p), ~Unwatched(q)
               PROVE  p = q
    BY DEF OneToolAtWork
  <2>1. Waiting(p) /\ Waiting(q)
    BY DEF IInv, TypeOK, Stage, Waiting, Unwatched
  <2> QED  BY <2>1 DEF IInv, WaitedFor
<1> QED  BY <1>1, Inductive, PTL

(* A process that stays in the task table with nobody waiting for it has timed out and been
   killed (199), or never had a thread (447): nothing else uses up the table. *)
THEOREM LeakIsTimeout == Spec => []OnlyTimeoutsLeak
<1>1. IInv => OnlyTimeoutsLeak  BY DEF IInv, Stage, OnlyTimeoutsLeak
<1> QED  BY <1>1, Inductive, PTL
=============================================================================
