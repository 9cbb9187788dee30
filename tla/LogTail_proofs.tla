--------------------------- MODULE LogTail_proofs ---------------------------
(***************************************************************************)
(* For any number of starts, length of lines and length of logs: the       *)
(* launcher reads each unit of the log it follows once, sleeps only when   *)
(* it has read all of it, and an orderly start makes it follow its own     *)
(* log, or none where a link to a log that is gone is in the way.          *)
(***************************************************************************)
EXTENDS LogTail, TLAPS

\* A log is linked at most once: when its script ends. So a launcher whose link has been
\* moved away never follows its log again.
LinkedOnce ==
    \A s \in Starts : (link = s \/ \E r \in Starts : watch[r] = s) => script[s] = "end"

\* What a launcher has before it runs and after it has ended, and the open file.
IdleClean ==
    \A s \in Starts :
       /\ script[s] = "none" <=> lpc[s] = "none"
       /\ Running(s) => watch[s] \in Logs
       /\ ~Running(s) => watch[s] = NoLog /\ pos[s] = 0 /\ done[s] = Nothing
       /\ lpc[s] = "read" => file[s] \in Logs

\* A launcher that follows its log: the file it has open, its offset, and why it may sleep.
Tracks ==
    \A s \in Starts : Following(s) =>
       /\ lpc[s] = "read" => file[s] = watch[s] /\ fpos[s] = Covered(s)
       /\ lpc[s] # "read" => pos[s] = Covered(s)
       /\ Covered(s) <= size[watch[s]]
       /\ (lpc[s] \in {"closed", "wait"} /\ ~queued[s]) => Covered(s) = size[watch[s]]

\* Which starts have processes, what their scripts have done, and where the link points.
OrderlySteps ==
    orderly =>
       /\ \A r, s \in Starts : ~Gone(r) /\ ~Gone(s) => r = s
       /\ \A s \in Starts :
             /\ script[s] \in {"sleep", "scan", "link"} => lpc[s] = "sleep"
             /\ script[s] \in {"scan", "link"} => link = NoLog \/ Dangling
             /\ (lpc[s] = "sleep" /\ script[s] = "end") => link = s \/ Dangling

IInv == TypeOK /\ LinkedOnce /\ IdleClean /\ Tracks /\ OrderlySteps /\ OrderlyStart

-----------------------------------------------------------------------------
(* Facts about the operators. *)

\* A line that is read inside the file ends inside it and is not empty.
LEMMA LineEndInside ==
    ASSUME NEW n \in Nat, NEW m \in Nat, n < m
    PROVE  LineEnd(n, m) \in (n + 1)..m
<1>1. n < (n \div LineUnits + 1) * LineUnits
  BY LogTailAssumption
<1>2. (n \div LineUnits + 1) * LineUnits \in Int
  BY LogTailAssumption
<1>3. QED
  BY <1>1, <1>2 DEF LineEnd

\* Every step is a step of one start or ends the processes of all of them.
LEMMA Steps ==
    ASSUME Next
    PROVE  \/ \E s \in Starts :
                 \/ RunAll(s) \/ Unlink(s) \/ StartScan(s) \/ Link(s)
                 \/ Write(s) \/ StartLauncher(s)
                 \/ (\/ OpenLink(s) \/ OpenRaises(s) \/ ProcessLine(s)
                     \/ LineRaises(s) \/ EndOfFile(s) \/ Wait(s) \/ EventRead(s))
                    /\ UNCHANGED <<files, script, orderly>>
           \/ KillAll \/ Reboot \/ MoveAway
BY DEF Next, Main

-----------------------------------------------------------------------------
(* The inductive invariant. *)

\* The invariant holds at the first start.
LEMMA InitIInv == Init => IInv
<1> SUFFICES ASSUME Init PROVE IInv
  OBVIOUS
<1> USE LogTailAssumption DEF Init, Starts, Logs, NoLog, Nothing, Piece, Running
<1>1. TypeOK
  <2>1. moved \in BOOLEAN /\ orderly \in BOOLEAN
    OBVIOUS
  <2>2. /\ size \in [Logs -> 0..MaxUnits] /\ queued \in [Starts -> BOOLEAN]
        /\ fpos \in [Starts -> 0..MaxUnits] /\ pos \in [Starts -> 0..MaxUnits]
        /\ done \in [Starts -> Piece]
    OBVIOUS
  <2>3. QED
    BY <2>1, <2>2 DEF TypeOK
<1>2. LinkedOnce
  BY DEF LinkedOnce
<1>3. IdleClean
  BY DEF IdleClean
<1>4. Tracks
  BY DEF Tracks, Following
<1>5. OrderlySteps
  BY DEF OrderlySteps, Gone
<1>6. OrderlyStart
  BY DEF OrderlyStart
<1> QED
  BY <1>1, <1>2, <1>3, <1>4, <1>5, <1>6 DEF IInv

\* What process_line is given by a launcher that reads is a piece of an open log.
LEMMA ReadsPiece ==
    ASSUME IInv, NEW s \in Starts, ProcessLine(s) \/ LineRaises(s)
    PROVE  /\ file[s] \in Logs
           /\ fpos[s] < NextLine(s) /\ NextLine(s) <= size[file[s]]
           /\ fpos[s] \in 0..MaxUnits /\ NextLine(s) \in 0..MaxUnits
           /\ [log |-> file[s], from |-> fpos[s], to |-> NextLine(s)] \in Piece
<1>1. file[s] \in Logs /\ fpos[s] \in 0..MaxUnits /\ size[file[s]] \in 0..MaxUnits
  BY DEF IInv, IdleClean, TypeOK, ProcessLine, LineRaises
<1>2. fpos[s] < size[file[s]]
  BY DEF ProcessLine, LineRaises
<1>3. NextLine(s) \in (fpos[s] + 1)..size[file[s]]
  BY <1>1, <1>2, LineEndInside, LogTailAssumption DEF NextLine
<1>4. NextLine(s) \in 0..MaxUnits
  BY <1>1, <1>3, LogTailAssumption
<1>5. fpos[s] < NextLine(s) /\ NextLine(s) <= size[file[s]]
  BY <1>1, <1>3, LogTailAssumption
<1>6. [log |-> file[s], from |-> fpos[s], to |-> NextLine(s)] \in Piece
  BY <1>1, <1>4 DEF Piece
<1> QED
  BY <1>1, <1>4, <1>5, <1>6

\* Every step keeps the types.
LEMMA TypeStep ==
    ASSUME IInv, Next
    PROVE  TypeOK'
<1> USE LogTailAssumption DEF IInv, TypeOK, Logs, NoLog, files, progress, reader
<1>1. ASSUME NEW s \in Starts, RunAll(s) PROVE TypeOK'
  BY <1>1 DEF RunAll
<1>2. ASSUME NEW s \in Starts, Unlink(s) PROVE TypeOK'
  BY <1>2 DEF Unlink, RemoveLink, Exists
<1>3. ASSUME NEW s \in Starts, StartScan(s) PROVE TypeOK'
  BY <1>3 DEF StartScan
<1>4. ASSUME NEW s \in Starts, Link(s) PROVE TypeOK'
  BY <1>4 DEF Link, Starts
<1>5. ASSUME NEW s \in Starts, Write(s) PROVE TypeOK'
  <2>1. size' \in [Logs -> 0..MaxUnits]
    BY <1>5 DEF Write, Starts
  <2>2. queued' \in [Starts -> BOOLEAN]
    BY <1>5 DEF Write
  <2> QED
    BY <1>5, <2>1, <2>2 DEF Write
<1>6. ASSUME NEW s \in Starts, StartLauncher(s) PROVE TypeOK'
  BY <1>6 DEF StartLauncher, Goto, Exists
<1>7. ASSUME NEW s \in Starts, OpenLink(s), UNCHANGED <<files, script, orderly>> PROVE TypeOK'
  BY <1>7 DEF OpenLink, Goto
<1>8. ASSUME NEW s \in Starts, ProcessLine(s), UNCHANGED <<files, script, orderly>> PROVE TypeOK'
  BY <1>8, ReadsPiece DEF ProcessLine
<1>9. ASSUME NEW S \in SUBSET Starts, Forget(S),
             lpc' \in [Starts -> {"none", "sleep", "open", "read", "closed", "wait", "quit", "failed", "dead"}]
      PROVE  <<lpc, progress>>' \in [Starts -> {"none", "sleep", "open", "read", "closed", "wait", "quit", "failed", "dead"}]
                \X ([Starts -> Logs \cup {NoLog}] \X [Starts -> BOOLEAN] \X [Starts -> Logs \cup {NoLog}]
                   \X [Starts -> 0..MaxUnits] \X [Starts -> 0..MaxUnits] \X [Starts -> Piece])
  <2>1. Nothing \in Piece
    BY DEF Nothing, Piece
  <2>2. queued' \in [Starts -> BOOLEAN]
    BY <1>9 DEF Forget
  <2>3. done' \in [Starts -> Piece]
    BY <1>9, <2>1 DEF Forget
  <2>4. /\ watch' \in [Starts -> Logs \cup {NoLog}] /\ file' \in [Starts -> Logs \cup {NoLog}]
        /\ fpos' \in [Starts -> 0..MaxUnits] /\ pos' \in [Starts -> 0..MaxUnits]
    BY <1>9 DEF Forget
  <2> QED
    BY <1>9, <2>2, <2>3, <2>4
<1>10. ASSUME NEW s \in Starts, Quit(s), UNCHANGED <<files, script, orderly>> PROVE TypeOK'
  BY <1>10, <1>9 DEF Quit, Goto
<1>11. ASSUME NEW s \in Starts, EndOfFile(s), UNCHANGED <<files, script, orderly>> PROVE TypeOK'
  BY <1>11 DEF EndOfFile, Goto, Tell
<1>12. ASSUME NEW s \in Starts, Wait(s) \/ EventRead(s), UNCHANGED <<files, script, orderly>> PROVE TypeOK'
  BY <1>12 DEF Wait, EventRead, Goto
<1>13. CASE KillAll
  BY <1>13, <1>9 DEF KillAll, End
<1>14. CASE Reboot
  BY <1>14, <1>9 DEF Reboot, End
<1>15. CASE MoveAway
  BY <1>15 DEF MoveAway
<1> QED
  BY Steps, <1>1, <1>2, <1>3, <1>4, <1>5, <1>6, <1>7, <1>8, <1>10, <1>11, <1>12, <1>13, <1>14, <1>15
  DEF OpenRaises, LineRaises

\* Every step keeps what is known of links, logs and writers.
LEMMA LinkedStep ==
    ASSUME IInv, Next
    PROVE  LinkedOnce'
<1> USE DEF IInv, LinkedOnce, TypeOK, files, progress, reader, Starts, NoLog
<1>1. ASSUME NEW s \in Starts, RunAll(s) PROVE LinkedOnce'
  BY <1>1 DEF RunAll
<1>2. ASSUME NEW s \in Starts, Unlink(s) \/ StartScan(s) \/ Link(s) PROVE LinkedOnce'
  <2>1. CASE Unlink(s)
    BY <2>1 DEF Unlink, RemoveLink, Exists
  <2>2. CASE StartScan(s)
    BY <2>2 DEF StartScan
  <2>3. CASE Link(s)
    BY <2>3 DEF Link
  <2> QED
    BY <1>2, <2>1, <2>2, <2>3
<1>3. ASSUME NEW s \in Starts, Write(s) \/ StartLauncher(s) PROVE LinkedOnce'
  <2>1. CASE Write(s)
    BY <2>1 DEF Write
  <2>2. CASE StartLauncher(s)
    <3>1. watch'[s] \in {link, NoLog} /\ \A r \in Starts : r # s => watch'[r] = watch[r]
      BY <2>2 DEF StartLauncher
    <3>2. link' = link /\ script' = script
      BY <2>2 DEF StartLauncher
    <3>3. \A r \in Starts : r # NoLog
      OBVIOUS
    <3> QED
      BY <3>1, <3>2, <3>3
  <2> QED
    BY <1>3, <2>1, <2>2
<1>4. ASSUME NEW s \in Starts,
             OpenLink(s) \/ ProcessLine(s) \/ EndOfFile(s) \/ Wait(s) \/ EventRead(s),
             UNCHANGED <<files, script, orderly>>
      PROVE  LinkedOnce'
  BY <1>4 DEF OpenLink, ProcessLine, EndOfFile, Wait, EventRead
<1>5. ASSUME NEW s \in Starts, Quit(s), UNCHANGED <<files, script, orderly>> PROVE LinkedOnce'
  BY <1>5 DEF Quit, Forget
<1>6. CASE KillAll
  BY <1>6 DEF KillAll, End, Forget
<1>7. CASE Reboot
  BY <1>7 DEF Reboot, End, Forget
<1>8. CASE MoveAway
  BY <1>8 DEF MoveAway
<1> QED
  BY Steps, <1>1, <1>2, <1>3, <1>4, <1>5, <1>6, <1>7, <1>8 DEF OpenRaises, LineRaises

\* A launcher that is not running has kept nothing of an earlier run.
LEMMA IdleStep ==
    ASSUME IInv, Next
    PROVE  IdleClean'
<1> USE DEF IInv, IdleClean, TypeOK, files, progress, reader, Running, Goto
<1>1. ASSUME NEW s \in Starts, RunAll(s) PROVE IdleClean'
  BY <1>1 DEF RunAll
<1>2. ASSUME NEW s \in Starts, Unlink(s) \/ StartScan(s) \/ Link(s) \/ Write(s) PROVE IdleClean'
  BY <1>2 DEF Unlink, StartScan, Link, Write
<1>3. ASSUME NEW s \in Starts, StartLauncher(s) PROVE IdleClean'
  BY <1>3 DEF StartLauncher, Exists
<1>4. ASSUME NEW s \in Starts,
             OpenLink(s) \/ ProcessLine(s) \/ EndOfFile(s) \/ Wait(s) \/ EventRead(s),
             UNCHANGED <<files, script, orderly>>
      PROVE  IdleClean'
  <2>1. CASE OpenLink(s)
    BY <1>4, <2>1 DEF OpenLink, Exists
  <2>2. CASE ProcessLine(s)
    BY <1>4, <2>2 DEF ProcessLine
  <2>3. CASE EndOfFile(s) \/ Wait(s) \/ EventRead(s)
    BY <1>4, <2>3 DEF EndOfFile, Wait, EventRead
  <2> QED
    BY <1>4, <2>1, <2>2, <2>3
<1>5. ASSUME NEW s \in Starts, lpc[s] # "none", Quit(s), UNCHANGED <<files, script, orderly>>
      PROVE  IdleClean'
  BY <1>5 DEF Quit, Forget
<1>6. CASE KillAll
  BY <1>6 DEF KillAll, End, Forget
<1>7. CASE Reboot
  BY <1>7 DEF Reboot, End, Forget
<1>8. CASE MoveAway
  BY <1>8 DEF MoveAway
<1> QED
  BY Steps, <1>1, <1>2, <1>3, <1>4, <1>5, <1>6, <1>7, <1>8 DEF OpenRaises, LineRaises

\* Every step keeps offset, last piece and waiting events together.
LEMMA TracksStep ==
    ASSUME IInv, Next
    PROVE  Tracks'
<1>0. TypeOK /\ LinkedOnce /\ IdleClean /\ Tracks
  BY DEF IInv
<1> USE DEF TypeOK, Tracks, Following, Running, Covered, files, progress, reader, Goto
<1>1. ASSUME NEW s \in Starts, RunAll(s) PROVE Tracks'
  BY <1>0, <1>1 DEF RunAll
<1>2. ASSUME NEW s \in Starts, Unlink(s) \/ StartScan(s) PROVE Tracks'
  <2>1. CASE Unlink(s)
    BY <1>0, <2>1 DEF Unlink, RemoveLink, Exists, IdleClean, Logs, NoLog
  <2>2. CASE StartScan(s)
    BY <1>0, <2>2 DEF StartScan
  <2> QED
    BY <1>0, <1>2, <2>1, <2>2
<1>3. ASSUME NEW s \in Starts, Link(s) PROVE Tracks'
  <2>1. \A r \in Starts : watch[r] # s
    BY <1>0, <1>3 DEF Link, LinkedOnce
  <2> QED
    BY <1>0, <1>3, <2>1 DEF Link
<1>4. ASSUME NEW s \in Starts, Write(s) PROVE Tracks'
  <2>1. \A r \in Starts : watch[r] = s => queued'[r]
    BY <1>0, <1>4 DEF Write, Notified
  <2>2. s \in Logs /\ size'[s] = size[s] + 1 /\ \A g \in Logs : g # s => size'[g] = size[g]
    BY <1>0, <1>4 DEF Write, Starts, Logs
  <2>3. \A r \in Starts : queued[r] => queued'[r]
    BY <1>0, <1>4 DEF Write
  <2>4. SUFFICES ASSUME NEW r \in Starts, Following(r)
                 PROVE  /\ Covered(r) <= size'[watch[r]]
                        /\ (lpc[r] \in {"closed", "wait"} /\ ~queued'[r]) => Covered(r) = size'[watch[r]]
    BY <1>0, <1>4 DEF Write
  <2>5. watch[r] \in Logs
    BY <1>0, <2>4 DEF IdleClean
  <2>6. Covered(r) \in Int /\ size[watch[r]] \in Int
    BY <1>0, <2>5 DEF Piece
  <2>7. CASE watch[r] = s
    BY <1>0, <2>7, <2>1, <2>2, <2>4, <2>6
  <2>8. CASE watch[r] # s
    BY <1>0, <2>8, <2>2, <2>3, <2>4, <2>5
  <2> QED
    BY <1>0, <2>7, <2>8
<1>5. ASSUME NEW s \in Starts, StartLauncher(s) PROVE Tracks'
  <2>1. done[s] = Nothing /\ pos[s] = 0
    BY <1>0, <1>5 DEF StartLauncher, IdleClean
  <2>2. link # NoLog => 0 <= size[link]
    BY <1>0, LogTailAssumption
  <2> QED
    BY <1>0, <1>5, <2>1, <2>2 DEF StartLauncher, Exists, Nothing
<1>6. ASSUME NEW s \in Starts, OpenLink(s), UNCHANGED <<files, script, orderly>> PROVE Tracks'
  BY <1>0, <1>6 DEF OpenLink
<1>7. ASSUME NEW s \in Starts, ProcessLine(s), UNCHANGED <<files, script, orderly>> PROVE Tracks'
  <2>1. NextLine(s) <= size[file[s]]
    BY <1>7, ReadsPiece
  <2>2. done'[s].to = NextLine(s) /\ fpos'[s] = NextLine(s)
    BY <1>0, <1>7 DEF ProcessLine
  <2> QED
    BY <1>0, <1>7, <2>1, <2>2 DEF ProcessLine
<1>8. ASSUME NEW s \in Starts, EndOfFile(s), UNCHANGED <<files, script, orderly>> PROVE Tracks'
  <2>1. Following(s) => Covered(s) = size[watch[s]]
    <3>1. SUFFICES ASSUME Following(s) PROVE Covered(s) = size[watch[s]]
      OBVIOUS
    <3>2. fpos[s] >= size[watch[s]] /\ fpos[s] = Covered(s) /\ Covered(s) <= size[watch[s]]
      BY <1>0, <1>8, <3>1 DEF EndOfFile
    <3>3. fpos[s] \in Int /\ size[watch[s]] \in Int
      BY <1>0, <1>8, <3>1 DEF IdleClean
    <3> QED
      BY <1>0, <3>2, <3>3
  <2> QED
    BY <1>0, <1>8, <2>1 DEF EndOfFile, Tell
<1>9. ASSUME NEW s \in Starts, Wait(s) \/ EventRead(s), UNCHANGED <<files, script, orderly>> PROVE Tracks'
  BY <1>0, <1>9 DEF Wait, EventRead
<1>10. ASSUME NEW s \in Starts, Quit(s), UNCHANGED <<files, script, orderly>> PROVE Tracks'
  BY <1>0, <1>10 DEF Quit, Forget
<1>11. CASE KillAll
  BY <1>0, <1>11 DEF KillAll, End, Forget
<1>12. CASE Reboot
  <2>1. \A s \in Starts : ~Running(s)'
    BY <1>0, <1>12 DEF Reboot, End, IdleClean
  <2> QED
    BY <2>1
<1>13. CASE MoveAway
  BY <1>0, <1>13 DEF MoveAway
<1> QED
  BY Steps, <1>1, <1>2, <1>3, <1>4, <1>5, <1>6, <1>7, <1>8, <1>9, <1>10, <1>11, <1>12, <1>13
  DEF OpenRaises, LineRaises

\* An orderly start stays one, step by step of its scripts.
LEMMA OrderlyStep ==
    ASSUME IInv, Next
    PROVE  OrderlySteps' /\ OrderlyStart'
<1>0. TypeOK /\ IdleClean /\ OrderlySteps /\ OrderlyStart
  BY DEF IInv
<1> USE <1>0 DEF TypeOK, OrderlySteps, OrderlyStart, Gone, Running, Exists, Dangling, files, progress, reader, Goto
<1> DEFINE Goal == OrderlySteps' /\ OrderlyStart'
<1>1. ASSUME NEW s \in Starts, RunAll(s) PROVE Goal
  <2> SUFFICES ASSUME orderly' PROVE Goal
    OBVIOUS
  <2>1. orderly /\ lpc[s] = "none" /\ \A r \in Starts : Gone(r)
    BY <1>1 DEF RunAll, IdleClean
  <2>2. \A r \in Starts : r # s => script'[r] = script[r] /\ lpc'[r] = lpc[r]
    BY <1>1 DEF RunAll
  <2>3. /\ script'[s] = "sleep" /\ lpc'[s] = "sleep"
        /\ writer' = writer /\ link' = link /\ watch' = watch
        /\ (Dangling' <=> Dangling)
    BY <1>1 DEF RunAll
  <2> QED
    BY <2>1, <2>2, <2>3
<1>2. ASSUME NEW s \in Starts, Unlink(s) PROVE Goal
  <2> SUFFICES ASSUME orderly' PROVE Goal
    OBVIOUS
  <2>1. orderly /\ ~Gone(s) /\ lpc[s] = "sleep"
    BY <1>2 DEF Unlink
  <2>2. \A r \in Starts : r # s => Gone(r)
    BY <2>1
  <2> QED
    BY <1>2, <2>1, <2>2 DEF Unlink, RemoveLink
<1>3. ASSUME NEW s \in Starts, StartScan(s) PROVE Goal
  BY <1>3 DEF StartScan
<1>4. ASSUME NEW s \in Starts, Link(s) PROVE Goal
  <2> SUFFICES ASSUME orderly' PROVE Goal
    OBVIOUS
  <2>1. orderly /\ ~Gone(s) /\ lpc[s] = "sleep" /\ (link = NoLog \/ Dangling)
    BY <1>4 DEF Link
  <2>2. \A r \in Starts : r # s => Gone(r)
    BY <2>1
  <2> QED
    BY <1>4, <2>1, <2>2 DEF Link
<1>5. ASSUME NEW s \in Starts, Write(s) PROVE Goal
  BY <1>5 DEF Write
<1>6. ASSUME NEW s \in Starts, StartLauncher(s) PROVE Goal
  <2> SUFFICES ASSUME orderly' PROVE Goal
    OBVIOUS
  <2>1. orderly /\ script[s] = "end" /\ lpc[s] = "sleep"
    BY <1>6 DEF StartLauncher
  <2>2. link = s \/ Dangling
    BY <2>1
  <2>3. s # NoLog
    BY DEF Starts, NoLog
  <2> QED
    BY <1>6, <2>1, <2>2, <2>3 DEF StartLauncher
<1>7. ASSUME NEW s \in Starts,
             OpenLink(s) \/ ProcessLine(s) \/ EndOfFile(s) \/ Wait(s) \/ EventRead(s),
             UNCHANGED <<files, script, orderly>>
      PROVE  Goal
  <2>1. /\ Running(s) /\ Running(s)' /\ watch' = watch
        /\ \A r \in Starts : r # s => lpc'[r] = lpc[r]
    BY <1>7 DEF OpenLink, ProcessLine, EndOfFile, Wait, EventRead
  <2> QED
    BY <1>7, <2>1
<1>8. ASSUME NEW s \in Starts, Running(s), Quit(s), UNCHANGED <<files, script, orderly>> PROVE Goal
  BY <1>8 DEF Quit, Forget
<1>9. CASE KillAll
  BY <1>9 DEF KillAll, End, Forget
<1>10. CASE Reboot
  <2>1. \A s \in Starts : Gone(s)' /\ lpc'[s] \in {"none", "dead"} /\ script'[s] \in {"none", "end"}
    BY <1>10 DEF Reboot, End, IdleClean
  <2> QED
    BY <2>1
<1>11. CASE MoveAway
  BY <1>11 DEF MoveAway
<1> QED
  BY Steps, <1>1, <1>2, <1>3, <1>4, <1>5, <1>6, <1>7, <1>8, <1>9, <1>10, <1>11 DEF OpenRaises, LineRaises

\* Every step keeps the invariant.
LEMMA StepIInv == IInv /\ [Next]_vars => IInv'
<1> SUFFICES ASSUME IInv, [Next]_vars PROVE IInv'
  OBVIOUS
<1>1. CASE Next
  BY <1>1, TypeStep, LinkedStep, IdleStep, TracksStep, OrderlyStep DEF IInv
<1>2. CASE UNCHANGED vars
  BY <1>2 DEF IInv, TypeOK, LinkedOnce, IdleClean, Tracks, OrderlySteps, OrderlyStart, Gone,
              Running, Following, Covered, Dangling, Exists, vars, files, progress, reader
<1> QED
  BY <1>1, <1>2

\* The invariant holds in every state of every behaviour.
LEMMA Invariant == Spec => []IInv
BY InitIInv, StepIInv, PTL DEF Spec

-----------------------------------------------------------------------------
(* The theorems. *)

\* Every variable keeps its type: in particular no offset main() keeps or seeks to is
\* behind the end of the longest log (central_app_launcher2.py:655-660).
THEOREM TypeCorrect == Spec => []TypeOK
BY Invariant, PTL DEF IInv

\* main() never blocks in inotify.read (664) with something left to process: the watch is
\* older than the first read (634), so a write the read has missed has left an event.
THEOREM NoLostWakeup == Spec => []SleepsCaughtUp
<1>1. IInv => SleepsCaughtUp
  BY DEF IInv, Tracks, SleepsCaughtUp
<1> QED
  BY <1>1, Invariant, PTL

\* When the sleeps order the scripts (start_bluetoothctl.sh:12, start_central_app_launcher.sh:9)
\* and starts do not overlap, a launcher that runs watches its own log and nobody moves the
\* link while it runs; one that does not has met a link whose log is gone (18-24).
THEOREM OrderlyFollows == Spec => []OrderlyStart
BY Invariant, PTL DEF IInv

\* A launcher whose link stays processes each unit of its log once and in order, across
\* any number of openings (655-660).
THEOREM ReadOnce == Spec => ReadsOnce
<1> DEFINE Once(s) ==
      (Following(s) /\ Running(s)' /\ done'[s] # done[s]) =>
          /\ done'[s].log = watch[s]
          /\ done'[s].from = Covered(s)
          /\ done'[s].from < done'[s].to
<1>1. IInv /\ [Next]_vars => [\A s \in Starts : Once(s)]_vars
  <2> SUFFICES ASSUME IInv, Next, NEW s \in Starts, Following(s), Running(s)', done'[s] # done[s]
               PROVE  /\ done'[s].log = watch[s]
                      /\ done'[s].from = Covered(s)
                      /\ done'[s].from < done'[s].to
    OBVIOUS
  <2>1. ProcessLine(s)
    <3> USE DEF IInv, TypeOK, IdleClean, Following, Running, files, progress, reader
    <3>1. ASSUME NEW r \in Starts, RunAll(r) \/ Unlink(r) \/ StartScan(r) \/ Link(r) \/ Write(r)
                                  \/ StartLauncher(r) \/ OpenLink(r) \/ EndOfFile(r) \/ Wait(r) \/ EventRead(r)
          PROVE  FALSE
      BY <3>1 DEF RunAll, Unlink, StartScan, Link, Write, StartLauncher, OpenLink, EndOfFile, Wait, EventRead
    <3>2. ASSUME NEW r \in Starts, Quit(r) PROVE FALSE
      BY <3>2 DEF Quit, Forget, Goto
    <3>3. ASSUME NEW r \in Starts, ProcessLine(r) PROVE r = s
      BY <3>3 DEF ProcessLine
    <3>4. ASSUME KillAll \/ Reboot \/ MoveAway PROVE FALSE
      BY <3>4 DEF KillAll, Reboot, MoveAway, End, Forget
    <3> QED
      BY Steps, <3>1, <3>2, <3>3, <3>4 DEF OpenRaises, LineRaises
  <2>2. file[s] = watch[s] /\ fpos[s] = Covered(s)
    BY <2>1 DEF IInv, Tracks, ProcessLine
  <2>3. fpos[s] < NextLine(s)
    BY <2>1, ReadsPiece
  <2>4. done'[s] = [log |-> file[s], from |-> fpos[s], to |-> NextLine(s)]
    BY <2>1 DEF ProcessLine, IInv, TypeOK
  <2> QED
    BY <2>2, <2>3, <2>4
<1> QED
  BY <1>1, Invariant, PTL DEF Spec, ReadsOnce
=============================================================================
