---------------------- MODULE CentralAppLauncher_proofs ----------------------
(***************************************************************************)
(* Proofs about the launcher, for any set of devices, any signal           *)
(* strengths, any limits, any choice of tools and any faults.              *)
(***************************************************************************)
EXTENDS CentralAppLauncher, FiniteSetTheorems, TLAPS

MainLocked == {"dec_read", "dec_write", "update", "vendor_depri", "vendor_del"}
AtTool == {"collected", "finished", "member", "lock", "popen", "reboot"}
AtDevice == {"drop", "reprioritize", "inc", "store", "join"} \cup AtTool

\* What the program counters say about the local variables of the threads.
LocalInv ==
    /\ mpc \notin {"read", "quit"} => line \in Line
    /\ mpc \in {"insert"} \cup MainLocked => attempts[line.dev] \in Nat
    /\ mpc = "dec_read" => attempts[line.dev] \in Nat \ {0}
    /\ mpc = "dec_write" => mreg \in Nat \ {0}
    /\ mpc \in {"vendor_depri", "vendor_del"} => mreg \in Rssi
    /\ \A t \in Transports :
          /\ rpc[t] \in AtDevice => cur[t] \in Devices
          /\ rpc[t] \in AtTool => tool[t] \in Tools /\ Radio(tool[t]) = t
          /\ rpc[t] = "store" => rreg[t] \in Nat

\* The threads that come back to an entry they have looked up own its lock.
LockInv ==
    /\ mpc \in MainLocked => tableOwner[line.t] = "main"
    /\ \A t \in Transports :
          (rpc[t] \in {"popen", "reboot"} /\ tool[t] = "GATT") => tableOwner[t] = t

\* Where a radio thread is while an ApplicationThread of its transport runs.
RunInv ==
    /\ \A k \in Tools :
          /\ apc[k] = "none" <=> adev[k] = Nobody
          /\ (apc[k] # "none" /\ rpc[Radio(k)] # "dead") =>
                /\ adev[k] = cur[Radio(k)]
                /\ \/ rpc[Radio(k)] = "join"
                   \/ /\ rpc[Radio(k)] \in AtTool
                      /\ k = FirstTool[Radio(k)]
                      /\ tool[Radio(k)] = SecondTool[Radio(k)]
    /\ \A t \in Transports :
          rpc[t] \in {"member", "lock", "popen", "reboot"} => cur[t] \notin success[tool[t]]

EntryInv == LockInv /\ CheckedEntryStays /\ BleVendorMoveKeepsDevice

IndInv == TypeOK /\ KnownDevices /\ LocalInv /\ EntryInv /\ RunInv

\* What the steps of a group leave unchanged.
ProcessFrame == UNCHANGED <<success, successOwner, radioVars, appVars, logVars>>
RoundFrame == UNCHANGED <<sharedVars, rreg, tool, appVars, mainVars, logVars>>
BetweenFrame ==
    UNCHANGED <<attempts, success, tableOwner, successOwner, roundVars, rreg, tool, appVars,
                mainVars, logVars>>
CountFrame ==
    UNCHANGED <<table, depri, success, tableOwner, successOwner, roundVars, cur, appVars,
                mainVars, logVars>>
ProbeFrame ==
    UNCHANGED <<depri, attempts, success, roundVars, cur, rreg, mainVars, logVars>>
AppFrame == UNCHANGED <<depri, attempts, tableOwner, mainVars, radioVars, logVars>>

-----------------------------------------------------------------------------
(* Types.                                                                   *)

\* The listed devices (the keys of a dictionary) are finitely many, so len() is a number.
LEMMA KeysFinite ==
  ASSUME NEW dict
  PROVE  /\ Keys(dict) \subseteq Devices
         /\ IsFiniteSet(Keys(dict))
         /\ Cardinality(Keys(dict)) \in Nat
<1>1. Keys(dict) \subseteq Devices
  BY DEF Keys
<1>2. IsFiniteSet(Keys(dict))
  BY <1>1, LauncherAssumption, FS_Subset
<1> QED
  BY <1>1, <1>2, FS_CardinalityType

\* The program starts, with all its dictionaries empty, in a state of the invariant.
LEMMA InitIndInv == Init => IndInv
<1> SUFFICES ASSUME Init PROVE IndInv
  OBVIOUS
<1> USE LauncherAssumption DEF Init, EmptyDict, Transports, Tools
<1>1. TypeOK
  BY DEF TypeOK, Dict, MainPCs, RadioPCs, AppPCs
<1>2. KnownDevices
  BY DEF KnownDevices, Keys
<1>3. LocalInv /\ EntryInv
  BY DEF LocalInv, EntryInv, LockInv, CheckedEntryStays, BleVendorMoveKeepsDevice,
         VendorMoveKeeps, MainLocked, AtTool, AtDevice
<1>4. RunInv
  BY DEF RunInv
<1> QED
  BY <1>1, <1>2, <1>3, <1>4 DEF IndInv

\* Steps of process_line: the types are preserved. The counter is decremented only when it
\* is above 1 (281, 294).
LEMMA MainTypes ==
  ASSUME IndInv, ReadLine \/ ProcessLine
  PROVE  TypeOK'
<1> USE LauncherAssumption DEF IndInv, TypeOK, Dict, Line, MainPCs, Transports,
                               LineDone, NextTable, LocalInv, sharedVars, mainVars,
                               radioVars, appVars, logVars, roundVars, Step,
                               ProcessFrame
<1>1. CASE ReadLine
  BY <1>1 DEF ReadLine, ReadNew, ReadChg, ReadDel, ReadTorn
<1>2. ASSUME NewCount, ProcessFrame PROVE TypeOK'
  BY <1>2 DEF NewCount, CountReset
<1>3. ASSUME NewInsert, ProcessFrame PROVE TypeOK'
  BY <1>3 DEF NewInsert
<1>4. ASSUME RssiLock, ProcessFrame PROVE TypeOK'
  BY <1>4 DEF RssiLock, EarnsAttempt
<1>5. ASSUME DecRead, ProcessFrame PROVE TypeOK'
  BY <1>5 DEF DecRead
<1>6. ASSUME DecWrite, ProcessFrame PROVE TypeOK'
  BY <1>6 DEF DecWrite
<1>7. ASSUME RssiUpdate, ProcessFrame PROVE TypeOK'
  BY <1>7 DEF RssiUpdate
<1>8. ASSUME VendorLock, ProcessFrame PROVE TypeOK'
  BY <1>8 DEF VendorLock
<1>9. ASSUME VendorDepri, ProcessFrame PROVE TypeOK'
  BY <1>9 DEF VendorDepri
<1>10. ASSUME VendorDel, ProcessFrame PROVE TypeOK'
  BY <1>10 DEF VendorDel
<1>11. ASSUME DelLine, ProcessFrame PROVE TypeOK'
  BY <1>11 DEF DelLine, LockedDelete
<1> QED
  BY <1>1, <1>2, <1>3, <1>4, <1>5, <1>6, <1>7, <1>8, <1>9, <1>10, <1>11
  DEF ProcessLine

\* Steps of the radio threads: the types are preserved.
LEMMA RadioTypes ==
  ASSUME IndInv, NEW t \in Transports, RadioThread(t)
  PROVE  TypeOK'
<1> USE LauncherAssumption DEF IndInv, TypeOK, Dict, RadioPCs, AppPCs, AtTool, AtDevice,
                               Transports, Tools, LocalInv, sharedVars, mainVars,
                               radioVars, appVars, logVars, roundVars, Goto, Move,
                               RoundFrame, BetweenFrame, CountFrame, ProbeFrame
<1>1. ASSUME TakeKeys(t), RoundFrame PROVE TypeOK'
  <2>1. Keys(table[t]) \subseteq Devices /\ Cardinality(Keys(table[t])) \in Nat
    BY KeysFinite
  <2> QED
    BY <1>1, <2>1 DEF TakeKeys, EmptyDict
<1>2. ASSUME NEW d \in Devices, SortKey(t, d), RoundFrame PROVE TypeOK'
  BY <1>2 DEF SortKey
<1>3. ASSUME NEW d \in Devices, NextDevice(t, d), RoundFrame PROVE TypeOK'
  <2>1. todo' \in [Transports -> Dict] /\ cur' \in [Transports -> Devices \cup {Nobody}]
    BY <1>3 DEF NextDevice
  <2>2. rpc' \in [Transports -> RadioPCs] /\ skips' \in [Transports -> Nat]
    BY <1>3 DEF NextDevice
  <2> QED
    BY <1>3, <2>1, <2>2 DEF NextDevice
<1>4. ASSUME EndOfLoop(t), RoundFrame PROVE TypeOK'
  BY <1>4 DEF EndOfLoop
<1>5. ASSUME SkipDrop(t), BetweenFrame PROVE TypeOK'
  BY <1>5 DEF SkipDrop, LockedDelete
<1>6. ASSUME Relist(t), BetweenFrame PROVE TypeOK'
  BY <1>6 DEF Relist, Continue, Keys
<1>7. ASSUME Reprioritize(t), BetweenFrame PROVE TypeOK'
  BY <1>7 DEF Reprioritize, ReprioritizeLock, Continue
<1>8. ASSUME IncRead(t), CountFrame PROVE TypeOK'
  BY <1>8 DEF IncRead, KnownDevices, Keys
<1>9. ASSUME IncWrite(t), CountFrame PROVE TypeOK'
  BY <1>9 DEF IncWrite, TakeUp, FirstEnabled, FirstTool, SecondTool
<1>10. ASSUME Collected(t), ProbeFrame PROVE TypeOK'
  BY <1>10 DEF Collected, AlreadyCollected, TakeUp, ToolAfter, FirstTool, SecondTool
<1>11. ASSUME FinishedDrop(t), ProbeFrame PROVE TypeOK'
  BY <1>11 DEF FinishedDrop, LockedDelete, TakeUp, ToolAfter, FirstTool, SecondTool
<1>12. ASSUME Member(t), ProbeFrame PROVE TypeOK'
  BY <1>12 DEF Member, TakeUp, ToolAfter, FirstTool, SecondTool
<1>13. ASSUME GattLock(t), ProbeFrame PROVE TypeOK'
  BY <1>13 DEF GattLock, TakeUp, ToolAfter, FirstTool, SecondTool
<1>14. ASSUME Launch(t), ProbeFrame PROVE TypeOK'
  BY <1>14 DEF Launch, LeaveGattLock, TakeUp, ToolAfter, FirstTool, SecondTool
<1>15. ASSUME LogFails(t), ProbeFrame PROVE TypeOK'
  BY <1>15 DEF LogFails, LeaveGattLock
<1>16. ASSUME ForkFails(t), ProbeFrame PROVE TypeOK'
  BY <1>16 DEF ForkFails
<1>17. ASSUME RebootFails(t), ProbeFrame PROVE TypeOK'
  BY <1>17 DEF RebootFails, LeaveGattLock, TakeUp, ToolAfter, FirstTool, SecondTool
<1>18. ASSUME Join(t), BetweenFrame PROVE TypeOK'
  BY <1>18 DEF Join, Continue
<1>19. ASSUME SpinEnds(t), BetweenFrame PROVE TypeOK'
  BY <1>19 DEF SpinEnds
<1> QED
  BY <1>1, <1>2, <1>3, <1>4, <1>5, <1>6, <1>7, <1>8, <1>9, <1>10, <1>11, <1>12, <1>13,
     <1>14, <1>15, <1>16, <1>17, <1>18, <1>19
  DEF RadioThread, Round, Between, Count, Probe

\* Steps of ApplicationThread and its process:
\* the types are preserved.
LEMMA AppTypes ==
  ASSUME IndInv, NEW k \in Tools, ToolExits(k) \/ AppThread(k)
  PROVE  TypeOK'
<1> USE LauncherAssumption DEF IndInv, TypeOK, Dict, AppPCs, Transports, Tools,
                               LocalInv, sharedVars, mainVars, radioVars, appVars,
                               logVars, roundVars, AppFrame
<1>1. CASE ToolExits(k)
  BY <1>1 DEF ToolExits
<1>2. ASSUME WaitReturns(k), AppFrame PROVE TypeOK'
  BY <1>2 DEF WaitReturns, EndApp
<1>3. ASSUME WaitTimesOut(k), AppFrame PROVE TypeOK'
  BY <1>3 DEF WaitTimesOut, EndApp
<1>4. ASSUME Record(k), AppFrame PROVE TypeOK'
  BY <1>4 DEF Record, EndApp, All2thprintsDone, RunInv
<1>5. ASSUME Remove(k), AppFrame PROVE TypeOK'
  BY <1>5 DEF Remove, LockedDelete, EndApp
<1> QED
  BY <1>1, <1>2, <1>3, <1>4, <1>5
  DEF AppThread

\* Steps of process_line: no uncounted device gets into a dictionary or a copy of one.
LEMMA MainKnows ==
  ASSUME IndInv, ReadLine \/ ProcessLine
  PROVE  KnownDevices'
<1> USE LauncherAssumption DEF IndInv, TypeOK, Dict, Transports, KnownDevices, Keys,
                               Line, LineDone, NextTable, LocalInv, MainLocked,
                               sharedVars, mainVars, radioVars, appVars, logVars,
                               roundVars, Step, ProcessFrame
<1>1. CASE ReadLine
  BY <1>1 DEF ReadLine, ReadNew, ReadChg, ReadDel, ReadTorn
<1>2. ASSUME NewCount, ProcessFrame PROVE KnownDevices'
  BY <1>2 DEF NewCount, CountReset
<1>3. ASSUME NewInsert, ProcessFrame PROVE KnownDevices'
  BY <1>3 DEF NewInsert
<1>4. ASSUME RssiLock, ProcessFrame PROVE KnownDevices'
  BY <1>4 DEF RssiLock, EarnsAttempt
<1>5. ASSUME DecRead, ProcessFrame PROVE KnownDevices'
  BY <1>5 DEF DecRead
<1>6. ASSUME DecWrite, ProcessFrame PROVE KnownDevices'
  BY <1>6 DEF DecWrite
<1>7. ASSUME RssiUpdate, ProcessFrame PROVE KnownDevices'
  BY <1>7 DEF RssiUpdate
<1>8. ASSUME VendorLock, ProcessFrame PROVE KnownDevices'
  BY <1>8 DEF VendorLock
<1>9. ASSUME VendorDepri, ProcessFrame PROVE KnownDevices'
  BY <1>9 DEF VendorDepri
<1>10. ASSUME VendorDel, ProcessFrame PROVE KnownDevices'
  BY <1>10 DEF VendorDel
<1>11. ASSUME DelLine, ProcessFrame PROVE KnownDevices'
  BY <1>11 DEF DelLine, LockedDelete
<1> QED
  BY <1>1, <1>2, <1>3, <1>4, <1>5, <1>6, <1>7, <1>8, <1>9, <1>10, <1>11
  DEF ProcessLine

\* Steps of the radio threads: no uncounted device gets into a dictionary or a copy of one.
LEMMA RadioKnows ==
  ASSUME IndInv, NEW t \in Transports, RadioThread(t)
  PROVE  KnownDevices'
<1> USE LauncherAssumption DEF IndInv, TypeOK, Dict, Transports, KnownDevices, Keys,
                               LocalInv, AtTool, AtDevice, sharedVars, mainVars,
                               radioVars, appVars, logVars, roundVars, Goto, Move,
                               RoundFrame, BetweenFrame, CountFrame, ProbeFrame
<1>1. ASSUME TakeKeys(t), RoundFrame PROVE KnownDevices'
  BY <1>1 DEF TakeKeys, EmptyDict
<1>2. ASSUME NEW d \in Devices, SortKey(t, d), RoundFrame PROVE KnownDevices'
  BY <1>2 DEF SortKey
<1>3. ASSUME NEW d \in Devices, NextDevice(t, d), RoundFrame PROVE KnownDevices'
  <2>1. d \in Keys(todo[t])
    BY <1>3 DEF NextDevice, Strongest
  <2>2. Keys(todo'[t]) \subseteq Keys(todo[t]) /\ cur'[t] = d
    BY <1>3 DEF NextDevice
  <2>3. \A u \in Transports \ {t} : todo'[u] = todo[u] /\ cur'[u] = cur[u]
    BY <1>3 DEF NextDevice
  <2>4. UNCHANGED <<table, depri, attempts, unread>>
    BY <1>3 DEF NextDevice
  <2> QED
    BY <2>1, <2>2, <2>3, <2>4
<1>4. ASSUME EndOfLoop(t), RoundFrame PROVE KnownDevices'
  BY <1>4 DEF EndOfLoop
<1>5. ASSUME SkipDrop(t), BetweenFrame PROVE KnownDevices'
  BY <1>5 DEF SkipDrop, LockedDelete
<1>6. ASSUME Relist(t), BetweenFrame PROVE KnownDevices'
  BY <1>6 DEF Relist, Continue
<1>7. ASSUME Reprioritize(t), BetweenFrame PROVE KnownDevices'
  BY <1>7 DEF Reprioritize, ReprioritizeLock, Continue
<1>8. ASSUME IncRead(t), CountFrame PROVE KnownDevices'
  BY <1>8 DEF IncRead
<1>9. ASSUME IncWrite(t), CountFrame PROVE KnownDevices'
  BY <1>9 DEF IncWrite, TakeUp, FirstEnabled, FirstTool, SecondTool
<1>10. ASSUME Collected(t), ProbeFrame PROVE KnownDevices'
  BY <1>10 DEF Collected, AlreadyCollected, TakeUp, ToolAfter, FirstTool, SecondTool
<1>11. ASSUME FinishedDrop(t), ProbeFrame PROVE KnownDevices'
  BY <1>11 DEF FinishedDrop, LockedDelete, TakeUp, ToolAfter, FirstTool, SecondTool
<1>12. ASSUME Member(t), ProbeFrame PROVE KnownDevices'
  BY <1>12 DEF Member, TakeUp, ToolAfter, FirstTool, SecondTool
<1>13. ASSUME GattLock(t), ProbeFrame PROVE KnownDevices'
  BY <1>13 DEF GattLock, TakeUp, ToolAfter, FirstTool, SecondTool
<1>14. ASSUME Launch(t), ProbeFrame PROVE KnownDevices'
  BY <1>14 DEF Launch, LeaveGattLock, TakeUp, ToolAfter, FirstTool, SecondTool
<1>15. ASSUME LogFails(t), ProbeFrame PROVE KnownDevices'
  BY <1>15 DEF LogFails, LeaveGattLock
<1>16. ASSUME ForkFails(t), ProbeFrame PROVE KnownDevices'
  BY <1>16 DEF ForkFails
<1>17. ASSUME RebootFails(t), ProbeFrame PROVE KnownDevices'
  BY <1>17 DEF RebootFails, LeaveGattLock, TakeUp, ToolAfter, FirstTool, SecondTool
<1>18. ASSUME Join(t), BetweenFrame PROVE KnownDevices'
  BY <1>18 DEF Join, Continue
<1>19. ASSUME SpinEnds(t), BetweenFrame PROVE KnownDevices'
  BY <1>19 DEF SpinEnds
<1> QED
  BY <1>1, <1>2, <1>3, <1>4, <1>5, <1>6, <1>7, <1>8, <1>9, <1>10, <1>11, <1>12, <1>13,
     <1>14, <1>15, <1>16, <1>17, <1>18, <1>19
  DEF RadioThread, Round, Between, Count, Probe

\* Steps of ApplicationThread and its process:
\* no uncounted device gets into a dictionary or a copy of one.
LEMMA AppKnows ==
  ASSUME IndInv, NEW k \in Tools, ToolExits(k) \/ AppThread(k)
  PROVE  KnownDevices'
<1> USE LauncherAssumption DEF IndInv, TypeOK, Dict, Transports, KnownDevices, Keys,
                               sharedVars, mainVars, radioVars, appVars, logVars,
                               roundVars, AppFrame
<1>1. CASE ToolExits(k)
  BY <1>1 DEF ToolExits
<1>2. ASSUME WaitReturns(k), AppFrame PROVE KnownDevices'
  BY <1>2 DEF WaitReturns, EndApp
<1>3. ASSUME WaitTimesOut(k), AppFrame PROVE KnownDevices'
  BY <1>3 DEF WaitTimesOut, EndApp
<1>4. ASSUME Record(k), AppFrame PROVE KnownDevices'
  BY <1>4 DEF Record, EndApp, All2thprintsDone, RunInv
<1>5. ASSUME Remove(k), AppFrame PROVE KnownDevices'
  BY <1>5 DEF Remove, LockedDelete, EndApp
<1> QED
  BY <1>1, <1>2, <1>3, <1>4, <1>5
  DEF AppThread

\* Steps of process_line: each thread's local variables are set where it needs them.
LEMMA MainLocals ==
  ASSUME IndInv, ReadLine \/ ProcessLine
  PROVE  LocalInv'
<1> USE LauncherAssumption DEF IndInv, TypeOK, Dict, Transports, Tools, LocalInv,
                               MainLocked, AtTool, AtDevice, Line, LineDone, NextTable,
                               KnownDevices, Keys, sharedVars, mainVars, radioVars,
                               appVars, logVars, roundVars, Step, ProcessFrame
<1>1. CASE ReadLine
  BY <1>1 DEF ReadLine, ReadNew, ReadChg, ReadDel, ReadTorn
<1>2. ASSUME NewCount, ProcessFrame PROVE LocalInv'
  BY <1>2 DEF NewCount, CountReset
<1>3. ASSUME NewInsert, ProcessFrame PROVE LocalInv'
  BY <1>3 DEF NewInsert
<1>4. ASSUME RssiLock, ProcessFrame PROVE LocalInv'
  BY <1>4 DEF RssiLock, EarnsAttempt
<1>5. ASSUME DecRead, ProcessFrame PROVE LocalInv'
  BY <1>5 DEF DecRead
<1>6. ASSUME DecWrite, ProcessFrame PROVE LocalInv'
  BY <1>6 DEF DecWrite
<1>7. ASSUME RssiUpdate, ProcessFrame PROVE LocalInv'
  BY <1>7 DEF RssiUpdate
<1>8. ASSUME VendorLock, ProcessFrame PROVE LocalInv'
  BY <1>8 DEF VendorLock
<1>9. ASSUME VendorDepri, ProcessFrame PROVE LocalInv'
  BY <1>9 DEF VendorDepri
<1>10. ASSUME VendorDel, ProcessFrame PROVE LocalInv'
  BY <1>10 DEF VendorDel
<1>11. ASSUME DelLine, ProcessFrame PROVE LocalInv'
  BY <1>11 DEF DelLine, LockedDelete
<1> QED
  BY <1>1, <1>2, <1>3, <1>4, <1>5, <1>6, <1>7, <1>8, <1>9, <1>10, <1>11
  DEF ProcessLine

\* Steps of the radio threads: each thread's local variables are set where it needs them.
LEMMA RadioLocals ==
  ASSUME IndInv, NEW t \in Transports, RadioThread(t)
  PROVE  LocalInv'
<1> USE LauncherAssumption DEF IndInv, TypeOK, Dict, Transports, Tools, LocalInv,
                               MainLocked, AtTool, AtDevice, Radio, KnownDevices, Keys,
                               sharedVars, mainVars, radioVars, appVars, logVars,
                               roundVars, Goto, Move, RoundFrame, BetweenFrame,
                               CountFrame, ProbeFrame
<1>1. ASSUME TakeKeys(t), RoundFrame PROVE LocalInv'
  BY <1>1 DEF TakeKeys, EmptyDict
<1>2. ASSUME NEW d \in Devices, SortKey(t, d), RoundFrame PROVE LocalInv'
  BY <1>2 DEF SortKey
<1>3. ASSUME NEW d \in Devices, NextDevice(t, d), RoundFrame PROVE LocalInv'
  BY <1>3 DEF NextDevice
<1>4. ASSUME EndOfLoop(t), RoundFrame PROVE LocalInv'
  BY <1>4 DEF EndOfLoop
<1>5. ASSUME SkipDrop(t), BetweenFrame PROVE LocalInv'
  BY <1>5 DEF SkipDrop, LockedDelete
<1>6. ASSUME Relist(t), BetweenFrame PROVE LocalInv'
  BY <1>6 DEF Relist, Continue
<1>7. ASSUME Reprioritize(t), BetweenFrame PROVE LocalInv'
  BY <1>7 DEF Reprioritize, ReprioritizeLock, Continue
<1>8. ASSUME IncRead(t), CountFrame PROVE LocalInv'
  BY <1>8 DEF IncRead
<1>9. ASSUME IncWrite(t), CountFrame PROVE LocalInv'
  BY <1>9 DEF IncWrite, TakeUp, FirstEnabled, FirstTool, SecondTool
<1>10. ASSUME Collected(t), ProbeFrame PROVE LocalInv'
  BY <1>10 DEF Collected, AlreadyCollected, TakeUp, ToolAfter, FirstTool, SecondTool
<1>11. ASSUME FinishedDrop(t), ProbeFrame PROVE LocalInv'
  BY <1>11 DEF FinishedDrop, LockedDelete, TakeUp, ToolAfter, FirstTool, SecondTool
<1>12. ASSUME Member(t), ProbeFrame PROVE LocalInv'
  BY <1>12 DEF Member, TakeUp, ToolAfter, FirstTool, SecondTool
<1>13. ASSUME GattLock(t), ProbeFrame PROVE LocalInv'
  BY <1>13 DEF GattLock, TakeUp, ToolAfter, FirstTool, SecondTool
<1>14. ASSUME Launch(t), ProbeFrame PROVE LocalInv'
  BY <1>14 DEF Launch, LeaveGattLock, TakeUp, ToolAfter, FirstTool, SecondTool
<1>15. ASSUME LogFails(t), ProbeFrame PROVE LocalInv'
  BY <1>15 DEF LogFails, LeaveGattLock
<1>16. ASSUME ForkFails(t), ProbeFrame PROVE LocalInv'
  BY <1>16 DEF ForkFails
<1>17. ASSUME RebootFails(t), ProbeFrame PROVE LocalInv'
  BY <1>17 DEF RebootFails, LeaveGattLock, TakeUp, ToolAfter, FirstTool, SecondTool
<1>18. ASSUME Join(t), BetweenFrame PROVE LocalInv'
  BY <1>18 DEF Join, Continue
<1>19. ASSUME SpinEnds(t), BetweenFrame PROVE LocalInv'
  BY <1>19 DEF SpinEnds
<1> QED
  BY <1>1, <1>2, <1>3, <1>4, <1>5, <1>6, <1>7, <1>8, <1>9, <1>10, <1>11, <1>12, <1>13,
     <1>14, <1>15, <1>16, <1>17, <1>18, <1>19
  DEF RadioThread, Round, Between, Count, Probe

\* Steps of ApplicationThread and its process:
\* each thread's local variables are set where it needs them.
LEMMA AppLocals ==
  ASSUME IndInv, NEW k \in Tools, ToolExits(k) \/ AppThread(k)
  PROVE  LocalInv'
<1> USE LauncherAssumption DEF IndInv, TypeOK, Dict, Transports, Tools, LocalInv,
                               MainLocked, AtTool, AtDevice, sharedVars, mainVars,
                               radioVars, appVars, logVars, roundVars, AppFrame
<1>1. CASE ToolExits(k)
  BY <1>1 DEF ToolExits
<1>2. ASSUME WaitReturns(k), AppFrame PROVE LocalInv'
  BY <1>2 DEF WaitReturns, EndApp
<1>3. ASSUME WaitTimesOut(k), AppFrame PROVE LocalInv'
  BY <1>3 DEF WaitTimesOut, EndApp
<1>4. ASSUME Record(k), AppFrame PROVE LocalInv'
  BY <1>4 DEF Record, EndApp, All2thprintsDone, RunInv
<1>5. ASSUME Remove(k), AppFrame PROVE LocalInv'
  BY <1>5 DEF Remove, LockedDelete, EndApp
<1> QED
  BY <1>1, <1>2, <1>3, <1>4, <1>5
  DEF AppThread

\* Steps of process_line: an entry that was looked up under its lock stays until it is used.
LEMMA MainEntries ==
  ASSUME IndInv, ReadLine \/ ProcessLine
  PROVE  EntryInv'
<1> USE LauncherAssumption DEF IndInv, TypeOK, Dict, Transports, LocalInv, EntryInv,
                               LockInv, CheckedEntryStays, BleVendorMoveKeepsDevice,
                               VendorMoveKeeps, MainLocked, Line, LineDone, NextTable,
                               sharedVars, mainVars, radioVars, appVars, logVars,
                               roundVars, Step, ProcessFrame
<1>1. CASE ReadLine
  BY <1>1 DEF ReadLine, ReadNew, ReadChg, ReadDel, ReadTorn
<1>2. ASSUME NewCount, ProcessFrame PROVE EntryInv'
  BY <1>2 DEF NewCount, CountReset
<1>3. ASSUME NewInsert, ProcessFrame PROVE EntryInv'
  BY <1>3 DEF NewInsert
<1>4. ASSUME RssiLock, ProcessFrame PROVE EntryInv'
  BY <1>4 DEF RssiLock, EarnsAttempt
<1>5. ASSUME DecRead, ProcessFrame PROVE EntryInv'
  BY <1>5 DEF DecRead
<1>6. ASSUME DecWrite, ProcessFrame PROVE EntryInv'
  BY <1>6 DEF DecWrite
<1>7. ASSUME RssiUpdate, ProcessFrame PROVE EntryInv'
  BY <1>7 DEF RssiUpdate
<1>8. ASSUME VendorLock, ProcessFrame PROVE EntryInv'
  BY <1>8 DEF VendorLock
<1>9. ASSUME VendorDepri, ProcessFrame PROVE EntryInv'
  BY <1>9 DEF VendorDepri
<1>10. ASSUME VendorDel, ProcessFrame PROVE EntryInv'
  BY <1>10 DEF VendorDel
<1>11. ASSUME DelLine, ProcessFrame PROVE EntryInv'
  BY <1>11 DEF DelLine, LockedDelete
<1> QED
  BY <1>1, <1>2, <1>3, <1>4, <1>5, <1>6, <1>7, <1>8, <1>9, <1>10, <1>11
  DEF ProcessLine

\* Steps of the radio threads: an entry that was looked up under its lock stays until it is used.
LEMMA RadioEntries ==
  ASSUME IndInv, NEW t \in Transports, RadioThread(t)
  PROVE  EntryInv'
<1> USE LauncherAssumption DEF IndInv, TypeOK, Dict, Transports, LocalInv, EntryInv,
                               LockInv, CheckedEntryStays, BleVendorMoveKeepsDevice,
                               VendorMoveKeeps, MainLocked, Line, Tools, Radio, AtTool,
                               AtDevice, sharedVars, mainVars, radioVars, appVars,
                               logVars, roundVars, Goto, Move, RoundFrame, BetweenFrame,
                               CountFrame, ProbeFrame
<1>1. ASSUME TakeKeys(t), RoundFrame PROVE EntryInv'
  BY <1>1 DEF TakeKeys, EmptyDict
<1>2. ASSUME NEW d \in Devices, SortKey(t, d), RoundFrame PROVE EntryInv'
  BY <1>2 DEF SortKey
<1>3. ASSUME NEW d \in Devices, NextDevice(t, d), RoundFrame PROVE EntryInv'
  BY <1>3 DEF NextDevice
<1>4. ASSUME EndOfLoop(t), RoundFrame PROVE EntryInv'
  BY <1>4 DEF EndOfLoop
<1>5. ASSUME SkipDrop(t), BetweenFrame PROVE EntryInv'
  BY <1>5 DEF SkipDrop, LockedDelete
<1>6. ASSUME Relist(t), BetweenFrame PROVE EntryInv'
  BY <1>6 DEF Relist, Continue, Keys
<1>7. ASSUME Reprioritize(t), BetweenFrame PROVE EntryInv'
  <2>1. \A u \in Transports, d \in Devices :
           table[u][d] # Absent => table'[u][d] # Absent
    BY <1>7 DEF Reprioritize
  <2>2. LockInv'
    BY <1>7 DEF Reprioritize, Continue
  <2>3. CheckedEntryStays'
    <3>1. UNCHANGED <<mpc, line, tool>> /\ \A u \in Transports : rpc'[u] # "reprioritize" \/ u # t
      BY <1>7 DEF Reprioritize, Continue
    <3>2. \A u \in Transports \ {t} :
             rpc'[u] = rpc[u] /\ cur'[u] = cur[u] /\ depri'[u] = depri[u]
      BY <1>7 DEF Reprioritize, Continue
    <3>3. rpc'[t] = "next"
      BY <1>7 DEF Reprioritize, Continue
    <3> QED
      BY <2>1, <3>1, <3>2, <3>3
  <2>4. BleVendorMoveKeepsDevice'
    BY <1>7 DEF Reprioritize, ReprioritizeLock
  <2> QED
    BY <2>2, <2>3, <2>4
<1>8. ASSUME IncRead(t), CountFrame PROVE EntryInv'
  BY <1>8 DEF IncRead
<1>9. ASSUME IncWrite(t), CountFrame PROVE EntryInv'
  BY <1>9 DEF IncWrite, TakeUp, FirstEnabled, FirstTool, SecondTool
<1>10. ASSUME Collected(t), ProbeFrame PROVE EntryInv'
  BY <1>10 DEF Collected, AlreadyCollected, TakeUp, ToolAfter, FirstTool, SecondTool
<1>11. ASSUME FinishedDrop(t), ProbeFrame PROVE EntryInv'
  BY <1>11 DEF FinishedDrop, LockedDelete, TakeUp, ToolAfter, FirstTool, SecondTool
<1>12. ASSUME Member(t), ProbeFrame PROVE EntryInv'
  BY <1>12 DEF Member, TakeUp, ToolAfter, FirstTool, SecondTool
<1>13. ASSUME GattLock(t), ProbeFrame PROVE EntryInv'
  <2>1. LockInv'
    <3>1. UNCHANGED <<mpc, line>> /\ (mpc \in MainLocked => line.t # t)
      BY <1>13 DEF GattLock
    <3>2. \A u \in Transports \ {t} :
             rpc'[u] = rpc[u] /\ tool'[u] = tool[u] /\ tableOwner'[u] = tableOwner[u]
      BY <1>13 DEF GattLock, TakeUp
    <3>3. tableOwner'[t] = t \/ rpc'[t] \in {"join", "collected"}
      BY <1>13 DEF GattLock, TakeUp
    <3> QED
      BY <3>1, <3>2, <3>3
  <2>2. CheckedEntryStays'
    BY <1>13 DEF GattLock, TakeUp, ToolAfter
  <2>3. BleVendorMoveKeepsDevice'
    BY <1>13 DEF GattLock
  <2> QED
    BY <2>1, <2>2, <2>3
<1>14. ASSUME Launch(t), ProbeFrame PROVE EntryInv'
  BY <1>14 DEF Launch, LeaveGattLock, TakeUp, ToolAfter, FirstTool, SecondTool
<1>15. ASSUME LogFails(t), ProbeFrame PROVE EntryInv'
  BY <1>15 DEF LogFails, LeaveGattLock
<1>16. ASSUME ForkFails(t), ProbeFrame PROVE EntryInv'
  BY <1>16 DEF ForkFails
<1>17. ASSUME RebootFails(t), ProbeFrame PROVE EntryInv'
  BY <1>17 DEF RebootFails, LeaveGattLock, TakeUp, ToolAfter, FirstTool, SecondTool
<1>18. ASSUME Join(t), BetweenFrame PROVE EntryInv'
  BY <1>18 DEF Join, Continue
<1>19. ASSUME SpinEnds(t), BetweenFrame PROVE EntryInv'
  BY <1>19 DEF SpinEnds
<1> QED
  BY <1>1, <1>2, <1>3, <1>4, <1>5, <1>6, <1>7, <1>8, <1>9, <1>10, <1>11, <1>12, <1>13,
     <1>14, <1>15, <1>16, <1>17, <1>18, <1>19
  DEF RadioThread, Round, Between, Count, Probe

\* Steps of ApplicationThread and its process:
\* an entry that was looked up under its lock stays until it is used.
LEMMA AppEntries ==
  ASSUME IndInv, NEW k \in Tools, ToolExits(k) \/ AppThread(k)
  PROVE  EntryInv'
<1> USE LauncherAssumption DEF IndInv, TypeOK, Dict, Transports, LocalInv, EntryInv,
                               LockInv, CheckedEntryStays, BleVendorMoveKeepsDevice,
                               VendorMoveKeeps, MainLocked, sharedVars, mainVars,
                               radioVars, appVars, logVars, roundVars, AppFrame
<1>1. CASE ToolExits(k)
  BY <1>1 DEF ToolExits
<1>2. ASSUME WaitReturns(k), AppFrame PROVE EntryInv'
  BY <1>2 DEF WaitReturns, EndApp
<1>3. ASSUME WaitTimesOut(k), AppFrame PROVE EntryInv'
  BY <1>3 DEF WaitTimesOut, EndApp
<1>4. ASSUME Record(k), AppFrame PROVE EntryInv'
  BY <1>4 DEF Record, EndApp, All2thprintsDone, RunInv
<1>5. ASSUME Remove(k), AppFrame PROVE EntryInv'
  BY <1>5 DEF Remove, LockedDelete, EndApp
<1> QED
  BY <1>1, <1>2, <1>3, <1>4, <1>5
  DEF AppThread

\* Steps of process_line: an ApplicationThread works on the device its radio thread is at.
LEMMA MainRuns ==
  ASSUME IndInv, ReadLine \/ ProcessLine
  PROVE  RunInv'
<1> USE LauncherAssumption DEF IndInv, TypeOK, Transports, Tools, RunInv, LineDone,
                               NextTable, sharedVars, mainVars, radioVars, appVars,
                               logVars, roundVars, Step, ProcessFrame
<1>1. CASE ReadLine
  BY <1>1 DEF ReadLine, ReadNew, ReadChg, ReadDel, ReadTorn
<1>2. ASSUME NewCount, ProcessFrame PROVE RunInv'
  BY <1>2 DEF NewCount, CountReset
<1>3. ASSUME NewInsert, ProcessFrame PROVE RunInv'
  BY <1>3 DEF NewInsert
<1>4. ASSUME RssiLock, ProcessFrame PROVE RunInv'
  BY <1>4 DEF RssiLock, EarnsAttempt
<1>5. ASSUME DecRead, ProcessFrame PROVE RunInv'
  BY <1>5 DEF DecRead
<1>6. ASSUME DecWrite, ProcessFrame PROVE RunInv'
  BY <1>6 DEF DecWrite
<1>7. ASSUME RssiUpdate, ProcessFrame PROVE RunInv'
  BY <1>7 DEF RssiUpdate
<1>8. ASSUME VendorLock, ProcessFrame PROVE RunInv'
  BY <1>8 DEF VendorLock
<1>9. ASSUME VendorDepri, ProcessFrame PROVE RunInv'
  BY <1>9 DEF VendorDepri
<1>10. ASSUME VendorDel, ProcessFrame PROVE RunInv'
  BY <1>10 DEF VendorDel
<1>11. ASSUME DelLine, ProcessFrame PROVE RunInv'
  BY <1>11 DEF DelLine, LockedDelete
<1> QED
  BY <1>1, <1>2, <1>3, <1>4, <1>5, <1>6, <1>7, <1>8, <1>9, <1>10, <1>11
  DEF ProcessLine

\* Steps of the radio threads: an ApplicationThread works on the device its radio thread is at.
LEMMA RadioRuns ==
  ASSUME IndInv, NEW t \in Transports, RadioThread(t)
  PROVE  RunInv'
<1> USE LauncherAssumption DEF IndInv, TypeOK, Transports, Tools, RunInv, Radio,
                               FirstTool, SecondTool, LocalInv, AtTool, AtDevice,
                               sharedVars, mainVars, radioVars, appVars, logVars,
                               roundVars, Goto, Move, RoundFrame, BetweenFrame,
                               CountFrame, ProbeFrame
<1>1. ASSUME TakeKeys(t), RoundFrame PROVE RunInv'
  BY <1>1 DEF TakeKeys, EmptyDict
<1>2. ASSUME NEW d \in Devices, SortKey(t, d), RoundFrame PROVE RunInv'
  BY <1>2 DEF SortKey
<1>3. ASSUME NEW d \in Devices, NextDevice(t, d), RoundFrame PROVE RunInv'
  BY <1>3 DEF NextDevice
<1>4. ASSUME EndOfLoop(t), RoundFrame PROVE RunInv'
  BY <1>4 DEF EndOfLoop
<1>5. ASSUME SkipDrop(t), BetweenFrame PROVE RunInv'
  BY <1>5 DEF SkipDrop, LockedDelete
<1>6. ASSUME Relist(t), BetweenFrame PROVE RunInv'
  BY <1>6 DEF Relist, Continue
<1>7. ASSUME Reprioritize(t), BetweenFrame PROVE RunInv'
  BY <1>7 DEF Reprioritize, ReprioritizeLock, Continue
<1>8. ASSUME IncRead(t), CountFrame PROVE RunInv'
  BY <1>8 DEF IncRead
<1>9. ASSUME IncWrite(t), CountFrame PROVE RunInv'
  BY <1>9 DEF IncWrite, TakeUp, FirstEnabled, FirstTool, SecondTool
<1>10. ASSUME Collected(t), ProbeFrame PROVE RunInv'
  BY <1>10 DEF Collected, AlreadyCollected, TakeUp, ToolAfter, FirstTool, SecondTool
<1>11. ASSUME FinishedDrop(t), ProbeFrame PROVE RunInv'
  BY <1>11 DEF FinishedDrop, LockedDelete, TakeUp, ToolAfter, FirstTool, SecondTool
<1>12. ASSUME Member(t), ProbeFrame PROVE RunInv'
  BY <1>12 DEF Member, TakeUp, ToolAfter, FirstTool, SecondTool
<1>13. ASSUME GattLock(t), ProbeFrame PROVE RunInv'
  BY <1>13 DEF GattLock, TakeUp, ToolAfter, FirstTool, SecondTool
<1>14. ASSUME Launch(t), ProbeFrame PROVE RunInv'
  BY <1>14 DEF Launch, LeaveGattLock, TakeUp, ToolAfter, FirstTool, SecondTool
<1>15. ASSUME LogFails(t), ProbeFrame PROVE RunInv'
  BY <1>15 DEF LogFails, LeaveGattLock
<1>16. ASSUME ForkFails(t), ProbeFrame PROVE RunInv'
  BY <1>16 DEF ForkFails
<1>17. ASSUME RebootFails(t), ProbeFrame PROVE RunInv'
  BY <1>17 DEF RebootFails, LeaveGattLock, TakeUp, ToolAfter, FirstTool, SecondTool
<1>18. ASSUME Join(t), BetweenFrame PROVE RunInv'
  BY <1>18 DEF Join, Continue
<1>19. ASSUME SpinEnds(t), BetweenFrame PROVE RunInv'
  BY <1>19 DEF SpinEnds
<1> QED
  BY <1>1, <1>2, <1>3, <1>4, <1>5, <1>6, <1>7, <1>8, <1>9, <1>10, <1>11, <1>12, <1>13,
     <1>14, <1>15, <1>16, <1>17, <1>18, <1>19
  DEF RadioThread, Round, Between, Count, Probe

\* Steps of ApplicationThread and its process:
\* an ApplicationThread works on the device its radio thread is at.
LEMMA AppRuns ==
  ASSUME IndInv, NEW k \in Tools, ToolExits(k) \/ AppThread(k)
  PROVE  RunInv'
<1> USE LauncherAssumption DEF IndInv, TypeOK, Transports, Tools, RunInv, Radio,
                               FirstTool, SecondTool, AppPCs, AtTool, sharedVars,
                               mainVars, radioVars, appVars, logVars, roundVars,
                               AppFrame
<1>1. CASE ToolExits(k)
  BY <1>1 DEF ToolExits
<1>2. ASSUME WaitReturns(k), AppFrame PROVE RunInv'
  BY <1>2 DEF WaitReturns, EndApp
<1>3. ASSUME WaitTimesOut(k), AppFrame PROVE RunInv'
  BY <1>3 DEF WaitTimesOut, EndApp
<1>4. ASSUME Record(k), AppFrame PROVE RunInv'
  <2>1. \A j \in Tools : Radio(j) \in Transports /\ (j = k \/ UNCHANGED <<apc[j], adev[j]>>)
    BY <1>4 DEF Record, EndApp
  <2>2. UNCHANGED <<rpc, cur, tool>>
    BY <1>4 DEF Record
  <2>3. \/ apc'[k] = "none" /\ adev'[k] = Nobody
        \/ apc'[k] = "remove" /\ adev'[k] = adev[k]
    BY <1>4 DEF Record, EndApp, All2thprintsDone
  <2>4. apc[k] = "record" /\ \A j \in Tools \ {k} : success'[j] = success[j]
    BY <1>4 DEF Record
  <2>5. \A t \in Transports :
           rpc[t] \in {"member", "lock", "popen", "reboot"} => tool[t] \in Tools \ {k}
    BY <2>4 DEF LocalInv
  <2> QED
    BY <2>1, <2>2, <2>3, <2>4, <2>5
<1>5. ASSUME Remove(k), AppFrame PROVE RunInv'
  BY <1>5 DEF Remove, LockedDelete, EndApp
<1> QED
  BY <1>1, <1>2, <1>3, <1>4, <1>5
  DEF AppThread

-----------------------------------------------------------------------------
(* The invariant.                                                           *)

\* Every step of every thread preserves the invariant.
LEMMA StepIndInv == IndInv /\ [Next]_vars => IndInv'
<1> SUFFICES ASSUME IndInv, [Next]_vars PROVE IndInv'
  OBVIOUS
<1>1. CASE ReadLine \/ ProcessLine
  BY <1>1, MainTypes, MainKnows, MainLocals, MainEntries, MainRuns DEF IndInv
<1>2. ASSUME NEW t \in Transports, RadioThread(t) PROVE IndInv'
  BY <1>2, RadioTypes, RadioKnows, RadioLocals, RadioEntries, RadioRuns DEF IndInv
<1>3. ASSUME NEW k \in Tools, ToolExits(k) \/ AppThread(k) PROVE IndInv'
  BY <1>3, AppTypes, AppKnows, AppLocals, AppEntries, AppRuns DEF IndInv
<1>4. CASE UNCHANGED vars
  BY <1>4 DEF vars, sharedVars, mainVars, radioVars, roundVars, appVars, logVars,
              IndInv, TypeOK, KnownDevices, Keys, LocalInv, EntryInv, LockInv,
              CheckedEntryStays, BleVendorMoveKeepsDevice, VendorMoveKeeps, RunInv
<1> QED
  BY <1>1, <1>2, <1>3, <1>4 DEF Next, Quiescent

\* The inductive invariant: types, known devices, local variables, locked entries, runs.
THEOREM Inductive == Spec => []IndInv
<1> QED
  BY InitIndInv, StepIndInv, PTL DEF Spec

\* Every variable keeps its type; in particular the attempt counter of a known device is
\* never negative, whatever its unprotected increments and decrements do to each other.
THEOREM TypeCorrect == Spec => []TypeOK
<1>1. IndInv => TypeOK
  BY DEF IndInv
<1> QED
  BY <1>1, Inductive, PTL

\* No thread comes across a device that main has not counted first (process_line, 263).
THEOREM DevicesKnown == Spec => []KnownDevices
<1>1. IndInv => KnownDevices
  BY DEF IndInv
<1> QED
  BY <1>1, Inductive, PTL

\* The table locks and locked_delete_from_dict keep an entry between its look-up and its
\* use, in process_line as in the launch of gatttool.
THEOREM EntriesStay == Spec => []CheckedEntryStays
<1>1. IndInv => CheckedEntryStays
  BY DEF IndInv, EntryInv
<1> QED
  BY <1>1, Inductive, PTL

\* Deprioritizing a BLE device never loses it: reprioritize_ble_bdaddr takes the lock that
\* process_line holds during the move.
THEOREM BleMoveKeeps == Spec => []BleVendorMoveKeepsDevice
<1>1. IndInv => BleVendorMoveKeepsDevice
  BY DEF IndInv, EntryInv
<1> QED
  BY <1>1, Inductive, PTL

-----------------------------------------------------------------------------
(* The refinement.                                                          *)

\* At the start no tool runs and nothing is collected (the empty dictionaries, 88-95).
LEMMA InitSchedule == Init => Schedule!ScheduleInit
BY DEF Init, Schedule!ScheduleInit

\* Only the launch of a tool and its ApplicationThread change what the schedule shows.
LEMMA MainSchedule ==
  ASSUME ReadLine \/ ProcessLine
  PROVE  UNCHANGED Schedule!scheduleVars
BY DEF Schedule!scheduleVars, ReadLine, ProcessLine, NewCount, NewInsert, RssiLock, DecRead,
       DecWrite, RssiUpdate, VendorLock, VendorDepri, VendorDel, DelLine,
       sharedVars, appVars

\* A radio thread starts a tool only as the schedule allows: after the joins of the previous
\* device (491, 617) and only if the look-up (417, 582) found no success.
LEMMA RadioSchedule ==
  ASSUME IndInv, NEW t \in Transports, RadioThread(t)
  PROVE  [Schedule!ScheduleNext]_(Schedule!scheduleVars)
<1>1. ASSUME Launch(t), ProbeFrame
      PROVE  [Schedule!ScheduleNext]_(Schedule!scheduleVars)
  <2> DEFINE k == tool[t]
  <2> USE DEF IndInv, TypeOK, LocalInv, RunInv, Transports, Tools, AtTool, AtDevice,
              FirstTool, SecondTool, Radio
  <2>1. k \in Tools /\ Radio(k) = t /\ cur[t] \in Devices
    BY <1>1 DEF Launch
  <2>2. rpc[t] = "popen" /\ cur[t] \notin success[k]
    BY <1>1 DEF Launch
  <2>3. \A j \in Tools : Radio(j) = t => adev[j] \in {Nobody, cur[t]}
    BY <2>2
  <2>4. adev[k] = Nobody
    BY <2>1, <2>2
  <2>5. adev' = [adev EXCEPT ![k] = cur[t]] /\ UNCHANGED success
    BY <1>1 DEF Launch, ProbeFrame
  <2>6. Schedule!Start(k, cur[t])
    BY <2>1, <2>2, <2>3, <2>4, <2>5 DEF Schedule!Start
  <2> QED
    BY <2>1, <2>6 DEF Schedule!ScheduleNext
<1>2. CASE Round(t) \/ Between(t) \/ Count(t)
  <2>1. UNCHANGED <<adev, success>>
    BY <1>2 DEF Round, Between, Count, sharedVars, appVars
  <2> QED
    BY <2>1 DEF Schedule!scheduleVars
<1>3. ASSUME Probe(t), ~Launch(t)
      PROVE  [Schedule!ScheduleNext]_(Schedule!scheduleVars)
  <2>1. UNCHANGED <<adev, success>>
    BY <1>3 DEF Probe, Collected, FinishedDrop, Member, GattLock, LogFails, ForkFails,
                RebootFails, appVars
  <2> QED
    BY <2>1 DEF Schedule!scheduleVars
<1> QED
  BY <1>1, <1>2, <1>3 DEF RadioThread, Probe, ProbeFrame

\* An ApplicationThread collects a success or ends a run (146-206), as the schedule does.
LEMMA AppSchedule ==
  ASSUME IndInv, NEW k \in Tools, ToolExits(k) \/ AppThread(k)
  PROVE  [Schedule!ScheduleNext]_(Schedule!scheduleVars)
<1> USE DEF IndInv, TypeOK, RunInv, Schedule!scheduleVars
<1>1. CASE ToolExits(k)
  BY <1>1 DEF ToolExits, sharedVars
<1>2. CASE WaitReturns(k)
  <2>1. adev[k] # Nobody /\ UNCHANGED success
    BY <1>2 DEF WaitReturns, sharedVars
  <2>2. UNCHANGED adev \/ adev' = [adev EXCEPT ![k] = Nobody]
    BY <1>2 DEF WaitReturns, EndApp
  <2> QED
    BY <2>1, <2>2 DEF Schedule!ScheduleNext, Schedule!Finish
<1>3. CASE WaitTimesOut(k)
  BY <1>3 DEF WaitTimesOut, EndApp, sharedVars, Schedule!ScheduleNext, Schedule!Finish
<1>4. CASE Record(k)
  <2>1. adev[k] # Nobody /\ success' = [success EXCEPT ![k] = @ \cup {adev[k]}]
    BY <1>4 DEF Record
  <2>2. UNCHANGED adev \/ adev' = [adev EXCEPT ![k] = Nobody]
    BY <1>4 DEF Record, EndApp
  <2> QED
    BY <2>1, <2>2 DEF Schedule!ScheduleNext, Schedule!Collect, Schedule!Finish
<1>5. CASE Remove(k)
  BY <1>5 DEF Remove, EndApp, Schedule!ScheduleNext, Schedule!Finish
<1> QED
  BY <1>1, <1>2, <1>3, <1>4, <1>5 DEF AppThread

\* The launcher implements the schedule: one device at a time per radio, one run at a time
\* per tool, and no run of a tool on a device it has succeeded on. It rests on the joins
\* (491, 617) and on the look-up of past successes (417, 457, 548, 582).
THEOREM ScheduleImplemented == Spec => ImplementsSchedule
<1>1. IndInv /\ [Next]_vars => [Schedule!ScheduleNext]_(Schedule!scheduleVars)
  <2> SUFFICES ASSUME IndInv, [Next]_vars
               PROVE  [Schedule!ScheduleNext]_(Schedule!scheduleVars)
    OBVIOUS
  <2>1. CASE UNCHANGED vars
    BY <2>1 DEF vars, sharedVars, appVars, Schedule!scheduleVars
  <2> QED
    BY <2>1, MainSchedule, RadioSchedule, AppSchedule DEF Next, Quiescent
<1> QED
  BY <1>1, InitSchedule, Inductive, PTL
     DEF Spec, ImplementsSchedule, Schedule!ScheduleSpec
=============================================================================
