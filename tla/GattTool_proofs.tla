---------------------------- MODULE GattTool_proofs ----------------------------
(***************************************************************************)
(* Proofs about gatttool, for any devices, highest handle and faults.      *)
(***************************************************************************)
EXTENDS GattTool, WellFoundedInduction, TLAPS

\* The requests that may be under way: a READ or READ_BLOB asks for the handle
\* that its slot holds, and there is none before the slots are filled.
Sound ==
    {r \in Request : r.op = "R" => slots = dev.reads /\ r.at = dev.reads[r.slot]}

SoundQueue == queue \in Seq(Sound) /\ pending \in Sound \cup {NoReq}

\* The inductive invariant: a value gets the right label because the request
\* it answers was sound, so soundness of everything under way is the
\* strengthening that LoggedUnderOwnHandle needs.
IndInv == TypeOK /\ SoundQueue /\ LoggedUnderOwnHandle

\* The part of the invariant that the callbacks of the program work on.
ProgramOK ==
    /\ dev \in Devices
    /\ disc \in [Discoveries -> {"idle", "active", "ok", "failed"}]
    /\ maxHandle \in 0..Top
    /\ slots \in {<<>>, dev.reads}
    /\ answered \in Seq(1..Len(dev.reads))
    /\ log \in Seq([label : dev.attrs, of : dev.attrs])
    /\ gotError \in BOOLEAN /\ quit \in BOOLEAN
    /\ exit \in {"running", "success", "failure"}
    /\ LoggedUnderOwnHandle

\* The part that the bearer works on.
BearerOK ==
    /\ link \in {"connecting", "up", "closing", "down"}
    /\ sec \in 1..4
    /\ writer \in BOOLEAN
    /\ SoundQueue

-----------------------------------------------------------------------------
(* Facts about the operators. *)

\* What the invariant is made of: every request in the queue is a request.
LEMMA Parts == IndInv <=> ProgramOK /\ BearerOK
<1>1. SoundQueue => queue \in Seq(Request) /\ pending \in Request \cup {NoReq}
  BY DEF SoundQueue, Sound
<1>2. QED
  BY <1>1 DEF IndInv, ProgramOK, BearerOK, TypeOK

\* Max of a set of handles is one of them: g_max_handle is a handle the device
\* has reported (gatttool.c:133).
LEMMA MaxIsMember ==
    ASSUME NEW S, S \subseteq 1..Top, S # {}
    PROVE  Max(S) \in S
<1> DEFINE T == {Top - h : h \in S}
<1>1. T \subseteq Nat /\ T # {}
  <2>1. \A h \in S : Top - h \in Nat
    BY DeviceAssumption
  <2>2. QED
    BY <2>1
<1> DEFINE R == OpToRel(<, Nat)
<1>2. PICK x \in T : \A y \in T : ~(<<y, x>> \in R)
  <2>1. IsWellFoundedOn(R, Nat)
    BY NatLessThanWellFounded
  <2> HIDE DEF T, R
  <2>2. QED
    BY <1>1, <2>1, WFMin
<1>3. PICK h \in S : x = Top - h
  OBVIOUS
<1>4. \A k \in S : h >= k
  <2> TAKE k \in S
  <2>1. Top - k \in T /\ Top - k \in Nat /\ x \in Nat
    BY <1>1
  <2>2. ~(Top - k < x)
    BY <1>2, <2>1 DEF OpToRel, R
  <2>3. QED
    BY <2>2, <1>3, DeviceAssumption
<1>5. QED
  BY <1>3, <1>4 DEF Max

\* The increment of a handle in uint16_t is a handle again.
LEMMA Succ16IsHandle == \A h \in 0..Top : Succ16(h) \in 0..Top
  BY DeviceAssumption DEF Succ16

\* What a discovery has collected are handles.
LEMMA CollectedHandles ==
    ASSUME dev \in Devices, NEW x \in Discoveries, NEW at
    PROVE  Collected(x, at) \subseteq 1..Top /\ Remaining(x, at) \subseteq 1..Top
  BY DeviceAssumption DEF Device, Discoveries, Collected, Remaining, Elements

\* Slots are only ever filled with the handles of dev.reads, so a sound request
\* stays sound (gatttool.c:171-173).
SlotsKept == dev' = dev /\ (slots' = slots \/ slots' = dev.reads)

LEMMA SoundStays ==
    ASSUME SlotsKept
    PROVE  Sound \subseteq Sound'
  BY DEF SlotsKept, Sound, Request

\* The bearer's invariant after a step in which the queue and the pending
\* request are made of requests that were sound.
LEMMA SoundQueueStays ==
    ASSUME SlotsKept, queue' \in Seq(Sound), pending' \in Sound \cup {NoReq}
    PROVE  SoundQueue'
  BY SoundStays DEF SoundQueue, NoReq

\* A discovery request is sound whatever the slots are (gatt.c:344, 657, 1099).
LEMMA DiscoverSound ==
    ASSUME NEW x \in Discoveries, NEW at \in 0..Top
    PROVE  Discover(x, at) \in Sound
<1>1. Discover(x, at) \in Request
  BY DEF Discover, Request
<1>2. Discover(x, at).op # "R"
  BY DEF Discover, Discoveries
<1>3. QED
  BY <1>1, <1>2 DEF Sound

\* What is known of a sound READ or READ_BLOB request.
LEMMA SoundRead ==
    ASSUME NEW r \in Sound, r.op = "R"
    PROVE  /\ r \in [op : {"R"}, at : dev.attrs, slot : 1..Len(dev.reads),
                     part : Nat]
           /\ slots = dev.reads
           /\ r.at = slots[r.slot]
  BY DEF Sound, Request, Discoveries

-----------------------------------------------------------------------------
(* The callbacks of the program. *)

\* Ending the primary discovery keeps the program's invariant.
LEMMA PrimaryDoneKeeps ==
    ASSUME ProgramOK, dev' = dev, NEW list, list \subseteq 1..Top,
           NEW status \in {"ok", "failed"}, PrimaryDone(list, status)
    PROVE  ProgramOK' /\ SlotsKept
<1>1. ASSUME list # {} PROVE Max(list) \in 0..Top
  <2>1. Max(list) \in list
    BY <1>1, MaxIsMember
  <2>2. 1..Top \subseteq 0..Top
    BY DeviceAssumption
  <2>3. QED
    BY <2>1, <2>2, Zenon
<1>2. maxHandle' \in 0..Top
  BY <1>1 DEF PrimaryDone, ProgramOK
<1>3. QED
  BY <1>2 DEF PrimaryDone, ProgramOK, LoggedUnderOwnHandle, SlotsKept

\* So does ending the descriptor discovery, with or without a crash.
LEMMA DescDoneKeeps ==
    ASSUME ProgramOK, dev' = dev, NEW list,
           NEW status \in {"ok", "failed"}, DescDone(list, status)
    PROVE  ProgramOK' /\ SlotsKept
<1>1. quit' \in BOOLEAN
  BY DEF DescDone, LastIsMax
<1>2. exit' \in {"running", "success", "failure"}
  BY DEF DescDone, ProgramOK
<1>3. QED
  BY <1>1, <1>2 DEF DescDone, ProgramOK, LoggedUnderOwnHandle, SlotsKept

\* So does a failed discovery of characteristics.
LEMMA CharFailedKeeps ==
    ASSUME ProgramOK, dev' = dev, CharFailed
    PROVE  ProgramOK' /\ SlotsKept
  BY DEF CharFailed, ProgramOK, LoggedUnderOwnHandle, SlotsKept

\* A value read by a sound request is logged under its own handle.
LEMMA ValueReadKeeps ==
    ASSUME ProgramOK, dev' = dev, NEW r \in Sound, r.op = "R", ValueRead(r)
    PROVE  ProgramOK' /\ SlotsKept
<1> DEFINE entry == [label |-> slots[r.slot], of |-> r.at]
<1>1. /\ r.slot \in 1..Len(dev.reads)
      /\ r.at \in dev.attrs
      /\ slots[r.slot] = r.at
  BY SoundRead
<1>2. entry \in [label : dev.attrs, of : dev.attrs]
  BY <1>1
<1>3. entry.label = entry.of
  BY <1>1
<1> HIDE DEF entry
<1>4. /\ log' = Append(log, entry)
      /\ answered' = Append(answered, r.slot)
      /\ UNCHANGED <<disc, maxHandle, slots, gotError, quit, exit>>
  BY DEF ValueRead, entry
<1>5. log' \in Seq([label : dev'.attrs, of : dev'.attrs])
  BY <1>2, <1>4 DEF ProgramOK
<1>6. answered' \in Seq(1..Len(dev'.reads))
  BY <1>1, <1>4 DEF ProgramOK
<1>7. LoggedUnderOwnHandle'
  <2> DEFINE E == [label : dev.attrs, of : dev.attrs]
  <2> HIDE DEF E
  <2>1. log \in Seq(E) /\ entry \in E
    BY <1>2 DEF ProgramOK, E
  <2>2. \A i \in DOMAIN log : log[i].label = log[i].of
    BY DEF ProgramOK, LoggedUnderOwnHandle
  <2>3. \A i \in DOMAIN log' : log'[i] = entry \/ (i \in DOMAIN log /\ log'[i] = log[i])
    BY <2>1, <1>4
  <2>4. QED
    BY <2>2, <2>3, <1>3 DEF LoggedUnderOwnHandle
<1>8. QED
  BY <1>4, <1>5, <1>6, <1>7 DEF ProgramOK, SlotsKept

\* A read that fails leaves the log as it is.
LEMMA ReadFailedKeeps ==
    ASSUME ProgramOK, dev' = dev, NEW r \in Sound, r.op = "R", ReadFailed(r)
    PROVE  ProgramOK' /\ SlotsKept
<1>1. answered' \in Seq(1..Len(dev'.reads))
  BY SoundRead DEF ProgramOK, ReadFailed
<1>2. QED
  BY <1>1 DEF ReadFailed, ProgramOK, LoggedUnderOwnHandle, SlotsKept

\* Any request can fail at any time without harm to the invariant.
LEMMA FailKeeps ==
    ASSUME ProgramOK, dev' = dev, NEW r \in Sound, Fail(r)
    PROVE  ProgramOK' /\ SlotsKept
<1>1. CASE r.op = "P" /\ PrimaryDone(Collected("P", r.at), "failed")
  <2>1. Collected("P", r.at) \subseteq 1..Top
    BY CollectedHandles DEF ProgramOK, Discoveries
  <2>2. QED
    BY <1>1, <2>1, PrimaryDoneKeeps
<1>2. CASE r.op = "C" /\ CharFailed
  BY <1>2, CharFailedKeeps
<1>3. CASE r.op = "D" /\ DescDone(Collected("D", r.at), "failed")
  BY <1>3, DescDoneKeeps
<1>4. CASE r.op = "R" /\ r.part = 0 /\ ReadFailed(r)
  BY <1>4, ReadFailedKeeps
<1>5. CASE r.op = "R" /\ r.part > 0 /\ ValueRead(r)
  BY <1>5, ValueReadKeeps
<1>6. QED
  BY <1>1, <1>2, <1>3, <1>4, <1>5 DEF Fail

-----------------------------------------------------------------------------
(* The bearer. *)

\* A step that changes neither what the program holds nor the device.
LEMMA ProgramStays ==
    ASSUME ProgramOK, UNCHANGED <<dev, program, exit>>
    PROVE  ProgramOK' /\ SlotsKept
  BY DEF ProgramOK, program, LoggedUnderOwnHandle, SlotsKept

\* A response is handled: the request is gone, the queue is what it is made of.
LEMMA ResponseHandledKeeps ==
    ASSUME BearerOK, SlotsKept, NEW q \in Seq(Sound), ResponseHandled(q)
    PROVE  BearerOK'
<1>1. SoundQueue'
  BY SoundQueueStays DEF ResponseHandled
<1>2. QED
  BY <1>1 DEF BearerOK, ResponseHandled, WakeWriter

\* The next round of a discovery is queued (att.c:1663).
LEMMA NextRoundKeeps ==
    ASSUME ProgramOK, BearerOK, NEW x \in Discoveries, NEW last \in 0..Top,
           ResponseHandled(NextRound(x, Succ16(last))),
           UNCHANGED <<program, exit>>
    PROVE  ProgramOK' /\ BearerOK'
<1>1. Discover(x, Succ16(last)) \in Sound
  BY Succ16IsHandle, DiscoverSound
<1>2. NextRound(x, Succ16(last)) \in Seq(Sound)
  BY <1>1 DEF NextRound, BearerOK, SoundQueue
<1>3. ProgramOK' /\ SlotsKept
  BY ProgramStays DEF ResponseHandled
<1>4. QED
  BY <1>2, <1>3, ResponseHandledKeeps

\* A response that ends what it belongs to: the queue stays.
LEMMA AnswerKeeps ==
    ASSUME BearerOK, SlotsKept, ResponseHandled(queue)
    PROVE  BearerOK'
  BY ResponseHandledKeeps DEF BearerOK, SoundQueue

\* The request that is answered is sound, and of the kind the handler expects.
LEMMA AnsweredIsSound ==
    ASSUME BearerOK, Answerable
    PROVE  pending \in Sound
  BY DEF BearerOK, SoundQueue, Answerable

\* The services a device reports end at handles.
LEMMA EndsAreHandles ==
    ASSUME ProgramOK
    PROVE  dev.ends \subseteq 1..Top
  BY DeviceAssumption DEF ProgramOK, Device

-----------------------------------------------------------------------------
(* Responses, one lemma per discovery and one for the reads. *)

\* Services: another round, or the end of the discovery.
LEMMA ServicesKeep ==
    ASSUME ProgramOK, BearerOK,
           (\E last \in 1..Top : ServicesFound(last)) \/ NoMoreServices
    PROVE  ProgramOK' /\ BearerOK'
<1>1. ASSUME NEW last \in 1..Top, ServicesFound(last)
      PROVE  ProgramOK' /\ BearerOK'
  <2>1. CASE /\ ResponseHandled(NextRound("P", Succ16(last)))
             /\ UNCHANGED <<program, exit>>
    BY <2>1, NextRoundKeeps, DeviceAssumption DEF Discoveries
  <2>2. CASE ResponseHandled(queue) /\ PrimaryDone(dev.ends, "ok")
    <3>1. ProgramOK' /\ SlotsKept
      BY <2>2, EndsAreHandles, PrimaryDoneKeeps DEF ResponseHandled
    <3>2. QED
      BY <2>2, <3>1, AnswerKeeps
  <2>3. QED
    BY <1>1, <2>1, <2>2 DEF ServicesFound
<1>2. ASSUME NoMoreServices
      PROVE  ProgramOK' /\ BearerOK'
  <2>1. ResponseHandled(queue) /\ PrimaryDone(dev.ends, "ok")
    BY <1>2 DEF NoMoreServices
  <2>2. ProgramOK' /\ SlotsKept
    BY <2>1, EndsAreHandles, PrimaryDoneKeeps DEF ResponseHandled
  <2>3. QED
    BY <2>1, <2>2, AnswerKeeps
<1>3. QED
  BY <1>1, <1>2

\* The reads that the last characteristics response queues are sound, because
\* the slots are filled in the same callback (gatttool.c:171-172).
LEMMA CharsDoneKeeps ==
    ASSUME ProgramOK, BearerOK, CharsDone
    PROVE  ProgramOK' /\ BearerOK'
<1>1. dev' = dev /\ slots' = dev.reads
  BY DEF CharsDone, ResponseHandled
<1>2. ProgramOK'
  BY <1>1 DEF CharsDone, ProgramOK, LoggedUnderOwnHandle
<1>3. \A i \in 1..Len(dev.reads) : Read(SlotOf(i), dev.reads[i]) \in Sound'
  <2> TAKE i \in 1..Len(dev.reads)
  <2>1. dev.reads[i] \in dev.attrs
    BY DeviceAssumption DEF ProgramOK, Device
  <2>2. Read(SlotOf(i), dev.reads[i])
            \in [op : {"R"}, at : dev.attrs, slot : 1..Len(dev.reads), part : Nat]
    BY <2>1 DEF Read, SlotOf
  <2>3. QED
    BY <2>2, <1>1 DEF Sound, Request, Read, SlotOf
<1>4. Len(dev.reads) \in Nat
  BY DeviceAssumption DEF ProgramOK, Device
<1>5. ReadRequests \in Seq(Sound')
  BY <1>3, <1>4 DEF ReadRequests
<1>6. queue \in Seq(Sound')
  <2>1. Sound \subseteq Sound'
    BY <1>1, SoundStays DEF SlotsKept
  <2>2. QED
    BY <2>1 DEF BearerOK, SoundQueue
<1>7. queue \o ReadRequests \in Seq(Sound')
  BY <1>5, <1>6
<1>8. QED
  BY <1>2, <1>7 DEF CharsDone, ResponseHandled, BearerOK, SoundQueue, WakeWriter

\* Characteristics: another round, the reads, or nothing at all.
LEMMA CharsKeep ==
    ASSUME ProgramOK, BearerOK,
           (\E last \in 1..Top : CharsFound(last)) \/ NoMoreChars
    PROVE  ProgramOK' /\ BearerOK'
<1>1. ASSUME NEW last \in 1..Top, CharsFound(last)
      PROVE  ProgramOK' /\ BearerOK'
  <2>1. CASE /\ ResponseHandled(NextRound("C", Succ16(last)))
             /\ UNCHANGED <<program, exit>>
    BY <2>1, NextRoundKeeps, DeviceAssumption DEF Discoveries
  <2>2. CASE CharsDone
    BY <2>2, CharsDoneKeeps
  <2>3. QED
    BY <1>1, <2>1, <2>2 DEF CharsFound
<1>2. ASSUME ResponseHandled(queue), CharFailed
      PROVE  ProgramOK' /\ BearerOK'
  BY <1>2, CharFailedKeeps, AnswerKeeps DEF ResponseHandled
<1>3. QED
  BY <1>1, <1>2, CharsDoneKeeps DEF NoMoreChars

\* Descriptors: another round or the end of the discovery.
LEMMA DescsKeep ==
    ASSUME ProgramOK, BearerOK,
           (\E last \in 1..Top : DescsFound(last)) \/ NoMoreDescs
    PROVE  ProgramOK' /\ BearerOK'
<1>1. ASSUME NEW status \in {"ok", "failed"},
             ResponseHandled(queue), DescDone(dev.attrs, status)
      PROVE  ProgramOK' /\ BearerOK'
  BY <1>1, DescDoneKeeps, AnswerKeeps DEF ResponseHandled
<1>2. ASSUME NEW last \in 1..Top, DescsFound(last)
      PROVE  ProgramOK' /\ BearerOK'
  <2>1. CASE /\ ResponseHandled(NextRound("D", Succ16(last)))
             /\ UNCHANGED <<program, exit>>
    BY <2>1, NextRoundKeeps, DeviceAssumption DEF Discoveries
  <2>2. CASE ResponseHandled(queue) /\ DescDone(dev.attrs, "ok")
    BY <2>2, <1>1
  <2>3. QED
    BY <1>2, <2>1, <2>2 DEF DescsFound
<1>3. QED
  BY <1>1, <1>2 DEF NoMoreDescs

\* Parts of a value: the READ_BLOB asks for the handle of the READ, with the
\* same slot (gatt.c:812-815).
LEMMA PartsKeep ==
    ASSUME ProgramOK, BearerOK, PartRead \/ LastPartRead
    PROVE  ProgramOK' /\ BearerOK'
<1>1. pending \in Sound /\ pending.op = "R"
  BY AnsweredIsSound DEF PartRead, LastPartRead
<1>2. ASSUME PartRead
      PROVE  ProgramOK' /\ BearerOK'
  <2> DEFINE next == [pending EXCEPT !.part = @ + 1]
  <2>1. next \in Sound
    BY <1>1, SoundRead DEF Sound, Request
  <2> HIDE DEF next
  <2>2. <<next>> \o queue \in Seq(Sound)
    BY <2>1 DEF BearerOK, SoundQueue
  <2>3. ResponseHandled(<<next>> \o queue) /\ UNCHANGED <<program, exit>>
    BY <1>2 DEF PartRead, next
  <2>4. ProgramOK' /\ SlotsKept
    BY <2>3, ProgramStays DEF ResponseHandled
  <2>5. QED
    BY <2>2, <2>3, <2>4, ResponseHandledKeeps
<1>3. ASSUME LastPartRead
      PROVE  ProgramOK' /\ BearerOK'
  <2>1. ResponseHandled(queue) /\ ValueRead(pending)
    BY <1>3 DEF LastPartRead
  <2>2. ProgramOK' /\ SlotsKept
    BY <1>1, <2>1, ValueReadKeeps DEF ResponseHandled
  <2>3. QED
    BY <2>1, <2>2, AnswerKeeps
<1>4. QED
  BY <1>2, <1>3

\* An error ends the request or puts it back at the head of the queue with the
\* security level raised to FIPS at most (att.c:759-804).
LEMMA ErrorsKeep ==
    ASSUME ProgramOK, BearerOK, ErrorResponse \/ SecurityRetry
    PROVE  ProgramOK' /\ BearerOK'
<1>1. pending \in Sound
  BY AnsweredIsSound DEF ErrorResponse, SecurityRetry
<1>2. ASSUME ErrorResponse
      PROVE  ProgramOK' /\ BearerOK'
  <2>1. ResponseHandled(queue) /\ Fail(pending)
    BY <1>2 DEF ErrorResponse
  <2>2. ProgramOK' /\ SlotsKept
    BY <1>1, <2>1, FailKeeps DEF ResponseHandled
  <2>3. QED
    BY <2>1, <2>2, AnswerKeeps
<1>3. ASSUME SecurityRetry
      PROVE  ProgramOK' /\ BearerOK'
  <2>1. ProgramOK' /\ SlotsKept
    BY <1>3, ProgramStays DEF SecurityRetry
  <2>2. Retried \in Seq(Sound)
    BY <1>1 DEF Retried, BearerOK, SoundQueue
  <2>3. SoundQueue'
    BY <1>3, <2>1, <2>2, SoundQueueStays DEF SecurityRetry
  <2>4. sec' \in 1..4
    BY <1>3 DEF SecurityRetry, CanRaise, BearerOK
  <2>5. QED
    BY <1>3, <2>1, <2>3, <2>4 DEF SecurityRetry, BearerOK
<1>4. QED
  BY <1>2, <1>3

\* Whatever arrives, the invariant is kept.
LEMMA ReceiveKeeps ==
    ASSUME ProgramOK, BearerOK, Receive
    PROVE  ProgramOK' /\ BearerOK'
  BY ServicesKeep, CharsKeep, DescsKeep, PartsKeep, ErrorsKeep DEF Receive

-----------------------------------------------------------------------------
(* Connecting, sending, and the end of the channel. *)

\* connect_cb queues three sound requests, connected or not.
LEMMA ConnectKeeps ==
    ASSUME ProgramOK, BearerOK, Connected \/ ConnectFails \/ CannotStart
    PROVE  ProgramOK' /\ BearerOK'
<1>1. ASSUME StartDiscoveries, UNCHANGED <<dev, slots, pending>>
      PROVE  SoundQueue'
  <2>1. \A x \in Discoveries : Discover(x, 1) \in Sound
    BY DiscoverSound, DeviceAssumption
  <2>2. queue' \in Seq(Sound)
    BY <1>1, <2>1 DEF StartDiscoveries, Discoveries
  <2>3. QED
    BY <1>1, <2>2, SoundQueueStays DEF SlotsKept, BearerOK, SoundQueue
<1>2. CASE Connected
  BY <1>1, <1>2
     DEF Connected, StartDiscoveries, ProgramOK, BearerOK, LoggedUnderOwnHandle
<1>3. CASE ConnectFails
  BY <1>1, <1>3
     DEF ConnectFails, StartDiscoveries, ProgramOK, BearerOK, LoggedUnderOwnHandle
<1>4. CASE CannotStart
  BY <1>4 DEF CannotStart, bearer, program, ProgramOK, BearerOK, SoundQueue,
              Sound, Request, LoggedUnderOwnHandle
<1>5. QED
  BY <1>2, <1>3, <1>4

\* Sending moves the head of the queue to the pending request.
LEMMA WriteKeeps ==
    ASSUME ProgramOK, BearerOK, WriteRequest \/ WriterStops
    PROVE  ProgramOK' /\ BearerOK'
<1>1. ProgramOK' /\ SlotsKept
  BY ProgramStays DEF WriteRequest, WriterStops
<1>2. queue' \in Seq(Sound) /\ pending' \in Sound \cup {NoReq}
  BY DEF WriteRequest, WriterStops, BearerOK, SoundQueue
<1>3. SoundQueue'
  BY <1>1, <1>2, SoundQueueStays
<1>4. QED
  BY <1>1, <1>3 DEF WriteRequest, WriterStops, BearerOK

\* A timeout fails the pending request, a disconnection all that are left, one
\* after the other (att.c:473-508, 654-707).
LEMMA EndKeeps ==
    ASSUME ProgramOK, BearerOK, TimeOut \/ Disconnect \/ FailNext \/ Exit
    PROVE  ProgramOK' /\ BearerOK'
<1>1. ASSUME TimeOut
      PROVE  ProgramOK' /\ BearerOK'
  <2>1. ProgramOK' /\ SlotsKept
    BY <1>1, AnsweredIsSound, FailKeeps DEF TimeOut
  <2>2. SoundQueue'
    BY <1>1, <2>1, SoundQueueStays DEF TimeOut, BearerOK, SoundQueue
  <2>3. QED
    BY <1>1, <2>1, <2>2 DEF TimeOut, BearerOK
<1>2. ASSUME Disconnect
      PROVE  ProgramOK' /\ BearerOK'
  <2>1. ProgramOK' /\ SlotsKept
    BY <1>2, ProgramStays DEF Disconnect
  <2>2. Dropped \in Seq(Sound)
    BY DEF Dropped, BearerOK, SoundQueue
  <2>3. SoundQueue'
    BY <1>2, <2>1, <2>2, SoundQueueStays DEF Disconnect
  <2>4. QED
    BY <1>2, <2>1, <2>3 DEF Disconnect, BearerOK
<1>3. ASSUME FailNext
      PROVE  ProgramOK' /\ BearerOK'
  <2>1. Head(queue) \in Sound /\ Tail(queue) \in Seq(Sound)
    BY <1>3 DEF FailNext, BearerOK, SoundQueue
  <2>2. ProgramOK' /\ SlotsKept
    BY <1>3, <2>1, FailKeeps DEF FailNext
  <2>3. SoundQueue'
    BY <1>3, <2>1, <2>2, SoundQueueStays DEF FailNext, BearerOK, SoundQueue
  <2>4. QED
    BY <1>3, <2>2, <2>3 DEF FailNext, BearerOK
<1>4. ASSUME Exit
      PROVE  ProgramOK' /\ BearerOK'
  BY <1>4 DEF Exit, bearer, program, ProgramOK, BearerOK, SoundQueue, Sound,
              Request, LoggedUnderOwnHandle
<1>5. QED
  BY <1>1, <1>2, <1>3, <1>4

-----------------------------------------------------------------------------
(* The theorems. *)

\* The invariant holds initially, no step of the program disturbs it.
THEOREM Inductive == Spec => []IndInv
<1>1. Init => IndInv
  <2> SUFFICES ASSUME Init PROVE ProgramOK /\ BearerOK
    BY Parts
  <2>1. BearerOK
    <3>1. queue \in Seq(Sound)
      <4>1. queue = <<>>
        BY DEF Init
      <4>2. QED
        BY <4>1
    <3>2. pending \in Sound \cup {NoReq}
      BY DEF Init
    <3>3. link \in {"connecting", "up", "closing", "down"} /\ writer \in BOOLEAN
      BY Zenon DEF Init
    <3>4. sec \in 1..4
      <4>1. sec = 1
        BY DEF Init
      <4>2. QED
        BY <4>1
    <3>5. QED
      BY <3>1, <3>2, <3>3, <3>4 DEF BearerOK, SoundQueue
  <2>2. ProgramOK
    <3>1. answered = <<>> /\ log = <<>> /\ maxHandle \in 0..Top
      BY DeviceAssumption DEF Init
    <3>2. answered \in Seq(1..Len(dev.reads))
      BY <3>1
    <3>3. log \in Seq([label : dev.attrs, of : dev.attrs])
      BY <3>1
    <3>4. LoggedUnderOwnHandle
      BY <3>1 DEF LoggedUnderOwnHandle
    <3>5. QED
      BY <3>1, <3>2, <3>3, <3>4 DEF Init, ProgramOK
  <2>3. QED
    BY <2>1, <2>2
<1>2. IndInv /\ [Next]_vars => IndInv'
  <2>0. IndInv' <=> ProgramOK' /\ BearerOK'
    BY Parts, PTL
  <2> SUFFICES ASSUME ProgramOK, BearerOK, [Next]_vars
               PROVE  ProgramOK' /\ BearerOK'
    BY Parts, <2>0
  <2>1. CASE Next
    BY <2>1, ConnectKeeps, WriteKeeps, ReceiveKeeps, EndKeeps DEF Next
  <2>2. CASE UNCHANGED vars
    BY <2>2 DEF vars, bearer, program, ProgramOK, BearerOK, SoundQueue, Sound,
                Request, LoggedUnderOwnHandle
  <2>3. QED
    BY <2>1, <2>2
<1>3. QED
  BY <1>1, <1>2, PTL DEF Spec

\* Every variable has its type, for every device: among others, no more reads
\* are answered than asked for and the security level stays in range.
THEOREM TypeCorrect == Spec => []TypeOK
<1>1. IndInv => TypeOK
  BY DEF IndInv
<1>2. QED
  BY <1>1, Inductive, PTL

\* A value is never logged under the handle of another characteristic, however
\* reads, rounds of discoveries, retries and failures are mixed.
THEOREM LabelsRight == Spec => []LoggedUnderOwnHandle
<1>1. IndInv => LoggedUnderOwnHandle
  BY DEF IndInv
<1>2. QED
  BY <1>1, Inductive, PTL
=============================================================================
