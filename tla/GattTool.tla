------------------------------- MODULE GattTool -------------------------------
(***************************************************************************)
(* One run of the project's gatttool against one LE device: the three      *)
(* discoveries that connect_cb starts at once (primary services P,         *)
(* characteristics C, descriptors D), the reads of the values, the test    *)
(* that ends the program, and the client half of the ATT bearer that       *)
(* carries the requests: one queue, one request outstanding, the 30 s      *)
(* timer, the retry at a higher security level and the disconnection.      *)
(*                                                                         *)
(* The program is single-threaded: a step is one callback of the main      *)
(* loop with all it calls.  The device answers what it is asked, as much   *)
(* of it as it likes in one response, or with an error.                    *)
(***************************************************************************)
EXTENDS Integers, Sequences, FiniteSets, FiniteSetsExt

CONSTANTS
    Top,            \* the highest handle, 0xffff in the code
    Devices,        \* the devices it may be run against: see Device
    Faults          \* what may go wrong: see FaultKinds

FaultKinds == {"connect", "error", "security", "timeout", "loss"}
Discoveries == {"P", "C", "D"}

\* ReadCap is the length of char_value_handles_to_read, which the code never
\* compares with the number of its entries.
ReadCap == 512

\* What a device has: the handles of its attributes, the last handle of each
\* primary service, the handles of the characteristic declarations, the value
\* handles of the readable ones in that order, the READ_BLOB requests each
\* value needs after its READ, and how many elements fit into one response.
Device(d) ==
    /\ d.attrs \in SUBSET (1..Top)
    /\ d.ends \in SUBSET (1..Top)
    /\ d.decls \in SUBSET (1..(Top - 1))
    /\ d.reads \in Seq(d.attrs)
    /\ Len(d.reads) <= ReadCap
    /\ d.blobs \in [d.attrs -> Nat]
    /\ d.fits \in [Discoveries -> Nat \ {0}]

ASSUME DeviceAssumption ==
    /\ Top \in Nat \ {0}
    /\ \A d \in Devices : Device(d)
    /\ Faults \subseteq FaultKinds

VARIABLES
    dev,        \* the device at the other end
    link,       \* the channel: connecting, up, closing (shut down), down
    sec,        \* its security level, BT_SECURITY_LOW (1) to FIPS (4)
    queue,      \* att->req_queue
    pending,    \* chan->pending_req
    writer,     \* chan->writer_active: the write handler is installed
    disc,       \* what has become of each discovery
    maxHandle,  \* g_max_handle
    slots,      \* char_value_handles_to_read, up to num_char_value_handles
    answered,   \* slots whose char_read_cb has run, in that order
    log,        \* the CHAR_VALUE lines of GATTprint.log
    gotError,   \* got_error
    quit,       \* g_main_loop_quit has been called
    exit        \* running, or the exit code as success or failure

bearer == <<dev, link, sec, queue, pending, writer>>
program == <<disc, maxHandle, slots, answered, log, gotError, quit>>
vars == <<bearer, program, exit>>

\* A request: at is the first handle of a discovery or the handle to read,
\* part the number of READ_BLOB requests that have led to this one.
Discover(x, at) == [op |-> x, at |-> at, slot |-> 0, part |-> 0]
Read(i, handle) == [op |-> "R", at |-> handle, slot |-> i, part |-> 0]
NoReq == [op |-> "none", at |-> 0, slot |-> 0, part |-> 0]

Elements(x) == [P |-> dev.ends, C |-> dev.decls, D |-> dev.attrs][x]

\* What a discovery has collected when it is about to ask from at.
Collected(x, at) == {h \in Elements(x) : h < at}
Remaining(x, at) == {h \in Elements(x) : at <= h}

\* uint16_t arithmetic of dc->start and its like.
Succ16(h) == (h + 1) % (Top + 1)

Init ==
    /\ dev \in Devices
    /\ link = "connecting" /\ sec = 1
    /\ queue = <<>> /\ pending = NoReq /\ writer = FALSE
    /\ disc = [x \in Discoveries |-> "idle"]
    /\ maxHandle = Top
    /\ slots = <<>> /\ answered = <<>> /\ log = <<>>
    /\ gotError = FALSE /\ quit = FALSE /\ exit = "running"

Dispatching == exit = "running" /\ ~quit

-----------------------------------------------------------------------------
(* Connection. *)

\* primary(), characteristics() and characteristics_desc() in a row.
StartDiscoveries ==
    /\ disc' = [x \in Discoveries |-> "active"]
    /\ queue' = <<Discover("P", 1), Discover("C", 1), Discover("D", 1)>>
    /\ writer' = TRUE

Connected ==
    /\ Dispatching /\ link = "connecting"
    /\ link' = "up"
    /\ StartDiscoveries
    /\ UNCHANGED <<dev, sec, pending, maxHandle, slots, answered, log, gotError,
                   quit, exit>>

\* connect_cb does not return after an error: the requests are queued on a
\* channel that will never carry them.
ConnectFails ==
    /\ "connect" \in Faults
    /\ Dispatching /\ link = "connecting"
    /\ link' = "closing"
    /\ gotError' = TRUE /\ quit' = TRUE
    /\ StartDiscoveries
    /\ UNCHANGED <<dev, sec, pending, maxHandle, slots, answered, log, exit>>

\* The log cannot be opened, or gatt_connect returns no channel.
CannotStart ==
    /\ "connect" \in Faults
    /\ Dispatching /\ link = "connecting"
    /\ exit' = "failure"
    /\ UNCHANGED <<bearer, program>>

-----------------------------------------------------------------------------
(* The callbacks of the program. *)

\* char_desc_cb compares the last handle it was given; desc was never assigned
\* when there is none, which can also crash the program.
LastIsMax(list) == list # {} /\ Max(list) = maxHandle

DescDone(list, status) ==
    /\ disc' = [disc EXCEPT !["D"] = status]
    /\ quit' = (quit \/ status = "failed" \/ LastIsMax(list))
    /\ exit' \in IF list = {} THEN {exit, "failure"} ELSE {exit}
    /\ UNCHANGED <<maxHandle, slots, answered, log, gotError>>

CharFailed ==
    /\ disc' = [disc EXCEPT !["C"] = "failed"]
    /\ UNCHANGED <<maxHandle, slots, answered, log, gotError, quit, exit>>

PrimaryDone(list, status) ==
    /\ disc' = [disc EXCEPT !["P"] = status]
    /\ maxHandle' = IF status = "failed" \/ list = {} THEN maxHandle
                                                      ELSE Max(list)
    /\ UNCHANGED <<slots, answered, log, gotError, quit, exit>>

\* char_read_cb with a value: the label is what the slot holds by now.
ValueRead(r) ==
    /\ answered' = Append(answered, r.slot)
    /\ log' = Append(log, [label |-> slots[r.slot], of |-> r.at])
    /\ UNCHANGED <<disc, maxHandle, slots, gotError, quit, exit>>

ReadFailed(r) ==
    /\ answered' = Append(answered, r.slot)
    /\ UNCHANGED <<disc, maxHandle, slots, log, gotError, quit, exit>>

\* What a status other than success and NOT_FOUND does to r.  An error to a
\* READ_BLOB request ends the value, with status 0 and what has arrived:
\* a value that was cut short is logged like any other.
Fail(r) ==
    \/ r.op = "P" /\ PrimaryDone(Collected("P", r.at), "failed")
    \/ r.op = "C" /\ CharFailed
    \/ r.op = "D" /\ DescDone(Collected("D", r.at), "failed")
    \/ r.op = "R" /\ r.part = 0 /\ ReadFailed(r)
    \/ r.op = "R" /\ r.part > 0 /\ ValueRead(r)

-----------------------------------------------------------------------------
(* The bearer sends. *)

\* can_write_data picks a request.  A write that fails is treated as sent.
WriteRequest ==
    /\ Dispatching /\ link \in {"up", "closing"}
    /\ writer /\ pending = NoReq /\ queue # <<>>
    /\ pending' = Head(queue)
    /\ queue' = Tail(queue)
    /\ UNCHANGED <<dev, link, sec, writer, program, exit>>

\* It finds nothing that may be sent, and the handler is removed.
WriterStops ==
    /\ Dispatching /\ link \in {"up", "closing"}
    /\ writer /\ (pending # NoReq \/ queue = <<>>)
    /\ writer' = FALSE
    /\ UNCHANGED <<dev, link, sec, queue, pending, program, exit>>

-----------------------------------------------------------------------------
(* A response. *)

\* Mutant: nobody wakes the writer after a response.
NeverWake(q) == writer

\* handle_rsp at done: the request is forgotten and the writer woken if there
\* is something to send; a continuation has been queued by the callback.
WakeWriter(q) == writer \/ q # <<>>

ResponseHandled(q) ==
    /\ pending' = NoReq
    /\ queue' = q
    /\ writer' = WakeWriter(q)
    /\ UNCHANGED <<dev, link, sec>>

Answerable == Dispatching /\ link = "up" /\ pending # NoReq

\* A response with the elements from pending.at to last.
Listing(x, last) ==
    /\ Answerable /\ pending.op = x
    /\ last \in Remaining(x, pending.at)
    /\ Cardinality({h \in Remaining(x, pending.at) : h <= last})
           <= dev.fits[x]

\* bt_att_resend of anything but a READ_BLOB goes to the tail.
NextRound(x, at) == Append(queue, Discover(x, at))

ServicesFound(last) ==
    /\ Listing("P", last)
    /\ \/ /\ last # Top
          /\ ResponseHandled(NextRound("P", Succ16(last)))
          /\ UNCHANGED <<program, exit>>
       \/ /\ last = Top
          /\ ResponseHandled(queue)
          /\ PrimaryDone(dev.ends, "ok")

NoMoreServices ==
    /\ Answerable /\ pending.op = "P"
    /\ Remaining("P", pending.at) = {}
    /\ ResponseHandled(queue)
    /\ PrimaryDone(dev.ends, "ok")

\* Mutant: every read gets the first slot.
FirstSlot(i) == 1

\* char_discovered_cb of gatttool.c: each readable one gets a slot and a READ.
SlotOf(i) == i
ReadRequests == [i \in 1..Len(dev.reads) |-> Read(SlotOf(i), dev.reads[i])]

CharsDone ==
    /\ disc' = [disc EXCEPT !["C"] = "ok"]
    /\ slots' = dev.reads
    /\ ResponseHandled(queue \o ReadRequests)
    /\ UNCHANGED <<maxHandle, answered, log, gotError, quit, exit>>

CharsFound(last) ==
    /\ Listing("C", last)
    /\ \/ /\ Succ16(last) < Top
          /\ ResponseHandled(NextRound("C", Succ16(last)))
          /\ UNCHANGED <<program, exit>>
       \/ Succ16(last) >= Top /\ CharsDone

NoMoreChars ==
    /\ Answerable /\ pending.op = "C"
    /\ Remaining("C", pending.at) = {}
    /\ \/ dev.decls # {} /\ CharsDone
       \/ dev.decls = {} /\ ResponseHandled(queue) /\ CharFailed

DescsFound(last) ==
    /\ Listing("D", last)
    /\ \/ /\ last < Top
          /\ ResponseHandled(NextRound("D", Succ16(last)))
          /\ UNCHANGED <<program, exit>>
       \/ /\ last = Top
          /\ ResponseHandled(queue)
          /\ DescDone(dev.attrs, "ok")

NoMoreDescs ==
    /\ Answerable /\ pending.op = "D"
    /\ Remaining("D", pending.at) = {}
    /\ ResponseHandled(queue)
    /\ DescDone(dev.attrs, IF dev.attrs = {} THEN "failed" ELSE "ok")

\* A part of a value: a READ_BLOB for the rest goes to the head of the queue.
PartRead ==
    /\ Answerable /\ pending.op = "R"
    /\ pending.part < dev.blobs[pending.at]
    /\ ResponseHandled(<<[pending EXCEPT !.part = @ + 1]>> \o queue)
    /\ UNCHANGED <<program, exit>>

LastPartRead ==
    /\ Answerable /\ pending.op = "R"
    /\ pending.part = dev.blobs[pending.at]
    /\ ResponseHandled(queue)
    /\ ValueRead(pending)

ErrorResponse ==
    /\ "error" \in Faults
    /\ Answerable
    /\ ResponseHandled(queue)
    /\ Fail(pending)

\* Mutants: the level is raised without an upper bound; the request is retried
\* after those that were queued behind it.
RaiseAlways(level) == TRUE
RetriedLast == Append(queue, pending)

\* handle_error_rsp after change_security: INSUFFICIENT_ENCRYPTION raises LOW
\* only, AUTHENTICATION every level but FIPS, by one.  Where the level cannot
\* be raised the error is an ErrorResponse.
CanRaise(level) == level < 4
Retried == <<pending>> \o queue

SecurityRetry ==
    /\ "security" \in Faults
    /\ Answerable
    /\ CanRaise(sec)
    /\ sec' = sec + 1
    /\ queue' = Retried
    /\ pending' = NoReq
    /\ writer' = TRUE
    /\ UNCHANGED <<dev, link, program, exit>>

Receive ==
    \/ \E last \in 1..Top : ServicesFound(last) \/ CharsFound(last)
                                                \/ DescsFound(last)
    \/ NoMoreServices \/ NoMoreChars \/ NoMoreDescs
    \/ PartRead \/ LastPartRead
    \/ ErrorResponse \/ SecurityRetry

-----------------------------------------------------------------------------
(* The end of the channel. *)

\* timeout_cb: the callback, then the socket is shut down.
TimeOut ==
    /\ "timeout" \in Faults
    /\ Answerable
    /\ pending' = NoReq
    /\ link' = "closing"
    /\ Fail(pending)
    /\ UNCHANGED <<dev, sec, queue, writer>>

\* Mutant: only the pending request learns of the disconnection.
OnlyPending == IF pending = NoReq THEN <<>> ELSE <<pending>>

\* disconnect_cb starts: the pending request is the first to be failed, then
\* those of the queue in order.  It may be dispatched in the iteration of the
\* main loop in which a callback has quit it.
Dropped == IF pending = NoReq THEN queue ELSE <<pending>> \o queue

Disconnect ==
    /\ exit = "running"
    /\ link = "closing" \/ (link = "up" /\ "loss" \in Faults)
    /\ link' = "down"
    /\ queue' = Dropped
    /\ pending' = NoReq
    /\ writer' = FALSE
    /\ UNCHANGED <<dev, sec, program, exit>>

FailNext ==
    /\ exit = "running" /\ link = "down" /\ queue # <<>>
    /\ queue' = Tail(queue)
    /\ Fail(Head(queue))
    /\ UNCHANGED <<dev, link, sec, pending, writer>>

\* The iteration ends and main returns from g_main_loop_run.
Exit ==
    /\ exit = "running" /\ quit
    /\ link = "down" => queue = <<>>
    /\ exit' = IF gotError THEN "failure" ELSE "success"
    /\ UNCHANGED <<bearer, program>>

Next ==
    \/ Connected \/ ConnectFails \/ CannotStart
    \/ WriteRequest \/ WriterStops
    \/ Receive
    \/ TimeOut \/ Disconnect \/ FailNext
    \/ Exit

Spec == Init /\ [][Next]_vars

\* The main loop runs what is ready, the 30 s timer answers where the device
\* does not, and a socket that was shut down hangs up.  Nothing makes a
\* connection succeed, and nothing a link fail.
Fairness ==
    /\ WF_vars(WriteRequest \/ WriterStops)
    /\ WF_vars(Receive \/ TimeOut)
    /\ WF_vars(link = "closing" /\ Disconnect)
    /\ WF_vars(FailNext)
    /\ WF_vars(Exit)

FairSpec == Spec /\ Fairness

-----------------------------------------------------------------------------
(* Properties. *)

Request ==
    [op : Discoveries, at : 0..Top, slot : {0}, part : {0}]
        \cup [op : {"R"}, at : dev.attrs, slot : 1..Len(dev.reads), part : Nat]

\* Every variable has its type; a security level never exceeds FIPS
\* (att.c:759-768).
TypeOK ==
    /\ dev \in Devices
    /\ link \in {"connecting", "up", "closing", "down"}
    /\ sec \in 1..4
    /\ queue \in Seq(Request)
    /\ pending \in Request \cup {NoReq}
    /\ writer \in BOOLEAN
    /\ disc \in [Discoveries -> {"idle", "active", "ok", "failed"}]
    /\ maxHandle \in 0..Top
    /\ slots \in {<<>>, dev.reads}
    /\ answered \in Seq(1..Len(dev.reads))
    /\ log \in Seq([label : dev.attrs, of : dev.attrs])
    /\ gotError \in BOOLEAN /\ quit \in BOOLEAN
    /\ exit \in {"running", "success", "failure"}

\* The requests under way, in the order in which they will be answered.
UnderWay == IF pending = NoReq THEN queue ELSE <<pending>> \o queue
ReadAt(j) == j \in DOMAIN UnderWay /\ UnderWay[j].op = "R"

\* Reads are answered in the order in which the characteristics were
\* discovered, each exactly once, across continuations, retries and the end of
\* the channel: what is answered are the first slots, in their order, and the
\* others are under way, each once and in their order (att.c:801, 1657-1661,
\* gatttool.c:170-174).
ReadsInOrder ==
    /\ \A i \in DOMAIN answered : answered[i] = i /\ i \in DOMAIN slots
    /\ \A i \in DOMAIN slots \ DOMAIN answered :
          \E j \in DOMAIN UnderWay : ReadAt(j) /\ UnderWay[j].slot = i
    /\ \A j \in DOMAIN UnderWay :
          ReadAt(j) => UnderWay[j].slot \in DOMAIN slots \ DOMAIN answered
    /\ \A j, k \in DOMAIN UnderWay :
          (ReadAt(j) /\ ReadAt(k) /\ j < k) => UnderWay[j].slot < UnderWay[k].slot

\* A value is logged under the handle it was read from, although the callback
\* only gets a pointer into the list of handles (gatttool.c:171-172, 213).
LoggedUnderOwnHandle == \A i \in DOMAIN log : log[i].label = log[i].of

\* A discovery that is not finished has exactly one request under way, and a
\* finished one has none: none is continued twice or forgotten, whichever way
\* its last round ended (gatt.c:344, 657, 1099, att.c:687-696).
OneRequestPerDiscovery ==
    \A x \in Discoveries :
        /\ disc[x] = "active" <=> \E j \in DOMAIN UnderWay : UnderWay[j].op = x
        /\ \A j, k \in DOMAIN UnderWay :
              (UnderWay[j].op = x /\ UnderWay[k].op = x) => j = k

\* Every read that was asked for gets its callback, unless the program ends
\* first: no wake-up of the writer is lost and no request is left in a queue
\* that nobody serves (att.c:595-616, 864-865, 473-508).
ReadsSettle ==
    \A i \in UNION {DOMAIN d.reads : d \in Devices} :
        (i \in DOMAIN slots)
            ~> (exit # "running" \/ \E j \in DOMAIN answered : answered[j] = i)

\* gatttool.c:266: "Exit if the last handle was the max handle, and if there's
\* no upcoming manual read request".
ExitAwaitsReads ==
    exit = "success" => \A j \in DOMAIN UnderWay : ~ReadAt(j)

\* gatttool.c:71: g_max_handle "Determines when the program is done
\* enumerating".  Connected to a device whose last attribute ends its last
\* service, the program ends.
SessionEnds == link = "up" ~> exit # "running"

=============================================================================
