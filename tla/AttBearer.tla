------------------------------ MODULE AttBearer ------------------------------
(***************************************************************************)
(* The ATT bearer of BlueZ, src/shared/att.c: operations are queued, sent  *)
(* on one of the channels, answered, retried at a higher security level,   *)
(* timed out, cancelled or failed by a disconnection. The program is       *)
(* single-threaded; what makes it hard is that it calls its user in the    *)
(* middle of a handler, and the user may send, resend and cancel there.    *)
(*                                                                         *)
(* GattTool has the requests of gatttool on its one channel; here are all  *)
(* the operations, for any user. Every PDU fits into every channel.        *)
(***************************************************************************)
EXTENDS Integers, Sequences, FiniteSets, SequencesExt

CONSTANTS
    Chans,          \* the channels that are ever attached
    FirstChan,      \* the one bt_att_new makes
    TopLevel,       \* the highest security level, counted from the initial one
    MaxOps          \* bound on the operations that are created

ASSUME AttBearerAssumption ==
    /\ FirstChan \in Chans
    /\ TopLevel \in Nat \ {0} /\ MaxOps \in Nat

Ops == 1..MaxOps
None == 0
ToUser == {"req", "ind", "cmd"}     \* with handlers: requests, indications, commands and notifications
Mute == {"rsp", "conf"}             \* responses, confirmations: to the other side, without handlers
Kinds == ToUser \cup Mute

VARIABLES
    used,           \* operations 1..used have been created
    kind, id,       \* of each operation; the id is given to the user to cancel it by
    armed,          \* the operations whose handlers are set
    hist,           \* history: the handlers that were called and the free, of each operation
    dropped,        \* history: the operations the user has cancelled
    reqQ, indQ, writeQ,     \* the queues of the bearer
    chanQ,          \* the queue of each channel
    pendReq, pendInd,       \* what each channel has sent and not got an answer to
    chans,          \* the attached channels
    gone,           \* the channels that have been detached
    shut,           \* channels that were shut down and wait for their disconnection
    writer,         \* channels with a write handler
    inReq,          \* channels with a request of the other side
    sec,            \* the security level of each channel
    at, chan,       \* the handler that is failing or finishing operations, and its channel
    hand,           \* the operations it has taken to do so
    called          \* the callback of the first of them has been called

op == <<used, kind, id>>
fate == <<armed, hist, dropped>>
queues == <<reqQ, indQ, writeQ, chanQ>>
pending == <<pendReq, pendInd>>
io == <<chans, gone, shut, inReq, sec>>
call == <<at, chan, hand, called>>
vars == <<op, fate, queues, pending, io, writer, call>>

Init ==
    /\ used = 0
    /\ kind = [o \in Ops |-> "req"] /\ id = [o \in Ops |-> 0]
    /\ armed = {} /\ hist = [o \in Ops |-> <<>>] /\ dropped = {}
    /\ reqQ = <<>> /\ indQ = <<>> /\ writeQ = <<>> /\ chanQ = [c \in Chans |-> <<>>]
    /\ pendReq = [c \in Chans |-> None] /\ pendInd = pendReq
    /\ chans = {FirstChan} /\ chan = FirstChan
    /\ gone = {} /\ shut = {} /\ writer = {}
    /\ inReq = [c \in Chans |-> FALSE] /\ sec = [c \in Chans |-> 1]
    /\ at = "idle" /\ hand = <<>> /\ called = FALSE

-----------------------------------------------------------------------------
(* The handlers of an operation. *)

\* (mutant) The handlers are called but not removed.
StillArmed(S) == armed

\* cancel_att_send_op sets them to NULL; a freed operation has none either.
Disarmed(S) == armed \ S

\* destroy_att_send_op for the operations in D, cancel_att_send_op for those in C.
Settle(D, C) ==
    /\ hist' = [o \in Ops |->
          hist[o] \o (IF o \in armed \cap (D \cup C) THEN <<"destroy">> ELSE <<>>)
                  \o (IF o \in D THEN <<"free">> ELSE <<>>)]
    /\ armed' = Disarmed(D \cup C)

UserDrops(S) == dropped' = dropped \cup S

Members(q) == {q[i] : i \in DOMAIN q}
Some(S) == S \ {None}

-----------------------------------------------------------------------------
(* Waking the writer. *)

\* Something can be sent on the channel.
Sendable(c) ==
    \/ chanQ[c] # <<>> \/ writeQ # <<>>
    \/ pendReq[c] = None /\ reqQ # <<>>
    \/ pendInd[c] = None /\ indQ # <<>>

\* (mutant) Detached channels are woken too.
WakeEvery(S) == writer' = writer \cup {c \in Chans : Sendable(c)'}

\* wakeup_chan_writer
Wake(S) == writer' = writer \cup {c \in S : Sendable(c)'}

-----------------------------------------------------------------------------
(* What the user does: between two handlers, or in a callback. *)

InCallback == called /\ "cb" \in Members(hist[Head(hand)])
UserRuns == at = "idle" \/ InCallback

\* The next operation, with this kind and id.
Create(k, i) ==
    /\ used < MaxOps
    /\ used' = used + 1
    /\ kind' = [kind EXCEPT ![used'] = k]
    /\ id' = [id EXCEPT ![used'] = i]
    /\ armed' = IF k \in ToUser THEN armed \cup {used'} ELSE armed
    /\ UNCHANGED <<hist, dropped>>

Enqueue(o, k) ==
    /\ reqQ' = IF k = "req" THEN Append(reqQ, o) ELSE reqQ
    /\ indQ' = IF k = "ind" THEN Append(indQ, o) ELSE indQ
    /\ writeQ' = IF k \in {"cmd", "rsp"} THEN Append(writeQ, o) ELSE writeQ
    /\ UNCHANGED chanQ

\* bt_att_send
Send(k) ==
    /\ UserRuns /\ chans # {}
    /\ Create(k, used + 1)
    /\ Enqueue(used + 1, k)
    /\ UNCHANGED <<pending, io, call>>
    /\ Wake(chans)

\* bt_att_chan_send: a response or a confirmation, on the channel it belongs to. No id is set.
ChanSend(c, k) ==
    /\ UserRuns /\ c \in chans
    /\ Create(k, 0)
    /\ chanQ' = [chanQ EXCEPT ![c] = Append(@, used')]
    /\ UNCHANGED <<reqQ, indQ, writeQ, pending, io, call>>
    /\ Wake({c})

\* bt_att_resend: a request under the id of a pending one, a continuation first in the queue.
Resend(c, first) ==
    /\ UserRuns /\ c \in chans /\ pendReq[c] # None /\ id[pendReq[c]] # 0
    /\ Create("req", id[pendReq[c]])
    /\ reqQ' = IF first THEN <<used'>> \o reqQ ELSE Append(reqQ, used')
    /\ UNCHANGED <<indQ, writeQ, chanQ, pending, io, call>>
    /\ Wake(chans)

InQueues == Members(reqQ) \cup Members(indQ) \cup Members(writeQ)
OnChannels == Some({pendReq[c] : c \in chans} \cup {pendInd[c] : c \in chans})
Pending(i) == {o \in OnChannels : id[o] = i}

InDisc == at \in {"req", "ind", "write"}

Has(q, i) == \E n \in DOMAIN q : id[q[n]] = i
First(q, i) == SelectInSeq(q, LAMBDA o : id[o] = i)
Without(q, i) == RemoveFirstMatch(q, LAMBDA o : id[o] = i)

\* The first operation with the id in the queues of the bearer, in the order in which they
\* are searched.
Queued(i) ==
    LET all == reqQ \o indQ \o writeQ IN IF Has(all, i) THEN {all[First(all, i)]} ELSE {}

\* bt_att_cancel, bt_att_chan_cancel: what is pending stays, without its handlers.
CancelPending(i) ==
    /\ UserRuns
    /\ \E o \in Pending(i) : Settle({}, {o}) /\ UserDrops({o})
    /\ UNCHANGED <<op, queues, pending, io, writer, call>>

\* bt_att_disc_cancel: so does what disconnect_cb has not got to yet.
CancelInDisc(i) ==
    /\ UserRuns /\ InDisc /\ Pending(i) = {} /\ Queued(i) # {}
    /\ Settle({}, Queued(i)) /\ UserDrops(Queued(i))
    /\ UNCHANGED <<op, queues, pending, io, writer, call>>

CancelQueued(i) ==
    /\ UserRuns /\ ~InDisc /\ Pending(i) = {} /\ Queued(i) # {}
    /\ Settle(Queued(i), {}) /\ UserDrops(Queued(i))
    /\ reqQ' = Without(reqQ, i)
    /\ indQ' = IF Has(reqQ, i) THEN indQ ELSE Without(indQ, i)
    /\ writeQ' = IF Has(reqQ, i) \/ Has(indQ, i) THEN writeQ ELSE Without(writeQ, i)
    /\ UNCHANGED <<op, chanQ, pending, io, call>>
    /\ Wake(chans)

\* bt_att_cancel_all
CancelAll ==
    /\ UserRuns
    /\ Settle(InQueues, OnChannels) /\ UserDrops(InQueues \cup OnChannels)
    /\ reqQ' = <<>> /\ indQ' = <<>> /\ writeQ' = <<>>
    /\ UNCHANGED <<op, chanQ, pending, io, writer, call>>

\* bt_att_attach_fd
Attach(c) ==
    /\ UserRuns /\ c \notin chans \cup gone
    /\ chans' = chans \cup {c}
    /\ UNCHANGED <<op, fate, queues, pending, gone, shut, inReq, sec, call>>
    /\ Wake({c})

\* The last bt_att_unref, outside of any handler: everything is destroyed without a callback.
Unref ==
    /\ at = "idle" /\ chans # {}
    /\ LET all == InQueues \cup OnChannels \cup UNION {Members(chanQ[c]) : c \in Chans}
       IN Settle(all, {}) /\ UserDrops(all)
    /\ reqQ' = <<>> /\ indQ' = <<>> /\ writeQ' = <<>> /\ chanQ' = [c \in Chans |-> <<>>]
    /\ pendReq' = [c \in Chans |-> None] /\ pendInd' = [c \in Chans |-> None]
    /\ chans' = {} /\ gone' = Chans /\ writer' = {} /\ shut' = {}
    /\ inReq' = [c \in Chans |-> FALSE] /\ sec' = [c \in Chans |-> 1]
    /\ UNCHANGED <<op, call>>

\* The ids that bt_att_send has returned.
UserIds == {id[o] : o \in {o \in 1..used : kind[o] \in ToUser}}

User ==
    \/ \E k \in ToUser : Send(k)
    \/ \E c \in Chans, k \in Mute : ChanSend(c, k)
    \/ \E c \in Chans : Attach(c) \/ \E first \in BOOLEAN : Resend(c, first)
    \/ \E i \in UserIds : CancelPending(i) \/ CancelInDisc(i) \/ CancelQueued(i)
    \/ CancelAll \/ Unref

-----------------------------------------------------------------------------
(* can_write_data *)

\* The queue pick_next_send_op takes from.
Source(c) ==
    CASE chanQ[c] # <<>> -> "chan"
      [] chanQ[c] = <<>> /\ writeQ # <<>> -> "write"
      [] chanQ[c] = <<>> /\ writeQ = <<>> /\ pendReq[c] = None /\ reqQ # <<>> -> "req"
      [] OTHER -> "ind"

\* Written, or lost by a failed write, which counts as written. Only requests and
\* indications are kept.
WriteOut(c) ==
    /\ at = "idle" /\ c \in writer /\ Sendable(c)
    /\ LET from == Source(c)
           o == Head(CASE from = "chan" -> chanQ[c] [] from = "write" -> writeQ
                       [] from = "req" -> reqQ [] OTHER -> indQ)
       IN /\ chanQ' = IF from = "chan" THEN [chanQ EXCEPT ![c] = Tail(@)] ELSE chanQ
          /\ writeQ' = IF from = "write" THEN Tail(writeQ) ELSE writeQ
          /\ reqQ' = IF from = "req" THEN Tail(reqQ) ELSE reqQ
          /\ indQ' = IF from = "ind" THEN Tail(indQ) ELSE indQ
          /\ pendReq' = IF kind[o] = "req" THEN [pendReq EXCEPT ![c] = o] ELSE pendReq
          /\ pendInd' = IF kind[o] = "ind" THEN [pendInd EXCEPT ![c] = o] ELSE pendInd
          /\ inReq' = [inReq EXCEPT ![c] = @ /\ kind[o] # "rsp"]
          /\ Settle(IF kind[o] \in {"req", "ind"} THEN {} ELSE {o}, {})
    /\ UNCHANGED <<op, dropped, chans, gone, shut, sec, writer, call>>

WriterStops(c) ==
    /\ at = "idle" /\ c \in writer /\ ~Sendable(c)
    /\ writer' = writer \ {c}
    /\ UNCHANGED <<op, fate, queues, pending, io, call>>

-----------------------------------------------------------------------------
(* can_read_data, timeout_cb, disconnect_cb *)

Held(o) == IF o = None THEN <<>> ELSE <<o>>
Hears(c) == at = "idle" /\ c \in chans

\* The handler has these operations to call back and destroy.
Take(where, c, ops) == at' = where /\ chan' = c /\ hand' = ops /\ called' = FALSE

\* handle_rsp, whatever the response says; an unexpected one ends the channel. The request
\* stays pending during its callback.
Response(c) ==
    /\ Hears(c)
    /\ \/ pendReq[c] # None /\ Take("rsp", c, <<pendReq[c]>>) /\ UNCHANGED shut
       \/ pendReq[c] = None /\ shut' = shut \cup {c} /\ UNCHANGED call
    /\ UNCHANGED <<op, fate, queues, pending, chans, gone, inReq, sec, writer>>

\* (mutant) The writer is not told.
RetryAsleep(c) ==
    /\ Hears(c) /\ pendReq[c] # None /\ sec[c] < TopLevel
    /\ sec' = [sec EXCEPT ![c] = @ + 1]
    /\ reqQ' = <<pendReq[c]>> \o reqQ
    /\ pendReq' = [pendReq EXCEPT ![c] = None]
    /\ UNCHANGED <<op, fate, indQ, writeQ, chanQ, pendInd, chans, gone, shut, inReq, writer, call>>

\* handle_error_rsp: a security error, and the level can be raised.
Retry(c) ==
    /\ Hears(c) /\ pendReq[c] # None /\ sec[c] < TopLevel
    /\ sec' = [sec EXCEPT ![c] = @ + 1]
    /\ reqQ' = <<pendReq[c]>> \o reqQ
    /\ pendReq' = [pendReq EXCEPT ![c] = None]
    /\ UNCHANGED <<op, fate, indQ, writeQ, chanQ, pendInd, chans, gone, shut, inReq, call>>
    /\ Wake({c})

\* handle_conf
Confirmation(c) ==
    /\ Hears(c)
    /\ \/ pendInd[c] # None /\ Take("conf", c, <<pendInd[c]>>) /\ UNCHANGED shut
       \/ shut' = shut \cup {c} /\ UNCHANGED call
    /\ UNCHANGED <<op, fate, queues, pending, chans, gone, inReq, sec, writer>>

\* A request of the other side that the user has registered for, and answers or not.
Request(c) ==
    /\ Hears(c) /\ ~inReq[c]
    /\ inReq' = [inReq EXCEPT ![c] = TRUE]
    /\ UNCHANGED <<op, fate, queues, pending, chans, gone, shut, sec, writer, call>>

\* respond_not_supported: the response is in the queue all channels send from. What is no
\* request is answered too, unless it is a command.
NotSupported(c, request) ==
    /\ Hears(c) /\ (request => ~inReq[c])
    /\ inReq' = [inReq EXCEPT ![c] = @ \/ request]
    /\ Create("rsp", used + 1)
    /\ Enqueue(used + 1, "rsp")
    /\ UNCHANGED <<pending, chans, gone, shut, sec, call>>
    /\ Wake(chans)

\* A request while another is pending. The read handler is removed as well: from here on, as
\* after a read that fails, the channel may hear nothing more.
SecondRequest(c) ==
    /\ Hears(c) /\ inReq[c]
    /\ shut' = shut \cup {c}
    /\ UNCHANGED <<op, fate, queues, pending, chans, gone, inReq, sec, writer, call>>

\* (mutant) The operation that has timed out stays pending.
TimeoutKeeps(c, p) ==
    /\ at = "idle" /\ c \in chans
    /\ p \in Some({pendReq[c], pendInd[c]})
    /\ Take("timeout", c, <<p>>)
    /\ UNCHANGED <<op, fate, queues, pending, io, writer>>

\* timeout_cb: the operation is not pending during its callback.
Timeout(c, p) ==
    /\ at = "idle" /\ c \in chans
    /\ p \in Some({pendReq[c], pendInd[c]})
    /\ Take("timeout", c, <<p>>)
    /\ pendReq' = [pendReq EXCEPT ![c] = IF @ = p THEN None ELSE @]
    /\ pendInd' = [pendInd EXCEPT ![c] = IF @ = p THEN None ELSE @]
    /\ UNCHANGED <<op, fate, queues, io, writer>>

\* disconnect_cb: the channel is detached first.
Disconnect(c) ==
    /\ at = "idle" /\ c \in chans
    /\ chans' = chans \ {c} /\ gone' = gone \cup {c}
    /\ shut' = shut \ {c} /\ writer' = writer \ {c}
    /\ Take("disc", c, Held(pendReq[c]) \o Held(pendInd[c]))
    /\ pendReq' = [pendReq EXCEPT ![c] = None] /\ pendInd' = [pendInd EXCEPT ![c] = None]
    /\ inReq' = [inReq EXCEPT ![c] = FALSE] /\ sec' = [sec EXCEPT ![c] = 1]
    /\ UNCHANGED <<op, fate, queues>>

-----------------------------------------------------------------------------
(* The rest of a handler that calls back. *)

\* A command has no callback (create_att_send_op): its turn comes, and it is destroyed.
CallBack ==
    /\ hand # <<>> /\ ~called
    /\ called' = TRUE
    /\ LET o == Head(hand) IN
       hist' = IF o \in armed /\ kind[o] # "cmd" THEN [hist EXCEPT ![o] = Append(@, "cb")] ELSE hist
    /\ UNCHANGED <<op, armed, dropped, queues, pending, io, writer, at, chan, hand>>

\* The callback returns: the operation is destroyed, and the handler goes on.
Return ==
    /\ called /\ called' = FALSE
    /\ Settle({Head(hand)}, {})
    /\ hand' = Tail(hand)
    /\ at' = IF at \in {"rsp", "conf", "timeout"} THEN "idle" ELSE at
    /\ pendReq' = IF at = "rsp" THEN [pendReq EXCEPT ![chan] = None] ELSE pendReq
    /\ pendInd' = IF at = "conf" THEN [pendInd EXCEPT ![chan] = None] ELSE pendInd
    /\ shut' = IF at = "timeout" THEN shut \cup {chan} ELSE shut
    /\ UNCHANGED <<op, dropped, queues, chans, gone, inReq, sec, chan>>
    /\ Wake(IF at \in {"rsp", "conf"} THEN {chan} ELSE {})

\* bt_att_chan_free; the queues of the bearer follow when it was the last channel.
ChannelFreed ==
    /\ at = "disc" /\ hand = <<>>
    /\ Settle(Members(chanQ[chan]), {})
    /\ chanQ' = [chanQ EXCEPT ![chan] = <<>>]
    /\ \/ chans # {} /\ at' = "idle" /\ UNCHANGED <<reqQ, hand>>
       \/ chans = {} /\ at' = "req" /\ hand' = reqQ /\ reqQ' = <<>>
    /\ UNCHANGED <<op, dropped, indQ, writeQ, pending, io, writer, chan, called>>

\* (mutant) The indications are destroyed and not called back.
IndicationsFreed ==
    /\ InDisc /\ hand = <<>>
    /\ Settle(Members(indQ), {})
    /\ \/ at = "req" /\ at' = "ind" /\ hand' = <<>> /\ indQ' = <<>> /\ UNCHANGED writeQ
       \/ at = "ind" /\ at' = "write" /\ hand' = writeQ /\ writeQ' = <<>> /\ UNCHANGED indQ
       \/ at = "write" /\ at' = "idle" /\ UNCHANGED <<hand, indQ, writeQ>>
    /\ UNCHANGED <<op, dropped, reqQ, chanQ, pending, io, writer, chan, called>>

\* queue_remove_all empties a queue before the first callback.
NextQueue ==
    /\ InDisc /\ hand = <<>>
    /\ \/ at = "req" /\ at' = "ind" /\ hand' = indQ /\ indQ' = <<>> /\ UNCHANGED writeQ
       \/ at = "ind" /\ at' = "write" /\ hand' = writeQ /\ writeQ' = <<>> /\ UNCHANGED indQ
       \/ at = "write" /\ at' = "idle" /\ UNCHANGED <<hand, indQ, writeQ>>
    /\ UNCHANGED <<op, fate, reqQ, chanQ, pending, io, writer, chan, called>>

Finish == CallBack \/ Return \/ ChannelFreed \/ NextQueue

Writer(c) == WriteOut(c) \/ WriterStops(c)
Reply(c) == Response(c) \/ Retry(c) \/ Confirmation(c)
TimeOut(c) == \E p \in Ops : Timeout(c, p)

Next ==
    \/ User \/ Finish
    \/ \E c \in Chans :
          \/ Writer(c) \/ Reply(c) \/ TimeOut(c) \/ Disconnect(c)
          \/ Request(c) \/ SecondRequest(c) \/ \E request \in BOOLEAN : NotSupported(c, request)

Spec == Init /\ [][Next]_vars

\* The main loop dispatches a ready writer, a due timer and a hang-up; a handler that has
\* begun ends. Nothing is assumed of the user or of the other side.
FairSpec ==
    /\ Spec /\ WF_vars(Finish)
    /\ \A c \in Chans :
          /\ WF_vars(Writer(c))
          /\ WF_vars(TimeOut(c))
          /\ WF_vars(c \in shut /\ Disconnect(c))

-----------------------------------------------------------------------------
(* Correctness. *)

\* The type of every variable; what is pending is a request or an indication.
TypeOK ==
    /\ used \in 0..MaxOps
    /\ kind \in [Ops -> Kinds] /\ id \in [Ops -> 0..MaxOps]
    /\ armed \subseteq Ops /\ dropped \subseteq Ops
    /\ hist \in [Ops -> Seq({"cb", "destroy", "free"})]
    /\ reqQ \in Seq(Ops) /\ indQ \in Seq(Ops) /\ writeQ \in Seq(Ops) /\ hand \in Seq(Ops)
    /\ chanQ \in [Chans -> Seq(Ops)]
    /\ pendReq \in [Chans -> {None} \cup {o \in Ops : kind[o] = "req"}]
    /\ pendInd \in [Chans -> {None} \cup {o \in Ops : kind[o] = "ind"}]
    /\ chans \cup gone \subseteq Chans /\ shut \cup writer \subseteq chans
    /\ inReq \in [Chans -> BOOLEAN] /\ sec \in [Chans -> 1..TopLevel]
    /\ at \in {"idle", "rsp", "conf", "timeout", "disc", "req", "ind", "write"}
    /\ chan \in Chans /\ called \in BOOLEAN

Freed(o) == "free" \in Members(hist[o])

\* Whatever the user does in a callback and however an operation ends, its handlers are
\* called as promised: the callback at most once, the destroy function once, after it and
\* before the operation is freed; nothing happens to a freed operation (201-225, 458-466).
OneFate ==
    \A o \in 1..used :
       hist[o] \in IF kind[o] \in Mute THEN {<<>>, <<"free">>}
                   ELSE {<<>>, <<"cb">>, <<"destroy">>, <<"cb", "destroy">>,
                         <<"destroy", "free">>, <<"cb", "destroy", "free">>}

\* A request or an indication that the user has not cancelled is called back before it is
\* freed, also by a timeout and by a disconnection (458-466, 654-707).
ToldUnlessDropped ==
    \A o \in 1..used :
       (kind[o] \in {"req", "ind"} /\ Freed(o) /\ o \notin dropped) => "cb" \in Members(hist[o])

\* All the places an operation can be found in. A request stays pending while handle_rsp
\* calls it back.
Positions(q, o) == {i \in DOMAIN q : q[i] = o}
Taken == IF at \in {"rsp", "conf"} THEN <<>> ELSE hand
Places(o) ==
    UNION {{<<"req", i>> : i \in Positions(reqQ, o)},
           {<<"ind", i>> : i \in Positions(indQ, o)},
           {<<"write", i>> : i \in Positions(writeQ, o)},
           {<<"hand", i>> : i \in Positions(Taken, o)},
           {<<"pendReq", c>> : c \in Positions(pendReq, o)},
           {<<"pendInd", c>> : c \in Positions(pendInd, o)},
           UNION {{<<"chan", c, i>> : i \in Positions(chanQ[c], o)} : c \in Chans}}

\* No operation is lost and none is left behind: until it is freed it is in one place, from
\* then on in none (415-456, 772-866, 1714-1806).
InOnePlace == \A o \in 1..used : Cardinality(Places(o)) = IF Freed(o) THEN 0 ELSE 1

\* Every operation is freed some time. With several channels, one that is detached may take
\* along the only wake-up of what it has put back (833-835): the rest waits for the next send.
EveryOpSettles ==
    \A o \in Ops : (o <= used) ~> (Freed(o) \/ (gone # {} /\ chans # {}))
=============================================================================
