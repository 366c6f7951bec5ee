---------------------------- MODULE TrackDevices ----------------------------
(***************************************************************************)
(* TrackDevices of adb/device.go: a goroutine (the producer) reads the     *)
(* frames of host:track-devices and sends them to a buffered channel; a    *)
(* second goroutine (the closer) closes the connection when the context is *)
(* cancelled; the caller receives from the channel, or stops doing so.     *)
(* The ADB server sends frames, goes away or resets the connection.        *)
(*                                                                         *)
(* A frame is a number; its header and its payload travel as two items, so *)
(* that the connection can be lost between them.                           *)
(***************************************************************************)
EXTENDS Naturals, Sequences

CONSTANTS
  Cap,         \* capacity of the channel (8 in the code)
  MaxFrames,   \* bound: frames the server sends
  FrameKinds   \* the frames it sends: "full", "empty", or "bad" (no hex length)

ASSUME TrackAssumption ==
  /\ Cap \in Nat \ {0}
  /\ MaxFrames \in Nat
  /\ FrameKinds \subseteq {"full", "empty", "bad"}

VARIABLES
  pc,        \* where the producer is
  ev,        \* the event sendEvent is sending
  resume,    \* where the producer goes after it
  conn,      \* the client's end: "none", "open", "closed"
  closer,    \* the closer: "none", "watching", "gone"
  ctxDone,   \* ctx is cancelled
  ch,        \* the events in the channel
  server,    \* "up", "gone" (orderly close) or "reset"
  frames,    \* frames the server has begun to send
  owed,      \* it owes the payload of the last one
  wire,      \* the items on the way to the client
  consumer,  \* "reading", "deserted", "returned" (Err) or "finished" (closed)
  received   \* the events it received

producer == <<pc, ev, resume>>
link     == <<server, frames, owed>>
caller   == <<consumer, received>>
vars == <<producer, conn, closer, ctxDone, ch, link, wire, caller>>

NoEvent  == [frame |-> 0, err |-> "nil"]
Payload(k) == [frame |-> k, err |-> "nil"]
ErrEvent(e)  == [frame |-> 0, err |-> e]

chClosed  == pc = "done"
stopClose == pc \in {"hangup", "close", "done"}

-----------------------------------------------------------------------------
(* The producer.                                                           *)

Goto(label) == pc' = label /\ UNCHANGED <<ev, resume>>

\* sendEvent(e), followed by what stands at label.
Emit(e, label) == pc' = "send" /\ ev' = e /\ resume' = label

Begin ==
  /\ pc = "begin"
  /\ IF ctxDone THEN Emit(ErrEvent("ctx"), "close") ELSE Goto("dial")
  /\ UNCHANGED <<conn, closer, ctxDone, ch, link, wire, caller>>

\* Dialling is not interrupted by the context; it also starts the closer.
Dial ==
  /\ pc = "dial"
  /\ \/ /\ server = "up"
        /\ conn' = "open"
        /\ closer' = "watching"
        /\ Goto("command")
     \/ Emit(ErrEvent("dial"), "close") /\ UNCHANGED <<conn, closer>>
  /\ UNCHANGED <<ctxDone, ch, link, wire, caller>>

Command ==
  /\ pc = "command"
  /\ \/ conn = "open" /\ Goto("status")
     \/ (conn = "closed" \/ server # "up") /\ Emit(ErrEvent("write"), "stop")
  /\ UNCHANGED <<conn, closer, ctxDone, ch, link, wire, caller>>

\* OKAY; or FAIL, another status, a lost connection or 3 s without an answer.
Status ==
  /\ pc = "status"
  /\ \/ conn = "open" /\ server # "reset" /\ Goto("header")
     \/ Emit(ErrEvent("status"), "stop")
  /\ UNCHANGED <<conn, closer, ctxDone, ch, link, wire, caller>>

\* One successful io.ReadFull.
Read(m) ==
  /\ conn = "open"
  /\ server # "reset"
  /\ wire # <<>>
  /\ m = Head(wire)
  /\ wire' = Tail(wire)

Broken == conn = "closed" \/ server = "reset" \/ (server = "gone" /\ wire = <<>>)

\* A read error that is taken for a temporary one.
ReadFails_Retries ==
  /\ Broken
  /\ Goto(pc)
  /\ UNCHANGED wire

\* io.ReadFull fails: the context first, then an end of file, then the error.
ReadFails ==
  /\ Broken
  /\ \/ ctxDone /\ Emit(ErrEvent("ctx"), "stop")
     \/ ~ctxDone /\ server = "gone" /\ Goto("stop")
     \/ ~ctxDone /\ server = "reset" /\ Emit(ErrEvent("read"), "stop")
  /\ UNCHANGED wire

\* Stopping at an empty device list, as if it were the end of the stream.
ReadHeader_EmptyEnds ==
  /\ pc = "header"
  /\ \/ \E k \in 1..frames :
           \/ Read(<<"full", k>>)  /\ Goto("payload")
           \/ Read(<<"empty", k>>) /\ Goto("stop")
           \/ Read(<<"bad", k>>)   /\ Emit(ErrEvent("parse"), "stop")
     \/ ReadFails
  /\ UNCHANGED <<conn, closer, ctxDone, ch, link, caller>>

ReadHeader ==
  /\ pc = "header"
  /\ \/ \E k \in 1..frames :
           \/ Read(<<"full", k>>)  /\ Goto("payload")
           \/ Read(<<"empty", k>>) /\ Emit(Payload(k), "header")
           \/ Read(<<"bad", k>>)   /\ Emit(ErrEvent("parse"), "stop")
     \/ ReadFails
  /\ UNCHANGED <<conn, closer, ctxDone, ch, link, caller>>

ReadPayload ==
  /\ pc = "payload"
  /\ \/ \E k \in 1..frames : Read(<<"rest", k>>) /\ Emit(Payload(k), "header")
     \/ ReadFails
  /\ UNCHANGED <<conn, closer, ctxDone, ch, link, caller>>

Sent == pc' = resume /\ UNCHANGED <<ev, resume>>

\* A sendEvent that does not listen to the context.
Send_Blocks ==
  /\ pc = "send"
  /\ Len(ch) < Cap
  /\ ch' = Append(ch, ev)
  /\ Sent
  /\ UNCHANGED <<conn, closer, ctxDone, link, wire, caller>>

\* A sendEvent that never waits: the sends queue up in goroutines of their own.
Send_Queues ==
  /\ pc = "send"
  /\ ch' = Append(ch, ev)
  /\ Sent
  /\ UNCHANGED <<conn, closer, ctxDone, link, wire, caller>>

\* A sendEvent that drops the event when the channel is full.
Send_Drops ==
  /\ pc = "send"
  /\ IF Len(ch) < Cap THEN ch' = Append(ch, ev) ELSE UNCHANGED ch
  /\ Sent
  /\ UNCHANGED <<conn, closer, ctxDone, link, wire, caller>>

\* The select of sendEvent: either case when both are ready.
Send ==
  /\ pc = "send"
  /\ \/ Len(ch) < Cap /\ ch' = Append(ch, ev)
     \/ ctxDone /\ UNCHANGED ch
  /\ Sent
  /\ UNCHANGED <<conn, closer, ctxDone, link, wire, caller>>

\* The deferred calls, last one first.
StopCloser ==
  /\ pc = "stop"
  /\ Goto("hangup")
  /\ UNCHANGED <<conn, closer, ctxDone, ch, link, wire, caller>>

HangUp ==
  /\ pc = "hangup"
  /\ conn' = "closed"
  /\ Goto("close")
  /\ UNCHANGED <<closer, ctxDone, ch, link, wire, caller>>

CloseChannel ==
  /\ pc = "close"
  /\ Goto("done")
  /\ UNCHANGED <<conn, closer, ctxDone, ch, link, wire, caller>>

Producer == \/ Begin \/ Dial \/ Command \/ Status \/ ReadHeader \/ ReadPayload
            \/ Send \/ StopCloser \/ HangUp \/ CloseChannel

-----------------------------------------------------------------------------
(* The closer, the caller and the server.                                  *)

Closer ==
  /\ closer = "watching"
  /\ \/ ctxDone /\ conn' = "closed"
     \/ stopClose /\ UNCHANGED conn
  /\ closer' = "gone"
  /\ UNCHANGED <<producer, ctxDone, ch, link, wire, caller>>

Cancel ==
  /\ ~ctxDone
  /\ ctxDone' = TRUE
  /\ UNCHANGED <<producer, conn, closer, ch, link, wire, caller>>

\* The caller's range loop; it may also return on an error of its own.
Receive ==
  /\ consumer = "reading"
  /\ \/ /\ ch # <<>>
        /\ received' = Append(received, Head(ch))
        /\ ch' = Tail(ch)
        /\ IF Head(ch).err # "nil" THEN consumer' = "returned"
           ELSE consumer' \in {"reading", "deserted"}
     \/ /\ ch = <<>>
        /\ chClosed
        /\ consumer' = "finished"
        /\ UNCHANGED <<ch, received>>
  /\ UNCHANGED <<producer, conn, closer, ctxDone, link, wire>>

Frame(kind) ==
  /\ server = "up" /\ conn # "none"
  /\ ~owed
  /\ frames < MaxFrames
  /\ frames' = frames + 1
  /\ owed' = (kind = "full")
  /\ wire' = Append(wire, <<kind, frames + 1>>)
  /\ UNCHANGED <<producer, conn, closer, ctxDone, ch, server, caller>>

Rest ==
  /\ server = "up"
  /\ owed
  /\ owed' = FALSE
  /\ wire' = Append(wire, <<"rest", frames>>)
  /\ UNCHANGED <<producer, conn, closer, ctxDone, ch, server, frames, caller>>

Vanish ==
  /\ server = "up"
  /\ server' \in {"gone", "reset"}
  /\ UNCHANGED <<producer, conn, closer, ctxDone, ch, frames, owed, wire, caller>>

Init ==
  /\ pc = "begin"
  /\ ev = NoEvent
  /\ resume = "close"
  /\ conn = "none"
  /\ closer = "none"
  /\ ctxDone \in BOOLEAN
  /\ ch = <<>>
  /\ server = "up"
  /\ frames = 0
  /\ owed = FALSE
  /\ wire = <<>>
  /\ consumer = "reading"
  /\ received = <<>>

Next == \/ Producer \/ Closer \/ Receive \/ Cancel
        \/ \E kind \in FrameKinds : Frame(kind)
        \/ Rest \/ Vanish

Spec == Init /\ [][Next]_vars

\* The goroutines run; the caller receives as long as its loop lasts.
Fairness == WF_vars(Producer) /\ WF_vars(Closer) /\ WF_vars(Receive)

FairSpec == Spec /\ Fairness

-----------------------------------------------------------------------------
(* Properties.                                                             *)

Labels == {"begin", "dial", "command", "status", "header", "payload", "send",
           "stop", "hangup", "close", "done"}
Errors == {"nil", "ctx", "dial", "write", "status", "read", "parse"}
Events == [frame : 0..MaxFrames, err : Errors]
Items  == {"full", "empty", "bad", "rest"} \X (1..MaxFrames)

\* Every variable keeps its type: the channel never holds more than its buffer.
TypeOK ==
  /\ pc \in Labels
  /\ ev \in Events
  /\ resume \in {"header", "stop", "close"}
  /\ conn \in {"none", "open", "closed"}
  /\ closer \in {"none", "watching", "gone"}
  /\ ctxDone \in BOOLEAN
  /\ ch \in Seq(Events) /\ Len(ch) <= Cap
  /\ server \in {"up", "gone", "reset"}
  /\ frames \in 0..MaxFrames
  /\ owed \in BOOLEAN
  /\ wire \in Seq(Items)
  /\ consumer \in {"reading", "deserted", "returned", "finished"}
  /\ received \in Seq(Events)

\* The events of the stream, those received and those that wait in the channel.
Line == received \o ch

\* The caller gets the device lists in order, none twice and, until the context
\* is cancelled, none left out; an Err event comes last.
Stream == INSTANCE EventStream WITH
  published <- IF owed THEN frames - 1 ELSE frames,
  events    <- [i \in DOMAIN Line |-> Line[i].frame],
  cancelled <- ctxDone,
  closed    <- chClosed

StreamPromise == Stream!Spec

Released == chClosed /\ conn # "open" /\ closer # "watching"

\* Once the context is cancelled, both goroutines end and the connection and the
\* channel are closed, whether or not anyone still receives.
CancelEndsStream == ctxDone ~> Released

\* A lost connection ends them too, unless the caller has stopped receiving.
LossEndsStream == server # "up" ~> Released \/ (consumer = "deserted" /\ ~ctxDone)

\* A device list that was sent in full reaches a caller who keeps receiving, even
\* if the server goes away right after it; only a reset may lose it.
ListsArrive ==
  \A k \in 1..MaxFrames :
    frames > k \/ (frames = k /\ ~owed) ~>
      \/ \E i \in DOMAIN received : received[i].frame = k
      \/ ctxDone \/ server = "reset" \/ consumer \in {"deserted", "returned"}

-----------------------------------------------------------------------------
(* The inductive invariant that the safety properties follow from.         *)

Early  == {"begin", "dial", "command", "status"}
Ending == {"stop", "hangup", "close", "done"}

\* The number of the last event; 0 for an Err event or none.
LastSent == IF Line = <<>> THEN 0 ELSE Line[Len(Line)].frame

\* The frame that the client will read of next, and whether it has its header.
Upcoming == IF wire # <<>> THEN Head(wire)[2] ELSE IF owed THEN frames ELSE frames + 1
Half     == IF wire # <<>> THEN Head(wire)[1] = "rest" ELSE owed

\* The items on the wire are those of consecutive frames, up to the last one.
WireInv ==
  /\ \A i \in DOMAIN wire : wire[i][2] <= frames
  /\ \A i, j \in DOMAIN wire : j = i + 1 =>
       /\ wire[j][2] = IF wire[i][1] = "full" THEN wire[i][2] ELSE wire[i][2] + 1
       /\ wire[j][1] = "rest" <=> wire[i][1] = "full"
  /\ wire # <<>> => /\ wire[Len(wire)][2] = frames
                    /\ wire[Len(wire)][1] = "full" <=> owed
  /\ owed => frames > 0

\* The producer sends what it has read and goes on, or an error and ends.
EventInv ==
  /\ pc = "send" => (ev.frame = 0 <=> resume # "header")
  /\ pc \in Early => Line = <<>>
  /\ Line # <<>> /\ LastSent = 0 => pc \in Ending

\* What the client holds is the frame before the one it will read of next, and the last
\* event that of the frame before that; events are left out only after cancellation.
OrderInv ==
  /\ pc \in Early \cup {"header"} => ~Half
  /\ pc = "payload" => Half
  /\ pc \in Early \cup {"header", "payload"} =>
       LastSent < Upcoming /\ (ctxDone \/ LastSent = Upcoming - 1)
  /\ pc = "send" /\ ev.frame # 0 =>
       /\ ~Half /\ ev.frame = Upcoming - 1
       /\ LastSent < ev.frame /\ (ctxDone \/ LastSent = ev.frame - 1)

IInv == TypeOK /\ WireInv /\ EventInv /\ OrderInv
=============================================================================
