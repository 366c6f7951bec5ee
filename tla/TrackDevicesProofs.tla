------------------------- MODULE TrackDevicesProofs -------------------------
(* What holds of TrackDevices for every value of its constants.            *)
EXTENDS TrackDevices, SequenceTheorems, TLAPS

USE TrackAssumption

(***************************************************************************)
(* Sequences: one that loses its head or gains an element, and the numbers *)
(* of its events.                                                          *)
(***************************************************************************)
LEMMA Shifted ==
  ASSUME NEW S, NEW r \in Seq(S), NEW s \in Seq(S), s # <<>>
  PROVE  /\ Head(s) \in S /\ Tail(s) \in Seq(S) /\ Append(r, Head(s)) \in Seq(S)
         /\ Append(r, Head(s)) \o Tail(s) = r \o s
<1>1. Head(s) \in S /\ Tail(s) \in Seq(S) /\ Append(r, Head(s)) \in Seq(S)
  BY HeadTailProperties
<1>2. Append(r, Head(s)) = r \o <<Head(s)>> /\ <<Head(s)>> \in Seq(S)
  BY <1>1
<1>3. <<Head(s)>> \o Tail(s) = s
  BY <1>1
<1>4. (r \o <<Head(s)>>) \o Tail(s) = r \o (<<Head(s)>> \o Tail(s))
  BY <1>1, <1>2, ConcatAssociative
<1> QED
  BY <1>1, <1>2, <1>3, <1>4

LEMMA Extended ==
  ASSUME NEW S, NEW r \in Seq(S), NEW s \in Seq(S), NEW e \in S
  PROVE  /\ Append(s, e) \in Seq(S) /\ r \o s \in Seq(S)
         /\ r \o Append(s, e) = Append(r \o s, e)
<1>1. <<e>> \in Seq(S) /\ r \o s \in Seq(S) /\ Append(s, e) \in Seq(S)
  BY ConcatProperties
<1>2. Append(s, e) = s \o <<e>> /\ Append(r \o s, e) = (r \o s) \o <<e>>
  BY <1>1
<1>3. (r \o s) \o <<e>> = r \o (s \o <<e>>)
  BY <1>1, ConcatAssociative
<1> QED
  BY <1>1, <1>2, <1>3

Numbers(s) == [i \in DOMAIN s |-> s[i].frame]

LEMMA NumbersSeq ==
  ASSUME NEW s \in Seq(Events)
  PROVE  Numbers(s) \in Seq(Nat) /\ Len(Numbers(s)) = Len(s)
<1>1. \A e \in Events : e.frame \in Nat
  BY DEF Events
<1>2. \A i \in 1..Len(s) : s[i] \in Events
  BY ElementOfSeq
<1>3. DOMAIN s = 1..Len(s) /\ Len(s) \in Nat
  OBVIOUS
<1> QED
  BY <1>1, <1>2, <1>3 DEF Numbers

LEMMA NumbersAppend ==
  ASSUME NEW s \in Seq(Events), NEW e \in Events
  PROVE  Numbers(Append(s, e)) = Append(Numbers(s), e.frame)
<1>1. e.frame \in Nat /\ Append(s, e) \in Seq(Events)
  BY DEF Events
<1>2. /\ Numbers(s) \in Seq(Nat) /\ Len(Numbers(s)) = Len(s)
      /\ Numbers(Append(s, e)) \in Seq(Nat) /\ Len(Numbers(Append(s, e))) = Len(s) + 1
  <2>1. Numbers(s) \in Seq(Nat) /\ Len(Numbers(s)) = Len(s)
    BY NumbersSeq
  <2>2. Numbers(Append(s, e)) \in Seq(Nat) /\ Len(Numbers(Append(s, e))) = Len(Append(s, e))
    BY <1>1, NumbersSeq
  <2>3. Len(Append(s, e)) = Len(s) + 1
    OBVIOUS
  <2> QED
    BY <2>1, <2>2, <2>3
<1>3. Append(Numbers(s), e.frame) \in Seq(Nat) /\ Len(Append(Numbers(s), e.frame)) = Len(s) + 1
  BY <1>1, <1>2
<1>4. \A i \in 1..Len(s) + 1 : Numbers(Append(s, e))[i] = Append(Numbers(s), e.frame)[i]
  <2>1. \A i \in 1..Len(s) + 1 : Numbers(Append(s, e))[i] = Append(s, e)[i].frame
    BY <1>1 DEF Numbers
  <2>2. \A i \in 1..Len(s) : Numbers(s)[i] = s[i].frame
    BY DEF Numbers
  <2> SUFFICES ASSUME NEW i \in 1..Len(s) + 1
               PROVE  Numbers(Append(s, e))[i] = Append(Numbers(s), e.frame)[i]
    OBVIOUS
  <2>3. CASE i \in 1..Len(s)
    <3>1. Append(s, e)[i] = s[i]
      BY <2>3
    <3>2. Append(Numbers(s), e.frame)[i] = Numbers(s)[i]
      BY <1>1, <1>2, <2>3
    <3> QED
      BY <2>1, <2>2, <2>3, <3>1, <3>2
  <2>4. CASE i = Len(s) + 1
    <3>1. Append(s, e)[i] = e
      BY <2>4
    <3>2. Append(Numbers(s), e.frame)[i] = e.frame
      BY <1>1, <1>2, <2>4
    <3> QED
      BY <2>1, <3>1, <3>2
  <2>5. i \in 1..Len(s) \/ i = Len(s) + 1
    OBVIOUS
  <2> QED
    BY <2>3, <2>4, <2>5, Zenon
<1> QED
  BY <1>2, <1>3, <1>4, SeqEqual

(***************************************************************************)
(* The last event.                                                         *)
(***************************************************************************)
LEMMA LineSeq == TypeOK => Line \in Seq(Events) /\ LastSent \in Nat
<1> SUFFICES ASSUME TypeOK PROVE Line \in Seq(Events) /\ LastSent \in Nat
  OBVIOUS
<1>1. Line \in Seq(Events)
  BY ConcatProperties DEF TypeOK, Line
<1>2. Line # <<>> => Line[Len(Line)] \in Events
  BY <1>1
<1> QED
  BY <1>1, <1>2 DEF LastSent, Events

LEMMA LastAppended ==
  ASSUME TypeOK, NEW e \in Events, Line' = Append(Line, e)
  PROVE  Line' # <<>> /\ LastSent' = e.frame
<1>1. Line \in Seq(Events)
  BY LineSeq
<1>2. /\ Append(Line, e) # <<>> /\ Len(Append(Line, e)) = Len(Line) + 1
      /\ Append(Line, e)[Len(Line) + 1] = e
  BY <1>1
<1> QED
  BY <1>2 DEF LastSent

(***************************************************************************)
(* Initially the invariant holds.                                          *)
(***************************************************************************)
LEMMA InitInv == Init => IInv
<1> SUFFICES ASSUME Init PROVE IInv
  OBVIOUS
<1>1. TypeOK
  <2>1. ch \in Seq(Events) /\ received \in Seq(Events) /\ wire \in Seq(Items) /\ Len(ch) <= Cap
    BY EmptySeq DEF Init
  <2>2. ev \in Events
    BY DEF Init, NoEvent, Events, Errors
  <2>3. pc \in Labels /\ frames \in 0..MaxFrames
    BY DEF Init, Labels
  <2> QED
    BY <2>1, <2>2, <2>3 DEF Init, TypeOK
<1>2. Line = <<>>
  BY ConcatEmptySeq, EmptySeq DEF Init, Line
<1>3. WireInv /\ EventInv /\ OrderInv
  BY <1>2 DEF Init, WireInv, EventInv, OrderInv, LastSent, Upcoming, Half, Early
<1> QED
  BY <1>1, <1>3 DEF IInv

(***************************************************************************)
(* Steps that neither read nor send anything: the producer moves on before *)
(* its first read or after its last, or has an error to send.              *)
(***************************************************************************)
Moves ==
  \/ UNCHANGED <<pc, ev, resume>>
  \/ pc \in Early /\ pc' \in Early \cup {"header"} /\ UNCHANGED <<ev, resume>>
  \/ pc' \in Ending /\ UNCHANGED <<ev, resume>>
  \/ /\ pc \notin Ending \cup {"send"}
     /\ pc' = "send" /\ ev' \in Events /\ ev'.frame = 0 /\ resume' \in {"stop", "close"}

LEMMA QuietStep ==
  ASSUME IInv, Moves, UNCHANGED <<ch, received, wire, frames, owed>>, ctxDone => ctxDone',
         conn' \in {"none", "open", "closed"}, closer' \in {"none", "watching", "gone"},
         ctxDone' \in BOOLEAN, server' \in {"up", "gone", "reset"},
         consumer' \in {"reading", "deserted", "returned", "finished"}
  PROVE  IInv'
<1>1. TypeOK /\ WireInv /\ EventInv /\ OrderInv
  BY DEF IInv
<1>2. Line' = Line /\ LastSent' = LastSent /\ Upcoming' = Upcoming /\ (Half' <=> Half)
  BY DEF Line, LastSent, Upcoming, Half
<1>3. pc' \in Labels /\ ev' \in Events /\ resume' \in {"header", "stop", "close"}
  BY <1>1 DEF Moves, TypeOK, Labels, Early, Ending
<1>4. TypeOK'
  BY <1>1, <1>3 DEF TypeOK
<1>5. WireInv'
  BY <1>1 DEF WireInv
<1>6. EventInv'
  BY <1>1, <1>2 DEF EventInv, Moves, Early, Ending
<1>7. OrderInv'
  BY <1>1, <1>2 DEF OrderInv, Moves, Early, Ending
<1> QED
  BY <1>4, <1>5, <1>6, <1>7 DEF IInv

LEMMA ErrorMoves ==
  ASSUME NEW e \in Errors, NEW l \in {"stop", "close"}, Emit(ErrEvent(e), l),
         pc \notin Ending \cup {"send"}
  PROVE  Moves
<1>1. ErrEvent(e) \in Events /\ ErrEvent(e).frame = 0
  BY DEF ErrEvent, Events
<1> QED
  BY <1>1 DEF Moves, Emit

LEMMA ProducerStep ==
  ASSUME IInv, Begin \/ Dial \/ Command \/ Status \/ StopCloser \/ HangUp \/ CloseChannel
  PROVE  IInv'
<1>1. /\ UNCHANGED <<ch, received, wire, frames, owed, ctxDone, server, consumer>>
      /\ conn' \in {"none", "open", "closed"} /\ closer' \in {"none", "watching", "gone"}
      /\ server \in {"up", "gone", "reset"} /\ ctxDone \in BOOLEAN
      /\ consumer \in {"reading", "deserted", "returned", "finished"}
  BY DEF Begin, Dial, Command, Status, StopCloser, HangUp, CloseChannel, link, caller, IInv, TypeOK
<1>2. /\ {"ctx", "dial", "write", "status"} \subseteq Errors
      /\ pc \in Early => pc \notin Ending \cup {"send"}
  BY DEF Errors, Early, Ending
<1>3. Moves
  <2>1. CASE Begin \/ Dial
    <3>1. pc \in Early
      BY <2>1 DEF Begin, Dial, Early
    <3>2. CASE \E e \in {"ctx", "dial"} : Emit(ErrEvent(e), "close")
      BY <1>2, <3>1, <3>2, ErrorMoves
    <3>3. CASE \E l \in {"dial", "command"} : Goto(l)
      BY <3>1, <3>3 DEF Goto, Moves, Early
    <3> QED
      BY <2>1, <3>2, <3>3 DEF Begin, Dial
  <2>2. CASE Command \/ Status
    <3>1. pc \in Early
      BY <2>2 DEF Command, Status, Early
    <3>2. CASE \E e \in {"write", "status"} : Emit(ErrEvent(e), "stop")
      BY <1>2, <3>1, <3>2, ErrorMoves
    <3>3. CASE \E l \in {"status", "header"} : Goto(l)
      BY <3>1, <3>3 DEF Goto, Moves, Early
    <3> QED
      BY <2>2, <3>2, <3>3 DEF Command, Status
  <2>3. CASE StopCloser \/ HangUp \/ CloseChannel
    BY <2>3 DEF StopCloser, HangUp, CloseChannel, Goto, Moves, Ending
  <2> QED
    BY <2>1, <2>2, <2>3
<1> QED
  BY <1>1, <1>3, QuietStep

LEMMA OutsideStep ==
  ASSUME IInv, Closer \/ Cancel \/ Vanish
  PROVE  IInv'
<1>1. /\ UNCHANGED <<pc, ev, resume, ch, received, wire, frames, owed, consumer>>
      /\ conn' \in {"none", "open", "closed"} /\ closer' \in {"none", "watching", "gone"}
      /\ server' \in {"up", "gone", "reset"}
      /\ consumer \in {"reading", "deserted", "returned", "finished"}
  BY DEF Closer, Cancel, Vanish, producer, link, caller, IInv, TypeOK
<1>2. ctxDone' \in BOOLEAN /\ (ctxDone => ctxDone')
  BY DEF Closer, Cancel, Vanish, IInv, TypeOK
<1>3. Moves
  BY <1>1 DEF Moves
<1> QED
  BY <1>1, <1>2, <1>3, QuietStep

(***************************************************************************)
(* The wire: what is left of it after a read, and what it gains.           *)
(***************************************************************************)
LEMMA WireRead ==
  ASSUME TypeOK, WireInv, NEW m, Read(m), UNCHANGED <<frames, owed>>
  PROVE  /\ wire' \in Seq(Items) /\ WireInv'
         /\ m \in Items /\ Upcoming = m[2] /\ (Half <=> m[1] = "rest")
         /\ m[1] = "full" => Half' /\ Upcoming' = m[2]
         /\ m[1] # "full" => ~Half' /\ Upcoming' = m[2] + 1
<1>1. /\ wire \in Seq(Items) /\ wire # <<>> /\ Len(wire) \in Nat /\ Len(wire) >= 1
      /\ m = wire[1] /\ Head(wire) = wire[1] /\ DOMAIN wire = 1..Len(wire)
  BY DEF Read, TypeOK
<1>2. /\ wire' \in Seq(Items) /\ Len(wire') = Len(wire) - 1 /\ DOMAIN wire' = 1..Len(wire) - 1
      /\ \A i \in 1..Len(wire) - 1 : wire'[i] = wire[i + 1]
  BY <1>1, HeadTailProperties DEF Read
<1>3. /\ \A i \in 1..Len(wire) : wire[i] \in Items
      /\ m \in Items /\ m[2] \in Nat
  BY <1>1 DEF Items
<1>4. CASE Len(wire) = 1
  <2>1. wire' = <<>> /\ Len(wire') = 0
    BY <1>2, <1>4
  <2>2. m[2] = frames /\ (m[1] = "full" <=> owed)
    BY <1>1, <1>4 DEF WireInv
  <2>3. WireInv'
    BY <1>2, <1>4, <2>1 DEF WireInv
  <2> QED
    BY <1>1, <1>2, <1>3, <2>1, <2>2, <2>3 DEF Upcoming, Half
<1>5. CASE Len(wire) # 1
  <2>1. /\ wire' # <<>> /\ Head(wire') = wire[2] /\ 1 \in DOMAIN wire /\ 2 \in DOMAIN wire
    BY <1>1, <1>2, <1>5
  <2>2. /\ wire[2][2] = IF m[1] = "full" THEN m[2] ELSE m[2] + 1
        /\ wire[2][1] = "rest" <=> m[1] = "full"
    BY <1>1, <2>1 DEF WireInv
  <2>3. WireInv'
    <3>1. \A i \in DOMAIN wire' : wire'[i][2] <= frames
      BY <1>1, <1>2 DEF WireInv
    <3>2. ASSUME NEW i \in DOMAIN wire', NEW j \in DOMAIN wire', j = i + 1
          PROVE  /\ wire'[j][2] = IF wire'[i][1] = "full" THEN wire'[i][2] ELSE wire'[i][2] + 1
                 /\ wire'[j][1] = "rest" <=> wire'[i][1] = "full"
      <4>1. /\ i + 1 \in DOMAIN wire /\ j + 1 \in DOMAIN wire /\ j + 1 = (i + 1) + 1
            /\ wire'[i] = wire[i + 1] /\ wire'[j] = wire[j + 1]
        BY <1>1, <1>2, <3>2
      <4> QED
        BY <4>1 DEF WireInv
    <3>3. /\ wire'[Len(wire')][2] = frames
          /\ wire'[Len(wire')][1] = "full" <=> owed
      <4>1. wire'[Len(wire')] = wire[Len(wire)]
        BY <1>1, <1>2, <1>5
      <4> QED
        BY <1>1, <4>1 DEF WireInv
    <3> QED
      BY <3>1, <3>2, <3>3 DEF WireInv
  <2> QED
    BY <1>1, <1>2, <1>3, <2>1, <2>2, <2>3 DEF Upcoming, Half
<1> QED
  BY <1>4, <1>5

LEMMA WireGrows ==
  ASSUME TypeOK, WireInv, NEW m \in Items, wire' = Append(wire, m),
         m[1] = "rest" <=> owed, m[1] = "full" <=> owed',
         m[2] = IF owed THEN frames ELSE frames + 1, frames' = m[2]
  PROVE  /\ wire' \in Seq(Items) /\ WireInv'
         /\ Upcoming' = Upcoming /\ (Half' <=> Half)
<1>1. /\ wire \in Seq(Items) /\ Len(wire) \in Nat /\ DOMAIN wire = 1..Len(wire)
      /\ frames \in Nat /\ frames' \in Nat /\ frames <= frames' /\ frames' > 0
  BY DEF TypeOK, Items
<1>2. /\ wire' \in Seq(Items) /\ Len(wire') = Len(wire) + 1 /\ DOMAIN wire' = 1..Len(wire) + 1
      /\ wire'[Len(wire) + 1] = m /\ \A i \in 1..Len(wire) : wire'[i] = wire[i]
      /\ wire' # <<>>
  BY <1>1
<1>3. \A i \in 1..Len(wire) : wire[i] \in Items /\ wire[i][2] \in Nat
  BY <1>1 DEF Items
<1>4. WireInv'
  <2>1. ASSUME NEW i \in DOMAIN wire' PROVE wire'[i][2] <= frames'
    <3>1. CASE i \in 1..Len(wire)
      BY <1>1, <1>2, <1>3, <3>1 DEF WireInv
    <3>2. CASE i = Len(wire) + 1
      BY <1>1, <1>2, <3>2
    <3>3. i \in 1..Len(wire) \/ i = Len(wire) + 1
      BY <1>1, <1>2
    <3> QED
      BY <3>1, <3>2, <3>3
  <2>2. ASSUME NEW i \in DOMAIN wire', NEW j \in DOMAIN wire', j = i + 1
        PROVE  /\ wire'[j][2] = IF wire'[i][1] = "full" THEN wire'[i][2] ELSE wire'[i][2] + 1
               /\ wire'[j][1] = "rest" <=> wire'[i][1] = "full"
    <3>1. CASE j \in 1..Len(wire)
      <4>1. i \in DOMAIN wire /\ j \in DOMAIN wire /\ wire'[i] = wire[i] /\ wire'[j] = wire[j]
        BY <1>1, <1>2, <2>2, <3>1
      <4> QED
        BY <2>2, <4>1 DEF WireInv
    <3>2. CASE j = Len(wire) + 1
      <4>1. i = Len(wire) /\ wire # <<>> /\ wire'[i] = wire[Len(wire)] /\ wire'[j] = m
        BY <1>1, <1>2, <2>2, <3>2
      <4>2. wire[Len(wire)][2] = frames /\ (wire[Len(wire)][1] = "full" <=> owed)
        BY <4>1 DEF WireInv
      <4> QED
        BY <4>1, <4>2
    <3>3. j \in 1..Len(wire) \/ j = Len(wire) + 1
      BY <1>1, <1>2
    <3> QED
      BY <3>1, <3>2, <3>3
  <2>3. /\ wire'[Len(wire')][2] = frames'
        /\ wire'[Len(wire')][1] = "full" <=> owed'
    BY <1>2
  <2> QED
    BY <1>1, <2>1, <2>2, <2>3 DEF WireInv
<1>5. CASE wire = <<>>
  <2>1. Head(wire') = m
    BY <1>2, <1>5
  <2> QED
    BY <1>2, <1>4, <1>5, <2>1 DEF Upcoming, Half
<1>6. CASE wire # <<>>
  <2>1. Head(wire') = Head(wire)
    BY <1>1, <1>2, <1>6
  <2> QED
    BY <1>2, <1>4, <1>6, <2>1 DEF Upcoming, Half
<1> QED
  BY <1>5, <1>6

(***************************************************************************)
(* Reading.                                                                *)
(***************************************************************************)
LEMMA ItemStep ==
  ASSUME IInv, NEW m, Read(m), pc \in {"header", "payload"},
         UNCHANGED <<conn, closer, ctxDone, ch, server, frames, owed, consumer, received>>,
         \/ pc = "header" /\ m[1] = "full" /\ Goto("payload")
         \/ m[1] # "full" /\ Emit(Payload(m[2]), "header")
         \/ Emit(ErrEvent("parse"), "stop")
  PROVE  IInv'
<1>1. TypeOK /\ WireInv /\ EventInv /\ OrderInv
  BY DEF IInv
<1>2. /\ wire' \in Seq(Items) /\ WireInv'
      /\ m \in Items /\ Upcoming = m[2] /\ (Half <=> m[1] = "rest")
      /\ m[1] = "full" => Half' /\ Upcoming' = m[2]
      /\ m[1] # "full" => ~Half' /\ Upcoming' = m[2] + 1
  BY <1>1, WireRead
<1>3. Line' = Line /\ LastSent' = LastSent /\ LastSent \in Nat
  BY <1>1, LineSeq DEF Line, LastSent
<1>4. /\ m[2] \in 1..MaxFrames /\ Payload(m[2]) \in Events /\ Payload(m[2]).frame = m[2]
      /\ ErrEvent("parse") \in Events /\ ErrEvent("parse").frame = 0
  BY <1>2 DEF Items, Payload, ErrEvent, Events, Errors
<1>5. LastSent < m[2] /\ (ctxDone \/ LastSent = m[2] - 1)
  BY <1>1, <1>2 DEF OrderInv
<1>6. pc \notin Ending => Line = <<>> \/ LastSent # 0
  BY <1>1 DEF EventInv
<1>7. pc \notin Ending /\ pc \notin Early /\ pc # "send"
  BY DEF Ending, Early
<1>8. \/ m[1] = "full" /\ pc' = "payload" /\ UNCHANGED <<ev, resume>>
      \/ m[1] # "full" /\ pc' = "send" /\ ev' = Payload(m[2]) /\ resume' = "header"
      \/ pc' = "send" /\ ev' = ErrEvent("parse") /\ resume' = "stop"
  BY DEF Goto, Emit
<1>9. TypeOK'
  <2>1. pc' \in Labels /\ ev' \in Events /\ resume' \in {"header", "stop", "close"}
    BY <1>1, <1>4, <1>8 DEF TypeOK, Labels
  <2> QED
    BY <1>1, <1>2, <2>1 DEF TypeOK
<1>10. EventInv'
  BY <1>3, <1>4, <1>6, <1>7, <1>8 DEF EventInv, Early
<1>11. OrderInv'
  BY <1>2, <1>3, <1>4, <1>5, <1>8 DEF OrderInv, Early
<1> QED
  BY <1>2, <1>9, <1>10, <1>11 DEF IInv

LEMMA ReadStep ==
  ASSUME IInv, ReadHeader \/ ReadPayload
  PROVE  IInv'
<1>1. /\ pc \in {"header", "payload"}
      /\ UNCHANGED <<conn, closer, ctxDone, ch, server, frames, owed, consumer, received>>
  BY DEF ReadHeader, ReadPayload, link, caller
<1>2. CASE ReadFails
  <2>1. UNCHANGED wire
    BY <1>2 DEF ReadFails
  <2>2. Moves
    <3>1. /\ {"ctx", "read"} \subseteq Errors /\ pc \notin Ending \cup {"send"}
      BY <1>1 DEF Errors, Ending
    <3>2. CASE \E e \in {"ctx", "read"} : Emit(ErrEvent(e), "stop")
      BY <3>1, <3>2, ErrorMoves
    <3>3. CASE Goto("stop")
      BY <3>3 DEF Goto, Moves, Ending
    <3> QED
      BY <1>2, <3>2, <3>3 DEF ReadFails
  <2> QED
    BY <1>1, <2>1, <2>2, QuietStep DEF IInv, TypeOK
<1>3. CASE ReadHeader /\ ~ReadFails
  <2>1. PICK k \in 1..frames :
          \/ Read(<<"full", k>>)  /\ Goto("payload")
          \/ Read(<<"empty", k>>) /\ Emit(Payload(k), "header")
          \/ Read(<<"bad", k>>)   /\ Emit(ErrEvent("parse"), "stop")
    BY <1>3 DEF ReadHeader
  <2>2. pc = "header"
    BY <1>3 DEF ReadHeader
  <2>3. CASE Read(<<"full", k>>)  /\ Goto("payload")
    BY <1>1, <2>2, <2>3, ItemStep
  <2>4. CASE Read(<<"empty", k>>) /\ Emit(Payload(k), "header")
    BY <1>1, <2>2, <2>4, ItemStep
  <2>5. CASE Read(<<"bad", k>>)   /\ Emit(ErrEvent("parse"), "stop")
    BY <1>1, <2>2, <2>5, ItemStep
  <2> QED
    BY <2>1, <2>3, <2>4, <2>5
<1>4. CASE ReadPayload /\ ~ReadFails
  <2>1. PICK k \in 1..frames : Read(<<"rest", k>>) /\ Emit(Payload(k), "header")
    BY <1>4 DEF ReadPayload
  <2> QED
    BY <1>1, <2>1, ItemStep
<1> QED
  BY <1>2, <1>3, <1>4

(***************************************************************************)
(* Sending and receiving.                                                  *)
(***************************************************************************)
LEMMA SendStep ==
  ASSUME IInv, Send
  PROVE  IInv'
<1>1. /\ TypeOK /\ WireInv /\ EventInv /\ OrderInv
      /\ pc = "send" /\ pc' = resume
      /\ UNCHANGED <<ev, resume, conn, closer, ctxDone, server, frames, owed, wire, consumer, received>>
  BY DEF IInv, Send, Sent, link, caller
<1>2. /\ Upcoming' = Upcoming /\ (Half' <=> Half) /\ ev \in Events /\ LastSent \in Nat
      /\ resume \in {"header", "stop", "close"} /\ ev.frame \in Nat /\ Upcoming \in Nat
  <2>1. wire # <<>> => Head(wire) \in Items
    BY <1>1 DEF TypeOK
  <2>2. Upcoming \in Nat
    BY <1>1, <2>1 DEF Upcoming, Items, TypeOK
  <2> QED
    BY <1>1, <2>2, LineSeq DEF Upcoming, Half, TypeOK, Events
<1>3. WireInv'
  BY <1>1 DEF WireInv
<1>4. CASE Len(ch) < Cap /\ ch' = Append(ch, ev)
  <2>1. ch' \in Seq(Events) /\ Len(ch') <= Cap
    BY <1>1, <1>2, <1>4 DEF TypeOK
  <2>2. Line' = Append(Line, ev)
    BY <1>1, <1>2, <1>4, Extended DEF Line, TypeOK
  <2>3. Line' # <<>> /\ LastSent' = ev.frame
    BY <1>1, <1>2, <2>2, LastAppended
  <2>4. TypeOK'
    BY <1>1, <1>2, <2>1 DEF TypeOK, Labels
  <2>5. EventInv' /\ OrderInv'
    BY <1>1, <1>2, <2>3 DEF EventInv, OrderInv, Early, Ending
  <2> QED
    BY <1>3, <2>4, <2>5 DEF IInv
<1>5. CASE ctxDone /\ UNCHANGED ch
  <2>1. Line' = Line /\ LastSent' = LastSent
    BY <1>1, <1>5 DEF Line, LastSent
  <2>2. TypeOK'
    BY <1>1, <1>2, <1>5 DEF TypeOK, Labels
  <2>3. EventInv' /\ OrderInv'
    BY <1>1, <1>2, <1>5, <2>1 DEF EventInv, OrderInv, Early, Ending
  <2> QED
    BY <1>3, <2>2, <2>3 DEF IInv
<1> QED
  BY <1>4, <1>5 DEF Send

LEMMA ReceiveStep ==
  ASSUME IInv, Receive
  PROVE  IInv' /\ Line' = Line
<1>1. /\ TypeOK /\ WireInv /\ EventInv /\ OrderInv
      /\ UNCHANGED <<pc, ev, resume, conn, closer, ctxDone, server, frames, owed, wire>>
      /\ consumer' \in {"reading", "deserted", "returned", "finished"}
  BY DEF IInv, Receive, producer, link
<1>2. ch' \in Seq(Events) /\ received' \in Seq(Events) /\ Len(ch') <= Cap /\ Line' = Line
  <2>1. CASE ch # <<>> /\ received' = Append(received, Head(ch)) /\ ch' = Tail(ch)
    <3>1. ch \in Seq(Events) /\ received \in Seq(Events) /\ Len(ch) <= Cap
      BY <1>1 DEF TypeOK
    <3>2. Line' = Line /\ ch' \in Seq(Events) /\ received' \in Seq(Events)
      BY <2>1, <3>1, Shifted DEF Line
    <3>3. Len(ch') = Len(ch) - 1 /\ Len(ch) \in Nat
      BY <2>1, <3>1
    <3> QED
      BY <3>1, <3>2, <3>3
  <2>2. CASE UNCHANGED <<ch, received>>
    BY <1>1, <2>2 DEF TypeOK, Line
  <2> QED
    BY <2>1, <2>2 DEF Receive
<1>3. LastSent' = LastSent /\ Upcoming' = Upcoming /\ (Half' <=> Half)
  BY <1>1, <1>2 DEF LastSent, Upcoming, Half
<1>4. TypeOK'
  BY <1>1, <1>2 DEF TypeOK
<1>5. WireInv' /\ EventInv' /\ OrderInv'
  BY <1>1, <1>2, <1>3 DEF WireInv, EventInv, OrderInv
<1> QED
  BY <1>2, <1>4, <1>5 DEF IInv

(***************************************************************************)
(* The server sends.                                                       *)
(***************************************************************************)
LEMMA ServerStep ==
  ASSUME IInv, Rest \/ \E kind \in FrameKinds : Frame(kind)
  PROVE  IInv'
<1>1. /\ TypeOK /\ WireInv /\ EventInv /\ OrderInv
      /\ UNCHANGED <<pc, ev, resume, conn, closer, ctxDone, ch, server, consumer, received>>
  BY DEF IInv, Rest, Frame, producer, caller
<1>2. PICK m \in Items :
        /\ wire' = Append(wire, m)
        /\ m[1] = "rest" <=> owed
        /\ m[1] = "full" <=> owed'
        /\ m[2] = (IF owed THEN frames ELSE frames + 1) /\ frames' = m[2]
        /\ owed' \in BOOLEAN
  <2>1. CASE Rest
    <3>1. <<"rest", frames>> \in Items
      BY <1>1, <2>1 DEF Rest, Items, TypeOK, WireInv
    <3> QED
      BY <2>1, <3>1 DEF Rest
  <2>2. ASSUME NEW kind \in FrameKinds, Frame(kind)
        PROVE  /\ <<kind, frames + 1>> \in Items
               /\ wire' = Append(wire, <<kind, frames + 1>>)
               /\ kind # "rest" /\ ~owed /\ (kind = "full" <=> owed') /\ frames' = frames + 1
               /\ owed' \in BOOLEAN
    <3>1. owed' \in BOOLEAN /\ (kind = "full" <=> owed')
      BY <2>2, Zenon DEF Frame
    <3>2. /\ ~owed /\ frames < MaxFrames /\ frames' = frames + 1
          /\ wire' = Append(wire, <<kind, frames + 1>>)
      BY <2>2, Zenon DEF Frame
    <3>3. /\ kind \in {"full", "empty", "bad"} /\ frames + 1 \in 1..MaxFrames
      BY <1>1, <3>2 DEF TypeOK
    <3>4. <<kind, frames + 1>> \in Items /\ kind # "rest"
      BY <3>3 DEF Items
    <3> QED
      BY <3>1, <3>2, <3>4
  <2> QED
    BY <2>1, <2>2
<1>3. /\ wire' \in Seq(Items) /\ WireInv'
      /\ Upcoming' = Upcoming /\ (Half' <=> Half)
  BY <1>1, <1>2, WireGrows
<1>4. Line' = Line /\ LastSent' = LastSent
  BY <1>1 DEF Line, LastSent
<1>5. TypeOK'
  BY <1>1, <1>2, <1>3 DEF TypeOK, Items
<1>6. EventInv' /\ OrderInv'
  BY <1>1, <1>3, <1>4 DEF EventInv, OrderInv
<1> QED
  BY <1>3, <1>5, <1>6 DEF IInv

LEMMA NextStep == IInv /\ [Next]_vars => IInv'
<1> SUFFICES ASSUME IInv, [Next]_vars PROVE IInv'
  OBVIOUS
<1>1. CASE Producer
  BY <1>1, ProducerStep, ReadStep, SendStep DEF Producer
<1>2. CASE Closer \/ Cancel \/ Vanish
  BY <1>2, OutsideStep
<1>3. CASE Receive
  BY <1>3, ReceiveStep
<1>4. CASE Rest \/ \E kind \in FrameKinds : Frame(kind)
  BY <1>4, ServerStep
<1>5. CASE UNCHANGED vars
  <2>1. UNCHANGED <<pc, ev, resume, conn, closer, ctxDone, ch, server, frames, owed, wire, consumer, received>>
    BY <1>5 DEF vars, producer, link, caller
  <2>2. Moves
    BY <2>1 DEF Moves
  <2> QED
    BY <2>1, <2>2, QuietStep DEF IInv, TypeOK
<1> QED
  BY <1>1, <1>2, <1>3, <1>4, <1>5 DEF Next

(***************************************************************************)
(* The invariant holds in every state, for every capacity of the channel   *)
(* and any number of frames.                                               *)
(***************************************************************************)
THEOREM InvariantHolds == Spec => []IInv
  BY InitInv, NextStep, PTL DEF Spec

(***************************************************************************)
(* Every variable of the stream keeps its type: the channel never holds    *)
(* more than its buffer.                                                   *)
(***************************************************************************)
THEOREM TypeCorrect == Spec => []TypeOK
<1>1. IInv => TypeOK
  BY DEF IInv
<1> QED
  BY <1>1, InvariantHolds, PTL

(***************************************************************************)
(* The refinement of EventStream.                                          *)
(***************************************************************************)
Published == IF owed THEN frames - 1 ELSE frames

LEMMA StreamLast == TypeOK => Stream!Last = LastSent
<1> SUFFICES ASSUME TypeOK PROVE Stream!Last = LastSent
  OBVIOUS
<1>1. Line \in Seq(Events) /\ Numbers(Line) \in Seq(Nat) /\ Len(Numbers(Line)) = Len(Line)
  BY LineSeq, NumbersSeq
<1>2. Stream!Last = IF Numbers(Line) = <<>> THEN 0 ELSE Numbers(Line)[Len(Numbers(Line))]
  BY DEF Stream!Last, Numbers
<1>3. Line # <<>> => Len(Line) \in DOMAIN Line
  BY <1>1
<1>4. Numbers(Line) = <<>> <=> Line = <<>>
  BY <1>1
<1> QED
  BY <1>1, <1>2, <1>3, <1>4 DEF LastSent, Numbers

\* A step that leaves the stream alone.
LEMMA Stutters ==
  ASSUME Line' = Line, UNCHANGED <<frames, owed, ctxDone>>, pc' = "done" <=> pc = "done"
  PROVE  UNCHANGED Stream!vars
<1>1. chClosed' = chClosed
  BY Zenon DEF chClosed
<1> QED
  BY <1>1 DEF Stream!vars, Numbers

LEMMA StreamInit == Init => Stream!Init
<1> SUFFICES ASSUME Init PROVE Stream!Init
  OBVIOUS
<1>1. Line = <<>>
  BY ConcatEmptySeq, EmptySeq DEF Init, Line
<1>2. [i \in DOMAIN Line |-> Line[i].frame] = <<>>
  BY <1>1
<1>3. chClosed = FALSE
  BY DEF Init, chClosed
<1> QED
  BY <1>2, <1>3 DEF Init, Stream!Init

LEMMA SendMaps ==
  ASSUME IInv, Send
  PROVE  [Stream!Next]_(Stream!vars)
<1>1. /\ TypeOK /\ WireInv /\ EventInv /\ OrderInv /\ pc = "send" /\ pc' = resume
      /\ UNCHANGED <<frames, owed, ctxDone, received>>
  BY DEF IInv, Send, Sent, link, caller
<1>2. /\ ev \in Events /\ ev.frame \in Nat /\ resume # "done" /\ frames \in Nat
      /\ Line \in Seq(Events)
  BY <1>1, LineSeq DEF TypeOK, Events
<1>3. CASE UNCHANGED ch
  <2>1. Line' = Line
    BY <1>1, <1>3 DEF Line
  <2> QED
    BY <1>1, <1>2, <2>1, Stutters
<1>4. CASE ch' = Append(ch, ev)
  <2>1. Line' = Append(Line, ev)
    BY <1>1, <1>2, <1>4, Extended DEF Line, TypeOK
  <2>2. Numbers(Line)' = Append(Numbers(Line), ev.frame)
    <3>1. Numbers(Append(Line, ev)) = Append(Numbers(Line), ev.frame)
      BY <1>2, NumbersAppend
    <3> QED
      BY <2>1, <3>1 DEF Numbers
  <2>3. chClosed = FALSE /\ chClosed' = FALSE
    BY <1>1, <1>2 DEF chClosed
  <2>4. ~Stream!Ended
    <3>1. Line = <<>> \/ LastSent # 0
      BY <1>1 DEF EventInv, Ending
    <3>2. Line = <<>> => Numbers(Line) = <<>>
      BY DEF Numbers
    <3> QED
      BY <1>1, <2>3, <3>1, <3>2, StreamLast DEF Stream!Ended, Numbers
  <2>5. CASE ev.frame = 0
    <3>1. Stream!Err
      BY <1>1, <2>2, <2>3, <2>4, <2>5 DEF Stream!Err, Numbers
    <3> QED
      BY <3>1 DEF Stream!Next
  <2>6. CASE ev.frame # 0
    <3>1. /\ ~Half /\ ev.frame = Upcoming - 1
          /\ LastSent < ev.frame /\ (ctxDone \/ LastSent = ev.frame - 1)
      BY <1>1, <2>6 DEF OrderInv
    <3>2. ev.frame <= Published
      <4>1. CASE wire = <<>>
        BY <1>2, <3>1, <4>1 DEF Upcoming, Half, Published
      <4>2. CASE wire # <<>>
        <5>1. Head(wire) = wire[1] /\ 1 \in DOMAIN wire /\ wire[1] \in Items
          BY <1>1, <4>2 DEF TypeOK
        <5>2. wire[1][2] \in Nat /\ wire[1][2] <= frames
          BY <1>1, <5>1 DEF WireInv, Items
        <5> QED
          BY <1>2, <3>1, <4>2, <5>1, <5>2 DEF Upcoming, Published
      <4> QED
        BY <4>1, <4>2
    <3>3. Stream!Last = LastSent /\ LastSent \in Nat
      BY <1>1, StreamLast, LineSeq
    <3>4. Published \in Int
      BY <1>2 DEF Published
    <3>5. ev.frame \in Stream!Last + 1 .. Published /\ (ctxDone \/ ev.frame = Stream!Last + 1)
      BY <1>2, <3>1, <3>2, <3>3, <3>4
    <3>6. Stream!Update
      BY <1>1, <2>2, <2>3, <2>4, <3>5 DEF Stream!Update, Numbers, Published
    <3> QED
      BY <3>6 DEF Stream!Next
  <2> QED
    BY <2>5, <2>6
<1> QED
  BY <1>3, <1>4 DEF Send

LEMMA ServerMaps ==
  ASSUME IInv, Rest \/ \E kind \in FrameKinds : Frame(kind)
  PROVE  [Stream!Next]_(Stream!vars)
<1>1. /\ UNCHANGED <<pc, ch, received, ctxDone>> /\ frames \in Nat
      /\ \/ owed /\ ~owed' /\ frames' = frames
         \/ ~owed /\ frames' = frames + 1
  BY DEF IInv, TypeOK, Rest, Frame, producer, caller
<1>2. Line' = Line /\ chClosed' = chClosed
  BY <1>1 DEF Line, chClosed
<1>3. Published' = Published \/ Published' = Published + 1
  BY <1>1 DEF Published
<1>4. UNCHANGED <<[i \in DOMAIN Line |-> Line[i].frame], ctxDone, chClosed>>
  BY <1>1, <1>2
<1>5. CASE Published' = Published
  BY <1>4, <1>5 DEF Stream!vars, Published
<1>6. CASE Published' = Published + 1
  BY <1>4, <1>6 DEF Stream!Next, Stream!Publish, Published
<1> QED
  BY <1>3, <1>5, <1>6

LEMMA StreamStep == IInv /\ [Next]_vars => [Stream!Next]_(Stream!vars)
<1> SUFFICES ASSUME IInv, [Next]_vars PROVE [Stream!Next]_(Stream!vars)
  OBVIOUS
<1>1. CASE Send
  BY <1>1, SendMaps
<1>2. CASE Rest \/ \E kind \in FrameKinds : Frame(kind)
  BY <1>2, ServerMaps
<1>3. CASE Begin \/ Dial \/ Command \/ Status \/ ReadHeader \/ ReadPayload \/ StopCloser \/ HangUp
  <2>1. /\ UNCHANGED <<ch, received, frames, owed, ctxDone>> /\ pc # "done" /\ pc' # "done"
    BY <1>3 DEF Begin, Dial, Command, Status, ReadHeader, ReadPayload, ReadFails, StopCloser, HangUp,
                Goto, Emit, link, caller
  <2> QED
    BY <2>1, Stutters DEF Line
<1>4. CASE CloseChannel
  <2>1. UNCHANGED <<ch, received, frames, owed, ctxDone>> /\ chClosed' = TRUE
    BY <1>4 DEF CloseChannel, Goto, link, caller, chClosed
  <2>2. Stream!Close
    BY <2>1 DEF Stream!Close, Line
  <2> QED
    BY <2>2 DEF Stream!Next
<1>5. CASE Receive
  <2>1. UNCHANGED <<frames, owed, ctxDone, pc>>
    BY <1>5 DEF Receive, producer, link
  <2> QED
    BY <1>5, <2>1, ReceiveStep, Stutters
<1>6. CASE Cancel
  <2>1. UNCHANGED <<ch, received, frames, owed, pc>> /\ ctxDone' = TRUE
    BY <1>6 DEF Cancel, link, caller, producer
  <2>2. chClosed' = chClosed /\ Line' = Line
    BY <2>1 DEF Line, chClosed
  <2>3. Stream!Cancel
    BY <2>1, <2>2 DEF Stream!Cancel
  <2> QED
    BY <2>3 DEF Stream!Next
<1>7. CASE Closer \/ Vanish \/ UNCHANGED vars
  <2>1. UNCHANGED <<ch, received, frames, owed, ctxDone, pc>>
    BY <1>7 DEF Closer, Vanish, vars, producer, link, caller
  <2> QED
    BY <2>1, Stutters DEF Line
<1> QED
  BY <1>1, <1>2, <1>3, <1>4, <1>5, <1>6, <1>7 DEF Next, Producer

(***************************************************************************)
(* The channel of TrackDevices carries the device lists in order, none     *)
(* twice, and none left out before the context is cancelled; an Err event  *)
(* is the last.                                                            *)
(***************************************************************************)
THEOREM StreamKeepsPromise == Spec => StreamPromise
  BY InvariantHolds, StreamInit, StreamStep, PTL DEF Spec, StreamPromise, Stream!Spec
=============================================================================
