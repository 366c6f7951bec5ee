---------------------------- MODULE EventStream -----------------------------
(***************************************************************************)
(* What the receiver of TrackDevices' channel may rely on.  The server     *)
(* publishes device lists 1, 2, ...; the stream holds them in order, none  *)
(* twice and none left out before the context is cancelled; an Err event   *)
(* is the last one, and nothing follows the close of the channel.          *)
(***************************************************************************)
EXTENDS Naturals, Sequences

VARIABLES published,  \* device lists the server has sent in full
          events,     \* the stream: list numbers, and 0 for an Err event
          cancelled,  \* the context is done
          closed      \* the channel is closed

vars == <<published, events, cancelled, closed>>

Last  == IF events = <<>> THEN 0 ELSE events[Len(events)]
Ended == closed \/ (events # <<>> /\ Last = 0)

Init == published = 0 /\ events = <<>> /\ cancelled \in BOOLEAN /\ closed = FALSE

Publish == /\ published' = published + 1
           /\ UNCHANGED <<events, cancelled, closed>>

Update == /\ ~Ended
          /\ \E k \in Last + 1 .. published :
                /\ cancelled \/ k = Last + 1
                /\ events' = Append(events, k)
          /\ UNCHANGED <<published, cancelled, closed>>

Err == /\ ~Ended
       /\ events' = Append(events, 0)
       /\ UNCHANGED <<published, cancelled, closed>>

Cancel == /\ cancelled' = TRUE
          /\ UNCHANGED <<published, events, closed>>

Close == /\ closed' = TRUE
         /\ UNCHANGED <<published, events, cancelled>>

Next == Publish \/ Update \/ Err \/ Cancel \/ Close

Spec == Init /\ [][Next]_vars
=============================================================================
