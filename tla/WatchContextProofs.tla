-------------------------- MODULE WatchContextProofs -------------------------
(* What holds of WatchContext for every number of clients and starts.      *)
EXTENDS WatchContext, TLAPS

USE WatchAssumption DEF Gens, Free, Busy

LEMMA InitInv == Init => IInv
<1> SUFFICES ASSUME Init PROVE IInv
  OBVIOUS
<1>1. TypeOK
  <2>1. 0 \in 0..MaxStarts
    OBVIOUS
  <2>2. {armed, snapshot, recent, overdue, panicked} \subseteq BOOLEAN
    BY Zenon DEF Init
  <2> QED
    BY <2>1, <2>2 DEF Init, TypeOK
<1>2. TicketInv /\ ChannelInv /\ StopInv /\ LockInv
  BY DEF Init, TicketInv, ChannelInv, StopInv, LockInv, Fresh, Closing, Running
<1>3. NoDoubleClose /\ OneWatcher
  BY DEF Init, NoDoubleClose, OneWatcher, LiveWatcher
<1> QED
  BY <1>1, <1>2, <1>3 DEF IInv

LEMMA BeginStartStep ==
  ASSUME IInv, ~panicked, NEW c \in Clients, BeginStart(c)
  PROVE  IInv'
<1> USE DEF BeginStart, Goto, channel, watcher, screen
<1>1. PICK k \in {"idle", "poll"} : after' = [after EXCEPT ![c] = k]
  BY DEF IInv, TypeOK
<1>2. starts \in Nat /\ starts + 1 \in Gens
  BY DEF IInv, TypeOK
<1>3. TypeOK'
  <2>1. pc' = [pc EXCEPT ![c] = "start"] /\ ticket' = [ticket EXCEPT ![c] = starts + 1]
    OBVIOUS
  <2>2. UNCHANGED <<started, gen, closed, ended, mu, wpc, announce, listen, snapshot,
                    armed, recent, popup, overdue, panicked>> /\ starts' = starts + 1
    OBVIOUS
  <2> HIDE DEF BeginStart
  <2> QED
    BY <1>1, <1>2, <2>1, <2>2 DEF IInv, TypeOK
<1>4. TicketInv'
  BY DEF IInv, TypeOK, TicketInv, Fresh
<1>5. ChannelInv'
  BY DEF IInv, TypeOK, ChannelInv, Running
<1>6. StopInv'
  BY DEF IInv, TypeOK, StopInv, Closing
<1>7. LockInv' /\ NoDoubleClose' /\ OneWatcher'
  BY DEF IInv, LockInv, NoDoubleClose, OneWatcher, LiveWatcher
<1> QED
  BY <1>3, <1>4, <1>5, <1>6, <1>7 DEF IInv

LEMMA BeginWaitStep ==
  ASSUME IInv, ~panicked, NEW c \in Clients, BeginWait(c)
  PROVE  IInv'
<1> USE DEF BeginWait, Goto, channel, watcher, screen
<1>1. TypeOK'
  BY DEF IInv, TypeOK
<1>2. TicketInv'
  BY DEF IInv, TypeOK, TicketInv, Fresh
<1>3. ChannelInv'
  BY DEF IInv, TypeOK, ChannelInv, Running
<1>4. StopInv'
  BY DEF IInv, TypeOK, StopInv, Closing
<1>5. LockInv'
  BY DEF IInv, TypeOK, LockInv
<1>6. NoDoubleClose'
  BY DEF IInv, TypeOK, NoDoubleClose
<1>7. OneWatcher'
  BY DEF IInv, TypeOK, OneWatcher, LiveWatcher
<1> QED
  BY <1>1, <1>2, <1>3, <1>4, <1>5, <1>6, <1>7 DEF IInv

LEMMA BeginStopStep ==
  ASSUME IInv, ~panicked, NEW c \in Clients, BeginStop(c)
  PROVE  IInv'
<1> USE DEF BeginStop, Goto, channel, watcher, screen
<1>1. TypeOK'
  BY DEF IInv, TypeOK
<1>2. TicketInv'
  BY DEF IInv, TypeOK, TicketInv, Fresh
<1>3. ChannelInv'
  BY DEF IInv, TypeOK, ChannelInv, Running
<1>4. StopInv'
  BY DEF IInv, TypeOK, StopInv, Closing
<1>5. LockInv'
  BY DEF IInv, TypeOK, LockInv
<1>6. NoDoubleClose'
  BY DEF IInv, TypeOK, NoDoubleClose
<1>7. OneWatcher'
  BY DEF IInv, TypeOK, OneWatcher, LiveWatcher
<1> QED
  BY <1>1, <1>2, <1>3, <1>4, <1>5, <1>6, <1>7 DEF IInv

LEMMA BeginResetStep ==
  ASSUME IInv, ~panicked, NEW c \in Clients, BeginReset(c)
  PROVE  IInv'
<1> USE DEF BeginReset, Goto, channel, watcher, screen
<1>1. TypeOK'
  BY DEF IInv, TypeOK
<1>2. TicketInv'
  BY DEF IInv, TypeOK, TicketInv, Fresh
<1>3. ChannelInv'
  BY DEF IInv, TypeOK, ChannelInv, Running
<1>4. StopInv'
  BY DEF IInv, TypeOK, StopInv, Closing
<1>5. LockInv'
  BY DEF IInv, TypeOK, LockInv
<1>6. NoDoubleClose'
  BY DEF IInv, TypeOK, NoDoubleClose
<1>7. OneWatcher'
  BY DEF IInv, TypeOK, OneWatcher, LiveWatcher
<1> QED
  BY <1>1, <1>2, <1>3, <1>4, <1>5, <1>6, <1>7 DEF IInv

LEMMA EditStep ==
  ASSUME IInv, ~panicked, NEW c \in Clients, Edit(c)
  PROVE  IInv'
<1> USE DEF Edit, client, channel, watcher, screen
<1>1. TypeOK'
  BY DEF IInv, TypeOK
<1>2. TicketInv'
  BY DEF IInv, TypeOK, TicketInv, Fresh
<1>3. ChannelInv'
  BY DEF IInv, TypeOK, ChannelInv, Running
<1>4. StopInv'
  BY DEF IInv, TypeOK, StopInv, Closing
<1>5. LockInv'
  BY DEF IInv, TypeOK, LockInv
<1>6. NoDoubleClose'
  BY DEF IInv, TypeOK, NoDoubleClose
<1>7. OneWatcher'
  BY DEF IInv, TypeOK, OneWatcher, LiveWatcher
<1> QED
  BY <1>1, <1>2, <1>3, <1>4, <1>5, <1>6, <1>7 DEF IInv

LEMMA StartStep ==
  ASSUME IInv, ~panicked, NEW c \in Clients, Start(c)
  PROVE  IInv'
<1>1. /\ pc[c] = "start"
      /\ pc' = [pc EXCEPT ![c] = after[c]]
      /\ after' = [after EXCEPT ![c] = "idle"]
      /\ ticket' = [ticket EXCEPT ![c] = 0]
      /\ UNCHANGED <<starts, closed, ended, mu, announce, listen, snapshot,
                     armed, recent, popup, overdue, panicked>>
  BY DEF Start, Resume, Goto, screen
<1>2. /\ ticket[c] \in Gens
      /\ ticket[c] <= starts
      /\ Fresh(ticket[c])
      /\ wpc[ticket[c]] = "none"
      /\ \A d \in Clients : d # c => ticket[d] # ticket[c]
  BY <1>1 DEF IInv, TypeOK, TicketInv, Fresh
<1>3. /\ pc'[c] \in {"idle", "poll", "drop"}
      /\ ticket'[c] = 0
      /\ \A d \in Clients : d # c => pc'[d] = pc[d] /\ ticket'[d] = ticket[d]
  BY <1>1 DEF IInv, TypeOK
<1>4. CASE started
  <2>1. UNCHANGED <<started, gen, wpc>>
    BY <1>4 DEF Start
  <2>2. TypeOK'
    BY <1>1, <2>1 DEF IInv, TypeOK
  <2>3. TicketInv'
    BY <1>1, <1>3, <2>1 DEF IInv, TypeOK, TicketInv, Fresh
  <2>4. ChannelInv' /\ LockInv' /\ NoDoubleClose' /\ OneWatcher'
    BY <1>1, <2>1
    DEF IInv, ChannelInv, Running, LockInv, NoDoubleClose, OneWatcher, LiveWatcher
  <2>5. StopInv'
    BY <1>1, <1>3, <2>1 DEF IInv, StopInv, Closing
  <2> QED
    BY <2>2, <2>3, <2>4, <2>5 DEF IInv
<1>5. CASE ~started
  <2>1. /\ started'
        /\ gen' = ticket[c]
        /\ wpc' = [wpc EXCEPT ![ticket[c]] = "spawned"]
    BY <1>5 DEF Start
  <2>2. /\ wpc'[ticket[c]] = "spawned"
        /\ \A g \in Gens : g # ticket[c] => wpc'[g] = wpc[g]
    BY <1>2, <2>1 DEF IInv, TypeOK
  <2>3. TypeOK'
    <3>1. started' \in BOOLEAN
      BY <1>5 DEF Start
    <3>2. popup' \in BOOLEAN
      BY <1>1 DEF IInv, TypeOK
    <3>3. {armed, snapshot, recent, overdue, panicked}' \subseteq BOOLEAN
      BY <1>1 DEF IInv, TypeOK
    <3>4. /\ pc' \in [Clients -> {"idle", "start", "poll", "close", "await", "clear", "drop"}]
          /\ after' \in [Clients -> {"idle", "poll", "drop"}]
          /\ ticket' \in [Clients -> 0..MaxStarts]
      BY <1>1 DEF IInv, TypeOK
    <3>5. /\ gen' \in 0..MaxStarts
          /\ wpc' \in [Gens -> {"none", "spawned", "loop", "select", "done"} \cup Busy]
      BY <1>2, <2>1 DEF IInv, TypeOK, Gens
    <3> QED
      BY <1>1, <3>1, <3>2, <3>3, <3>4, <3>5 DEF IInv, TypeOK
  <2>4. TicketInv'
    <3>1. gen' <= starts' /\ \A d \in Clients : ticket'[d] <= starts'
      BY <1>1, <1>2, <1>3, <2>1 DEF IInv, TypeOK, TicketInv
    <3>2. \A d \in Clients : pc'[d] = "start" <=> ticket'[d] # 0
      BY <1>3 DEF IInv, TicketInv
    <3>3. \A d, e \in Clients : d # e /\ ticket'[d] = ticket'[e] => ticket'[d] = 0
      BY <1>3 DEF IInv, TicketInv
    <3>4. \A d \in Clients : ticket'[d] # 0 => Fresh(ticket[d])'
      <4> SUFFICES ASSUME NEW d \in Clients, ticket'[d] # 0 PROVE Fresh(ticket[d])'
        OBVIOUS
      <4>1. d # c /\ ticket'[d] = ticket[d] /\ ticket[d] # ticket[c]
        BY <1>2, <1>3
      <4>2. ticket[d] \in Gens /\ Fresh(ticket[d])
        BY <4>1 DEF IInv, TypeOK, TicketInv
      <4> QED
        BY <1>1, <2>1, <2>2, <4>1, <4>2 DEF Fresh
    <3>5. \A g \in Gens : g > starts' => Fresh(g)'
      <4> SUFFICES ASSUME NEW g \in Gens, g > starts PROVE Fresh(g)'
        BY <1>1
      <4>1. g # ticket[c]
        BY <1>2 DEF IInv, TypeOK
      <4> QED
        BY <1>1, <2>1, <2>2, <4>1 DEF IInv, TicketInv, Fresh
    <3> QED
      BY <3>1, <3>2, <3>3, <3>4, <3>5 DEF TicketInv
  <2>5. ChannelInv'
    BY <1>1, <1>2, <1>5, <2>1, <2>2 DEF IInv, ChannelInv, Running, Fresh, TypeOK
  <2>6. StopInv'
    <3>1. \A d \in Clients : pc'[d] \notin Closing
      BY <1>3, <1>5 DEF IInv, StopInv, Closing
    <3>2. gen' \notin closed'
      BY <1>1, <1>2, <2>1 DEF Fresh
    <3>3. \A d \in Clients : pc'[d] = "close" => d \in Stoppers
      BY <1>3 DEF IInv, StopInv
    <3> QED
      BY <3>1, <3>2, <3>3 DEF StopInv, Closing
  <2>7. LockInv'
    BY <1>1, <1>2, <2>2 DEF IInv, LockInv
  <2>8. NoDoubleClose'
    BY <1>1 DEF IInv, NoDoubleClose
  <2>9. OneWatcher'
    BY <1>1, <1>5, <2>1, <2>2 DEF IInv, OneWatcher, LiveWatcher
  <2> QED
    BY <2>3, <2>4, <2>5, <2>6, <2>7, <2>8, <2>9 DEF IInv
<1> QED
  BY <1>4, <1>5

LEMMA CloseStep ==
  ASSUME IInv, ~panicked, NEW c \in Clients, Close(c)
  PROVE  IInv'
<1>1. /\ pc[c] = "close"
      /\ UNCHANGED <<starts, ticket, started, gen, ended, mu, wpc, announce, listen,
                     snapshot, armed, recent, popup, overdue>>
  BY DEF Close, watcher, screen
<1>2. ChannelInv' /\ LockInv' /\ OneWatcher'
  BY <1>1 DEF IInv, ChannelInv, Running, LockInv, OneWatcher, LiveWatcher
<1>3. CASE started
  <2>1. /\ panicked' = (gen \in closed)
        /\ closed' = closed \cup {gen}
        /\ pc' = [pc EXCEPT ![c] = "await"]
        /\ after' = after
    BY <1>3 DEF Close, Goto
  <2>2. /\ pc'[c] = "await"
        /\ \A d \in Clients : d # c => pc'[d] = pc[d]
    BY <2>1 DEF IInv, TypeOK
  <2>3. gen \in Gens /\ panicked' \in BOOLEAN
    BY <1>3, <2>1 DEF IInv, TypeOK, ChannelInv
  <2>4. TypeOK'
    BY <1>1, <2>1, <2>3 DEF IInv, TypeOK
  <2>5. TicketInv'
    BY <1>1, <2>1, <2>2 DEF IInv, TypeOK, TicketInv, Fresh
  <2>6. NoDoubleClose'
    <3> SUFFICES ASSUME \A d, e \in Stoppers : d = e PROVE ~panicked'
      BY DEF NoDoubleClose
    <3>1. \A d \in Clients : pc[d] \notin Closing
      BY <1>1 DEF IInv, StopInv, Closing
    <3> QED
      BY <1>3, <2>1, <3>1 DEF IInv, StopInv
  <2>7. StopInv'
    <3> SUFFICES ASSUME ~panicked' PROVE StopInv'
      BY DEF StopInv
    <3>1. \A d \in Clients : pc[d] \notin Closing
      BY <1>3, <2>1 DEF IInv, StopInv
    <3> QED
      BY <1>1, <1>3, <2>1, <2>2, <3>1 DEF IInv, StopInv, Closing
  <2> QED
    BY <1>2, <2>4, <2>5, <2>6, <2>7 DEF IInv
<1>4. CASE ~started
  <2>1. /\ pc' = [pc EXCEPT ![c] = after[c]]
        /\ after' = [after EXCEPT ![c] = "idle"]
        /\ UNCHANGED <<closed, panicked>>
    BY <1>4 DEF Close, Resume, Goto
  <2>2. /\ pc'[c] \in {"idle", "poll", "drop"}
        /\ \A d \in Clients : d # c => pc'[d] = pc[d]
    BY <2>1 DEF IInv, TypeOK
  <2>3. TypeOK'
    BY <1>1, <2>1 DEF IInv, TypeOK
  <2>4. TicketInv'
    BY <1>1, <2>1, <2>2 DEF IInv, TypeOK, TicketInv, Fresh
  <2>5. StopInv' /\ NoDoubleClose'
    BY <1>1, <1>4, <2>1, <2>2 DEF IInv, StopInv, Closing, NoDoubleClose
  <2> QED
    BY <1>2, <2>3, <2>4, <2>5 DEF IInv
<1> QED
  BY <1>3, <1>4

LEMMA AwaitStep ==
  ASSUME IInv, ~panicked, NEW c \in Clients, Await(c)
  PROVE  IInv'
<1> USE DEF Await, Goto, channel, watcher, screen
<1>1. TypeOK'
  BY DEF IInv, TypeOK
<1>2. TicketInv'
  BY DEF IInv, TypeOK, TicketInv, Fresh
<1>3. ChannelInv'
  BY DEF IInv, TypeOK, ChannelInv, Running
<1>4. StopInv'
  <2>1. /\ pc'[c] = "clear" /\ pc[c] = "await"
        /\ \A d \in Clients : d # c => pc'[d] = pc[d]
    BY DEF IInv, TypeOK
  <2>2. gen \in Gens
    BY DEF IInv, TypeOK, StopInv, ChannelInv, Closing
  <2>3. wpc[gen] # "spawned" /\ (overdue' \/ gen \in ended)
    BY <2>2 DEF IInv, ChannelInv
  <2>4. \A d \in Clients : pc'[d] = "clear" => d = c
    BY <2>1 DEF IInv, StopInv, Closing
  <2> QED
    BY <2>1, <2>3, <2>4 DEF IInv, StopInv, Closing
<1>5. LockInv'
  BY DEF IInv, TypeOK, LockInv
<1>6. NoDoubleClose'
  BY DEF IInv, TypeOK, NoDoubleClose
<1>7. OneWatcher'
  BY DEF IInv, TypeOK, OneWatcher, LiveWatcher
<1> QED
  BY <1>1, <1>2, <1>3, <1>4, <1>5, <1>6, <1>7 DEF IInv

LEMMA ClearStep ==
  ASSUME IInv, ~panicked, NEW c \in Clients, Clear(c)
  PROVE  IInv'
<1> USE DEF Clear, Resume, Goto, channel, watcher, screen
<1>1. TypeOK'
  BY DEF IInv, TypeOK
<1>2. TicketInv'
  BY DEF IInv, TypeOK, TicketInv, Fresh
<1>3. ChannelInv'
  <2>1. wpc[gen] # "spawned"
    BY DEF IInv, StopInv
  <2> QED
    BY <2>1 DEF IInv, TypeOK, ChannelInv, Running
<1>4. StopInv'
  BY DEF IInv, TypeOK, StopInv, Closing
<1>5. LockInv'
  BY DEF IInv, TypeOK, LockInv
<1>6. NoDoubleClose'
  BY DEF IInv, TypeOK, NoDoubleClose
<1>7. OneWatcher'
  <2>1. overdue \/ gen \in ended
    BY DEF IInv, StopInv
  <2> QED
    BY <2>1 DEF IInv, ChannelInv, OneWatcher, LiveWatcher
<1> QED
  BY <1>1, <1>2, <1>3, <1>4, <1>5, <1>6, <1>7 DEF IInv

LEMMA DropStep ==
  ASSUME IInv, ~panicked, NEW c \in Clients, Drop(c)
  PROVE  IInv'
<1> USE DEF Drop, Goto, channel, watcher, screen
<1>1. TypeOK'
  BY DEF IInv, TypeOK
<1>2. TicketInv'
  BY DEF IInv, TypeOK, TicketInv, Fresh
<1>3. ChannelInv'
  BY DEF IInv, TypeOK, ChannelInv, Running
<1>4. StopInv'
  BY DEF IInv, TypeOK, StopInv, Closing
<1>5. LockInv'
  BY DEF IInv, TypeOK, LockInv
<1>6. NoDoubleClose'
  BY DEF IInv, TypeOK, NoDoubleClose
<1>7. OneWatcher'
  BY DEF IInv, TypeOK, OneWatcher, LiveWatcher
<1> QED
  BY <1>1, <1>2, <1>3, <1>4, <1>5, <1>6, <1>7 DEF IInv

LEMMA PollStep ==
  ASSUME IInv, ~panicked, NEW c \in Clients, Poll(c) \/ PollTimeout(c)
  PROVE  IInv'
<1>1. /\ pc[c] = "poll" /\ pc' = [pc EXCEPT ![c] = "idle"]
      /\ UNCHANGED <<after, starts, ticket, started, gen, closed, ended, mu, wpc, announce,
                     listen, snapshot, armed, recent, popup, overdue, panicked>>
  BY DEF Poll, PollTimeout, Goto, channel, watcher, screen
<1>2. TypeOK'
  BY <1>1 DEF IInv, TypeOK
<1>3. TicketInv'
  BY <1>1 DEF IInv, TypeOK, TicketInv, Fresh
<1>4. ChannelInv' /\ LockInv' /\ NoDoubleClose' /\ OneWatcher'
  BY <1>1 DEF IInv, ChannelInv, Running, LockInv, NoDoubleClose, OneWatcher, LiveWatcher
<1>5. StopInv'
  BY <1>1 DEF IInv, TypeOK, StopInv, Closing
<1> QED
  BY <1>2, <1>3, <1>4, <1>5 DEF IInv

LEMMA DeferStep ==
  ASSUME IInv, ~panicked, NEW g \in Gens, Defer(g)
  PROVE  IInv'
<1> USE DEF Defer, Move, client, channel, screen
<1>1. TypeOK'
  BY DEF IInv, TypeOK
<1>2. TicketInv'
  BY DEF IInv, TypeOK, TicketInv, Fresh
<1>3. ChannelInv'
  BY DEF IInv, TypeOK, ChannelInv, Running
<1>4. StopInv'
  BY DEF IInv, TypeOK, StopInv, Closing
<1>5. LockInv'
  BY DEF IInv, TypeOK, LockInv
<1>6. NoDoubleClose'
  BY DEF IInv, TypeOK, NoDoubleClose
<1>7. OneWatcher'
  BY DEF IInv, TypeOK, OneWatcher, LiveWatcher
<1> QED
  BY <1>1, <1>2, <1>3, <1>4, <1>5, <1>6, <1>7 DEF IInv

LEMMA SelectStep ==
  ASSUME IInv, ~panicked, NEW g \in Gens, Select(g)
  PROVE  IInv'
<1> USE DEF Select, Move, client, channel, screen
<1>1. TypeOK'
  BY DEF IInv, TypeOK
<1>2. TicketInv'
  BY DEF IInv, TypeOK, TicketInv, Fresh
<1>3. ChannelInv'
  BY DEF IInv, TypeOK, ChannelInv, Running
<1>4. StopInv'
  BY DEF IInv, TypeOK, StopInv, Closing
<1>5. LockInv'
  BY DEF IInv, TypeOK, LockInv
<1>6. NoDoubleClose'
  BY DEF IInv, TypeOK, NoDoubleClose
<1>7. OneWatcher'
  BY DEF IInv, TypeOK, OneWatcher, LiveWatcher
<1> QED
  BY <1>1, <1>2, <1>3, <1>4, <1>5, <1>6, <1>7 DEF IInv

LEMMA QuitStep ==
  ASSUME IInv, ~panicked, NEW g \in Gens, Quit(g)
  PROVE  IInv'
<1> USE DEF Quit, Move, LeaveSelect, client, screen
<1>1. announce[g] = g /\ g \notin ended
  BY DEF IInv, ChannelInv, Running
<1>2. ~panicked' /\ panicked' \in BOOLEAN
  <2>1. panicked' = (g \in ended)
    BY <1>1
  <2>2. g \notin ended
    BY <1>1
  <2> HIDE DEF Quit
  <2>3. ~panicked'
    BY <2>1, <2>2, Zenon
  <2>4. panicked' \in BOOLEAN
    BY <2>1, SMT
  <2> QED
    BY <2>3, <2>4
<1>3. TypeOK'
  <2>1. /\ wpc' = [wpc EXCEPT ![g] = "done"]
        /\ listen' = [listen EXCEPT ![g] = 0]
        /\ ended' = ended \cup {g}
        /\ UNCHANGED <<pc, after, starts, ticket, started, gen, closed, mu, announce,
                       snapshot, armed, recent, popup, overdue>>
    BY <1>1
  <2> HIDE DEF Quit
  <2>2. popup' \in BOOLEAN
    BY <2>1 DEF IInv, TypeOK
  <2>3. {armed, snapshot, recent, overdue, panicked}' \subseteq BOOLEAN
    BY <1>2, <2>1 DEF IInv, TypeOK
  <2>4. /\ wpc' \in [Gens -> {"none", "spawned", "loop", "select", "done"} \cup Busy]
        /\ listen' \in [Gens -> 0..MaxStarts]
        /\ ended' \subseteq Gens
    BY <2>1 DEF IInv, TypeOK
  <2> QED
    BY <2>1, <2>2, <2>3, <2>4 DEF IInv, TypeOK
<1>4. TicketInv'
  <2>1. \A h \in Gens : Fresh(h) => Fresh(h)'
    BY <1>1 DEF IInv, TypeOK, Fresh
  <2>2. \A c \in Clients : ticket[c] \in Nat /\ (ticket[c] # 0 => ticket[c] \in Gens)
    BY DEF IInv, TypeOK
  <2> QED
    BY <2>1, <2>2 DEF IInv, TicketInv
<1>5. ChannelInv'
  BY DEF IInv, TypeOK, ChannelInv, Running
<1>6. StopInv'
  BY DEF IInv, TypeOK, StopInv, Closing
<1>7. LockInv'
  BY DEF IInv, TypeOK, LockInv
<1>8. NoDoubleClose'
  BY <1>2 DEF NoDoubleClose
<1>9. OneWatcher'
  BY DEF IInv, TypeOK, OneWatcher, LiveWatcher
<1> QED
  BY <1>3, <1>4, <1>5, <1>6, <1>7, <1>8, <1>9 DEF IInv

LEMMA TickStep ==
  ASSUME IInv, ~panicked, NEW g \in Gens, Tick(g)
  PROVE  IInv'
<1> USE DEF Tick, Move, LeaveSelect, client, channel, screen
<1>1. TypeOK'
  BY DEF IInv, TypeOK
<1>2. TicketInv'
  BY DEF IInv, TypeOK, TicketInv, Fresh
<1>3. ChannelInv'
  BY DEF IInv, TypeOK, ChannelInv, Running
<1>4. StopInv'
  BY DEF IInv, TypeOK, StopInv, Closing
<1>5. LockInv'
  BY DEF IInv, TypeOK, LockInv
<1>6. NoDoubleClose'
  BY DEF IInv, TypeOK, NoDoubleClose
<1>7. OneWatcher'
  BY DEF IInv, TypeOK, OneWatcher, LiveWatcher
<1> QED
  BY <1>1, <1>2, <1>3, <1>4, <1>5, <1>6, <1>7 DEF IInv

LEMMA LockStep ==
  ASSUME IInv, ~panicked, NEW g \in Gens, Lock(g)
  PROVE  IInv'
<1> USE DEF Lock, Move, client, channel, screen
<1>1. TypeOK'
  BY DEF IInv, TypeOK
<1>2. TicketInv'
  BY DEF IInv, TypeOK, TicketInv, Fresh
<1>3. ChannelInv'
  BY DEF IInv, TypeOK, ChannelInv, Running
<1>4. StopInv'
  BY DEF IInv, TypeOK, StopInv, Closing
<1>5. LockInv'
  <2>1. /\ mu' = g /\ mu = Free
        /\ wpc' = [wpc EXCEPT ![g] = "check"]
        /\ \A h \in Gens : h # Free
    BY DEF Gens, Free
  <2>2. wpc'[g] = "check" /\ \A h \in Gens : h # g => wpc'[h] = wpc[h]
    BY <2>1 DEF IInv, TypeOK
  <2>3. \A h \in Gens : wpc[h] \notin {"check", "callback"}
    BY <2>1 DEF IInv, LockInv
  <2> HIDE DEF Lock
  <2> QED
    BY <2>1, <2>2, <2>3 DEF LockInv
<1>6. NoDoubleClose'
  BY DEF IInv, TypeOK, NoDoubleClose
<1>7. OneWatcher'
  BY DEF IInv, TypeOK, OneWatcher, LiveWatcher
<1> QED
  BY <1>1, <1>2, <1>3, <1>4, <1>5, <1>6, <1>7 DEF IInv

LEMMA MissStep ==
  ASSUME IInv, ~panicked, NEW g \in Gens, Miss(g)
  PROVE  IInv'
<1> USE DEF Miss, Move, Unlock, client, channel, screen
<1>1. TypeOK'
  BY DEF IInv, TypeOK
<1>2. TicketInv'
  BY DEF IInv, TypeOK, TicketInv, Fresh
<1>3. ChannelInv'
  BY DEF IInv, TypeOK, ChannelInv, Running
<1>4. StopInv'
  BY DEF IInv, TypeOK, StopInv, Closing
<1>5. LockInv'
  BY DEF IInv, TypeOK, LockInv
<1>6. NoDoubleClose'
  BY DEF IInv, TypeOK, NoDoubleClose
<1>7. OneWatcher'
  BY DEF IInv, TypeOK, OneWatcher, LiveWatcher
<1> QED
  BY <1>1, <1>2, <1>3, <1>4, <1>5, <1>6, <1>7 DEF IInv

LEMMA MatchStep ==
  ASSUME IInv, ~panicked, NEW g \in Gens, Match(g)
  PROVE  IInv'
<1> USE DEF Match, Move, client, channel, screen
<1>1. TypeOK'
  BY DEF IInv, TypeOK
<1>2. TicketInv'
  BY DEF IInv, TypeOK, TicketInv, Fresh
<1>3. ChannelInv'
  BY DEF IInv, TypeOK, ChannelInv, Running
<1>4. StopInv'
  BY DEF IInv, TypeOK, StopInv, Closing
<1>5. LockInv'
  BY DEF IInv, TypeOK, LockInv
<1>6. NoDoubleClose'
  BY DEF IInv, TypeOK, NoDoubleClose
<1>7. OneWatcher'
  BY DEF IInv, TypeOK, OneWatcher, LiveWatcher
<1> QED
  BY <1>1, <1>2, <1>3, <1>4, <1>5, <1>6, <1>7 DEF IInv

LEMMA CallbackStep ==
  ASSUME IInv, ~panicked, NEW g \in Gens, Callback(g)
  PROVE  IInv'
<1> USE DEF Callback, Move, Unlock, client, channel
<1>1. TypeOK'
  BY DEF IInv, TypeOK
<1>2. TicketInv'
  BY DEF IInv, TypeOK, TicketInv, Fresh
<1>3. ChannelInv'
  BY DEF IInv, TypeOK, ChannelInv, Running
<1>4. StopInv'
  BY DEF IInv, TypeOK, StopInv, Closing
<1>5. LockInv'
  BY DEF IInv, TypeOK, LockInv
<1>6. NoDoubleClose'
  BY DEF IInv, TypeOK, NoDoubleClose
<1>7. OneWatcher'
  BY DEF IInv, TypeOK, OneWatcher, LiveWatcher
<1> QED
  BY <1>1, <1>2, <1>3, <1>4, <1>5, <1>6, <1>7 DEF IInv

LEMMA ScreenStep ==
  ASSUME IInv, ~panicked, Popup \/ Quieten
  PROVE  IInv'
<1>0. /\ UNCHANGED <<client, started, channel, mu, watcher, armed, overdue, panicked>>
      /\ recent' \in BOOLEAN /\ popup' \in BOOLEAN
  BY DEF Popup, Quieten, IInv, TypeOK
<1> USE <1>0 DEF client, channel, watcher
<1>1. TypeOK'
  BY DEF IInv, TypeOK
<1>2. TicketInv'
  BY DEF IInv, TypeOK, TicketInv, Fresh
<1>3. ChannelInv'
  BY DEF IInv, TypeOK, ChannelInv, Running
<1>4. StopInv'
  BY DEF IInv, TypeOK, StopInv, Closing
<1>5. LockInv'
  BY DEF IInv, TypeOK, LockInv
<1>6. NoDoubleClose'
  BY DEF IInv, TypeOK, NoDoubleClose
<1>7. OneWatcher'
  BY DEF IInv, TypeOK, OneWatcher, LiveWatcher
<1> QED
  BY <1>1, <1>2, <1>3, <1>4, <1>5, <1>6, <1>7 DEF IInv

LEMMA StutterStep == ASSUME IInv, UNCHANGED vars PROVE IInv'
<1> USE DEF vars, client, channel, watcher, screen
<1>1. TypeOK'
  BY DEF IInv, TypeOK
<1>2. TicketInv' /\ ChannelInv' /\ LockInv'
  BY DEF IInv, TicketInv, Fresh, ChannelInv, Running, LockInv
<1>3. StopInv'
  BY DEF IInv, StopInv, Closing
<1>4. NoDoubleClose' /\ OneWatcher'
  BY DEF IInv, NoDoubleClose, OneWatcher, LiveWatcher
<1> QED
  BY <1>1, <1>2, <1>3, <1>4 DEF IInv

LEMMA StepInv == IInv /\ [Next]_vars => IInv'
<1> SUFFICES ASSUME IInv, [Next]_vars PROVE IInv'
  OBVIOUS
<1>1. CASE UNCHANGED vars
  BY <1>1, StutterStep
<1>2. ASSUME ~panicked, NEW c \in Clients, Client(c) PROVE IInv'
  BY <1>2, BeginStartStep, BeginWaitStep, BeginStopStep, BeginResetStep, EditStep,
     StartStep, CloseStep, AwaitStep, ClearStep, DropStep, PollStep DEF Client, Proceed
<1>3. ASSUME ~panicked, NEW g \in Gens, Watcher(g) PROVE IInv'
  BY <1>3, DeferStep, SelectStep, QuitStep, TickStep, LockStep, MissStep, MatchStep,
     CallbackStep DEF Watcher, Run
<1>4. CASE ~panicked /\ (Popup \/ Quieten)
  BY <1>4, ScreenStep
<1> QED
  BY <1>1, <1>2, <1>3, <1>4 DEF Next

-----------------------------------------------------------------------------
(* The theorems.                                                           *)

\* The inductive invariant holds of every reachable state, for every number of
\* clients and of calls of Start (watcher.go:150-240).
THEOREM InvariantHolds == Spec => []IInv
BY InitInv, StepInv, PTL DEF Spec

\* Every variable keeps its type (the fields of WatchContext, watcher.go:25-36).
THEOREM TypeCorrect == Spec => []TypeOK
<1>1. IInv => TypeOK
  BY DEF IInv
<1> QED
  BY <1>1, InvariantHolds, PTL

\* With one stopping goroutine, neither Stop's close(wc.stopCh) nor the deferred
\* close(wc.stopped) of runForever ever closes a closed channel.
THEOREM ChannelsClosedOnce == Spec => []NoDoubleClose
<1>1. IInv => NoDoubleClose
  BY DEF IInv
<1> QED
  BY <1>1, InvariantHolds, PTL

\* Unless a Stop gave up after 10 s, Start never leaves two goroutines watching,
\* and a Stop that has returned leaves none.
THEOREM AtMostOneWatcher == Spec => []OneWatcher
<1>1. IInv => OneWatcher
  BY DEF IInv
<1> QED
  BY <1>1, InvariantHolds, PTL

\* WaitStable reads the trigger time under wc.mu, so it never reports a stable
\* screen in the middle of a callback.
THEOREM StableOutsideCallbacks == Spec => StableIsQuiet
<1>1. IInv /\ [Next]_vars =>
        [\A c \in Clients : Poll(c) => \A g \in Gens : wpc[g] # "callback"]_vars
  BY DEF IInv, LockInv, Poll
<1> QED
  BY <1>1, InvariantHolds, PTL DEF Spec, StableIsQuiet
=============================================================================
