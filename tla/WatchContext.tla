---------------------------- MODULE WatchContext ----------------------------
(***************************************************************************)
(* The popup watcher of libs/watcher.go.  Client goroutines start, stop,   *)
(* reset and wait for one WatchContext; each Start that finds it stopped   *)
(* makes a new pair of channels (a generation) and a goroutine that runs   *)
(* runOnce on every tick until it sees its stop channel closed.  runOnce   *)
(* holds wc.mu over the device requests and the user's callback.           *)
(*                                                                         *)
(* Time is abstract: recent tells whether the last trigger is younger than *)
(* WaitStable's stable period.                                             *)
(***************************************************************************)
EXTENDS Naturals

CONSTANTS
  Clients,    \* goroutines that use the WatchContext
  Stoppers,   \* those that call Stop or Reset
  MaxStarts,  \* bound: calls of Start
  SlowDevice  \* a check or callback may last longer than Stop's 10 s

ASSUME WatchAssumption ==
  /\ Stoppers \subseteq Clients
  /\ MaxStarts \in Nat
  /\ SlowDevice \in BOOLEAN

Gens == 1..MaxStarts
Free == 0                \* wc.mu is not held; otherwise the generation in runOnce

VARIABLES
  pc,         \* pc[c]: where client c is
  after,      \* after[c]: what follows the Start or Stop it is in
  starts,     \* calls of Start so far
  ticket,     \* ticket[c]: the generation that c's Start would make
  started,    \* wc.started
  gen,        \* the generation of wc.stopCh and wc.stopped (0: nil)
  closed,     \* generations whose stopCh is closed
  ended,      \* generations whose stopped is closed
  mu,         \* wc.mu
  wpc,        \* wpc[g]: where the goroutine of generation g is
  announce,   \* announce[g]: the stopped channel its defer will close
  listen,     \* listen[g]: the stopCh its select reads
  armed,      \* wc.conditions is not empty
  snapshot,   \* the conditions runOnce ranges over are not empty
  recent,     \* wc.triggerTime is within the stable period
  popup,      \* something that a condition matches is on the screen
  overdue,    \* some Stop gave up waiting
  panicked    \* a closed channel was closed again: the program is gone

client  == <<pc, after, starts, ticket>>
watcher == <<wpc, announce, listen, snapshot>>
channel == <<gen, closed, ended>>
screen  == <<recent, popup>>
vars == <<client, started, channel, mu, watcher, armed, screen, overdue, panicked>>

Busy == {"lock", "check", "callback"}
LiveWatcher(g) == wpc[g] \notin {"none", "done"}

-----------------------------------------------------------------------------
(* The clients.                                                            *)

Goto(c, label) == pc' = [pc EXCEPT ![c] = label]

\* The Start or Stop returns to its caller: user code, WaitStable or Reset.
Resume(c) == /\ Goto(c, after[c])
             /\ after' = [after EXCEPT ![c] = "idle"]

\* Start, called by the user, or by WaitStable that sees, without the lock, that
\* nothing was started.
BeginStart(c) ==
  /\ pc[c] = "idle"
  /\ starts < MaxStarts
  /\ starts' = starts + 1
  /\ ticket' = [ticket EXCEPT ![c] = starts + 1]
  /\ \/ after' = [after EXCEPT ![c] = "idle"]
     \/ ~started /\ after' = [after EXCEPT ![c] = "poll"]
  /\ Goto(c, "start")
  /\ UNCHANGED <<started, channel, mu, watcher, armed, screen, overdue, panicked>>

\* WaitStable that sees, without the lock, wc.started.
BeginWait(c) ==
  /\ pc[c] = "idle"
  /\ started
  /\ Goto(c, "poll")
  /\ UNCHANGED <<after, starts, ticket, started, channel, mu, watcher, armed, screen, overdue, panicked>>

\* Stop, called by the user, or by Reset that sees, without the lock, wc.started.
BeginStop(c) ==
  /\ pc[c] = "idle"
  /\ c \in Stoppers
  /\ \/ after' = [after EXCEPT ![c] = "idle"]
     \/ started /\ after' = [after EXCEPT ![c] = "drop"]
  /\ Goto(c, "close")
  /\ UNCHANGED <<starts, ticket, started, channel, mu, watcher, armed, screen, overdue, panicked>>

\* Reset that sees, without the lock, that nothing was started.
BeginReset(c) ==
  /\ pc[c] = "idle"
  /\ c \in Stoppers
  /\ ~started
  /\ Goto(c, "drop")
  /\ UNCHANGED <<after, starts, ticket, started, channel, mu, watcher, armed, screen, overdue, panicked>>

\* Click, Press and Call append a condition; Remove drops them all.
Edit(c) ==
  /\ pc[c] = "idle"
  /\ armed' \in BOOLEAN
  /\ UNCHANGED <<client, started, channel, mu, watcher, screen, overdue, panicked>>

Start(c) ==
  /\ pc[c] = "start"
  /\ mu = Free
  /\ IF started THEN UNCHANGED <<started, gen, wpc>>
     ELSE /\ started' = TRUE
          /\ gen' = ticket[c]
          /\ wpc' = [wpc EXCEPT ![ticket[c]] = "spawned"]
  /\ ticket' = [ticket EXCEPT ![c] = 0]
  /\ Resume(c)
  /\ UNCHANGED <<starts, closed, ended, mu, announce, listen, snapshot,
                 armed, screen, overdue, panicked>>

\* Stop that does not look at wc.started: the channels may still be nil.
Close_Unstarted(c) ==
  /\ pc[c] = "close"
  /\ mu = Free
  /\ panicked' = (gen \in closed)
  /\ closed' = closed \cup {gen}
  /\ Goto(c, "await")
  /\ UNCHANGED <<after, starts, ticket, started, gen, ended, mu, watcher, armed, screen, overdue>>

Close(c) ==
  /\ pc[c] = "close"
  /\ mu = Free
  /\ IF started THEN /\ panicked' = (gen \in closed)
                     /\ closed' = closed \cup {gen}
                     /\ Goto(c, "await")
                     /\ UNCHANGED after
     ELSE /\ Resume(c)
          /\ UNCHANGED <<closed, panicked>>
  /\ UNCHANGED <<starts, ticket, started, gen, ended, mu, watcher, armed, screen, overdue>>

\* Stop that marks the context as stopped without waiting for the goroutine.
Await_Not(c) ==
  /\ pc[c] = "await"
  /\ Goto(c, "clear")
  /\ UNCHANGED <<after, starts, ticket, started, channel, mu, watcher, armed, screen, overdue, panicked>>

\* Either the goroutine has ended, or it was busy for 10 s.
Await(c) ==
  /\ pc[c] = "await"
  /\ \/ gen \in ended /\ UNCHANGED overdue
     \/ /\ SlowDevice
        /\ gen \notin ended
        /\ wpc[gen] \in Busy
        /\ overdue' = TRUE
  /\ Goto(c, "clear")
  /\ UNCHANGED <<after, starts, ticket, started, channel, mu, watcher, armed, screen, panicked>>

Clear(c) ==
  /\ pc[c] = "clear"
  /\ mu = Free
  /\ started' = FALSE
  /\ Resume(c)
  /\ UNCHANGED <<starts, ticket, channel, mu, watcher, armed, screen, overdue, panicked>>

Drop(c) ==
  /\ pc[c] = "drop"
  /\ armed' = FALSE
  /\ Goto(c, "idle")
  /\ UNCHANGED <<after, starts, ticket, started, channel, mu, watcher, screen, overdue, panicked>>

\* WaitStable reading triggerTime without the lock.
Poll_NoLock(c) ==
  /\ pc[c] = "poll"
  /\ ~recent
  /\ Goto(c, "idle")
  /\ UNCHANGED <<after, starts, ticket, started, channel, mu, watcher, armed, screen, overdue, panicked>>

\* A round of WaitStable: it takes the lock, however long that takes, and reads
\* triggerTime.
Poll(c) ==
  /\ pc[c] = "poll"
  /\ mu = Free
  /\ ~recent
  /\ Goto(c, "idle")
  /\ UNCHANGED <<after, starts, ticket, started, channel, mu, watcher, armed, screen, overdue, panicked>>

\* The last round: the deadline, which is looked at between two rounds only, has
\* passed when it is over.
PollTimeout(c) ==
  /\ pc[c] = "poll"
  /\ mu = Free
  /\ recent
  /\ Goto(c, "idle")
  /\ UNCHANGED <<after, starts, ticket, started, channel, mu, watcher, armed, screen, overdue, panicked>>

-----------------------------------------------------------------------------
(* The goroutine of generation g.                                          *)

Move(g, label) == wpc' = [wpc EXCEPT ![g] = label]

LeaveSelect(g) == listen' = [listen EXCEPT ![g] = 0]
Unlock == mu' = Free /\ snapshot' = FALSE

\* `defer close(wc.stopped)` evaluates its argument here, once.
Defer(g) ==
  /\ wpc[g] = "spawned"
  /\ Move(g, "loop")
  /\ announce' = [announce EXCEPT ![g] = gen]
  /\ UNCHANGED <<client, started, channel, mu, listen, snapshot, armed, screen, overdue, panicked>>

\* The select reads wc.stopCh anew in every round.
Select(g) ==
  /\ wpc[g] = "loop"
  /\ Move(g, "select")
  /\ listen' = [listen EXCEPT ![g] = gen]
  /\ UNCHANGED <<client, started, channel, mu, announce, snapshot, armed, screen, overdue, panicked>>

\* Closing whatever wc.stopped is by then, as in `defer func() { close(wc.stopped) }()`.
Quit_CloseCurrent(g) ==
  /\ wpc[g] = "select"
  /\ listen[g] \in closed
  /\ Move(g, "done")
  /\ panicked' = (gen \in ended)
  /\ ended' = ended \cup {gen}
  /\ LeaveSelect(g)
  /\ UNCHANGED <<client, started, gen, closed, mu, announce, snapshot, armed, screen, overdue>>

Quit(g) ==
  /\ wpc[g] = "select"
  /\ listen[g] \in closed
  /\ Move(g, "done")
  /\ panicked' = (announce[g] \in ended)
  /\ ended' = ended \cup {announce[g]}
  /\ LeaveSelect(g)
  /\ UNCHANGED <<client, started, gen, closed, mu, announce, snapshot, armed, screen, overdue>>

\* A tick; when the stop channel is closed as well, select takes either.
Tick(g) ==
  /\ wpc[g] = "select"
  /\ Move(g, "lock")
  /\ LeaveSelect(g)
  /\ UNCHANGED <<client, started, channel, mu, announce, snapshot, armed, screen, overdue, panicked>>

\* runOnce takes the lock and fixes the slice of conditions it ranges over.
Lock(g) ==
  /\ wpc[g] = "lock"
  /\ mu = Free
  /\ mu' = g
  /\ snapshot' = armed
  /\ Move(g, "check")
  /\ UNCHANGED <<client, started, channel, announce, listen, armed, screen, overdue, panicked>>

\* A watch loop that ends with its first check that matches nothing.
Miss_Quits(g) ==
  /\ wpc[g] = "check"
  /\ Unlock
  /\ Move(g, "done")
  /\ ended' = ended \cup {announce[g]}
  /\ UNCHANGED <<client, started, gen, closed, announce, listen, armed, screen, overdue, panicked>>

\* No condition matches; a failed request counts as no match.
Miss(g) ==
  /\ wpc[g] = "check"
  /\ Unlock
  /\ Move(g, "loop")
  /\ UNCHANGED <<client, started, channel, announce, listen, armed, screen, overdue, panicked>>

Match(g) ==
  /\ wpc[g] = "check"
  /\ snapshot
  /\ popup
  /\ Move(g, "callback")
  /\ UNCHANGED <<client, started, channel, mu, announce, listen, snapshot, armed, screen, overdue, panicked>>

\* runOnce returning after a trigger without unlocking.
Callback_KeepsLock(g) ==
  /\ wpc[g] = "callback"
  /\ popup' \in {popup, FALSE}
  /\ recent' = TRUE
  /\ Move(g, "loop")
  /\ UNCHANGED <<client, started, channel, mu, announce, listen, snapshot, armed, overdue, panicked>>

\* The callback removes the popup or fails; its error is only logged.
Callback(g) ==
  /\ wpc[g] = "callback"
  /\ popup' \in {popup, FALSE}
  /\ recent' = TRUE
  /\ Unlock
  /\ Move(g, "loop")
  /\ UNCHANGED <<client, started, channel, announce, listen, armed, overdue, panicked>>

-----------------------------------------------------------------------------
(* The screen and the clock.                                               *)

\* A popup comes up or goes away by itself.
Popup == /\ popup' = ~popup
         /\ UNCHANGED <<client, started, channel, mu, watcher, armed, recent, overdue, panicked>>

Quieten == /\ recent
           /\ recent' = FALSE
           /\ UNCHANGED <<client, started, channel, mu, watcher, armed, popup, overdue, panicked>>

Init ==
  /\ pc = [c \in Clients |-> "idle"]
  /\ after = [c \in Clients |-> "idle"]
  /\ starts = 0
  /\ ticket = [c \in Clients |-> 0]
  /\ started = FALSE
  /\ gen = 0
  /\ closed = {}
  /\ ended = {}
  /\ mu = Free
  /\ wpc = [g \in Gens |-> "none"]
  /\ announce = [g \in Gens |-> 0]
  /\ listen = [g \in Gens |-> 0]
  /\ armed \in BOOLEAN
  /\ snapshot = FALSE
  /\ recent = TRUE
  /\ popup = FALSE
  /\ overdue = FALSE
  /\ panicked = FALSE

\* What a client does once it has called something.
Proceed(c) == \/ Start(c) \/ Close(c) \/ Await(c) \/ Clear(c) \/ Drop(c)
              \/ Poll(c) \/ PollTimeout(c)

Client(c) == \/ BeginStart(c) \/ BeginWait(c) \/ BeginStop(c) \/ BeginReset(c) \/ Edit(c)
             \/ Proceed(c)

\* What a watcher goroutine does as long as it is not stopped and nothing matches.
Run(g) == Defer(g) \/ Select(g) \/ Tick(g) \/ Lock(g) \/ Miss(g) \/ Callback(g)
Watcher(g) == Run(g) \/ Quit(g) \/ Match(g)

Next == /\ ~panicked
        /\ \/ \E c \in Clients : Client(c)
           \/ \E g \in Gens : Watcher(g)
           \/ Popup
           \/ Quieten

Spec == Init /\ [][Next]_vars

\* Requests and callbacks end, tickers tick, timers fire, and sync.Mutex serves
\* everybody who waits for it, WaitStable again and again until its deadline has
\* passed: fairness of what each goroutine is doing, strong because the lock is free
\* only from time to time.  Strong fairness of Quit and Match: select chooses
\* uniformly among the ready cases, and a request does not fail for ever.
Fairness ==
  /\ \A c \in Clients : SF_vars(~panicked /\ Proceed(c))
  /\ \A g \in Gens :
        /\ SF_vars(~panicked /\ Run(g))
        /\ SF_vars(~panicked /\ Quit(g))
        /\ SF_vars(~panicked /\ Match(g))

FairSpec == Spec /\ Fairness

-----------------------------------------------------------------------------
(* Properties.                                                             *)

\* Every variable keeps its type: no generation 0 (a nil channel) is ever closed.
TypeOK ==
  /\ pc \in [Clients -> {"idle", "start", "poll", "close", "await", "clear", "drop"}]
  /\ after \in [Clients -> {"idle", "poll", "drop"}]
  /\ starts \in 0..MaxStarts
  /\ ticket \in [Clients -> 0..MaxStarts]
  /\ started \in BOOLEAN
  /\ gen \in 0..MaxStarts
  /\ closed \subseteq Gens
  /\ ended \subseteq Gens
  /\ mu \in Gens \cup {Free}
  /\ wpc \in [Gens -> {"none", "spawned", "loop", "select", "done"} \cup Busy]
  /\ announce \in [Gens -> 0..MaxStarts]
  /\ listen \in [Gens -> 0..MaxStarts]
  /\ {armed, snapshot, recent, overdue, panicked} \subseteq BOOLEAN
  /\ popup \in BOOLEAN

\* As long as one goroutine does the stopping, no channel is closed twice, not
\* even when a Stop gave up on a busy goroutine and the context was started
\* again while that goroutine lived.
NoDoubleClose ==
  (\A c, d \in Stoppers : c = d) => ~panicked

\* As long as no Stop gave up waiting, there is at most one watcher goroutine,
\* that of the last Start, and none once Stop has returned: nothing clicks on
\* the screen behind the caller's back.
OneWatcher ==
  ~overdue => \A g \in Gens : LiveWatcher(g) => g = gen /\ started

\* WaitStable does not report a stable screen while a callback handles a popup,
\* whichever of several watcher goroutines runs it.
StableIsQuiet ==
  [][\A c \in Clients : Poll(c) => \A g \in Gens : wpc[g] # "callback"]_vars

\* Start, Stop, Reset and WaitStable return, though all of them wait for the lock
\* that runOnce holds; and goroutines that a Stop has given up on end as well, unless
\* the context is started again before.
OperationReturns ==
  /\ \A c \in Clients : pc[c] # "idle" ~> pc[c] = "idle"
  /\ ~started ~> started \/ \A g \in Gens : ~LiveWatcher(g)

\* A popup that a condition matches is handled unless it goes away, the
\* conditions are removed or the watcher is being stopped.
PopupHandled ==
  popup /\ armed /\ started ~>
    \/ \E g \in Gens : wpc[g] = "callback"
    \/ ~popup \/ ~armed \/ gen \in closed

-----------------------------------------------------------------------------
(* The inductive invariant that the safety properties follow from.         *)

Closing == {"await", "clear"}
Running == {"loop", "select"} \cup Busy

\* A generation is numbered when its Start is called; until that Start finds
\* the context stopped, nobody uses the number.
Fresh(g) == wpc[g] = "none" /\ g # gen /\ g \notin closed /\ g \notin ended

TicketInv ==
  /\ gen <= starts
  /\ \A c \in Clients : ticket[c] <= starts
  /\ \A c \in Clients : pc[c] = "start" <=> ticket[c] # 0
  /\ \A c, d \in Clients : c # d /\ ticket[c] = ticket[d] => ticket[c] = 0
  /\ \A c \in Clients : ticket[c] # 0 => Fresh(ticket[c])
  /\ \A g \in Gens : g > starts => Fresh(g)

\* Every goroutine closes the channel of its own generation, when it ends: it
\* reads wc.stopped before the context can have been stopped and restarted.
ChannelInv ==
  /\ started => gen # 0
  /\ \A g \in Gens : wpc[g] = "spawned" => g = gen /\ started
  /\ \A g \in Gens : wpc[g] \in Running => announce[g] = g
  /\ \A g \in ended : wpc[g] = "done"

\* The stop channel is closed exactly while one Stop is under way.
StopInv ==
  ~panicked =>
    /\ \A c \in Clients : pc[c] \in {"close"} \cup Closing => c \in Stoppers
    /\ \A c \in Clients : pc[c] \in Closing => started /\ gen \in closed
    /\ \A c, d \in Clients : pc[c] \in Closing /\ pc[d] \in Closing => c = d
    /\ started /\ gen \in closed => \E c \in Clients : pc[c] \in Closing
    /\ \A c \in Clients : pc[c] = "clear" =>
          wpc[gen] # "spawned" /\ (overdue \/ gen \in ended)

\* wc.mu is held by the goroutine that is in runOnce.
LockInv == \A g \in Gens : wpc[g] \in {"check", "callback"} <=> mu = g

IInv == /\ TypeOK /\ TicketInv /\ ChannelInv /\ StopInv /\ LockInv
        /\ NoDoubleClose /\ OneWatcher
=============================================================================
