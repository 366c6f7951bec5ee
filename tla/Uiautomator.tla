---------------------------- MODULE Uiautomator -----------------------------
(***************************************************************************)
(* The life cycle of the UIAutomator2 service as libs/device.go drives it, *)
(* and the JSON-RPC call that restarts the service when it is broken.      *)
(*                                                                         *)
(* Several goroutines (user code, the watcher) share one *Device.  Each    *)
(* runs jsonrpcCall, StartUiautomator, StopUiautomator / Close or          *)
(* ResetUiautomator; d.mu is held by StartUiautomator from its first /ping *)
(* to the end of the 30 s wait, and by StopUiautomator only while it closes*)
(* d.processConn.  On the device, launching starts one more app_process;   *)
(* closing the shell connection it was started on hangs it up.  Every      *)
(* request runs over a fresh ADB tunnel and reaches the one process that   *)
(* holds port 9008.                                                        *)
(***************************************************************************)
EXTENDS Integers

CONSTANTS
  Threads,         \* the goroutines that share the Device
  NoThread,        \* not one of them
  Kinds,           \* the operations they use
  MaxOps,          \* bound: operations started in a behaviour
  ForeignService,  \* the service may already run, started by someone else
  FlakyLink,       \* a tunnel or a request may fail although the service runs
  SlowExit,        \* a hung-up process may outlive StopUiautomator's 10 s
  LateDisconnect   \* a request may be carried out and still be answered
                   \* "UiAutomation not connected"

OpKinds == {"call", "start", "stop", "reset"}

ASSUME UiAssumption ==
  /\ NoThread \notin Threads
  /\ Kinds \subseteq OpKinds
  /\ MaxOps \in Nat
  /\ {ForeignService, FlakyLink, SlowExit, LateDisconnect} \subseteq BOOLEAN

OpIds    == 1..MaxOps
Foreign  == 0          \* the process of a service this Device did not launch
Launched == OpIds      \* an operation launches at most once: its number names the process
Procs    == {Foreign} \cup Launched
Nil      == -1         \* no process, no connection

HttpErrors == {"ErrHTTPTimeout", "ErrHTTPFailed"}
Disconnected == "UiAutomationNotConnectedError"
LaunchError  == "LaunchUiAutomationError"
Results == HttpErrors \cup {"ok", Disconnected, "OtherError"}
Outcomes == Results \cup {"none", LaunchError}

VARIABLES
  pc,           \* pc[t]: where goroutine t is
  opId,         \* opId[t]: the number of its current or last operation
  ops,          \* operations started so far
  op,           \* op[i]: the kind of operation i
  outcome,      \* outcome[i]: what operation i returned
  attempts,     \* attempts[i]: JsonRpcCall round trips of call i
  executed,     \* executed[i]: how often the device carried out call i
  queued,       \* queued[i]: the process where call i still waits, abandoned
  suspect,      \* suspect[t]: the process that answered "not connected" (or Foreign)
  mu,           \* d.mu: NoThread, or the goroutine that holds it
  processConn,  \* d.processConn: Nil, or the process started on it
  open,         \* the launch connections the client has not closed
  status,       \* status[p]: "none", "booting", "serving" (answers on 9008), "dead"
  connected,    \* connected[p]: p's UiAutomation is connected
  failed        \* launches that returned an error after the command was sent

ticket  == <<opId, ops, op>>
request == <<attempts, executed, queued, suspect>>
device  == <<open, status, connected, failed>>
vars == <<pc, ticket, outcome, request, mu, processConn, device>>

-----------------------------------------------------------------------------
(* The device as the client sees it.                                       *)

Live(p)   == status[p] \in {"booting", "serving"}
Serving   == \E p \in Procs : status[p] = "serving"
HungUp(p) == p # Foreign /\ p \notin open

PingOk    == Serving
PingFails == ~Serving \/ FlakyLink

Boot(p) == /\ status[p] = "booting"
           /\ ~Serving
           /\ status' = [status EXCEPT ![p] = "serving"]
           /\ connected' = [connected EXCEPT ![p] = TRUE]
           /\ UNCHANGED <<pc, ticket, outcome, request, mu, processConn, open, failed>>

\* The requests that wait in the process die with it.
Exit(p) == /\ Live(p)
           /\ status' = [status EXCEPT ![p] = "dead"]
           /\ connected' = [connected EXCEPT ![p] = FALSE]
           /\ queued' = [i \in OpIds |-> IF queued[i] = p THEN Nil ELSE queued[i]]
           /\ UNCHANGED <<pc, ticket, outcome, attempts, executed, suspect, mu, processConn,
                          open, failed>>

\* The process ends because its shell connection was closed.
HangUp(p) == HungUp(p) /\ Exit(p)

\* The process crashes, is killed by the system, or does not come up.
Crash(p) == ~HungUp(p) /\ Exit(p)

Disconnect(p) == /\ status[p] = "serving"
                 /\ connected[p]
                 /\ connected' = [connected EXCEPT ![p] = FALSE]
                 /\ UNCHANGED <<pc, ticket, outcome, request, mu, processConn, open, status, failed>>

CarriedOut(i) == executed' = [executed EXCEPT ![i] = @ + 1]

\* A request whose caller gave up waiting is carried out after all.
RunQueued(i) == /\ queued[i] # Nil
                /\ status[queued[i]] = "serving"
                /\ connected[queued[i]]
                /\ CarriedOut(i)
                /\ queued' = [queued EXCEPT ![i] = Nil]
                /\ UNCHANGED <<pc, ticket, outcome, attempts, suspect, mu, processConn, device>>

-----------------------------------------------------------------------------
(* One goroutine.                                                          *)

Goto(t, label) == pc' = [pc EXCEPT ![t] = label]

Finish(t, r) == /\ Goto(t, "idle")
                /\ outcome' = [outcome EXCEPT ![opId[t]] = r]

Entry(k) == CASE k = "call"  -> "rpc"
              [] k = "start" -> "start"
              [] OTHER       -> "stop"

Begin(t, k) ==
  /\ pc[t] = "idle"
  /\ ops < MaxOps
  /\ ops' = ops + 1
  /\ opId' = [opId EXCEPT ![t] = ops + 1]
  /\ op' = [op EXCEPT ![ops + 1] = k]
  /\ Goto(t, Entry(k))
  /\ suspect' = [suspect EXCEPT ![t] = Foreign]
  /\ UNCHANGED <<outcome, attempts, executed, queued, mu, processConn, device>>

\* HttpRequest without a usable answer: a refused tunnel, a lost answer, or one
\* that takes too long.  The request was, was not, or still will be carried out.
HttpRequest(i, r) ==
  /\ r \in HttpErrors
  /\ \/ /\ \E p \in Procs : status[p] = "serving" /\ connected[p]
        /\ CarriedOut(i)
        /\ UNCHANGED queued
     \/ PingFails /\ UNCHANGED <<executed, queued>>
     \/ /\ \E p \in Procs : /\ status[p] = "serving"
                            /\ queued' = [queued EXCEPT ![i] = p]
        /\ UNCHANGED executed
  /\ UNCHANGED <<suspect, connected>>

\* An error answer that handleRpcError takes for a lost UiAutomation.
NotConnected(t) ==
  /\ \E p \in Procs :
        /\ status[p] = "serving"
        /\ \/ ~connected[p] /\ UNCHANGED executed
           \/ connected[p] /\ LateDisconnect /\ CarriedOut(opId[t])
        /\ connected' = [connected EXCEPT ![p] = FALSE]
        /\ suspect' = [suspect EXCEPT ![t] = p]
  /\ UNCHANGED queued

\* One round trip that ends with r.
JsonRpcCall(t, r) ==
  \/ HttpRequest(opId[t], r)
  \/ /\ r \in {"ok", "OtherError"}
     /\ \E p \in Procs : status[p] = "serving" /\ connected[p]
     /\ CarriedOut(opId[t])
     /\ UNCHANGED <<queued, suspect, connected>>
  \/ /\ r = "OtherError" /\ Serving
     /\ UNCHANGED <<executed, queued, suspect, connected>>
  \/ r = Disconnected /\ NotConnected(t)

Attempt(t) == attempts' = [attempts EXCEPT ![opId[t]] = @ + 1]

\* The errors jsonrpcCall looks for before it restarts the service.
Retryable_LostAnswerToo(r) == r \in {Disconnected, "HTTPError", "ErrHTTPTimeout"}
Retryable(r) == r \in {Disconnected, "HTTPError"}

Rpc(t) ==
  /\ pc[t] = "rpc"
  /\ Attempt(t)
  /\ \E r \in Results :
        /\ JsonRpcCall(t, r)
        /\ IF Retryable(r) THEN Goto(t, "stop") /\ UNCHANGED outcome
                           ELSE Finish(t, r)
  /\ UNCHANGED <<ticket, mu, processConn, open, status, failed>>

\* Retrying as often as the answer says so, not once.
Retry_Loops(t) ==
  /\ pc[t] = "retry"
  /\ Attempt(t)
  /\ \E r \in Results :
        /\ JsonRpcCall(t, r)
        /\ IF Retryable(r) THEN UNCHANGED <<pc, outcome>> ELSE Finish(t, r)
  /\ UNCHANGED <<ticket, mu, processConn, open, status, failed>>

Retry(t) ==
  /\ pc[t] = "retry"
  /\ Attempt(t)
  /\ \E r \in Results : JsonRpcCall(t, r) /\ Finish(t, r)
  /\ UNCHANGED <<ticket, mu, processConn, open, status, failed>>

\* StopUiautomator without taking d.mu.
CloseConn_NoLock(t) ==
  /\ pc[t] = "stop"
  /\ open' = open \ {processConn}
  /\ processConn' = Nil
  /\ Goto(t, "drain")
  /\ UNCHANGED <<ticket, outcome, request, mu, status, connected, failed>>

\* StopUiautomator forgetting the connection without closing it.
CloseConn_OnlyForgets(t) ==
  /\ pc[t] = "stop"
  /\ mu = NoThread
  /\ processConn' = Nil
  /\ Goto(t, "drain")
  /\ UNCHANGED <<ticket, outcome, request, mu, device>>

\* StopUiautomator's critical section: nothing in it blocks.
CloseConn(t) ==
  /\ pc[t] = "stop"
  /\ mu = NoThread
  /\ open' = open \ {processConn}
  /\ processConn' = Nil
  /\ Goto(t, "drain")
  /\ UNCHANGED <<ticket, outcome, request, mu, status, connected, failed>>

\* StopUiautomator's poll ends when a /ping fails, or after 10 s of answered
\* pings: from a process nobody hung up, or from one that is slow to exit.
Drained ==
  \/ PingFails
  \/ \E p \in Procs : status[p] = "serving" /\ (SlowExit \/ ~HungUp(p))

Drain(t) ==
  /\ pc[t] = "drain"
  /\ Drained
  /\ IF op[opId[t]] = "stop" THEN Finish(t, "ok") ELSE Goto(t, "start") /\ UNCHANGED outcome
  /\ UNCHANGED <<ticket, request, mu, processConn, device>>

Lock(t) ==
  /\ pc[t] = "start"
  /\ mu = NoThread
  /\ mu' = t
  /\ Goto(t, "check")
  /\ UNCHANGED <<ticket, outcome, request, processConn, device>>

\* What follows a StartUiautomator that returned nil; d.mu is released.
Started(t) ==
  /\ mu' = NoThread
  /\ IF op[opId[t]] = "call" THEN Goto(t, "retry") /\ UNCHANGED outcome ELSE Finish(t, "ok")

\* Launching without asking first whether the service runs.
Check_Skipped(t) ==
  /\ pc[t] = "check"
  /\ Goto(t, "launch")
  /\ UNCHANGED <<ticket, outcome, request, mu, processConn, device>>

Check(t) ==
  /\ pc[t] = "check"
  /\ \/ PingOk /\ Started(t)
     \/ PingFails /\ Goto(t, "launch") /\ UNCHANGED <<mu, outcome>>
  /\ UNCHANGED <<ticket, request, processConn, device>>

Launch(t) ==
  /\ pc[t] = "launch"
  /\ status' = [status EXCEPT ![opId[t]] = "booting"]
  /\ open' = open \cup {opId[t]}
  /\ processConn' = opId[t]
  /\ Goto(t, "ready")
  /\ UNCHANGED <<ticket, outcome, request, mu, connected, failed>>

\* No connection or no OKAY: the connection is closed before it is stored.
\* The command may have reached the device all the same.
CommandLost(t) ==
  \/ UNCHANGED device
  \/ /\ status' = [status EXCEPT ![opId[t]] = "booting"]
     /\ failed' = failed \cup {opId[t]}
     /\ UNCHANGED <<open, connected>>

\* An early return that leaves d.mu locked.
LaunchFails_NoUnlock(t) ==
  /\ pc[t] = "launch"
  /\ CommandLost(t)
  /\ Finish(t, LaunchError)
  /\ UNCHANGED <<ticket, request, mu, processConn>>

LaunchFails(t) ==
  /\ pc[t] = "launch"
  /\ CommandLost(t)
  /\ Finish(t, LaunchError)
  /\ mu' = NoThread
  /\ UNCHANGED <<ticket, request, processConn>>

Ready(t) ==
  /\ pc[t] = "ready"
  /\ PingOk
  /\ Started(t)
  /\ UNCHANGED <<ticket, request, processConn, device>>

\* 30 s without a pong: the process and d.processConn stay.
ReadyTimeout(t) ==
  /\ pc[t] = "ready"
  /\ failed' = failed \cup {opId[t]}
  /\ mu' = NoThread
  /\ Finish(t, LaunchError)
  /\ UNCHANGED <<ticket, request, processConn, open, status, connected>>

-----------------------------------------------------------------------------
Init ==
  /\ pc = [t \in Threads |-> "idle"]
  /\ opId = [t \in Threads |-> 0]
  /\ ops = 0
  /\ op = [i \in 0..MaxOps |-> "none"]
  /\ outcome = [i \in OpIds |-> "none"]
  /\ attempts = [i \in OpIds |-> 0]
  /\ executed = [i \in OpIds |-> 0]
  /\ queued = [i \in OpIds |-> Nil]
  /\ suspect = [t \in Threads |-> Foreign]
  /\ mu = NoThread
  /\ processConn = Nil
  /\ open = {}
  /\ \E runs \in {FALSE, ForeignService} :
        /\ status = [p \in Procs |-> IF p = Foreign /\ runs THEN "serving" ELSE "none"]
        /\ connected = [p \in Procs |-> p = Foreign /\ runs]
  /\ failed = {}

\* The steps that do not wait for d.mu, and those that do.
Run(t) == \/ Rpc(t) \/ Retry(t) \/ Drain(t) \/ Check(t) \/ Launch(t)
          \/ LaunchFails(t) \/ Ready(t) \/ ReadyTimeout(t)
Acquire(t) == CloseConn(t) \/ Lock(t)

Thread(t) == (\E k \in Kinds : Begin(t, k)) \/ Run(t) \/ Acquire(t)
Process(p) == Boot(p) \/ HangUp(p) \/ Crash(p) \/ Disconnect(p)

Next == \/ \E t \in Threads : Thread(t)
        \/ \E p \in Procs : Process(p)
        \/ \E i \in OpIds : RunQueued(i)

Spec == Init /\ [][Next]_vars

\* Every poll loop has a deadline and a hung-up process exits: weak fairness.
\* sync.Mutex hands the lock to a waiter after 1 ms: strong fairness for d.mu.
Fairness == /\ \A t \in Threads : WF_vars(Run(t)) /\ SF_vars(Acquire(t))
            /\ \A p \in Procs : WF_vars(HangUp(p))

FairSpec == Spec /\ Fairness

-----------------------------------------------------------------------------
(* Properties.                                                             *)

Labels == {"idle", "rpc", "stop", "drain", "start", "check", "launch", "ready", "retry"}

\* Every variable keeps its type; a call makes at most two round trips and is
\* carried out at most twice.
TypeOK ==
  /\ pc \in [Threads -> Labels]
  /\ opId \in [Threads -> 0..MaxOps]
  /\ ops \in 0..MaxOps
  /\ op \in [0..MaxOps -> OpKinds \cup {"none"}]
  /\ outcome \in [OpIds -> Outcomes]
  /\ attempts \in [OpIds -> 0..2]
  /\ executed \in [OpIds -> 0..2]
  /\ queued \in [OpIds -> Procs \cup {Nil}]
  /\ suspect \in [Threads -> Procs]
  /\ mu \in Threads \cup {NoThread}
  /\ processConn \in Launched \cup {Nil}
  /\ open \subseteq Launched
  /\ status \in [Procs -> {"none", "booting", "serving", "dead"}]
  /\ connected \in [Procs -> BOOLEAN]
  /\ failed \subseteq Launched

\* While StartUiautomator waits for the process it launched, no other
\* goroutine's StopUiautomator closes that process's connection and no other
\* launch replaces d.processConn.
LaunchProtected ==
  \A t \in Threads : pc[t] = "ready" => processConn = opId[t] /\ opId[t] \in open

\* As long as no launch returned an error, every live process this Device
\* launched and did not hang up is the one d.processConn controls: no process
\* is left on the device that StopUiautomator can no longer stop.
NoOrphanService ==
  ~FlakyLink /\ failed = {} =>
    \A p \in open : Live(p) => p = processConn

\* When a call comes back from StopUiautomator, the process that answered
\* "not connected" is gone, whatever other goroutines did meanwhile; unless
\* this Device did not launch it, or a launch failed.
BrokenServiceReplaced ==
  ~FlakyLink /\ ~SlowExit /\ failed = {} =>
    \A t \in Threads :
      (/\ op[opId[t]] = "call"
       /\ pc[t] \in {"start", "check", "launch", "ready", "retry"}
       /\ suspect[t] # Foreign) => status[suspect[t]] = "dead"

\* A call is carried out at most once (twice if the service may report a lost
\* UiAutomation after the fact); success means that it was, and that it will
\* not be again: jsonrpcCall never repeats a request whose answer was lost.
Phase(i) == IF op[i] # "call" THEN "new"
            ELSE CASE outcome[i] = "none" -> "pending"
                   [] outcome[i] = "ok"   -> "ok"
                   [] OTHER               -> "error"

Promise == INSTANCE RpcPromise WITH
  Calls    <- OpIds,
  MaxApply <- IF LateDisconnect THEN 2 ELSE 1,
  phase    <- [i \in OpIds |-> Phase(i)],
  applied  <- executed

CallPromise == Promise!Spec

\* Every operation returns: each wait has a deadline and d.mu is released on
\* every path.
OperationReturns == \A t \in Threads : pc[t] # "idle" ~> pc[t] = "idle"

-----------------------------------------------------------------------------
(* What the source says and the code does not do.                          *)

\* device.go:177: Close stops the service: once every goroutine's last
\* operation was a stop that returned, no process this Device launched lives on
\* with its connection open.
CloseStopsService ==
  (\A t \in Threads : pc[t] = "idle" /\ op[opId[t]] = "stop") =>
    \A p \in Launched : Live(p) => HungUp(p)
-----------------------------------------------------------------------------
(* The inductive invariant that the properties above follow from.          *)

Holding   == {"check", "launch", "ready"}
Unstarted == {"rpc", "stop", "drain", "start", "check", "launch"}
Replaced  == {"start", "check", "launch", "ready", "retry"}
Restarts  == Replaced \cup {"stop", "drain"}
Late      == IF LateDisconnect THEN 1 ELSE 0

\* Operation numbers are handed out once, and what has no number yet is fresh.
TicketInv ==
  /\ \A t \in Threads : opId[t] \in 0..ops
  /\ \A t, u \in Threads : t # u /\ opId[t] = opId[u] => opId[t] = 0
  /\ \A t \in Threads : pc[t] # "idle" =>
        opId[t] # 0 /\ op[opId[t]] # "none" /\ outcome[opId[t]] = "none"
  /\ \A i \in OpIds : i > ops =>
        /\ op[i] = "none" /\ outcome[i] = "none"
        /\ attempts[i] = 0 /\ executed[i] = 0 /\ queued[i] = Nil
        /\ status[i] = "none" /\ i \notin failed

\* How far a call has come, and how often it can have been carried out.
CallInv ==
  /\ \A t \in Threads : pc[t] \in {"rpc", "retry"} => op[opId[t]] = "call"
  /\ \A t \in Threads : pc[t] = "rpc" =>
        attempts[opId[t]] = 0 /\ executed[opId[t]] = 0 /\ queued[opId[t]] = Nil
  /\ \A t \in Threads : pc[t] \in Restarts /\ op[opId[t]] = "call" =>
        attempts[opId[t]] = 1 /\ executed[opId[t]] <= Late /\ queued[opId[t]] = Nil
  /\ \A i \in OpIds :
        /\ executed[i] <= Late + 1
        /\ queued[i] # Nil =>
             executed[i] <= Late /\ op[i] = "call" /\ outcome[i] \in HttpErrors
        /\ op[i] = "call" /\ outcome[i] = "ok" => executed[i] > 0

\* d.mu is held exactly from StartUiautomator's first /ping to its return.
LockInv == \A t \in Threads : pc[t] \in Holding <=> mu = t

\* Processes: one holds the port; a connection belongs to a started process.
ProcInv ==
  /\ \A p, q \in Procs : status[p] = "serving" /\ status[q] = "serving" => p = q
  /\ \A p \in Procs : connected[p] => status[p] = "serving"
  /\ \A p \in open : status[p] # "none"
  /\ processConn # Nil => processConn \in open
  /\ \A t \in Threads : pc[t] \in Unstarted => status[opId[t]] = "none"
  /\ \A t \in Threads : suspect[t] # Foreign => status[suspect[t]] \in {"serving", "dead"}

\* Without failed launches a process boots only under the eyes of the goroutine
\* that launched it, and nothing else is alive at that time.
BootInv ==
  ~FlakyLink /\ failed = {} =>
    /\ \A p \in Procs : status[p] = "booting" =>
          \E t \in Threads : pc[t] = "ready" /\ opId[t] = p
    /\ \A t \in Threads : pc[t] = "launch" => \A p \in Procs : ~Live(p)
    /\ \A t \in Threads : pc[t] = "ready" => \A p \in Procs : Live(p) => p = opId[t]

\* While StopUiautomator polls, the process to replace is dead or hung up.
DrainInv ==
  ~FlakyLink /\ failed = {} =>
    \A t \in Threads :
      pc[t] = "drain" /\ op[opId[t]] = "call" /\ suspect[t] # Foreign =>
        status[suspect[t]] = "dead" \/ suspect[t] \notin open

IInv == /\ TypeOK /\ TicketInv /\ CallInv /\ LockInv /\ ProcInv
        /\ LaunchProtected /\ BootInv /\ NoOrphanService
        /\ DrainInv /\ BrokenServiceReplaced
=============================================================================
