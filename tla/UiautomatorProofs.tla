------------------------- MODULE UiautomatorProofs --------------------------
(* What holds of Uiautomator for every value of its constants.             *)
EXTENDS Uiautomator, TLAPS

USE UiAssumption DEF OpIds, Launched, Procs, Foreign, Nil

(***************************************************************************)
(* Initially the invariant holds.                                          *)
(***************************************************************************)
LEMMA InitInv == Init => IInv
<1> SUFFICES ASSUME Init PROVE IInv
  OBVIOUS
<1> USE DEF Init
<1>1. TypeOK
  BY DEF TypeOK, Labels, Outcomes, Results
<1>2. TicketInv
  BY DEF TicketInv
<1>3. CallInv
  BY DEF CallInv, Restarts, Replaced, Late
<1>4. LockInv
  BY DEF LockInv, Holding
<1>5. ProcInv
  BY DEF ProcInv, Unstarted
<1>6. LaunchProtected /\ BootInv /\ NoOrphanService /\ DrainInv /\ BrokenServiceReplaced
  BY DEF LaunchProtected, BootInv, NoOrphanService, DrainInv, BrokenServiceReplaced, Live
<1> QED
  BY <1>1, <1>2, <1>3, <1>4, <1>5, <1>6 DEF IInv

(***************************************************************************)
(* A goroutine in an operation has a number of its own.                    *)
(***************************************************************************)
LEMMA ActiveId ==
  ASSUME TypeOK, TicketInv, NEW t \in Threads, pc[t] # "idle"
  PROVE  /\ opId[t] \in OpIds /\ opId[t] \in 1..ops
         /\ \A u \in Threads : opId[u] = opId[t] => u = t
<1>1. ops \in 0..MaxOps /\ opId[t] \in 0..ops /\ opId[t] # 0
  BY DEF TypeOK, TicketInv
<1>2. \A u \in Threads : opId[u] = opId[t] => u = t
  BY <1>1 DEF TicketInv
<1> QED
  BY <1>1, <1>2

(***************************************************************************)
(* A round trip keeps the types of the variables it changes.               *)
(***************************************************************************)
LEMMA JsonRpcCallType ==
  ASSUME IInv, NEW t \in Threads, NEW r \in Results,
         pc[t] \in {"rpc", "retry"}, JsonRpcCall(t, r)
  PROVE  /\ executed' \in [OpIds -> 0..2]
         /\ queued' \in [OpIds -> Procs \cup {Nil}]
         /\ suspect' \in [Threads -> Procs]
         /\ connected' \in [Procs -> BOOLEAN]
<1> DEFINE i == opId[t]
<1>1. i \in OpIds /\ executed[i] \in 0..1 /\ TypeOK
  <2>1. TypeOK /\ i \in 0..ops /\ i # 0
    BY DEF IInv, TypeOK, TicketInv
  <2>2. i \in OpIds
    BY <2>1 DEF TypeOK
  <2>3. executed[i] \in 0..2 /\ executed[i] <= 1
    BY <2>1, <2>2 DEF IInv, TypeOK, CallInv, Restarts, Replaced, Late
  <2> QED
    BY <2>1, <2>2, <2>3
<1> HIDE DEF i
<1>2. executed' \in [OpIds -> 0..2]
  <2>1. executed' = executed \/ executed' = [executed EXCEPT ![i] = @ + 1]
    BY DEF JsonRpcCall, HttpRequest, NotConnected, CarriedOut, i
  <2> QED
    BY <1>1, <2>1 DEF TypeOK
<1>3. queued' \in [OpIds -> Procs \cup {Nil}]
  BY <1>1 DEF TypeOK, JsonRpcCall, HttpRequest, NotConnected, CarriedOut, i
<1>4. suspect' \in [Threads -> Procs]
  BY <1>1 DEF TypeOK, JsonRpcCall, HttpRequest, NotConnected, CarriedOut, i
<1>5. connected' \in [Procs -> BOOLEAN]
  BY <1>1 DEF TypeOK, JsonRpcCall, HttpRequest, NotConnected, CarriedOut, i
<1> QED
  BY <1>2, <1>3, <1>4, <1>5

(***************************************************************************)
(* What a round trip does to the counts: it carries the call out at most   *)
(* once, and leaves it waiting on the device only when it was not.         *)
(***************************************************************************)
LEMMA JsonRpcCallCount ==
  ASSUME IInv, NEW t \in Threads, NEW r \in Results,
         pc[t] \in {"rpc", "retry"}, JsonRpcCall(t, r)
  PROVE  /\ \A j \in OpIds : j # opId[t] => executed'[j] = executed[j] /\ queued'[j] = queued[j]
         /\ executed'[opId[t]] <= executed[opId[t]] + 1
         /\ queued'[opId[t]] # Nil => r \in HttpErrors /\ executed'[opId[t]] = executed[opId[t]]
         /\ r = "ok" => executed'[opId[t]] > 0
         /\ r = Disconnected => executed'[opId[t]] <= executed[opId[t]] + Late
<1> DEFINE i == opId[t]
<1>1. i \in OpIds /\ executed \in [OpIds -> 0..2] /\ queued \in [OpIds -> Procs \cup {Nil}]
  BY ActiveId DEF IInv, TypeOK
<1>2. queued[i] = Nil
  <2>1. pc[t] = "retry" => op[i] = "call"
    BY DEF IInv, CallInv
  <2> QED
    BY <2>1 DEF IInv, CallInv, Restarts, Replaced
<1>3. CASE /\ r # Disconnected
           /\ CarriedOut(i)
           /\ UNCHANGED queued
  BY <1>1, <1>2, <1>3 DEF CarriedOut, HttpErrors, Disconnected, Late
<1>4. CASE /\ r \in HttpErrors \cup {"OtherError"}
           /\ UNCHANGED <<executed, queued>>
  BY <1>1, <1>2, <1>4 DEF HttpErrors, Disconnected, Late
<1>5. CASE /\ r \in HttpErrors
           /\ \E p \in Procs : queued' = [queued EXCEPT ![i] = p]
           /\ UNCHANGED executed
  BY <1>1, <1>5 DEF HttpErrors, Disconnected, Late
<1>6. CASE /\ r = Disconnected
           /\ \/ UNCHANGED executed
              \/ LateDisconnect /\ CarriedOut(i)
           /\ UNCHANGED queued
  BY <1>1, <1>2, <1>6 DEF CarriedOut, HttpErrors, Disconnected, Late
<1> QED
  BY <1>3, <1>4, <1>5, <1>6 DEF JsonRpcCall, HttpRequest, NotConnected, HttpErrors, Disconnected

(***************************************************************************)
(* What it does to the process that answered.                              *)
(***************************************************************************)
LEMMA JsonRpcCallSuspect ==
  ASSUME NEW t, NEW r, JsonRpcCall(t, r)
  PROVE  \/ UNCHANGED <<suspect, connected>>
         \/ \E p \in Procs : /\ status[p] = "serving"
                             /\ suspect' = [suspect EXCEPT ![t] = p]
                             /\ connected' = [connected EXCEPT ![p] = FALSE]
BY DEF JsonRpcCall, HttpRequest, NotConnected

LEMMA StutterStep ==
  ASSUME IInv, UNCHANGED vars
  PROVE  IInv'
<1> USE DEF vars, ticket, request, device
<1>1. TypeOK' /\ TicketInv' /\ CallInv' /\ LockInv' /\ LaunchProtected'
  BY DEF IInv, TypeOK, TicketInv, CallInv, LockInv, LaunchProtected
<1>2. ProcInv' /\ BootInv' /\ NoOrphanService' /\ DrainInv' /\ BrokenServiceReplaced'
  BY DEF IInv, ProcInv, BootInv, NoOrphanService, DrainInv, BrokenServiceReplaced, Live
<1> QED
  BY <1>1, <1>2 DEF IInv

(***************************************************************************)
(* The device's own steps.                                                 *)
(***************************************************************************)
LEMMA BootStep ==
  ASSUME IInv, NEW p \in Procs, Boot(p)
  PROVE  IInv'
<1> USE DEF Boot, ticket, request
<1>1. TypeOK'
  BY DEF IInv, TypeOK
<1>2. TicketInv' /\ CallInv' /\ LockInv' /\ LaunchProtected'
  BY DEF IInv, TypeOK, TicketInv, CallInv, LockInv, LaunchProtected
<1>3. ProcInv'
  BY DEF IInv, TypeOK, ProcInv, Serving
<1>4. BootInv'
  BY DEF IInv, TypeOK, BootInv, Live
<1>5. NoOrphanService'
  BY DEF IInv, TypeOK, NoOrphanService, Live
<1>6. DrainInv' /\ BrokenServiceReplaced'
  BY DEF IInv, TypeOK, DrainInv, BrokenServiceReplaced
<1> QED
  BY <1>1, <1>2, <1>3, <1>4, <1>5, <1>6 DEF IInv

LEMMA ExitStep ==
  ASSUME IInv, NEW p \in Procs, Exit(p)
  PROVE  IInv'
<1> USE DEF Exit, ticket
<1>1. TypeOK'
  BY DEF IInv, TypeOK
<1>2. \A i \in OpIds : queued'[i] \in {queued[i], Nil}
  BY DEF IInv, TypeOK
<1>3. TicketInv'
  BY <1>2 DEF IInv, TypeOK, TicketInv, Live
<1>4. CallInv'
  <2>1. \A t \in Threads : pc[t] # "idle" => opId[t] \in OpIds
    BY ActiveId DEF IInv
  <2>2. UNCHANGED <<pc, opId, op, outcome, attempts, executed>> /\ CallInv
    BY DEF IInv
  <2> QED
    BY ONLY <1>2, <2>1, <2>2 DEF CallInv, Restarts, Replaced
<1>5. LockInv' /\ LaunchProtected'
  BY DEF IInv, LockInv, LaunchProtected
<1>6. ProcInv'
  BY DEF IInv, TypeOK, ProcInv, Live, Unstarted
<1>7. BootInv'
  BY DEF IInv, TypeOK, BootInv, Live
<1>8. NoOrphanService'
  BY DEF IInv, TypeOK, NoOrphanService, Live
<1>9. DrainInv' /\ BrokenServiceReplaced'
  BY DEF IInv, TypeOK, DrainInv, BrokenServiceReplaced
<1> QED
  BY <1>1, <1>3, <1>4, <1>5, <1>6, <1>7, <1>8, <1>9 DEF IInv

LEMMA DisconnectStep ==
  ASSUME IInv, NEW p \in Procs, Disconnect(p)
  PROVE  IInv'
<1> USE DEF Disconnect, ticket, request
<1>1. TypeOK'
  BY DEF IInv, TypeOK
<1>2. TicketInv' /\ CallInv' /\ LockInv' /\ LaunchProtected'
  BY DEF IInv, TicketInv, CallInv, LockInv, LaunchProtected
<1>3. ProcInv'
  BY DEF IInv, TypeOK, ProcInv
<1>4. BootInv' /\ NoOrphanService' /\ DrainInv' /\ BrokenServiceReplaced'
  BY DEF IInv, BootInv, NoOrphanService, DrainInv, BrokenServiceReplaced, Live
<1> QED
  BY <1>1, <1>2, <1>3, <1>4 DEF IInv

LEMMA RunQueuedStep ==
  ASSUME IInv, NEW i \in OpIds, RunQueued(i)
  PROVE  IInv'
<1> USE DEF RunQueued, CarriedOut, ticket, device
<1>1. /\ executed[i] \in 0..1 /\ executed[i] <= Late
      /\ op[i] = "call" /\ outcome[i] \in HttpErrors
  BY DEF IInv, TypeOK, CallInv, Late
<1>2. TypeOK'
  BY <1>1 DEF IInv, TypeOK
<1>3. \A j \in OpIds : j # i => executed'[j] = executed[j] /\ queued'[j] = queued[j]
  BY DEF IInv, TypeOK
<1>4. executed'[i] = executed[i] + 1 /\ queued'[i] = Nil
  BY DEF IInv, TypeOK
<1>5. \A t \in Threads : pc[t] # "idle" => opId[t] \in OpIds /\ opId[t] # i
  BY <1>1, ActiveId DEF IInv, TicketInv, HttpErrors
<1>6. TicketInv'
  BY <1>1, <1>3 DEF IInv, TicketInv, HttpErrors
<1>7. CallInv'
  <2>1. /\ UNCHANGED <<pc, opId, op, outcome, attempts>> /\ CallInv
        /\ executed[i] \in Nat /\ Late \in Nat
    BY <1>1 DEF IInv, Late
  <2> QED
    BY ONLY <1>1, <1>3, <1>4, <1>5, <2>1 DEF CallInv, Restarts, Replaced
<1>8. LockInv' /\ LaunchProtected' /\ ProcInv'
  BY DEF IInv, LockInv, LaunchProtected, ProcInv
<1>9. BootInv' /\ NoOrphanService' /\ DrainInv' /\ BrokenServiceReplaced'
  BY DEF IInv, BootInv, NoOrphanService, DrainInv, BrokenServiceReplaced, Live
<1> QED
  BY <1>2, <1>6, <1>7, <1>8, <1>9 DEF IInv

(***************************************************************************)
(* The steps of a goroutine.  Each proof first collects what the step does *)
(* to the goroutine that takes it and that it leaves the others alone.     *)
(***************************************************************************)
LEMMA BeginStep ==
  ASSUME IInv, NEW t \in Threads, NEW k \in Kinds, Begin(t, k)
  PROVE  IInv'
<1> DEFINE i == ops + 1
<1>1. /\ i \in OpIds /\ TypeOK /\ k \in OpKinds
      /\ \A u \in Threads : opId[u] \in 0..MaxOps /\ opId[u] # i
  BY DEF IInv, TypeOK, TicketInv, Begin
<1>2. \A u \in Threads : u # t =>
         /\ pc'[u] = pc[u] /\ opId'[u] = opId[u] /\ suspect'[u] = suspect[u]
         /\ op'[opId'[u]] = op[opId[u]]
  BY <1>1 DEF Begin, Goto, TypeOK
<1>3. /\ pc[t] = "idle" /\ pc'[t] \in {"rpc", "start", "stop"}
      /\ pc'[t] = "rpc" <=> k = "call"
      /\ opId'[t] = i /\ op'[i] = k /\ suspect'[t] = Foreign
  BY <1>1 DEF Begin, Goto, Entry, TypeOK
<1>4. /\ ops' = i
      /\ \A j \in OpIds : j # i => op'[j] = op[j]
      /\ UNCHANGED <<outcome, attempts, executed, queued, mu, processConn, device>>
  BY <1>1 DEF Begin, TypeOK
<1>5. /\ op[i] = "none" /\ outcome[i] = "none" /\ attempts[i] = 0 /\ executed[i] = 0
      /\ queued[i] = Nil /\ status[i] = "none" /\ i \notin failed
  BY <1>1 DEF IInv, TicketInv, TypeOK
<1>6. TypeOK'
  BY <1>1 DEF TypeOK, Begin, Goto, Entry, Labels, device
<1> HIDE DEF i
<1>7. TicketInv'
  <2>1. TicketInv /\ ops \in Nat /\ i = ops + 1
    BY DEF IInv, TypeOK, i
  <2>2. \A u \in Threads : opId'[u] \in 0..ops'
    BY <1>2, <1>3, <1>4, <2>1 DEF TicketInv
  <2>3. \A u, v \in Threads : u # v /\ opId'[u] = opId'[v] => opId'[u] = 0
    BY <1>1, <1>2, <1>3, <2>1 DEF TicketInv
  <2>4. \A u \in Threads : pc'[u] # "idle" =>
          opId'[u] # 0 /\ op'[opId'[u]] # "none" /\ outcome'[opId'[u]] = "none"
    BY <1>1, <1>2, <1>3, <1>4, <1>5, <2>1 DEF TicketInv, OpKinds
  <2>5. \A j \in OpIds : j > ops' => j > ops /\ j # i
    BY <1>4, <2>1
  <2> QED
    BY <1>4, <2>1, <2>2, <2>3, <2>4, <2>5 DEF TicketInv, device
<1>8. CallInv'
  <2>1. \A u \in Threads : pc[u] # "idle" => opId[u] \in OpIds
    BY ActiveId DEF IInv
  <2>2. CallInv
    BY DEF IInv
  <2>3. \A u \in Threads : u # t /\ pc'[u] \in {"rpc", "retry"} => op'[opId'[u]] = "call"
    BY <1>2, <2>2 DEF CallInv
  <2>4. \A u \in Threads : u # t /\ pc'[u] = "rpc" =>
          attempts'[opId'[u]] = 0 /\ executed'[opId'[u]] = 0 /\ queued'[opId'[u]] = Nil
    BY <1>2, <1>4, <2>2 DEF CallInv
  <2>5. \A u \in Threads : u # t /\ pc'[u] \in Restarts /\ op'[opId'[u]] = "call" =>
          attempts'[opId'[u]] = 1 /\ executed'[opId'[u]] <= Late /\ queued'[opId'[u]] = Nil
    BY <1>2, <1>4, <2>2 DEF CallInv
  <2>6. /\ pc'[t] \in {"rpc", "retry"} => op'[opId'[t]] = "call"
        /\ pc'[t] = "rpc" =>
             attempts'[opId'[t]] = 0 /\ executed'[opId'[t]] = 0 /\ queued'[opId'[t]] = Nil
        /\ ~(pc'[t] \in Restarts /\ op'[opId'[t]] = "call")
    BY <1>3, <1>4, <1>5 DEF Restarts, Replaced
  <2>7. \A j \in OpIds :
          /\ executed'[j] <= Late + 1
          /\ queued'[j] # Nil =>
               executed'[j] <= Late /\ op'[j] = "call" /\ outcome'[j] \in HttpErrors
          /\ op'[j] = "call" /\ outcome'[j] = "ok" => executed'[j] > 0
    BY <1>4, <1>5, <2>2 DEF CallInv
  <2> QED
    BY <2>3, <2>4, <2>5, <2>6, <2>7 DEF CallInv, Late
<1>9. LockInv' /\ LaunchProtected'
  BY <1>2, <1>3, <1>4 DEF IInv, LockInv, LaunchProtected, Holding, device
<1>10. ProcInv'
  <2>1. ProcInv
    BY DEF IInv
  <2>2. \A u \in Threads : pc'[u] \in Unstarted => status'[opId'[u]] = "none"
    BY <1>2, <1>3, <1>4, <1>5, <2>1 DEF ProcInv, device
  <2>3. \A u \in Threads : suspect'[u] # Foreign => status'[suspect'[u]] \in {"serving", "dead"}
    BY <1>2, <1>3, <1>4, <2>1 DEF ProcInv, device
  <2> QED
    BY <1>4, <2>1, <2>2, <2>3 DEF ProcInv, device
<1>11. BootInv' /\ NoOrphanService'
  BY <1>2, <1>3, <1>4 DEF IInv, BootInv, NoOrphanService, Live, device
<1>12. DrainInv' /\ BrokenServiceReplaced'
  BY <1>2, <1>3, <1>4 DEF IInv, DrainInv, BrokenServiceReplaced, device
<1> QED
  BY <1>6, <1>7, <1>8, <1>9, <1>10, <1>11, <1>12 DEF IInv

(***************************************************************************)
(* A goroutine in an operation that touches only its own entries keeps     *)
(* TicketInv; one between its two round trips keeps CallInv.               *)
(***************************************************************************)
LEMMA TicketStep ==
  ASSUME TypeOK, TicketInv, NEW t \in Threads, pc[t] # "idle", UNCHANGED ticket,
         \A u \in Threads : u # t => pc'[u] = pc[u],
         pc'[t] # "idle" => outcome'[opId[t]] = outcome[opId[t]],
         \A j \in OpIds : j # opId[t] =>
            /\ outcome'[j] = outcome[j] /\ attempts'[j] = attempts[j]
            /\ executed'[j] = executed[j] /\ queued'[j] = queued[j]
            /\ status'[j] = status[j]
            /\ j \in failed' => j \in failed
  PROVE  TicketInv'
<1>1. \A u \in Threads : pc[u] # "idle" => opId[u] \in OpIds
  BY ActiveId
<1>2. \A j \in OpIds : j > ops => j # opId[t]
  BY DEF TypeOK, TicketInv
<1> QED
  BY <1>1, <1>2 DEF TicketInv, ticket

LEMMA CallStep ==
  ASSUME IInv, NEW t \in Threads, pc[t] \in Restarts \ {"retry"},
         UNCHANGED <<ticket, request>>,
         \A u \in Threads : u # t => pc'[u] = pc[u],
         pc'[t] \in Restarts \cup {"idle"},
         pc'[t] = "retry" => op[opId[t]] = "call",
         outcome'[opId[t]] = "ok" => op[opId[t]] # "call",
         \A j \in OpIds : j # opId[t] => outcome'[j] = outcome[j]
  PROVE  CallInv'
<1>1. opId[t] \in OpIds /\ outcome[opId[t]] = "none" /\ CallInv
  BY ActiveId DEF IInv, TicketInv, Restarts, Replaced
<1>2. \A j \in OpIds : queued[j] # Nil => j # opId[t]
  BY <1>1 DEF CallInv, HttpErrors
<1> QED
  BY <1>1, <1>2 DEF CallInv, Restarts, Replaced, ticket, request

LEMMA CloseConnStep ==
  ASSUME IInv, NEW t \in Threads, CloseConn(t)
  PROVE  IInv'
<1>1. /\ pc[t] = "stop" /\ pc'[t] = "drain"
      /\ \A u \in Threads : u # t => pc'[u] = pc[u]
      /\ \A u \in Threads : pc[u] \notin Holding
  BY DEF IInv, TypeOK, LockInv, CloseConn, Goto, Holding
<1>2. /\ open' = open \ {processConn} /\ processConn' = Nil
      /\ UNCHANGED <<ticket, outcome, request, mu, status, connected, failed>>
  BY DEF CloseConn
<1>3. TypeOK'
  BY DEF IInv, TypeOK, CloseConn, Goto, Labels, ticket, request
<1>4. TicketInv'
  BY <1>1, <1>2 DEF IInv, TicketInv, ticket, request
<1>5. CallInv'
  BY <1>1, <1>2 DEF IInv, CallInv, Restarts, Replaced, ticket, request
<1>6. LockInv' /\ LaunchProtected'
  BY <1>1, <1>2 DEF IInv, LockInv, LaunchProtected, Holding
<1>7. ProcInv'
  BY <1>1, <1>2 DEF IInv, ProcInv, Unstarted, ticket, request
<1>8. BootInv' /\ NoOrphanService'
  BY <1>1, <1>2 DEF IInv, BootInv, NoOrphanService, Live, Holding, ticket
<1>9. DrainInv'
  <2> SUFFICES ASSUME ~FlakyLink /\ failed = {},
                      pc'[t] = "drain", op[opId[t]] = "call", suspect[t] # Foreign
               PROVE  status[suspect[t]] = "dead" \/ suspect[t] \notin open'
    BY <1>1, <1>2 DEF IInv, DrainInv, ticket, request
  <2>1. suspect[t] \in Procs /\ status[suspect[t]] \in {"serving", "dead"}
    BY DEF IInv, TypeOK, ProcInv
  <2>2. status[suspect[t]] = "serving" /\ suspect[t] \in open => suspect[t] = processConn
    BY <2>1 DEF IInv, NoOrphanService, Live
  <2> QED
    BY <1>2, <2>1, <2>2
<1>10. BrokenServiceReplaced'
  BY <1>1, <1>2 DEF IInv, BrokenServiceReplaced, ticket, request
<1> QED
  BY <1>3, <1>4, <1>5, <1>6, <1>7, <1>8, <1>9, <1>10 DEF IInv

LEMMA DrainStep ==
  ASSUME IInv, NEW t \in Threads, Drain(t)
  PROVE  IInv'
<1>1. /\ pc[t] = "drain" /\ Drained
      /\ \A u \in Threads : u # t => pc'[u] = pc[u]
      /\ UNCHANGED <<ticket, request, mu, processConn, device>>
  BY DEF IInv, TypeOK, Drain, Finish, Goto
<1>2. opId[t] \in OpIds /\ opId[t] <= ops /\ \A u \in Threads : opId[u] = opId[t] => u = t
  BY <1>1, ActiveId DEF IInv
<1>3. \/ /\ op[opId[t]] = "stop" /\ pc'[t] = "idle" /\ outcome'[opId[t]] = "ok"
         /\ \A j \in OpIds : j # opId[t] => outcome'[j] = outcome[j]
      \/ /\ op[opId[t]] # "stop" /\ pc'[t] = "start" /\ outcome' = outcome
  BY <1>1, <1>2 DEF IInv, TypeOK, Drain, Finish, Goto
<1>4. TypeOK'
  <2>1. pc' \in [Threads -> Labels] /\ outcome' \in [OpIds -> Outcomes]
    BY DEF IInv, TypeOK, Drain, Finish, Goto, Labels, Outcomes, Results
  <2> QED
    BY <1>1, <2>1 DEF IInv, TypeOK, ticket, request, device
<1>5. TicketInv'
  BY <1>1, <1>2, <1>3, TicketStep DEF IInv, request, device
<1>6. CallInv'
  <2>1. outcome[opId[t]] = "none"
    BY <1>1 DEF IInv, TicketInv
  <2> QED
    BY <1>1, <1>2, <1>3, <2>1, CallStep DEF Restarts, Replaced
<1>7. LockInv' /\ LaunchProtected'
  BY <1>1, <1>3 DEF IInv, LockInv, LaunchProtected, Holding, ticket, device
<1>8. ProcInv'
  BY <1>1, <1>3 DEF IInv, ProcInv, Unstarted, ticket, request, device
<1>9. BootInv' /\ NoOrphanService'
  <2>1. \A u \in Threads : pc'[u] \in {"launch", "ready"} => pc[u] = pc'[u]
    BY <1>1, <1>3
  <2>2. \A u \in Threads : pc[u] = "ready" => pc'[u] = "ready"
    BY <1>1
  <2> QED
    BY <1>1, <2>1, <2>2 DEF IInv, BootInv, NoOrphanService, Live, ticket, device
<1>10. DrainInv'
  BY <1>1, <1>3 DEF IInv, DrainInv, ticket, request, device
<1>11. BrokenServiceReplaced'
  <2> SUFFICES ASSUME ~FlakyLink /\ ~SlowExit /\ failed = {},
                      op[opId[t]] = "call", suspect[t] # Foreign
               PROVE  status[suspect[t]] = "dead"
    BY <1>1 DEF IInv, BrokenServiceReplaced, ticket, request, device
  <2>1. suspect[t] \in Procs /\ status[suspect[t]] \in {"serving", "dead"}
    BY DEF IInv, TypeOK, ProcInv
  <2>2. SUFFICES ASSUME status[suspect[t]] = "serving" PROVE FALSE
    BY <2>1
  <2>3. suspect[t] \notin open
    BY <1>1, <2>2 DEF IInv, DrainInv
  <2>4. PICK p \in Procs : status[p] = "serving" /\ ~HungUp(p)
    BY <1>1, <2>1, <2>2 DEF Drained, PingFails, Serving
  <2>5. p = suspect[t]
    BY <2>1, <2>2, <2>4 DEF IInv, ProcInv
  <2> QED
    BY <2>3, <2>4, <2>5 DEF HungUp
<1> QED
  BY <1>4, <1>5, <1>6, <1>7, <1>8, <1>9, <1>10, <1>11 DEF IInv

LEMMA LockStep ==
  ASSUME IInv, NEW t \in Threads, Lock(t)
  PROVE  IInv'
<1>1. /\ pc[t] = "start" /\ pc'[t] = "check" /\ mu' = t
      /\ \A u \in Threads : u # t => pc'[u] = pc[u]
      /\ \A u \in Threads : pc[u] \notin Holding
      /\ UNCHANGED <<ticket, outcome, request, processConn, device>>
  BY DEF IInv, TypeOK, LockInv, Lock, Goto, Holding
<1>2. TypeOK'
  BY DEF IInv, TypeOK, Lock, Goto, Labels, ticket, request, device
<1>3. TicketInv'
  BY <1>1 DEF IInv, TicketInv, ticket, request, device
<1>4. CallInv'
  BY <1>1 DEF IInv, CallInv, Restarts, Replaced, ticket, request
<1>5. LockInv' /\ LaunchProtected'
  BY <1>1 DEF IInv, LockInv, LaunchProtected, Holding, ticket, device
<1>6. ProcInv'
  BY <1>1 DEF IInv, ProcInv, Unstarted, ticket, request, device
<1>7. BootInv' /\ NoOrphanService'
  BY <1>1 DEF IInv, BootInv, NoOrphanService, Live, ticket, device
<1>8. DrainInv' /\ BrokenServiceReplaced'
  BY <1>1 DEF IInv, DrainInv, BrokenServiceReplaced, ticket, request, device
<1> QED
  BY <1>2, <1>3, <1>4, <1>5, <1>6, <1>7, <1>8 DEF IInv

LEMMA CheckStep ==
  ASSUME IInv, NEW t \in Threads, Check(t)
  PROVE  IInv'
<1>1. /\ pc[t] = "check" /\ mu = t
      /\ \A u \in Threads : u # t => pc'[u] = pc[u] /\ pc[u] \notin Holding
      /\ UNCHANGED <<ticket, request, processConn, device>>
  BY DEF IInv, TypeOK, LockInv, Holding, Check, Started, Finish, Goto
<1>2. opId[t] \in OpIds /\ \A u \in Threads : opId[u] = opId[t] => u = t
  BY <1>1, ActiveId DEF IInv
<1>3. \/ /\ mu' = NoThread /\ outcome' = outcome
         /\ op[opId[t]] = "call" /\ pc'[t] = "retry"
      \/ /\ mu' = NoThread /\ outcome'[opId[t]] = "ok"
         /\ op[opId[t]] # "call" /\ pc'[t] = "idle"
      \/ PingFails /\ mu' = mu /\ outcome' = outcome /\ pc'[t] = "launch"
  BY <1>1, <1>2 DEF IInv, TypeOK, Check, Started, Finish, Goto
<1>4. \A j \in OpIds : j # opId[t] => outcome'[j] = outcome[j]
  BY <1>2 DEF IInv, TypeOK, Check, Started, Finish, Goto
<1>5. TypeOK'
  <2>1. pc' \in [Threads -> Labels] /\ outcome' \in [OpIds -> Outcomes]
    BY DEF IInv, TypeOK, Check, Started, Finish, Goto, Labels, Outcomes, Results
  <2>2. mu' \in Threads \cup {NoThread}
    BY <1>1, <1>3
  <2> QED
    BY <1>1, <2>1, <2>2 DEF IInv, TypeOK, ticket, request, device
<1>6. TicketInv'
  BY <1>1, <1>2, <1>3, <1>4, TicketStep DEF IInv, request, device
<1>7. CallInv'
  <2>1. outcome[opId[t]] = "none"
    BY <1>1 DEF IInv, TicketInv
  <2> QED
    BY <1>1, <1>2, <1>3, <1>4, <2>1, CallStep DEF Restarts, Replaced
<1>8. LockInv' /\ LaunchProtected'
  BY <1>1, <1>3 DEF IInv, LockInv, LaunchProtected, Holding, ticket, device
<1>9. ProcInv'
  BY <1>1, <1>3 DEF IInv, ProcInv, Unstarted, ticket, request, device
<1>10. BootInv'
  <2> SUFFICES ASSUME ~FlakyLink /\ failed = {} PROVE BootInv'
    BY <1>1 DEF BootInv, device
  <2>1. \A p \in Procs : status[p] # "booting"
    BY <1>1 DEF IInv, BootInv, Holding
  <2>2. \A u \in Threads : pc'[u] # "ready"
    BY <1>1, <1>3 DEF Holding
  <2>3. pc'[t] = "launch" => \A p \in Procs : status[p] # "serving"
    BY <1>3 DEF PingFails, Serving
  <2> QED
    BY <1>1, <2>1, <2>2, <2>3 DEF BootInv, Live, Holding, ticket, device
<1>11. NoOrphanService' /\ DrainInv'
  BY <1>1, <1>3 DEF IInv, NoOrphanService, DrainInv, Live, ticket, request, device
<1>12. BrokenServiceReplaced'
  BY <1>1, <1>3 DEF IInv, BrokenServiceReplaced, ticket, request, device
<1> QED
  BY <1>5, <1>6, <1>7, <1>8, <1>9, <1>10, <1>11, <1>12 DEF IInv

LEMMA LaunchStep ==
  ASSUME IInv, NEW t \in Threads, Launch(t)
  PROVE  IInv'
<1>1. /\ pc[t] = "launch" /\ pc'[t] = "ready" /\ mu = t
      /\ \A u \in Threads : u # t => pc'[u] = pc[u] /\ pc[u] \notin Holding
      /\ UNCHANGED <<ticket, outcome, request, mu, connected, failed>>
  BY DEF IInv, TypeOK, LockInv, Holding, Launch, Goto
<1>2. /\ opId[t] \in OpIds /\ opId[t] <= ops
      /\ \A u \in Threads : opId[u] = opId[t] => u = t
  BY <1>1, ActiveId DEF IInv
<1>3. /\ status[opId[t]] = "none" /\ status'[opId[t]] = "booting"
      /\ \A p \in Procs : p # opId[t] => status'[p] = status[p]
      /\ open' = open \cup {opId[t]} /\ processConn' = opId[t]
  BY <1>1, <1>2 DEF IInv, TypeOK, ProcInv, Unstarted, Launch
<1>4. TypeOK'
  BY <1>2 DEF IInv, TypeOK, Launch, Goto, Labels, ticket, request
<1>5. TicketInv'
  BY <1>1, <1>2, <1>3, TicketStep DEF IInv, request
<1>6. CallInv'
  <2>1. outcome[opId[t]] = "none"
    BY <1>1 DEF IInv, TicketInv
  <2> QED
    BY <1>1, <1>2, <2>1, CallStep DEF Restarts, Replaced
<1>7. LockInv' /\ LaunchProtected'
  BY <1>1, <1>3 DEF IInv, LockInv, LaunchProtected, Holding, ticket
<1>8. \A u \in Threads : /\ suspect[u] \in Procs
                         /\ suspect[u] # Foreign =>
                              /\ suspect[u] # opId[t]
                              /\ status'[suspect[u]] = status[suspect[u]]
                              /\ suspect[u] \in open' => suspect[u] \in open
  BY <1>3 DEF IInv, TypeOK, ProcInv
<1>9. ProcInv'
  <2>1. /\ ProcInv /\ open \subseteq Procs
        /\ \A u \in Threads : pc[u] \in Unstarted /\ u # t =>
              opId[u] \in Procs /\ opId[u] # opId[t]
    BY <1>2 DEF IInv, TypeOK
  <2>2. \A u \in Threads : pc'[u] \in Unstarted => status'[opId'[u]] = "none"
    BY <1>1, <1>3, <2>1 DEF ProcInv, Unstarted, ticket
  <2>3. \A u \in Threads : suspect'[u] # Foreign => status'[suspect'[u]] \in {"serving", "dead"}
    BY <1>1, <1>8, <2>1 DEF ProcInv, request
  <2>4. \A p \in open' : status'[p] # "none"
    BY <1>3, <2>1 DEF ProcInv
  <2>5. \A p \in Procs : status'[p] = "serving" <=> status[p] = "serving"
    BY <1>3
  <2> QED
    BY <1>1, <1>3, <2>1, <2>2, <2>3, <2>4, <2>5 DEF ProcInv
<1>10. BootInv' /\ NoOrphanService'
  <2> SUFFICES ASSUME ~FlakyLink /\ failed = {} PROVE BootInv' /\ NoOrphanService'
    BY <1>1 DEF BootInv, NoOrphanService
  <2>1. \A p \in Procs : Live(p)' => p = opId[t]
    BY <1>1, <1>3 DEF IInv, BootInv, Live
  <2>2. \A u \in Threads : pc'[u] \in {"launch", "ready"} => u = t
    BY <1>1 DEF Holding
  <2>3. open' \subseteq Procs
    BY <1>4 DEF TypeOK
  <2>4. BootInv'
    BY <1>1, <2>1, <2>2 DEF BootInv, Live, ticket
  <2>5. NoOrphanService'
    BY <1>3, <2>1, <2>3 DEF NoOrphanService
  <2> QED
    BY <2>4, <2>5
<1>11. DrainInv'
  BY <1>1, <1>8 DEF IInv, DrainInv, ticket, request
<1>12. BrokenServiceReplaced'
  BY <1>1, <1>8 DEF IInv, BrokenServiceReplaced, ticket, request
<1> QED
  BY <1>4, <1>5, <1>6, <1>7, <1>9, <1>10, <1>11, <1>12 DEF IInv

LEMMA LaunchFailsStep ==
  ASSUME IInv, NEW t \in Threads, LaunchFails(t)
  PROVE  IInv'
<1>1. /\ pc[t] = "launch" /\ pc'[t] = "idle" /\ mu = t /\ mu' = NoThread
      /\ \A u \in Threads : u # t => pc'[u] = pc[u] /\ pc[u] \notin Holding
      /\ UNCHANGED <<ticket, request, processConn, open, connected>>
  BY DEF IInv, TypeOK, LockInv, Holding, LaunchFails, CommandLost, Finish, Goto, device
<1>2. /\ opId[t] \in OpIds /\ opId[t] <= ops
      /\ \A u \in Threads : opId[u] = opId[t] => u = t
  BY <1>1, ActiveId DEF IInv
<1>3. /\ outcome'[opId[t]] = LaunchError
      /\ \A j \in OpIds : j # opId[t] => outcome'[j] = outcome[j]
  BY <1>2 DEF IInv, TypeOK, LaunchFails, Finish
<1>4. /\ status[opId[t]] = "none"
      /\ \A p \in Procs : p # opId[t] => status'[p] = status[p]
      /\ \/ status' = status /\ failed' = failed
         \/ status'[opId[t]] = "booting" /\ failed' = failed \cup {opId[t]}
  BY <1>1, <1>2 DEF IInv, TypeOK, ProcInv, Unstarted, LaunchFails, CommandLost, device
<1>5. TypeOK'
  <2>1. pc' \in [Threads -> Labels] /\ outcome' \in [OpIds -> Outcomes]
    BY DEF IInv, TypeOK, LaunchFails, Finish, Goto, Labels, Outcomes
  <2>2. status' \in [Procs -> {"none", "booting", "serving", "dead"}] /\ failed' \subseteq Launched
    BY <1>2 DEF IInv, TypeOK, LaunchFails, CommandLost, device
  <2> QED
    BY <1>1, <2>1, <2>2 DEF IInv, TypeOK, ticket, request
<1>6. TicketInv'
  BY <1>1, <1>2, <1>3, <1>4, TicketStep DEF IInv, request
<1>7. CallInv'
  BY <1>1, <1>3, CallStep DEF Restarts, Replaced, LaunchError
<1>8. LockInv' /\ LaunchProtected'
  BY <1>1 DEF IInv, TypeOK, LockInv, LaunchProtected, Holding, ticket
<1>9. ProcInv'
  <2>1. ProcInv /\ TypeOK
    BY DEF IInv
  <2>2. \A u \in Threads : pc'[u] \in Unstarted => status'[opId'[u]] = "none"
    BY <1>1, <1>2, <1>4, <2>1 DEF ProcInv, TypeOK, Unstarted, ticket
  <2>3. \A u \in Threads : suspect'[u] # Foreign => status'[suspect'[u]] \in {"serving", "dead"}
    BY <1>1, <1>4, <2>1 DEF ProcInv, TypeOK, request
  <2>4. \A p \in open' : status'[p] # "none"
    <3>1. open' = open /\ open \subseteq Procs
      BY <1>1, <2>1 DEF TypeOK
    <3> QED
      BY <1>4, <2>1, <3>1 DEF ProcInv
  <2>5. \A p \in Procs : status'[p] = "serving" <=> status[p] = "serving"
    BY <1>4
  <2> QED
    BY <1>1, <2>1, <2>2, <2>3, <2>4, <2>5 DEF ProcInv
<1>10. BootInv' /\ NoOrphanService' /\ DrainInv' /\ BrokenServiceReplaced'
  <2> SUFFICES ASSUME failed' = {}
               PROVE  BootInv' /\ NoOrphanService' /\ DrainInv' /\ BrokenServiceReplaced'
    BY DEF BootInv, NoOrphanService, DrainInv, BrokenServiceReplaced
  <2>1. status' = status /\ failed' = failed
    BY <1>4
  <2>2. BootInv' /\ NoOrphanService'
    BY <1>1, <2>1 DEF IInv, BootInv, NoOrphanService, Live, ticket
  <2>3. DrainInv' /\ BrokenServiceReplaced'
    BY <1>1, <2>1 DEF IInv, DrainInv, BrokenServiceReplaced, ticket, request
  <2> QED
    BY <2>2, <2>3
<1> QED
  BY <1>5, <1>6, <1>7, <1>8, <1>9, <1>10 DEF IInv

LEMMA ReadyStep ==
  ASSUME IInv, NEW t \in Threads, Ready(t)
  PROVE  IInv'
<1>1. /\ pc[t] = "ready" /\ Serving /\ mu = t /\ mu' = NoThread
      /\ \A u \in Threads : u # t => pc'[u] = pc[u] /\ pc[u] \notin Holding
      /\ UNCHANGED <<ticket, request, processConn, device>>
  BY DEF IInv, TypeOK, LockInv, Holding, Ready, PingOk, Started, Finish, Goto
<1>2. opId[t] \in OpIds
  BY <1>1, ActiveId DEF IInv
<1>3. \/ /\ op[opId[t]] = "call" /\ pc'[t] = "retry" /\ outcome' = outcome
      \/ /\ op[opId[t]] # "call" /\ pc'[t] = "idle" /\ outcome'[opId[t]] = "ok"
  BY <1>1, <1>2 DEF IInv, TypeOK, Ready, Started, Finish, Goto
<1>4. \A j \in OpIds : j # opId[t] => outcome'[j] = outcome[j]
  BY <1>2 DEF IInv, TypeOK, Ready, Started, Finish, Goto
<1>5. TypeOK'
  <2>1. pc' \in [Threads -> Labels] /\ outcome' \in [OpIds -> Outcomes]
    BY DEF IInv, TypeOK, Ready, Started, Finish, Goto, Labels, Outcomes, Results
  <2> QED
    BY <1>1, <2>1 DEF IInv, TypeOK, ticket, request, device
<1>6. TicketInv'
  BY <1>1, <1>2, <1>3, <1>4, TicketStep DEF IInv, request, device
<1>7. CallInv'
  <2>1. outcome[opId[t]] = "none"
    BY <1>1 DEF IInv, TicketInv
  <2> QED
    BY <1>1, <1>2, <1>3, <1>4, <2>1, CallStep DEF Restarts, Replaced
<1>8. LockInv' /\ LaunchProtected'
  BY <1>1, <1>3 DEF IInv, TypeOK, LockInv, LaunchProtected, Holding, ticket, device
<1>9. ProcInv'
  BY <1>1, <1>3 DEF IInv, ProcInv, Unstarted, ticket, request, device
<1>10. BootInv'
  <2> SUFFICES ASSUME ~FlakyLink /\ failed = {} PROVE BootInv'
    BY <1>1 DEF BootInv, device
  <2>1. status[opId[t]] = "serving"
    BY <1>1 DEF IInv, BootInv, Serving, Live
  <2>2. \A p \in Procs : status[p] # "booting"
    BY <1>1, <2>1 DEF IInv, BootInv, Holding
  <2>3. \A u \in Threads : pc'[u] \notin {"launch", "ready"}
    BY <1>1, <1>3 DEF Holding
  <2> QED
    BY <1>1, <2>2, <2>3 DEF BootInv, device
<1>11. NoOrphanService' /\ DrainInv'
  BY <1>1, <1>3 DEF IInv, NoOrphanService, DrainInv, Live, ticket, request, device
<1>12. BrokenServiceReplaced'
  BY <1>1, <1>3 DEF IInv, BrokenServiceReplaced, ticket, request, device
<1> QED
  BY <1>5, <1>6, <1>7, <1>8, <1>9, <1>10, <1>11, <1>12 DEF IInv

LEMMA ReadyTimeoutStep ==
  ASSUME IInv, NEW t \in Threads, ReadyTimeout(t)
  PROVE  IInv'
<1>1. /\ pc[t] = "ready" /\ pc'[t] = "idle" /\ mu = t /\ mu' = NoThread
      /\ \A u \in Threads : u # t => pc'[u] = pc[u] /\ pc[u] \notin Holding
      /\ failed' = failed \cup {opId[t]}
      /\ UNCHANGED <<ticket, request, processConn, open, status, connected>>
  BY DEF IInv, TypeOK, LockInv, Holding, ReadyTimeout, Finish, Goto
<1>2. opId[t] \in OpIds /\ opId[t] <= ops
  BY <1>1, ActiveId DEF IInv
<1>3. /\ outcome'[opId[t]] = LaunchError
      /\ \A j \in OpIds : j # opId[t] => outcome'[j] = outcome[j]
  BY <1>2 DEF IInv, TypeOK, ReadyTimeout, Finish
<1>4. TypeOK'
  <2>1. pc' \in [Threads -> Labels] /\ outcome' \in [OpIds -> Outcomes]
    BY DEF IInv, TypeOK, ReadyTimeout, Finish, Goto, Labels, Outcomes
  <2> QED
    BY <1>1, <1>2, <2>1 DEF IInv, TypeOK, ticket, request
<1>5. TicketInv'
  BY <1>1, <1>2, <1>3, TicketStep DEF IInv, request
<1>6. CallInv'
  BY <1>1, <1>3, CallStep DEF Restarts, Replaced, LaunchError
<1>7. LockInv' /\ LaunchProtected'
  BY <1>1 DEF IInv, TypeOK, LockInv, LaunchProtected, Holding, ticket
<1>8. ProcInv'
  BY <1>1 DEF IInv, ProcInv, Unstarted, ticket, request
<1>9. BootInv' /\ NoOrphanService' /\ DrainInv' /\ BrokenServiceReplaced'
  BY <1>1 DEF BootInv, NoOrphanService, DrainInv, BrokenServiceReplaced
<1> QED
  BY <1>4, <1>5, <1>6, <1>7, <1>8, <1>9 DEF IInv

(***************************************************************************)
(* The two round trips of a call.                                          *)
(***************************************************************************)
LEMMA RoundTripStep ==
  ASSUME IInv, NEW t \in Threads, NEW r \in Results,
         pc[t] \in {"rpc", "retry"}, JsonRpcCall(t, r), Attempt(t),
         \A u \in Threads : u # t => pc'[u] = pc[u],
         pc' \in [Threads -> Labels], outcome' \in [OpIds -> Outcomes],
         \A j \in OpIds : j # opId[t] => outcome'[j] = outcome[j],
         \/ pc'[t] = "idle" /\ outcome'[opId[t]] = r
         \/ /\ pc[t] = "rpc" /\ r = Disconnected
            /\ pc'[t] = "stop" /\ outcome'[opId[t]] = outcome[opId[t]],
         UNCHANGED <<ticket, mu, processConn, open, status, failed>>
  PROVE  IInv'
<1>1. /\ opId[t] \in OpIds /\ op[opId[t]] = "call" /\ outcome[opId[t]] = "none"
      /\ \A u \in Threads : opId[u] = opId[t] => u = t
  BY ActiveId DEF IInv, TicketInv, CallInv
<1>2. /\ attempts[opId[t]] = IF pc[t] = "rpc" THEN 0 ELSE 1
      /\ executed[opId[t]] \in Nat /\ queued[opId[t]] = Nil
      /\ executed[opId[t]] <= IF pc[t] = "rpc" THEN 0 ELSE Late
  BY <1>1 DEF IInv, TypeOK, CallInv, Restarts, Replaced
<1>3. /\ attempts'[opId[t]] = attempts[opId[t]] + 1
      /\ \A j \in OpIds : j # opId[t] => attempts'[j] = attempts[j]
  BY <1>1 DEF IInv, TypeOK, Attempt
<1>4. TypeOK'
  <2>1. attempts' \in [OpIds -> 0..2]
    BY <1>1, <1>2 DEF IInv, TypeOK, Attempt
  <2> QED
    BY <2>1, JsonRpcCallType DEF IInv, TypeOK, ticket
<1>5. TicketInv'
  BY <1>1, <1>3, JsonRpcCallCount, TicketStep DEF IInv
<1>6. CallInv'
  <2>1. /\ CallInv /\ Late \in Nat
        /\ \A u \in Threads : pc[u] # "idle" => opId[u] \in OpIds
    BY ActiveId DEF IInv, Late
  <2>2. /\ executed'[opId[t]] \in Nat /\ executed'[opId[t]] <= executed[opId[t]] + 1
        /\ queued'[opId[t]] # Nil => r \in HttpErrors /\ executed'[opId[t]] = executed[opId[t]]
        /\ r = "ok" => executed'[opId[t]] > 0
        /\ r = Disconnected => executed'[opId[t]] <= executed[opId[t]] + Late
    <3>1. executed' \in [OpIds -> 0..2]
      BY JsonRpcCallType
    <3>2. executed'[opId[t]] \in Nat
      BY ONLY <1>1, <3>1
    <3> QED
      BY <3>2, JsonRpcCallCount
  <2>3. \A j \in OpIds : j # opId[t] =>
           /\ executed'[j] = executed[j] /\ queued'[j] = queued[j]
           /\ attempts'[j] = attempts[j] /\ outcome'[j] = outcome[j]
    BY <1>3, JsonRpcCallCount
  <2>4. \A u \in Threads : u # t /\ pc[u] # "idle" => opId[u] \in OpIds /\ opId[u] # opId[t]
    BY <1>1, <2>1
  <2>5. \A u \in Threads : pc'[u] \in {"rpc", "retry"} => op[opId[u]] = "call"
    BY <2>1 DEF CallInv
  <2>6. \A u \in Threads : pc'[u] = "rpc" =>
           attempts'[opId[u]] = 0 /\ executed'[opId[u]] = 0 /\ queued'[opId[u]] = Nil
    BY <2>1, <2>3, <2>4 DEF CallInv
  <2>7. pc'[t] = "stop" =>
           attempts'[opId[t]] = 1 /\ executed'[opId[t]] <= Late /\ queued'[opId[t]] = Nil
    BY <1>2, <1>3, <2>1, <2>2 DEF Disconnected, HttpErrors
  <2>8. \A u \in Threads : u # t /\ pc'[u] \in Restarts /\ op[opId[u]] = "call" =>
           attempts'[opId[u]] = 1 /\ executed'[opId[u]] <= Late /\ queued'[opId[u]] = Nil
    BY <2>1, <2>3, <2>4 DEF CallInv, Restarts, Replaced
  <2>9. /\ executed'[opId[t]] <= Late + 1
        /\ queued'[opId[t]] # Nil =>
             executed'[opId[t]] <= Late /\ outcome'[opId[t]] \in HttpErrors
        /\ outcome'[opId[t]] = "ok" => executed'[opId[t]] > 0
    BY <1>1, <1>2, <2>1, <2>2 DEF Disconnected, HttpErrors
  <2>10. \A j \in OpIds : j # opId[t] =>
          /\ executed'[j] <= Late + 1
          /\ queued'[j] # Nil =>
               executed'[j] <= Late /\ op[j] = "call" /\ outcome'[j] \in HttpErrors
          /\ op[j] = "call" /\ outcome'[j] = "ok" => executed'[j] > 0
    BY <2>1, <2>3 DEF CallInv
  <2>11. pc'[t] \in Restarts => pc'[t] = "stop"
    BY DEF Restarts, Replaced
  <2> QED
    BY <1>1, <2>5, <2>6, <2>7, <2>8, <2>9, <2>10, <2>11 DEF CallInv, ticket, Late
<1>7. LockInv' /\ LaunchProtected'
  BY DEF IInv, LockInv, LaunchProtected, Holding, ticket
<1>8. /\ \A u \in Threads : u # t => suspect'[u] = suspect[u]
      /\ \/ suspect'[t] = suspect[t]
         \/ suspect'[t] \in Procs /\ status[suspect'[t]] = "serving"
      /\ \A p \in Procs : connected'[p] => connected[p]
  <2>1. CASE UNCHANGED <<suspect, connected>>
    BY <2>1
  <2>2. CASE \E p \in Procs : /\ status[p] = "serving"
                              /\ suspect' = [suspect EXCEPT ![t] = p]
                              /\ connected' = [connected EXCEPT ![p] = FALSE]
    BY <2>2 DEF IInv, TypeOK
  <2> QED
    BY <2>1, <2>2, JsonRpcCallSuspect
<1>9. ProcInv'
  BY <1>8 DEF IInv, ProcInv, Unstarted, ticket
<1>10. BootInv' /\ NoOrphanService'
  BY DEF IInv, BootInv, NoOrphanService, Live, ticket
<1>11. DrainInv' /\ BrokenServiceReplaced'
  BY <1>8 DEF IInv, DrainInv, BrokenServiceReplaced, ticket
<1> QED
  BY <1>4, <1>5, <1>6, <1>7, <1>9, <1>10, <1>11 DEF IInv

LEMMA RpcStep ==
  ASSUME IInv, NEW t \in Threads, Rpc(t)
  PROVE  IInv'
<1>1. opId[t] \in OpIds
  BY ActiveId DEF IInv, Rpc
<1>2. PICK r \in Results : /\ JsonRpcCall(t, r)
                           /\ IF Retryable(r) THEN Goto(t, "stop") /\ UNCHANGED outcome
                                              ELSE Finish(t, r)
  BY DEF Rpc
<1>3. Retryable(r) => r = Disconnected
  BY DEF Retryable, Results, HttpErrors, Disconnected
<1>4. /\ \A u \in Threads : u # t => pc'[u] = pc[u]
      /\ pc' \in [Threads -> Labels] /\ outcome' \in [OpIds -> Outcomes]
      /\ \A j \in OpIds : j # opId[t] => outcome'[j] = outcome[j]
      /\ \/ pc'[t] = "idle" /\ outcome'[opId[t]] = r
         \/ /\ r = Disconnected
            /\ pc'[t] = "stop" /\ outcome'[opId[t]] = outcome[opId[t]]
  <2>1. pc \in [Threads -> Labels] /\ outcome \in [OpIds -> Outcomes]
    BY DEF IInv, TypeOK
  <2>2. CASE r = Disconnected /\ Goto(t, "stop") /\ UNCHANGED outcome
    BY <2>1, <2>2 DEF Goto, Labels
  <2>3. CASE Finish(t, r)
    BY <1>1, <2>1, <2>3 DEF Goto, Finish, Labels, Outcomes
  <2> QED
    BY <1>2, <1>3, <2>2, <2>3
<1> QED
  BY <1>2, <1>4, RoundTripStep DEF Rpc

LEMMA RetryStep ==
  ASSUME IInv, NEW t \in Threads, Retry(t)
  PROVE  IInv'
<1>1. opId[t] \in OpIds
  BY ActiveId DEF IInv, Retry
<1>2. PICK r \in Results : JsonRpcCall(t, r) /\ Finish(t, r)
  BY DEF Retry
<1>3. /\ \A u \in Threads : u # t => pc'[u] = pc[u]
      /\ pc' \in [Threads -> Labels] /\ outcome' \in [OpIds -> Outcomes]
      /\ \A j \in OpIds : j # opId[t] => outcome'[j] = outcome[j]
      /\ pc'[t] = "idle" /\ outcome'[opId[t]] = r
  BY <1>1, <1>2 DEF IInv, TypeOK, Goto, Finish, Labels, Outcomes
<1> QED
  BY <1>2, <1>3, RoundTripStep DEF Retry

(***************************************************************************)
(* The invariant is inductive.                                             *)
(***************************************************************************)
LEMMA StepInv == IInv /\ [Next]_vars => IInv'
<1> SUFFICES ASSUME IInv, [Next]_vars PROVE IInv'
  OBVIOUS
<1>1. ASSUME NEW t \in Threads, Thread(t) PROVE IInv'
  BY <1>1, BeginStep, RpcStep, RetryStep, CloseConnStep, DrainStep, LockStep, CheckStep,
     LaunchStep, LaunchFailsStep, ReadyStep, ReadyTimeoutStep DEF Thread, Run, Acquire
<1>2. ASSUME NEW p \in Procs, Process(p) PROVE IInv'
  BY <1>2, BootStep, ExitStep, DisconnectStep DEF Process, HangUp, Crash
<1>3. ASSUME NEW i \in OpIds, RunQueued(i) PROVE IInv'
  BY <1>3, RunQueuedStep
<1>4. CASE UNCHANGED vars
  BY <1>4, StutterStep
<1> QED
  BY <1>1, <1>2, <1>3, <1>4 DEF Next

\* The inductive invariant holds in every reachable state.
THEOREM InvariantHolds == Spec => []IInv
<1> QED
  BY InitInv, StepInv, PTL DEF Spec

\* The variables keep their types; a call makes at most two round trips and is
\* carried out at most twice.
THEOREM TypeCorrect == Spec => []TypeOK
<1>1. IInv => TypeOK
  BY DEF IInv
<1> QED
  BY <1>1, InvariantHolds, PTL

\* StartUiautomator's wait for the process it launched is never disturbed by a
\* StopUiautomator or a second launch: d.mu is held all along.
THEOREM LaunchIsProtected == Spec => []LaunchProtected
<1>1. IInv => LaunchProtected
  BY DEF IInv
<1> QED
  BY <1>1, InvariantHolds, PTL

\* Without failed launches no process is left on the device that
\* StopUiautomator cannot stop, however many goroutines restart it.
THEOREM NoOrphans == Spec => []NoOrphanService
<1>1. IInv => NoOrphanService
  BY DEF IInv
<1> QED
  BY <1>1, InvariantHolds, PTL

\* jsonrpcCall's restart really gets rid of the process that answered
\* "not connected", before it asks again.
THEOREM BrokenIsReplaced == Spec => []BrokenServiceReplaced
<1>1. IInv => BrokenServiceReplaced
  BY DEF IInv
<1> QED
  BY <1>1, InvariantHolds, PTL

(***************************************************************************)
(* jsonrpcCall implements RpcPromise.                                      *)
(***************************************************************************)
LEMMA PromiseInit == Init => Promise!Init
<1> SUFFICES ASSUME Init PROVE Promise!Init
  OBVIOUS
<1>1. \A i \in OpIds : Phase(i) = "new" /\ executed[i] = 0
  BY DEF Init, Phase
<1>2. executed = [i \in OpIds |-> 0]
  BY DEF Init
<1> QED
  BY <1>1, <1>2 DEF Promise!Init

\* A step that changes neither executed nor the phase of a call is a stutter.
LEMMA PromiseStutter ==
  ASSUME executed' = executed, \A i \in OpIds : Phase(i)' = Phase(i)
  PROVE  UNCHANGED Promise!vars
BY DEF Promise!vars

\* An operation that returns: a call replies, anything else is a stutter.
LEMMA PromiseReply ==
  ASSUME IInv, NEW i \in OpIds, NEW r \in Outcomes \ {"none"},
         outcome[i] = "none", op' = op, outcome' = [outcome EXCEPT ![i] = r],
         \/ executed' = executed
         \/ /\ op[i] = "call" /\ executed[i] <= Late
            /\ executed' = [executed EXCEPT ![i] = @ + 1],
         op[i] = "call" /\ r = "ok" => executed'[i] > 0
  PROVE  [Promise!Next]_(Promise!vars)
<1>1. /\ \A j \in OpIds : j # i => Phase(j)' = Phase(j)
      /\ executed \in [OpIds -> 0..2] /\ outcome \in [OpIds -> Outcomes]
  BY DEF IInv, TypeOK, Phase
<1>2. CASE op[i] # "call"
  <2>1. Phase(i)' = Phase(i) /\ executed' = executed
    BY <1>2 DEF Phase
  <2> QED
    BY <1>1, <2>1, PromiseStutter
<1>3. CASE op[i] = "call"
  <2>1. Phase(i) = "pending" /\ Phase(i)' = IF r = "ok" THEN "ok" ELSE "error"
    BY <1>1, <1>3 DEF Phase
  <2>2. \/ executed' = executed
        \/ /\ executed[i] < IF LateDisconnect THEN 2 ELSE 1
           /\ executed' = [executed EXCEPT ![i] = @ + 1]
    BY <1>1 DEF Late
  <2>3. [j \in OpIds |-> Phase(j)]' =
          [[j \in OpIds |-> Phase(j)] EXCEPT ![i] = IF r = "ok" THEN "ok" ELSE "error"]
    BY <1>1, <2>1
  <2>4. Promise!Reply(i)
    BY <1>3, <2>1, <2>2, <2>3 DEF Promise!Reply, Promise!CarryOut
  <2> QED
    BY <2>4 DEF Promise!Next
<1> QED
  BY <1>2, <1>3

\* A request carried out while its call is pending, or after it was given up.
LEMMA PromiseApply ==
  ASSUME IInv, NEW i \in OpIds, op[i] = "call", op' = op, outcome' = outcome,
         outcome[i] \in HttpErrors \cup {"none"}, executed[i] <= Late,
         executed' = [executed EXCEPT ![i] = @ + 1]
  PROVE  Promise!Next
<1>1. \A j \in OpIds : Phase(j)' = Phase(j)
  BY DEF Phase
<1>2. Phase(i) \in {"pending", "error"}
  BY DEF Phase, HttpErrors
<1>3. executed[i] < IF LateDisconnect THEN 2 ELSE 1
  <2>1. executed[i] \in 0..2
    BY DEF IInv, TypeOK
  <2> QED
    BY <2>1 DEF Late
<1>4. Promise!Apply(i)
  BY <1>1, <1>2, <1>3 DEF Promise!Apply, Promise!CarryOut
<1> QED
  BY <1>4 DEF Promise!Next

LEMMA PromiseBegin ==
  ASSUME IInv, NEW t \in Threads, NEW k \in Kinds, Begin(t, k)
  PROVE  [Promise!Next]_(Promise!vars)
<1>0. PICK i \in OpIds : i = ops + 1
  BY DEF IInv, TypeOK, Begin
<1>1. outcome[i] = "none" /\ op[i] = "none"
  <2>1. i > ops
    BY <1>0 DEF IInv, TypeOK
  <2> QED
    BY <2>1 DEF IInv, TicketInv
<1>2. /\ op'[i] = k /\ \A j \in OpIds : j # i => op'[j] = op[j]
      /\ UNCHANGED <<outcome, executed>>
  BY <1>0 DEF IInv, TypeOK, Begin
<1>3. \A j \in OpIds : j # i => Phase(j)' = Phase(j)
  BY <1>2 DEF Phase
<1>4. CASE k # "call"
  <2>1. Phase(i)' = Phase(i)
    BY <1>1, <1>2, <1>4 DEF Phase
  <2> QED
    BY <1>2, <1>3, <2>1, PromiseStutter
<1>5. CASE k = "call"
  <2>1. Phase(i) = "new" /\ Phase(i)' = "pending"
    BY <1>1, <1>2, <1>5 DEF Phase
  <2>2. [j \in OpIds |-> Phase(j)]' = [[j \in OpIds |-> Phase(j)] EXCEPT ![i] = "pending"]
    BY <1>1, <1>3, <2>1
  <2>3. Promise!Issue(i)
    BY <1>1, <1>2, <2>1, <2>2 DEF Promise!Issue
  <2> QED
    BY <1>1, <2>3 DEF Promise!Next
<1> QED
  BY <1>4, <1>5

LEMMA PromiseRpc ==
  ASSUME IInv, NEW t \in Threads, Rpc(t) \/ Retry(t)
  PROVE  [Promise!Next]_(Promise!vars)
<1> DEFINE i == opId[t]
<1>1. /\ pc[t] \in {"rpc", "retry"} /\ i \in OpIds /\ op' = op
      /\ op[i] = "call" /\ outcome[i] = "none" /\ executed[i] <= Late
  <2>1. pc[t] \in {"rpc", "retry"} /\ op' = op
    BY DEF Rpc, Retry, ticket
  <2> QED
    BY <2>1, ActiveId DEF IInv, TicketInv, CallInv, Restarts, Replaced, Late
<1>2. PICK r \in Results :
         /\ JsonRpcCall(t, r)
         /\ \/ outcome' = outcome
            \/ outcome' = [outcome EXCEPT ![i] = r]
  BY DEF Rpc, Retry, Finish
<1>3. executed' = executed \/ executed' = [executed EXCEPT ![i] = @ + 1]
  BY <1>2 DEF JsonRpcCall, HttpRequest, NotConnected, CarriedOut
<1>4. r = "ok" => executed'[i] > 0
  BY <1>1, <1>2, JsonRpcCallCount
<1>5. CASE outcome' = outcome
  <2>1. CASE executed' = executed
    <3>1. \A j \in OpIds : Phase(j)' = Phase(j)
      BY <1>1, <1>5 DEF Phase
    <3> QED
      BY <2>1, <3>1, PromiseStutter
  <2>2. CASE executed' = [executed EXCEPT ![i] = @ + 1]
    BY <1>1, <1>5, <2>2, PromiseApply
  <2> QED
    BY <1>3, <2>1, <2>2
<1>6. CASE outcome' = [outcome EXCEPT ![i] = r]
  <2>1. r \in Outcomes \ {"none"}
    BY DEF Results, Outcomes, HttpErrors, Disconnected
  <2> QED
    BY <1>1, <1>3, <1>4, <1>6, <2>1, PromiseReply
<1> QED
  BY <1>2, <1>5, <1>6

\* Starting and stopping the service: the operation goes on, or it returns,
\* and only a call whose launch failed returns from here.
LEMMA PromiseLifecycle ==
  ASSUME IInv, NEW t \in Threads,
         \/ CloseConn(t) \/ Drain(t) \/ Lock(t) \/ Check(t)
         \/ Launch(t) \/ LaunchFails(t) \/ Ready(t) \/ ReadyTimeout(t)
  PROVE  [Promise!Next]_(Promise!vars)
<1> DEFINE i == opId[t]
<1>1. /\ pc[t] # "idle" /\ op' = op /\ executed' = executed
      /\ \/ outcome' = outcome
         \/ op[i] # "call" /\ outcome' = [outcome EXCEPT ![i] = "ok"]
         \/ outcome' = [outcome EXCEPT ![i] = LaunchError]
  BY DEF CloseConn, Drain, Lock, Check, Launch, LaunchFails, Ready, ReadyTimeout,
         Started, Finish, ticket, request
<1>2. i \in OpIds /\ outcome[i] = "none"
  BY <1>1, ActiveId DEF IInv, TicketInv
<1>3. CASE outcome' = outcome
  <2>1. \A j \in OpIds : Phase(j)' = Phase(j)
    BY <1>1, <1>3 DEF Phase
  <2> QED
    BY <1>1, <2>1, PromiseStutter
<1>4. CASE op[i] # "call" /\ outcome' = [outcome EXCEPT ![i] = "ok"]
  BY <1>1, <1>2, <1>4, PromiseReply DEF Outcomes, Results
<1>5. CASE outcome' = [outcome EXCEPT ![i] = LaunchError]
  BY <1>1, <1>2, <1>5, PromiseReply DEF Outcomes, LaunchError
<1> QED
  BY <1>1, <1>3, <1>4, <1>5

LEMMA PromiseStep ==
  ASSUME IInv, [Next]_vars
  PROVE  [Promise!Next]_(Promise!vars)
<1>1. ASSUME NEW t \in Threads, Thread(t) PROVE [Promise!Next]_(Promise!vars)
  BY <1>1, PromiseBegin, PromiseRpc, PromiseLifecycle DEF Thread, Run, Acquire
<1>2. ASSUME NEW p \in Procs, Process(p) PROVE [Promise!Next]_(Promise!vars)
  <2>1. UNCHANGED <<op, outcome, executed>>
    BY <1>2 DEF Process, Boot, HangUp, Crash, Exit, Disconnect, ticket, request
  <2>2. \A j \in OpIds : Phase(j)' = Phase(j)
    BY <2>1 DEF Phase
  <2> QED
    BY <2>1, <2>2, PromiseStutter
<1>3. ASSUME NEW i \in OpIds, RunQueued(i) PROVE [Promise!Next]_(Promise!vars)
  <2>1. /\ UNCHANGED <<op, outcome>> /\ executed' = [executed EXCEPT ![i] = @ + 1]
        /\ op[i] = "call" /\ outcome[i] \in HttpErrors /\ executed[i] <= Late
    BY <1>3 DEF IInv, CallInv, RunQueued, CarriedOut, ticket
  <2> QED
    BY <2>1, PromiseApply
<1>4. CASE UNCHANGED vars
  <2>1. UNCHANGED <<op, outcome, executed>>
    BY <1>4 DEF vars, ticket, request
  <2>2. \A j \in OpIds : Phase(j)' = Phase(j)
    BY <2>1 DEF Phase
  <2> QED
    BY <2>1, <2>2, PromiseStutter
<1> QED
  BY <1>1, <1>2, <1>3, <1>4 DEF Next

\* Every call is carried out at most MaxApply times, success means that it was
\* carried out and stays so: jsonrpcCall repeats no request whose answer was lost.
THEOREM CallKeepsPromise == Spec => CallPromise
<1>1. Init => Promise!Init
  BY PromiseInit
<1>2. IInv /\ [Next]_vars => [Promise!Next]_(Promise!vars)
  BY PromiseStep
<1> QED
  BY <1>1, <1>2, InvariantHolds, PTL DEF Spec, CallPromise, Promise!Spec
=============================================================================
