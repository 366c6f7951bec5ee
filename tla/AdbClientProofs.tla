-------------------------- MODULE AdbClientProofs ---------------------------
(* What holds of AdbClient for every value of its constants.               *)
EXTENDS AdbClient, TLAPS

USE AdbAssumption

Labels  == {"idle", "lock", "dial", "list", "transport", "shell", "tunnel"}
Results == {"none", "ok", "error", "notfound"}

\* Where a step leaves its user.
Moves(u, l, q, r, f) ==
  /\ pc' = [pc EXCEPT ![u] = l]
  /\ queue' = [queue EXCEPT ![u] = q]
  /\ result' = [result EXCEPT ![u] = r]
  /\ found' = [found EXCEPT ![u] = f]

\* What the invariant asks of that.
Sound(u, l, q, r, f) ==
  /\ l \in Labels /\ q \in SUBSET Serials /\ r \in Results /\ f \in Serials \cup {NoSerial}
  /\ l \in {"transport", "shell", "tunnel"} => q # {}
  /\ l = "tunnel" => kind[u] = "tunnel"
  /\ l = "idle" /\ kind[u] = "find" =>
       /\ r = "ok" => f \in had[u]
       /\ r = "notfound" /\ u \notin faulted' => stayed[u] = {}
  /\ l # "idle" /\ kind[u] = "find" /\ u \notin faulted' /\ q # {} =>
       \A s \in stayed[u] : devices[s] = "model" /\ s \in q

\* The connections that it may leave open.
Closes(u, l, r) ==
  u \in open' => \/ l \in {"list", "transport", "shell", "tunnel"}
                 \/ l = "idle" /\ kind[u] = "tunnel" /\ r = "ok"

\* How it deals with the mutex.
Mutex(u, l) ==
  \/ pc[u] # "dial" /\ l # "dial" /\ mu' = mu
  \/ pc[u] = "dial" /\ l # "dial" /\ mu' = NoUser
  \/ mu = NoUser /\ l = "dial" /\ mu' = u

(***************************************************************************)
(* Initially the invariant holds.                                          *)
(***************************************************************************)
LEMMA InitInv == Init => IInv
  BY DEF Init, IInv, TypeOK, NoLeak, FindIsRight, TunnelInv, HistoryInv, QueueInv, Searching

(***************************************************************************)
(* A step of one user in an operation keeps the invariant if it leaves     *)
(* that user in order.                                                     *)
(***************************************************************************)
LEMMA UserStep ==
  ASSUME IInv, NEW u \in Users, NEW l, NEW q, NEW r, NEW f,
         pc[u] # "idle", Moves(u, l, q, r, f), Sound(u, l, q, r, f),
         Closes(u, l, r), Mutex(u, l),
         UNCHANGED <<kind, ops, devices, changes, had, stayed>>,
         open' \in {open, open \ {u}, open \cup {u}},
         faulted' \in {faulted, faulted \cup {u}}
  PROVE  IInv'
<1>1. /\ TypeOK /\ NoLeak /\ FindIsRight /\ TunnelInv /\ HistoryInv /\ QueueInv
      /\ l \in Labels /\ q \in SUBSET Serials /\ r \in Results /\ f \in Serials \cup {NoSerial}
  BY DEF IInv, Sound
<1>2. /\ pc'[u] = l /\ queue'[u] = q /\ result'[u] = r /\ found'[u] = f
      /\ \A v \in Users : v # u =>
           /\ pc'[v] = pc[v] /\ queue'[v] = queue[v]
           /\ result'[v] = result[v] /\ found'[v] = found[v]
           /\ v \in open' <=> v \in open
           /\ v \in faulted' <=> v \in faulted
  BY <1>1 DEF Moves, TypeOK
<1>3. TypeOK'
  <2>1. /\ pc' \in [Users -> Labels] /\ queue' \in [Users -> SUBSET Serials]
        /\ result' \in [Users -> Results] /\ found' \in [Users -> Serials \cup {NoSerial}]
    BY <1>1 DEF Moves, TypeOK, Labels, Results
  <2>2. open' \subseteq Users /\ faulted' \subseteq Users
    BY <1>1 DEF TypeOK
  <2>3. mu' \in Users \cup {NoUser}
    BY <1>1 DEF Mutex, TypeOK
  <2>4. \A v \in Users : mu' = v <=> pc'[v] = "dial"
    BY <1>1, <1>2 DEF Mutex, TypeOK
  <2>5. \A v \in Users : pc'[v] \in {"transport", "shell", "tunnel"} => queue'[v] # {}
    BY <1>1, <1>2 DEF Sound, TypeOK
  <2> QED
    BY <1>1, <2>1, <2>2, <2>3, <2>4, <2>5 DEF TypeOK, Labels, Results
<1>4. NoLeak'
  BY <1>1, <1>2 DEF NoLeak, Closes, TypeOK
<1>5. FindIsRight'
  BY <1>1, <1>2 DEF FindIsRight, Sound
<1>6. TunnelInv'
  BY <1>1, <1>2 DEF TunnelInv, Sound
<1>7. HistoryInv'
  BY <1>1, <1>2 DEF HistoryInv, Searching, Matches
<1>8. QueueInv'
  BY <1>1, <1>2 DEF QueueInv, Searching, Sound
<1> QED
  BY <1>3, <1>4, <1>5, <1>6, <1>7, <1>8 DEF IInv

(***************************************************************************)
(* Beginning an operation.                                                 *)
(***************************************************************************)
LEMMA BeginStep ==
  ASSUME IInv, NEW u \in Users, NEW k \in Kinds, Begin(u, k)
  PROVE  IInv'
<1> DEFINE H == {s \in Serials : k = "find" /\ Matches(s)}
<1>1. PICK q \in IF k \in {"shell", "tunnel"} THEN {{s} : s \in Serials} ELSE {{}} :
        queue' = [queue EXCEPT ![u] = q]
  BY DEF Begin
<1>2. /\ TypeOK /\ NoLeak /\ FindIsRight /\ TunnelInv /\ HistoryInv /\ QueueInv
      /\ q \in SUBSET Serials /\ k \in OpKinds
      /\ k = "find" => q = {}
  BY <1>1 DEF IInv
<1>3. /\ pc[u] = "idle" /\ ops < MaxOps /\ ops' = ops + 1
      /\ pc' = [pc EXCEPT ![u] = "lock"] /\ kind' = [kind EXCEPT ![u] = k]
      /\ result' = [result EXCEPT ![u] = "none"] /\ found' = [found EXCEPT ![u] = NoSerial]
      /\ open' = open \ {u} /\ faulted' = faulted \ {u}
      /\ had' = [had EXCEPT ![u] = H] /\ stayed' = [stayed EXCEPT ![u] = H]
      /\ UNCHANGED <<mu, devices, changes>>
  BY <1>2 DEF Begin, Close, Goto, world, TypeOK
<1>4. /\ pc'[u] = "lock" /\ kind'[u] = k /\ queue'[u] = q /\ had'[u] = H /\ stayed'[u] = H
      /\ u \notin open' /\ u \notin faulted'
      /\ \A v \in Users : v # u =>
           /\ pc'[v] = pc[v] /\ kind'[v] = kind[v] /\ queue'[v] = queue[v]
           /\ result'[v] = result[v] /\ found'[v] = found[v]
           /\ had'[v] = had[v] /\ stayed'[v] = stayed[v]
           /\ v \in open' <=> v \in open
           /\ v \in faulted' <=> v \in faulted
  BY <1>1, <1>2, <1>3 DEF TypeOK
<1>5. TypeOK'
  <2>1. \A v \in Users : /\ mu' = v <=> pc'[v] = "dial"
                         /\ pc'[v] \in {"transport", "shell", "tunnel"} => queue'[v] # {}
    BY <1>2, <1>3, <1>4 DEF TypeOK
  <2>2. H \in SUBSET Serials
    OBVIOUS
  <2> QED
    BY <1>1, <1>2, <1>3, <2>1, <2>2 DEF TypeOK
<1>6. NoLeak'
  BY <1>2, <1>3, <1>4 DEF NoLeak, TypeOK
<1>7. FindIsRight' /\ TunnelInv'
  BY <1>2, <1>4 DEF FindIsRight, TunnelInv
<1>8. HistoryInv'
  <2>1. \A s : Matches(s)' <=> Matches(s)
    BY <1>3 DEF Matches
  <2> QED
    BY <1>2, <1>4, <2>1 DEF HistoryInv, Searching
<1>9. QueueInv'
  BY <1>2, <1>3, <1>4 DEF QueueInv, Searching
<1> QED
  BY <1>5, <1>6, <1>7, <1>8, <1>9 DEF IInv

(***************************************************************************)
(* What a user does that gives up the device s, because a request has met  *)
(* a fault or s is not one that has fitted all the time.                   *)
(***************************************************************************)
LEMMA GivesUp ==
  ASSUME IInv, NEW u \in Users, NEW s \in queue[u], pc[u] # "idle", GiveUp(u, s),
         faulted' \in {faulted, faulted \cup {u}},
         kind[u] = "find" /\ u \notin faulted' => s \notin stayed[u]
  PROVE  \E l, q, r, f :
           l \in {"idle", "lock"} /\ Moves(u, l, q, r, f) /\ Sound(u, l, q, r, f)
<1>1. /\ result[u] \in Results /\ found[u] \in Serials \cup {NoSerial}
      /\ queue[u] \in SUBSET Serials /\ NoSerial \in Serials \cup {NoSerial}
  BY DEF IInv, TypeOK, Results
<1>2. kind[u] = "find" /\ u \notin faulted' =>
        \A t \in stayed[u] : devices[t] = "model" /\ t \in queue[u]
  <2>1. kind[u] = "find" => Searching(u)
    BY DEF Searching
  <2> QED
    BY <2>1 DEF IInv, QueueInv
<1>3. CASE kind[u] # "find" /\ Return(u, "error", NoSerial)
  <2>1. Moves(u, "idle", {}, "error", NoSerial)
    BY <1>3 DEF Return, Goto, Moves
  <2>2. Sound(u, "idle", {}, "error", NoSerial)
    BY <1>3 DEF Sound, Labels, Results
  <2> QED
    BY <2>1, <2>2
<1>4. CASE kind[u] = "find" /\ queue[u] = {s} /\ Return(u, "notfound", NoSerial)
  <2>1. Moves(u, "idle", {}, "notfound", NoSerial)
    BY <1>4 DEF Return, Goto, Moves
  <2>2. u \notin faulted' => stayed[u] = {}
    BY <1>2, <1>4
  <2>3. Sound(u, "idle", {}, "notfound", NoSerial)
    BY <1>4, <2>2 DEF Sound, Labels, Results
  <2> QED
    BY <2>1, <2>3
<1>5. CASE kind[u] = "find" /\ queue[u] # {s} /\ Ask(u, queue[u] \ {s})
  <2>1. Moves(u, "lock", queue[u] \ {s}, result[u], found[u])
    BY <1>5 DEF Ask, Goto, Moves, answer, IInv, TypeOK
  <2>2. Sound(u, "lock", queue[u] \ {s}, result[u], found[u])
    BY <1>1, <1>2, <1>5 DEF Sound, Labels
  <2> QED
    BY <2>1, <2>2
<1> QED
  BY <1>3, <1>4, <1>5 DEF GiveUp

(***************************************************************************)
(* DialADB.                                                                *)
(***************************************************************************)
LEMMA LockStep ==
  ASSUME IInv, NEW u \in Users, Lock(u)
  PROVE  IInv'
<1>1. /\ pc[u] = "lock" /\ mu = NoUser /\ mu' = u
      /\ pc' = [pc EXCEPT ![u] = "dial"]
      /\ UNCHANGED <<result, found, queue, kind, ops, open, devices, changes, had, stayed, faulted>>
  BY DEF Lock, Continue, Goto, answer, world, history
<1>2. Moves(u, "dial", queue[u], result[u], found[u])
  BY <1>1 DEF Moves, IInv, TypeOK
<1>3. Sound(u, "dial", queue[u], result[u], found[u])
  BY <1>1 DEF Sound, Labels, Results, Searching, IInv, TypeOK, QueueInv
<1>4. Closes(u, "dial", result[u])
  BY <1>1 DEF Closes, IInv, NoLeak
<1>5. Mutex(u, "dial")
  BY <1>1 DEF Mutex
<1> QED
  BY <1>1, <1>2, <1>3, <1>4, <1>5, UserStep

LEMMA DialStep ==
  ASSUME IInv, NEW u \in Users, Dial(u)
  PROVE  IInv'
<1>1. /\ pc[u] = "dial" /\ mu' = NoUser
      /\ UNCHANGED <<kind, ops, devices, changes, had, stayed>>
      /\ u \notin open
  BY DEF Dial, world, IInv, NoLeak
<1>2. CASE /\ open' = open \cup {u} /\ NoFault
           /\ Continue(u, IF queue[u] = {} THEN "list" ELSE "transport")
  <2> DEFINE l == IF queue[u] = {} THEN "list" ELSE "transport"
  <2>1. Moves(u, l, queue[u], result[u], found[u]) /\ faulted' = faulted
    BY <1>2 DEF Continue, Goto, answer, Moves, NoFault, IInv, TypeOK
  <2>2. Sound(u, l, queue[u], result[u], found[u])
    BY <1>1, <2>1 DEF Sound, Labels, Results, Searching, IInv, TypeOK, QueueInv
  <2>3. Closes(u, l, result[u]) /\ Mutex(u, l)
    BY <1>1 DEF Closes, Mutex
  <2> QED
    BY <1>1, <1>2, <2>1, <2>2, <2>3, UserStep
<1>3. CASE Fault(u) /\ open' = open /\ queue[u] = {} /\ Return(u, "error", NoSerial)
  <2>1. Moves(u, "idle", {}, "error", NoSerial) /\ faulted' = faulted \cup {u}
    BY <1>3 DEF Return, Goto, Moves, Fault
  <2>2. Sound(u, "idle", {}, "error", NoSerial)
    BY DEF Sound, Labels, Results
  <2>3. Closes(u, "idle", "error") /\ Mutex(u, "idle")
    BY <1>1, <1>3 DEF Closes, Mutex
  <2> QED
    BY <1>1, <1>3, <2>1, <2>2, <2>3, UserStep
<1>4. CASE /\ Fault(u) /\ open' = open
           /\ \E s \in Serials : First(s, queue[u]) /\ GiveUp(u, s)
  <2>1. PICK s \in queue[u] : GiveUp(u, s)
    BY <1>4 DEF First
  <2>2. faulted' = faulted \cup {u}
    BY <1>4 DEF Fault
  <2>3. PICK l, q, r, f : l \in {"idle", "lock"} /\ Moves(u, l, q, r, f) /\ Sound(u, l, q, r, f)
    BY <1>1, <2>1, <2>2, GivesUp
  <2>4. Closes(u, l, r) /\ Mutex(u, l)
    BY <1>1, <1>4, <2>3 DEF Closes, Mutex
  <2> QED
    BY <1>1, <1>4, <2>2, <2>3, <2>4, UserStep
<1> QED
  BY <1>2, <1>3, <1>4 DEF Dial

(***************************************************************************)
(* What does not concern the mutex, and leaves a connection open only to   *)
(* go on with it.                                                          *)
(***************************************************************************)
LEMMA AskStep ==
  ASSUME IInv, NEW u \in Users, NEW l, NEW q, NEW r, NEW f,
         pc[u] \in {"list", "transport", "shell", "tunnel"}, l # "dial",
         Moves(u, l, q, r, f), Sound(u, l, q, r, f),
         \/ open' = open \ {u}
         \/ open' = open /\ (\/ l \in {"list", "transport", "shell", "tunnel"}
                             \/ l = "idle" /\ kind[u] = "tunnel" /\ r = "ok"),
         faulted' \in {faulted, faulted \cup {u}},
         UNCHANGED <<kind, ops, mu, world, had, stayed>>
  PROVE  IInv'
<1>1. Closes(u, l, r) /\ Mutex(u, l)
  BY DEF Closes, Mutex
<1>2. UNCHANGED <<kind, ops, devices, changes, had, stayed>>
  BY DEF world
<1> QED
  BY <1>1, <1>2, UserStep

(***************************************************************************)
(* TransportTo.                                                            *)
(***************************************************************************)
LEMMA TransportStep ==
  ASSUME IInv, NEW u \in Users, TransportTo(u)
  PROVE  IInv'
<1>1. pc[u] = "transport" /\ UNCHANGED <<kind, ops, mu, world, had, stayed>>
  BY DEF TransportTo
<1>2. PICK s \in queue[u] :
        \/ /\ Continue(u, IF kind[u] = "tunnel" THEN "tunnel" ELSE "shell")
           /\ NoFault /\ UNCHANGED open
        \/ Close(u) /\ GiveUp(u, s) /\ ((~Routed(s) /\ NoFault) \/ Fault(u))
  BY DEF TransportTo, Status, First
<1>3. CASE /\ Continue(u, IF kind[u] = "tunnel" THEN "tunnel" ELSE "shell")
           /\ NoFault /\ UNCHANGED open
  <2> DEFINE l == IF kind[u] = "tunnel" THEN "tunnel" ELSE "shell"
  <2>1. Moves(u, l, queue[u], result[u], found[u]) /\ faulted' = faulted /\ open' = open
    BY <1>3 DEF Continue, Goto, answer, Moves, NoFault, IInv, TypeOK
  <2>2. Sound(u, l, queue[u], result[u], found[u])
    BY <1>1, <2>1 DEF Sound, Labels, Results, Searching, IInv, TypeOK, QueueInv
  <2>3. l \in {"shell", "tunnel"}
    OBVIOUS
  <2> HIDE DEF l
  <2> QED
    BY <1>1, <2>1, <2>2, <2>3, AskStep
<1>4. CASE Close(u) /\ GiveUp(u, s) /\ ((~Routed(s) /\ NoFault) \/ Fault(u))
  <2>1. faulted' \in {faulted, faulted \cup {u}} /\ (u \notin faulted' => ~Routed(s))
    BY <1>4 DEF NoFault, Fault
  <2>2. kind[u] = "find" /\ u \notin faulted' => s \notin stayed[u]
    BY <1>1, <2>1 DEF Routed, Searching, Matches, IInv, HistoryInv
  <2>3. PICK l, q, r, f : l \in {"idle", "lock"} /\ Moves(u, l, q, r, f) /\ Sound(u, l, q, r, f)
    BY <1>1, <1>4, <2>1, <2>2, GivesUp
  <2>4. open' = open \ {u} /\ l # "dial"
    BY <1>4, <2>3 DEF Close
  <2> QED
    BY <1>1, <2>1, <2>3, <2>4, AskStep
<1> QED
  BY <1>2, <1>3, <1>4

(***************************************************************************)
(* ListDevicesRaw, and what an operation makes of the list.                *)
(***************************************************************************)
LEMMA ListStep ==
  ASSUME IInv, NEW u \in Users, ListDevices(u)
  PROVE  IInv'
<1>1. /\ pc[u] = "list" /\ open' = open \ {u}
      /\ UNCHANGED <<kind, ops, mu, world, had, stayed>>
      /\ result[u] \in Results /\ found[u] \in Serials \cup {NoSerial}
  BY DEF ListDevices, Close, IInv, TypeOK, Results
<1> SUFFICES \E l, q, r, f :
               /\ l \in {"idle", "lock"} /\ Moves(u, l, q, r, f) /\ Sound(u, l, q, r, f)
               /\ faulted' \in {faulted, faulted \cup {u}}
  <2>1. PICK l, q, r, f :
               /\ l \in {"idle", "lock"} /\ Moves(u, l, q, r, f) /\ Sound(u, l, q, r, f)
               /\ faulted' \in {faulted, faulted \cup {u}}
    OBVIOUS
  <2> QED
    BY <1>1, <2>1, AskStep
<1>2. kind[u] = "find" =>
        /\ stayed[u] \subseteq {s \in Serials : Matches(s)}
        /\ \A s \in Serials : Matches(s) => s \in had[u]
  BY <1>1 DEF IInv, HistoryInv, Searching, TypeOK
<1>3. CASE Use(u, Listed, OfProduct) /\ NoFault
  <2>1. faulted' = faulted
    BY <1>3 DEF NoFault
  <2>2. CASE kind[u] # "find" /\ Return(u, "ok", NoSerial)
    <3>1. Moves(u, "idle", {}, "ok", NoSerial)
      BY <2>2 DEF Return, Goto, Moves
    <3>2. Sound(u, "idle", {}, "ok", NoSerial)
      BY <2>2 DEF Sound, Labels, Results
    <3> QED
      BY <2>1, <3>1, <3>2
  <2>3. CASE kind[u] = "find" /\ \E s \in OfProduct : Return(u, "ok", s)
    <3>1. PICK s \in OfProduct : Return(u, "ok", s)
      BY <2>3
    <3>2. s \in Serials /\ s \in had[u]
      BY <1>2, <2>3 DEF OfProduct, Matches
    <3>3. Moves(u, "idle", {}, "ok", s)
      BY <3>1 DEF Return, Goto, Moves
    <3>4. Sound(u, "idle", {}, "ok", s)
      BY <3>2 DEF Sound, Labels, Results
    <3> QED
      BY <2>1, <3>3, <3>4
  <2>4. CASE kind[u] = "find" /\ OfProduct = {} /\ Ask(u, Listed)
    <3>1. Moves(u, "lock", Listed, result[u], found[u])
      BY <2>4 DEF Ask, Goto, Moves, answer, IInv, TypeOK
    <3>2. \A s \in stayed[u] : devices[s] = "model" /\ s \in Listed
      BY <1>2, <2>4 DEF Matches, OfProduct, Listed
    <3>3. Sound(u, "lock", Listed, result[u], found[u])
      BY <1>1, <3>2 DEF Sound, Labels, Listed
    <3> QED
      BY <2>1, <3>1, <3>3
  <2>5. CASE kind[u] = "find" /\ Listed = {} /\ Return(u, "notfound", NoSerial)
    <3>1. Moves(u, "idle", {}, "notfound", NoSerial)
      BY <2>5 DEF Return, Goto, Moves
    <3>2. stayed[u] = {}
      BY <1>2, <2>5 DEF Matches, Listed
    <3>3. Sound(u, "idle", {}, "notfound", NoSerial)
      BY <3>2 DEF Sound, Labels, Results
    <3> QED
      BY <2>1, <3>1, <3>3
  <2> QED
    BY <1>3, <2>2, <2>3, <2>4, <2>5 DEF Use, Search
<1>4. CASE Fault(u) /\ (Use(u, {}, {}) \/ Return(u, "error", NoSerial))
  <2>1. faulted' = faulted \cup {u}
    BY <1>4 DEF Fault
  <2>2. PICK r \in {"ok", "error", "notfound"} :
          Return(u, r, NoSerial) /\ (kind[u] = "find" => r # "ok")
    BY <1>4 DEF Use, Search
  <2>3. Moves(u, "idle", {}, r, NoSerial)
    BY <2>2 DEF Return, Goto, Moves
  <2>4. Sound(u, "idle", {}, r, NoSerial)
    BY <2>1, <2>2 DEF Sound, Labels, Results
  <2> QED
    BY <2>1, <2>3, <2>4
<1> QED
  BY <1>3, <1>4 DEF ListDevices

(***************************************************************************)
(* ExecShell.                                                              *)
(***************************************************************************)
LEMMA ShellStep ==
  ASSUME IInv, NEW u \in Users, Shell(u)
  PROVE  IInv'
<1>1. /\ pc[u] = "shell" /\ open' = open \ {u}
      /\ UNCHANGED <<kind, ops, mu, world, had, stayed>>
  BY DEF Shell, Close
<1>2. PICK s \in queue[u] :
        \/ /\ Routed(s) /\ NoFault
           /\ IF kind[u] = "find" /\ devices[s] # "model" THEN GiveUp(u, s)
              ELSE Return(u, "ok", s)
        \/ /\ (~Routed(s) /\ NoFault) \/ Fault(u)
           /\ GiveUp(u, s) \/ (kind[u] = "shell" /\ Return(u, "ok", s))
  BY DEF Shell, First
<1>3. s \in Serials /\ faulted' \in {faulted, faulted \cup {u}}
  BY <1>2 DEF IInv, TypeOK, NoFault, Fault
<1>4. CASE GiveUp(u, s) /\ (u \notin faulted' => (kind[u] = "find" => devices[s] # "model"))
  <2>1. kind[u] = "find" /\ u \notin faulted' => s \notin stayed[u]
    BY <1>1, <1>3, <1>4 DEF Searching, IInv, QueueInv
  <2>2. PICK l, q, r, f : l \in {"idle", "lock"} /\ Moves(u, l, q, r, f) /\ Sound(u, l, q, r, f)
    BY <1>1, <1>3, <1>4, <2>1, GivesUp
  <2> QED
    BY <1>1, <1>3, <2>2, AskStep
<1>5. CASE Return(u, "ok", s) /\ (kind[u] = "find" => devices[s] = "model")
  <2>1. Moves(u, "idle", {}, "ok", s)
    BY <1>5 DEF Return, Goto, Moves
  <2>2. kind[u] = "find" => s \in had[u]
    BY <1>1, <1>3, <1>5 DEF Searching, Matches, IInv, HistoryInv
  <2>3. Sound(u, "idle", {}, "ok", s)
    BY <1>3, <2>2 DEF Sound, Labels, Results
  <2> QED
    BY <1>1, <1>3, <2>1, <2>3, AskStep
<1> QED
  <2>1. Fault(u) => u \in faulted'
    BY DEF Fault
  <2>2. ~Routed(s) => devices[s] # "model"
    BY DEF Routed
  <2> QED
    BY <1>2, <1>4, <1>5, <2>1, <2>2

(***************************************************************************)
(* CreateTunnel.                                                           *)
(***************************************************************************)
LEMMA TunnelStep ==
  ASSUME IInv, NEW u \in Users, Tunnel(u)
  PROVE  IInv'
<1>1. /\ pc[u] = "tunnel" /\ kind[u] = "tunnel"
      /\ UNCHANGED <<kind, ops, mu, world, had, stayed>>
  BY DEF Tunnel, IInv, TunnelInv
<1>2. CASE \E s \in queue[u] : Return(u, "ok", s) /\ NoFault /\ UNCHANGED open
  <2>1. PICK s \in queue[u] : Return(u, "ok", s) /\ NoFault /\ UNCHANGED open
    BY <1>2
  <2>2. Moves(u, "idle", {}, "ok", s) /\ faulted' = faulted /\ open' = open
    BY <2>1 DEF Return, Goto, Moves, NoFault
  <2>3. Sound(u, "idle", {}, "ok", s)
    BY <1>1, <2>1 DEF Sound, Labels, Results, IInv, TypeOK
  <2> QED
    BY <1>1, <2>2, <2>3, AskStep
<1>3. CASE Return(u, "error", NoSerial) /\ Close(u) /\ (NoFault \/ Fault(u))
  <2>1. /\ Moves(u, "idle", {}, "error", NoSerial) /\ open' = open \ {u}
        /\ faulted' \in {faulted, faulted \cup {u}}
    BY <1>3 DEF Return, Goto, Moves, NoFault, Fault, Close
  <2>2. Sound(u, "idle", {}, "error", NoSerial)
    BY <1>1 DEF Sound, Labels, Results
  <2> QED
    BY <1>1, <2>1, <2>2, AskStep
<1> QED
  BY <1>2, <1>3 DEF Tunnel

(***************************************************************************)
(* A device comes, goes or is replaced: the users are where they were, and *)
(* what the searches remember follows.                                     *)
(***************************************************************************)
LEMMA ChangeStep ==
  ASSUME IInv, NEW s \in Serials, NEW d \in Devices, Change(s, d)
  PROVE  IInv'
<1>1. /\ TypeOK /\ NoLeak /\ FindIsRight /\ TunnelInv /\ HistoryInv /\ QueueInv
      /\ UNCHANGED <<pc, kind, ops, queue, open, result, found, mu, faulted>>
      /\ changes' = changes + 1 /\ changes < MaxChanges
  BY DEF IInv, Change, answer
<1>2. /\ devices'[s] = d
      /\ \A t \in Serials : t # s => devices'[t] = devices[t]
      /\ devices' \in [Serials -> Devices]
  BY <1>1 DEF Change, TypeOK
<1>3. /\ had' \in [Users -> SUBSET Serials] /\ stayed' \in [Users -> SUBSET Serials]
      /\ \A u \in Users :
           /\ ~Searching(u) => had'[u] = had[u] /\ stayed'[u] = stayed[u]
           /\ Searching(u) => /\ stayed'[u] = stayed[u] \ {s}
                              /\ had[u] \subseteq had'[u]
                              /\ d \in {"product", "model"} => s \in had'[u]
  BY <1>1 DEF Change, TypeOK
<1>4. \A u \in Users : Searching(u)' <=> Searching(u)
  BY <1>1 DEF Searching
<1>5. TypeOK'
  BY <1>1, <1>2, <1>3 DEF TypeOK
<1>6. NoLeak' /\ TunnelInv'
  BY <1>1 DEF NoLeak, TunnelInv
<1>7. FindIsRight'
  BY <1>1, <1>3 DEF FindIsRight, Searching
<1>8. HistoryInv'
  BY <1>1, <1>2, <1>3, <1>4 DEF HistoryInv, Matches, TypeOK
<1>9. QueueInv'
  BY <1>1, <1>2, <1>3, <1>4 DEF QueueInv, TypeOK
<1> QED
  BY <1>5, <1>6, <1>7, <1>8, <1>9 DEF IInv

(***************************************************************************)
(* Every step keeps the invariant.                                         *)
(***************************************************************************)
LEMMA NextStep == IInv /\ [Next]_vars => IInv'
<1> SUFFICES ASSUME IInv, [Next]_vars PROVE IInv'
  OBVIOUS
<1>1. CASE UNCHANGED vars
  BY <1>1 DEF vars, answer, world, history, IInv, TypeOK, NoLeak, FindIsRight,
              TunnelInv, HistoryInv, QueueInv, Searching, Matches
<1>2. ASSUME NEW s \in Serials, NEW d \in Devices, Change(s, d) PROVE IInv'
  BY <1>2, ChangeStep
<1>3. ASSUME NEW u \in Users, Proceed(u) PROVE IInv'
  BY <1>3, LockStep, DialStep, TransportStep, ListStep, ShellStep, TunnelStep DEF Proceed
<1>4. ASSUME NEW u \in Users, NEW k \in Kinds, Begin(u, k) PROVE IInv'
  BY <1>4, BeginStep
<1> QED
  BY <1>1, <1>2, <1>3, <1>4 DEF Next

(***************************************************************************)
(* The invariant of DialADB, ListDevices, FindSerialByProduct, RunCommand  *)
(* and CreateTunnel holds in every state, for any number of users, devices *)
(* and operations.                                                         *)
(***************************************************************************)
THEOREM InvariantHolds == Spec => []IInv
  BY InitInv, NextStep, PTL DEF Spec

(***************************************************************************)
(* The variables have their types; the mutex of DialADB is held exactly by *)
(* the user that dials, so that no path of it returns with the mutex held. *)
(***************************************************************************)
THEOREM TypeCorrect == Spec => []TypeOK
<1>1. IInv => TypeOK
  BY DEF IInv
<1> QED
  BY <1>1, InvariantHolds, PTL

(***************************************************************************)
(* No operation that has failed, and none but a tunnel that succeeded,     *)
(* leaves a connection to the ADB server open (ConnectToDevice,            *)
(* CreateTunnel).                                                          *)
(***************************************************************************)
THEOREM ConnectionsClosed == Spec => []NoLeak
<1>1. IInv => NoLeak
  BY DEF IInv
<1> QED
  BY <1>1, InvariantHolds, PTL

(***************************************************************************)
(* FindSerialByProduct returns only a device that fitted during its search *)
(* and, if it meets no fault, misses none that fitted all the time,        *)
(* whatever devices come, go and are replaced while it asks them in turn.  *)
(***************************************************************************)
THEOREM SearchIsRight == Spec => []FindIsRight
<1>1. IInv => FindIsRight
  BY DEF IInv
<1> QED
  BY <1>1, InvariantHolds, PTL
=============================================================================
