----------------------------- MODULE AdbClient -----------------------------
(***************************************************************************)
(* Short exchanges with the ADB server (adb/connect.go, adb/device.go):    *)
(* the list of devices, the search for a product, a shell command, and the *)
(* tunnel to a port of a device.                                           *)
(*                                                                         *)
(* Each takes a connection of its own, or several in turn.  A package-wide *)
(* mutex is held during the dial.  Meanwhile devices come, go and are      *)
(* replaced under the same serial; requests fail, and the server is silent *)
(* until a deadline has passed.                                            *)
(***************************************************************************)
EXTENDS Naturals

CONSTANTS
  Users,      \* goroutines of the program
  NoUser,     \* not one of them
  Kinds,      \* the operations they use
  Serials,    \* serials, numbered in the order in which the server lists them
  MaxOps,     \* bound: operations started in a behaviour
  MaxChanges, \* bound: changes of the devices
  LossyLink   \* requests and dials may fail, the server may be silent

NoSerial == 0
OpKinds == {"list", "find", "shell", "tunnel"}

\* A device, as FindSerialByProduct sees it: its product is the one that is looked
\* for, or else its model has that name, or neither; or it is listed as offline.
Devices == {"absent", "product", "model", "other", "offline"}

ASSUME AdbAssumption ==
  /\ NoUser \notin Users
  /\ Kinds \subseteq OpKinds
  /\ Serials \subseteq Nat \ {NoSerial}
  /\ MaxOps \in Nat /\ MaxChanges \in Nat
  /\ LossyLink \in BOOLEAN

VARIABLES
  pc,      \* pc[u]: the next step of user u
  kind,    \* kind[u]: its current or last operation
  ops,     \* operations started so far
  queue,   \* queue[u]: the devices that u is still to ask
  open,    \* the users that have a connection
  result,  \* result[u]: "none", "ok", "error" or "notfound"
  found,   \* found[u]: the serial that was returned
  mu,      \* the user that holds the mutex of DialADB
  devices, \* devices[s]: what is connected as s
  changes, \* how often that has changed
  had,     \* had[u]: serials that had the product or model since u began
  stayed,  \* stayed[u]: serials that have had it, unchanged, since u began
  faulted  \* users whose operation has met a fault

answer  == <<result, found>>
world   == <<devices, changes>>
history == <<had, stayed, faulted>>
vars == <<pc, kind, ops, queue, open, answer, mu, world, history>>

Goto(u, label) == pc' = [pc EXCEPT ![u] = label]

Return(u, r, s) == /\ Goto(u, "idle")
                   /\ result' = [result EXCEPT ![u] = r]
                   /\ found' = [found EXCEPT ![u] = s]
                   /\ queue' = [queue EXCEPT ![u] = {}]

Continue(u, label) == Goto(u, label) /\ UNCHANGED <<answer, queue>>
Ask(u, S)          == Goto(u, "lock") /\ queue' = [queue EXCEPT ![u] = S] /\ UNCHANGED answer

Fault(u)   == LossyLink /\ faulted' = faulted \cup {u}
NoFault    == UNCHANGED faulted
Close(u)   == open' = open \ {u}
Matches(s) == devices[s] \in {"product", "model"}
Routed(s)  == devices[s] \notin {"absent", "offline"}

\* The first of S in the list.
First(s, S) == s \in S /\ \A t \in S : s <= t

\* What an operation does when the device s is not the one or cannot be asked: a
\* search goes on with the next device.
GiveUp(u, s) == \/ kind[u] # "find" /\ Return(u, "error", NoSerial)
                \/ kind[u] = "find" /\ queue[u] = {s} /\ Return(u, "notfound", NoSerial)
                \/ kind[u] = "find" /\ queue[u] # {s} /\ Ask(u, queue[u] \ {s})

\* Reading the status of a request that is accepted, or not: OKAY, FAIL, or an error.
Status(accepted, okay, fail, u) == \/ accepted /\ okay
                                   \/ ~accepted /\ fail /\ NoFault
                                   \/ Fault(u) /\ fail

-----------------------------------------------------------------------------
(* Connections.                                                            *)

\* An operation on one device has it in its queue from the beginning.
Begin(u, k) ==
  /\ pc[u] = "idle"
  /\ ops < MaxOps
  /\ ops' = ops + 1
  /\ kind' = [kind EXCEPT ![u] = k]
  /\ \E q \in IF k \in {"shell", "tunnel"} THEN {{s} : s \in Serials} ELSE {{}} :
       queue' = [queue EXCEPT ![u] = q]
  /\ result' = [result EXCEPT ![u] = "none"]
  /\ found' = [found EXCEPT ![u] = NoSerial]
  /\ Close(u)
  /\ had' = [had EXCEPT ![u] = {s \in Serials : k = "find" /\ Matches(s)}]
  /\ stayed' = [stayed EXCEPT ![u] = had'[u]]
  /\ faulted' = faulted \ {u}
  /\ Goto(u, "lock")
  /\ UNCHANGED <<mu, world>>

\* DialADB.
Lock(u) ==
  /\ pc[u] = "lock"
  /\ mu = NoUser
  /\ mu' = u
  /\ Continue(u, "dial")
  /\ UNCHANGED <<kind, ops, open, world, history>>

\* A dial that fails with the mutex locked.
Dial_KeepsLock(u) ==
  /\ pc[u] = "dial"
  /\ \/ /\ open' = open \cup {u}
        /\ Continue(u, IF queue[u] = {} THEN "list" ELSE "transport")
        /\ mu' = NoUser
        /\ NoFault
     \/ /\ Fault(u)
        /\ \/ queue[u] = {} /\ Return(u, "error", NoSerial)
           \/ \E s \in Serials : First(s, queue[u]) /\ GiveUp(u, s)
        /\ UNCHANGED <<open, mu>>
  /\ UNCHANGED <<kind, ops, world, had, stayed>>

Dial(u) ==
  /\ pc[u] = "dial"
  /\ mu' = NoUser
  /\ \/ /\ open' = open \cup {u}
        /\ Continue(u, IF queue[u] = {} THEN "list" ELSE "transport")
        /\ NoFault
     \/ /\ Fault(u)
        /\ \/ queue[u] = {} /\ Return(u, "error", NoSerial)
           \/ \E s \in Serials : First(s, queue[u]) /\ GiveUp(u, s)
        /\ UNCHANGED open
  /\ UNCHANGED <<kind, ops, world, had, stayed>>

\* A search that ends at the first device that cannot be reached.
TransportTo_Once(u) ==
  /\ pc[u] = "transport"
  /\ \E s \in Serials :
       /\ First(s, queue[u])
       /\ Status(Routed(s),
                 /\ Continue(u, IF kind[u] = "tunnel" THEN "tunnel" ELSE "shell")
                 /\ NoFault /\ UNCHANGED open,
                 Close(u) /\ Return(u, "notfound", NoSerial),
                 u)
  /\ UNCHANGED <<kind, ops, mu, world, had, stayed>>

\* TransportTo: routes the connection to the device, or closes it.
TransportTo(u) ==
  /\ pc[u] = "transport"
  /\ \E s \in Serials :
       /\ First(s, queue[u])
       /\ Status(Routed(s),
                 /\ Continue(u, IF kind[u] = "tunnel" THEN "tunnel" ELSE "shell")
                 /\ NoFault /\ UNCHANGED open,
                 Close(u) /\ GiveUp(u, s),
                 u)
  /\ UNCHANGED <<kind, ops, mu, world, had, stayed>>

-----------------------------------------------------------------------------
(* Requests.                                                               *)

Listed     == {s \in Serials : devices[s] # "absent"}
OfProduct  == {s \in Serials : devices[s] = "product"}

\* What FindSerialByProduct makes of a list, of which some have the product.
Search(u, list, products) ==
  \/ \E s \in products : First(s, products) /\ Return(u, "ok", s)
  \/ products = {} /\ list # {} /\ Ask(u, list)
  \/ list = {} /\ Return(u, "notfound", NoSerial)

\* What an operation makes of a list.
Use(u, list, products) == IF kind[u] = "find" THEN Search(u, list, products)
                          ELSE Return(u, "ok", NoSerial)

\* ListDevicesRaw: the devices, or an error.  A server that is silent for too long,
\* or hangs up, has sent the whole list: it is empty here.
ListDevices(u) ==
  /\ pc[u] = "list"
  /\ Close(u)
  /\ \/ Use(u, Listed, OfProduct) /\ NoFault
     \/ Fault(u) /\ (Use(u, {}, {}) \/ Return(u, "error", NoSerial))
  /\ UNCHANGED <<kind, ops, mu, world, had, stayed>>

\* ExecShell: a search compares the output with the product; an output that is cut
\* short by a timeout or by the end of the device is no error, but another name.
Shell(u) ==
  /\ pc[u] = "shell"
  /\ Close(u)
  /\ \E s \in Serials :
       /\ First(s, queue[u])
       /\ \/ /\ Routed(s) /\ NoFault
             /\ IF kind[u] = "find" /\ devices[s] # "model" THEN GiveUp(u, s)
                ELSE Return(u, "ok", s)
          \/ /\ (~Routed(s) /\ NoFault) \/ Fault(u)
             /\ GiveUp(u, s) \/ (kind[u] = "shell" /\ Return(u, "ok", s))
  /\ UNCHANGED <<kind, ops, mu, world, had, stayed>>

\* A tunnel that is refused, on a connection that stays open.
Tunnel_Leaks(u) ==
  /\ pc[u] = "tunnel"
  /\ \/ \E s \in queue[u] : Return(u, "ok", s) /\ NoFault
     \/ Return(u, "error", NoSerial) /\ (NoFault \/ Fault(u))
  /\ UNCHANGED <<kind, ops, open, mu, world, had, stayed>>

\* CreateTunnel, its last step: the connection goes to the caller.  A device is there
\* whose port nothing listens on, or it is there no more.
Tunnel(u) ==
  /\ pc[u] = "tunnel"
  /\ \/ \E s \in queue[u] : Routed(s) /\ Return(u, "ok", s) /\ NoFault /\ UNCHANGED open
     \/ Return(u, "error", NoSerial) /\ Close(u) /\ (NoFault \/ Fault(u))
  /\ UNCHANGED <<kind, ops, mu, world, had, stayed>>

-----------------------------------------------------------------------------

Searching(u) == kind[u] = "find" /\ pc[u] # "idle"

\* A device comes, goes, or is another one.
Change(s, d) ==
  /\ changes < MaxChanges
  /\ d # devices[s]
  /\ devices' = [devices EXCEPT ![s] = d]
  /\ changes' = changes + 1
  /\ had' = [u \in Users |-> IF Searching(u) /\ d \in {"product", "model"} THEN had[u] \cup {s}
                                                                       ELSE had[u]]
  /\ stayed' = [u \in Users |-> IF Searching(u) THEN stayed[u] \ {s} ELSE stayed[u]]
  /\ UNCHANGED <<pc, kind, ops, queue, open, answer, mu, faulted>>

Init ==
  /\ pc = [u \in Users |-> "idle"]
  /\ kind = [u \in Users |-> "none"]
  /\ ops = 0
  /\ queue = [u \in Users |-> {}]
  /\ open = {}
  /\ result = [u \in Users |-> "none"]
  /\ found = [u \in Users |-> NoSerial]
  /\ mu = NoUser
  /\ devices \in [Serials -> Devices]
  /\ changes = 0
  /\ had = [u \in Users |-> {}]
  /\ stayed = [u \in Users |-> {}]
  /\ faulted = {}

Proceed(u) == \/ Lock(u) \/ Dial(u) \/ TransportTo(u) \/ ListDevices(u) \/ Shell(u) \/ Tunnel(u)

Next ==
  \/ \E s \in Serials, d \in Devices : Change(s, d)
  \/ \E u \in Users : Proceed(u) \/ \E k \in Kinds : Begin(u, k)

Spec == Init /\ [][Next]_vars

\* Dials, reads and writes have deadlines, and Go lets every waiter have the mutex.
FairSpec == Spec /\ \A u \in Users : WF_vars(Proceed(u)) /\ SF_vars(Lock(u))

-----------------------------------------------------------------------------
(* Properties.                                                             *)

\* The variables have their types; the mutex is held by the user that dials, and a
\* user that is past the list has a device to ask.
TypeOK ==
  /\ pc \in [Users -> {"idle", "lock", "dial", "list", "transport", "shell", "tunnel"}]
  /\ kind \in [Users -> OpKinds \cup {"none"}]
  /\ ops \in 0..MaxOps
  /\ queue \in [Users -> SUBSET Serials]
  /\ open \subseteq Users /\ faulted \subseteq Users
  /\ result \in [Users -> {"none", "ok", "error", "notfound"}]
  /\ found \in [Users -> Serials \cup {NoSerial}]
  /\ mu \in Users \cup {NoUser}
  /\ \A u \in Users : /\ mu = u <=> pc[u] = "dial"
                      /\ pc[u] \in {"transport", "shell", "tunnel"} => queue[u] # {}
  /\ devices \in [Serials -> Devices]
  /\ changes \in 0..MaxChanges
  /\ had \in [Users -> SUBSET Serials] /\ stayed \in [Users -> SUBSET Serials]

\* A connection is open while an operation talks over it, or after a tunnel has been
\* handed to the caller: no error leaves one behind (ConnectToDevice, CreateTunnel).
NoLeak ==
  \A u \in open : \/ pc[u] \in {"list", "transport", "shell", "tunnel"}
                  \/ pc[u] = "idle" /\ kind[u] = "tunnel" /\ result[u] = "ok"

\* A serial that FindSerialByProduct returns had the product or the model at some
\* moment of the search.  A device that had it all the time is found, unless a fault
\* was met on the way: then "not found" says nothing.
FindIsRight ==
  \A u \in Users : pc[u] = "idle" /\ kind[u] = "find" =>
    /\ result[u] = "ok" => found[u] \in had[u]
    /\ result[u] = "notfound" /\ u \notin faulted => stayed[u] = {}

\* Every operation returns: no silent server and no holder of the mutex stops one for
\* ever (DialADB, readN, ExecShell).
OperationReturns == \A u \in Users : pc[u] # "idle" ~> pc[u] = "idle"

-----------------------------------------------------------------------------
(* The inductive invariant that the properties above follow from.          *)

\* Only an operation that asks for a tunnel gets one.
TunnelInv == \A u \in Users : pc[u] = "tunnel" => kind[u] = "tunnel"

\* During a search, what fits now is among what has fitted, and what has fitted all
\* the time still does.
HistoryInv ==
  \A u \in Users : Searching(u) =>
    /\ \A s \in Serials : Matches(s) => s \in had[u]
    /\ \A s \in stayed[u] : Matches(s)

\* A search without a fault that asks the devices one by one has still to ask those
\* that have fitted all the time, and these fit by their model.
QueueInv ==
  \A u \in Users : Searching(u) /\ u \notin faulted /\ queue[u] # {} =>
    \A s \in stayed[u] : devices[s] = "model" /\ s \in queue[u]

IInv == TypeOK /\ NoLeak /\ FindIsRight /\ TunnelInv /\ HistoryInv /\ QueueInv
=============================================================================
