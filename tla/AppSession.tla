----------------------------- MODULE AppSession -----------------------------
(***************************************************************************)
(* An application under test (libs/session.go, the App operations of       *)
(* libs/device.go) and one of its elements, looked for and tapped by       *)
(* UiObject (libs/uiobject.go).                                            *)
(*                                                                         *)
(* Every user has a Session of its own on the same application.  Starting, *)
(* stopping and tapping take several requests each; between them the       *)
(* application moves or removes the element, exits, or is restarted by     *)
(* another user.                                                           *)
(***************************************************************************)
EXTENDS Naturals

CONSTANTS
  Users,     \* goroutines, each with a Session of its own
  Kinds,     \* the operations they use
  Places,    \* where the element can be
  MaxOps,    \* bound: operations started in a behaviour
  MaxRetry,  \* the argument maxRetry of ClickGone
  LossyLink  \* a request or a shell command may fail

OpKinds == {"new", "attach", "restart", "close", "click", "text", "gone", "vanish"}
NoPlace == 0    \* the element is not on the screen
NoPid   == 0    \* the application does not run; no pid

ASSUME SessionAssumption ==
  /\ Kinds \subseteq OpKinds
  /\ Places \subseteq Nat \ {NoPlace}
  /\ MaxOps \in Nat
  /\ MaxRetry \in Nat \ {0}
  /\ LossyLink \in BOOLEAN

Ops == 1..MaxOps

VARIABLES
  pc,        \* pc[u]: the next request of user u
  op,        \* op[u]: its current or last operation
  ops,       \* operations started so far
  kind,      \* kind[i]: what operation i is
  result,    \* result[i]: "none", "ok", "false", "error" or "notfound"
  session,   \* the users whose NewSession returned a Session
  pid,       \* pid[u]: s.pid
  at,        \* at[u]: the coordinates that u is about to tap
  retries,   \* retries[u]: rounds of ClickGone
  app,       \* the process of the application, or NoPid
  starting,  \* a start command has been accepted
  pids,      \* processes of the application so far: numbers are never reused
  element,   \* where the element is, or NoPlace
  base,      \* base[u]: pids when u's operation began
  unstopped, \* operations whose am force-stop was lost
  seen,      \* seen[u]: where the element has been since u found it
  absent,    \* users during whose operation the element was not there
  cut        \* users whose ClickGone ended with an Exists that failed

ticket == <<op, ops, kind>>
proc   == <<app, starting, pids>>
tap    == <<at, retries, seen>>
past   == <<base, unstopped, cut>>
screen == <<element, absent>>
vars == <<pc, ticket, result, session, pid, tap, proc, screen, past>>

Goto(u, label) == pc' = [pc EXCEPT ![u] = label]

Return(u, r) == /\ Goto(u, "idle")
                /\ result' = [result EXCEPT ![op[u]] = r]

Continue(u, label) == Goto(u, label) /\ UNCHANGED result

Kind(u) == kind[op[u]]

-----------------------------------------------------------------------------
(* The operations of a Session.                                            *)

\* A UiObject of a Session comes from the embedded Device and calls with the
\* Device's jsonrpcCall: the request is sent without looking at s.pid.
Entry(k) == CASE k \in {"click", "gone", "text"} -> "look"
              [] k = "vanish"           -> "await"
              [] k = "attach"            -> "start"
              [] OTHER                   -> "stop"

Begin(u, k) ==
  /\ pc[u] = "idle"
  /\ ops < MaxOps
  /\ k \in {"new", "attach"} \/ u \in session
  /\ ops' = ops + 1
  /\ op' = [op EXCEPT ![u] = ops + 1]
  /\ kind' = [kind EXCEPT ![ops + 1] = k]
  /\ retries' = [retries EXCEPT ![u] = 0]
  /\ base' = [base EXCEPT ![u] = pids]
  /\ absent' = IF element = NoPlace THEN absent \cup {u} ELSE absent \ {u}
  /\ cut' = cut \ {u}
  /\ Goto(u, Entry(k))
  /\ UNCHANGED <<result, session, pid, at, seen, proc, element, unstopped>>

\* The element is at e now.
Shows(e) == element' = e /\ absent' = IF e = NoPlace THEN Users ELSE absent

Ends == app' = NoPid /\ starting' = FALSE /\ Shows(NoPlace) /\ UNCHANGED pids

\* What follows a stop, Close or the start of NewSession and Restart.
Stopped(u) == IF Kind(u) = "close" THEN Return(u, "ok") /\ pid' = [pid EXCEPT ![u] = NoPid]
                                   ELSE Continue(u, "start") /\ UNCHANGED pid

\* A Session that is not stopped before it is started again.
AppStop_Attached(u) ==
  /\ pc[u] = "stop"
  /\ UNCHANGED <<proc, screen>>
  /\ Stopped(u)
  /\ UNCHANGED <<ticket, session, tap, past>>

\* am force-stop; its error is ignored.
AppStop(u) ==
  /\ pc[u] = "stop"
  /\ \/ Ends /\ UNCHANGED unstopped
     \/ LossyLink /\ UNCHANGED <<proc, screen>> /\ unstopped' = unstopped \cup {op[u]}
  /\ Stopped(u)
  /\ UNCHANGED <<ticket, session, tap, base, cut>>

\* monkey: brings an application that runs to the front; its error is ignored.
AppStart(u) ==
  /\ pc[u] = "start"
  /\ starting' = (starting \/ app = NoPid) \/ (LossyLink /\ UNCHANGED starting)
  /\ Continue(u, "wait")
  /\ UNCHANGED <<ticket, session, pid, tap, app, pids, screen, past>>

\* AppWait: pidOfApp until it finds a process.  A ps that fails finds none, and
\* after 20 s the answer is 0 without an error: NewSession fails, Restart does not.
AppWait(u) ==
  /\ pc[u] = "wait"
  /\ \/ /\ app # NoPid
        /\ pid' = [pid EXCEPT ![u] = app]
        /\ session' = session \cup {u}
        /\ Return(u, "ok")
     \/ /\ app = NoPid \/ LossyLink
        /\ IF Kind(u) = "restart" THEN pid' = [pid EXCEPT ![u] = NoPid] /\ Return(u, "ok")
                                  ELSE UNCHANGED pid /\ Return(u, "error")
        /\ UNCHANGED session
  /\ UNCHANGED <<ticket, tap, proc, screen, past>>

-----------------------------------------------------------------------------
(* The operations of a UiObject.                                           *)

\* Click returns an error, of a request that is lost too; ClickGone does not look at it.
Miss(u, r) == IF Kind(u) = "gone" THEN Continue(u, "pause") ELSE Return(u, r)

\* MustWait: the service waits until the element is there, or in vain.  Nothing
\* creates the HTTPError that Wait would follow by Exists.
MustWait(u) ==
  /\ pc[u] = "look"
  /\ \/ /\ element # NoPlace
        /\ seen' = [seen EXCEPT ![u] = {element}]
        /\ Continue(u, IF Kind(u) = "text" THEN "request" ELSE "bounds")
     \/ element = NoPlace /\ Miss(u, "notfound") /\ UNCHANGED seen
     \/ LossyLink /\ Miss(u, "error") /\ UNCHANGED seen
  /\ UNCHANGED <<ticket, session, pid, at, retries, proc, screen, past>>

\* Going on with the coordinates of the last tap when the bounds cannot be read.
Center_Cached(u) ==
  /\ pc[u] = "bounds"
  /\ \/ element # NoPlace /\ at' = [at EXCEPT ![u] = element] /\ Continue(u, "tap")
     \/ (element = NoPlace \/ LossyLink) /\ Continue(u, "tap") /\ UNCHANGED at
  /\ UNCHANGED <<ticket, session, pid, retries, seen, proc, screen, past>>

\* Center and Bounds, through objInfo.
Center(u) ==
  /\ pc[u] = "bounds"
  /\ \/ /\ element # NoPlace
        /\ at' = [at EXCEPT ![u] = element]
        /\ Continue(u, "tap")
     \/ element = NoPlace /\ Miss(u, "notfound") /\ UNCHANGED at
     \/ LossyLink /\ Miss(u, "error") /\ UNCHANGED at
  /\ UNCHANGED <<ticket, session, pid, retries, seen, proc, screen, past>>

\* GetText, SetText and DragTo: a request that names the element by its selector.
ByName(u) ==
  /\ pc[u] = "request"
  /\ \/ element # NoPlace /\ Return(u, "ok")
     \/ element = NoPlace /\ Return(u, "notfound")
     \/ LossyLink /\ Return(u, "error")
  /\ UNCHANGED <<ticket, session, pid, tap, proc, screen, past>>

\* WaitGone: the service waits until the element is gone, or in vain.
AwaitGone(u) ==
  /\ pc[u] = "await"
  /\ \/ Return(u, IF element = NoPlace THEN "ok" ELSE "false")
     \/ LossyLink /\ Return(u, "error")
  /\ UNCHANGED <<ticket, session, pid, tap, proc, screen, past>>

\* A tap on the element may dismiss it.
Tapped(u) == \E e \in {element} \cup (IF element = at[u] THEN {NoPlace} ELSE {}) : Shows(e)

\* Device.Click, LongClick or Swipe at the coordinates, whatever is there by now.
Tap(u) ==
  /\ pc[u] = "tap"
  /\ \/ Tapped(u) /\ Miss(u, "ok")
     \/ LossyLink /\ (Tapped(u) \/ UNCHANGED screen) /\ Miss(u, "error")
  /\ UNCHANGED <<ticket, session, pid, tap, proc, past>>

\* ClickGone that clicks once more than it was told to.
Pause_OneMore(u) ==
  /\ pc[u] = "pause"
  /\ \/ retries[u] = MaxRetry + 1 /\ Return(u, "false") /\ UNCHANGED retries
     \/ retries[u] <= MaxRetry /\ (element = NoPlace \/ LossyLink)
        /\ Return(u, "ok") /\ UNCHANGED retries
     \/ /\ retries[u] <= MaxRetry /\ element # NoPlace
        /\ retries' = [retries EXCEPT ![u] = @ + 1]
        /\ Continue(u, "look")
  /\ UNCHANGED <<ticket, session, pid, at, seen, proc, screen, past>>

\* ClickGone that takes an element it could not click for gone.
Pause_Missed(u) ==
  /\ pc[u] = "pause"
  /\ Return(u, "ok")
  /\ UNCHANGED <<ticket, session, pid, tap, proc, screen, past>>

\* The loop of ClickGone; an Exists that fails counts as "gone".
Pause(u) ==
  /\ pc[u] = "pause"
  /\ \/ retries[u] = MaxRetry /\ Return(u, "false") /\ UNCHANGED <<retries, cut>>
     \/ /\ retries[u] < MaxRetry
        /\ \/ element = NoPlace /\ UNCHANGED cut
           \/ LossyLink /\ cut' = cut \cup {u}
        /\ Return(u, "ok") /\ UNCHANGED retries
     \/ /\ retries[u] < MaxRetry /\ element # NoPlace
        /\ retries' = [retries EXCEPT ![u] = @ + 1]
        /\ Continue(u, "look") /\ UNCHANGED cut
  /\ UNCHANGED <<ticket, session, pid, at, seen, proc, screen, base, unstopped>>

-----------------------------------------------------------------------------
(* The application.                                                        *)

AppUp ==
  /\ starting
  /\ starting' = FALSE
  /\ pids' = pids + 1
  /\ app' = pids + 1
  /\ UNCHANGED <<pc, ticket, result, session, pid, tap, screen, past>>

AppExit ==
  /\ app # NoPid
  /\ Ends
  /\ UNCHANGED <<pc, ticket, result, session, pid, tap, past>>

\* The element appears, moves or goes away; who has found it may still be aiming.
Move ==
  /\ app # NoPid
  /\ \E e \in (Places \cup {NoPlace}) \ {element} : Shows(e)
  /\ seen' = [u \in Users |-> IF pc[u] = "bounds" /\ element' # NoPlace
                              THEN seen[u] \cup {element'} ELSE seen[u]]
  /\ UNCHANGED <<pc, ticket, result, session, pid, at, retries, proc, past>>

Init ==
  /\ pc = [u \in Users |-> "idle"]
  /\ op = [u \in Users |-> 0]
  /\ ops = 0
  /\ kind = [i \in 0..MaxOps |-> "none"]
  /\ result = [i \in Ops |-> "none"]
  /\ session = {}
  /\ pid = [u \in Users |-> NoPid]
  /\ at = [u \in Users |-> NoPlace]
  /\ retries = [u \in Users |-> 0]
  /\ app \in {NoPid, 1}
  /\ starting = FALSE
  /\ pids = app
  /\ element = NoPlace
  /\ base = [u \in Users |-> 0]
  /\ unstopped = {}
  /\ seen = [u \in Users |-> {}]
  /\ absent = Users
  /\ cut = {}

Step(u) == \/ AppStop(u) \/ AppStart(u) \/ AppWait(u)
           \/ MustWait(u) \/ Center(u) \/ Tap(u) \/ Pause(u) \/ ByName(u) \/ AwaitGone(u)

Next == \/ \E u \in Users : (\E k \in Kinds : Begin(u, k)) \/ Step(u)
        \/ AppUp \/ AppExit \/ Move

Spec == Init /\ [][Next]_vars

-----------------------------------------------------------------------------
(* Properties.                                                             *)

\* Every variable keeps its type: ClickGone goes round MaxRetry times at most.
TypeOK ==
  /\ pc \in [Users -> {"idle", "stop", "start", "wait", "look", "bounds", "tap", "pause",
                       "request", "await"}]
  /\ op \in [Users -> 0..MaxOps]
  /\ ops \in 0..MaxOps
  /\ kind \in [0..MaxOps -> OpKinds \cup {"none"}]
  /\ result \in [Ops -> {"none", "ok", "false", "error", "notfound"}]
  /\ session \subseteq Users
  /\ pid \in [Users -> 0..pids]
  /\ at \in [Users -> Places \cup {NoPlace}]
  /\ retries \in [Users -> 0..MaxRetry]
  /\ app \in 0..pids
  /\ starting \in BOOLEAN
  /\ pids \in Nat
  /\ element \in Places \cup {NoPlace}
  /\ base \in [Users -> 0..pids]
  /\ unstopped \subseteq Ops
  /\ absent \subseteq Users /\ cut \subseteq Users
  /\ seen \in [Users -> SUBSET Places]

\* A tap goes where the element has been since this very click found it: never to
\* a place from an earlier click, and never anywhere if it could not be located.
TapWhereSeen == \A u \in Users : pc[u] = "tap" => at[u] \in seen[u]

\* NewSession (without attach) and Restart end up with a process that was started
\* after they began, or none, whoever else starts and stops the application; unless
\* their own am force-stop was lost.
SessionIsFresh ==
  \A u \in Users :
    (/\ pc[u] = "idle" /\ Kind(u) \in {"new", "restart"}
     /\ result[op[u]] = "ok" /\ op[u] \notin unstopped)
    => pid[u] > base[u] \/ pid[u] = NoPid

\* WaitGone and ClickGone say that the element is gone only if it was not there at
\* some moment of the call, whatever request to find, locate or tap it was lost and
\* whoever else taps it or restarts the application; or if the very Exists by which
\* ClickGone ended has failed, whose error it takes for "gone" (Wait, ClickGone).
GoneIsGone ==
  \A u \in Users :
    (/\ pc[u] = "idle" /\ Kind(u) \in {"vanish", "gone"}
     /\ result[op[u]] = "ok" /\ u \notin cut)
    => u \in absent

-----------------------------------------------------------------------------
(* The inductive invariant that the properties above follow from.          *)

\* An operation belongs to one user.
TicketInv ==
  /\ unstopped \subseteq 1..ops
  /\ \A u \in Users : op[u] <= ops /\ (op[u] = 0 => pc[u] = "idle" /\ Kind(u) = "none")
  /\ \A u, v \in Users : op[u] = op[v] => u = v \/ op[u] = 0

\* The steps of an operation are those of its kind.
LabelInv ==
  \A u \in Users :
    /\ pc[u] \in {"stop", "start", "wait"} => Kind(u) \in {"new", "attach", "restart", "close"}
    /\ pc[u] \in {"look", "bounds", "tap", "pause"} => Kind(u) \in {"click", "text", "gone"}
    /\ pc[u] = "request" => Kind(u) = "text"
    /\ pc[u] = "await" => Kind(u) = "vanish"

\* Who is not marked has not begun while the element is not there.
AbsentInv == element = NoPlace => absent = Users

\* A user that has found the element knows every place where it has been since.
AimInv == \A u \in Users : pc[u] = "bounds" => element \in seen[u] \cup {NoPlace}

\* What runs after a stop that was not lost was started later.
FreshInv ==
  \A u \in Users :
    (/\ pc[u] \in {"start", "wait"} /\ Kind(u) \in {"new", "restart"}
     /\ op[u] \notin unstopped)
    => app > base[u] \/ app = NoPid

IInv ==
  /\ TypeOK /\ TapWhereSeen /\ SessionIsFresh /\ GoneIsGone
  /\ TicketInv /\ LabelInv /\ AbsentInv /\ AimInv /\ FreshInv
=============================================================================
