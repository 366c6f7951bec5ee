--------------------------- MODULE UiObjectProofs ---------------------------
(***************************************************************************)
(* What holds of the models of libs/uiobject.go for every value of their   *)
(* constants: AppSession, an element that is looked for and acted on while *)
(* its application changes, and Selector, the descriptions by which        *)
(* UiObjects are found and from which others are derived.  The last part   *)
(* shows that Selector implements SelectorValues.                          *)
(***************************************************************************)
EXTENDS AppSession, Selector, SequenceTheorems, FiniteSetTheorems, TLAPS

-----------------------------------------------------------------------------
(* AppSession.                                                             *)

USE SessionAssumption

\* The invariant, as far as it is about one user.
Fine(u) ==
  /\ pc[u] \in {"stop", "start", "wait"} => Kind(u) \in {"new", "attach", "restart", "close"}
  /\ pc[u] \in {"look", "bounds", "tap", "pause"} => Kind(u) \in {"click", "text", "gone"}
  /\ pc[u] = "request" => Kind(u) = "text"
  /\ pc[u] = "await" => Kind(u) = "vanish"
  /\ pc[u] = "bounds" => element \in seen[u] \cup {NoPlace}
  /\ pc[u] = "tap" => at[u] \in seen[u]
  /\ pc[u] \in {"start", "wait"} /\ Kind(u) \in {"new", "restart"} /\ op[u] \notin unstopped =>
       app > base[u] \/ app = NoPid
  /\ pc[u] = "idle" /\ result[op[u]] = "ok" =>
       /\ Kind(u) \in {"new", "restart"} /\ op[u] \notin unstopped =>
            pid[u] > base[u] \/ pid[u] = NoPid
       /\ Kind(u) \in {"vanish", "gone"} /\ u \notin cut => u \in absent

(***************************************************************************)
(* The invariant says that much of every user.                             *)
(***************************************************************************)
LEMMA Parts == IInv <=> TypeOK /\ TicketInv /\ AbsentInv /\ \A u \in Users : Fine(u)
  BY DEF IInv, Fine, TapWhereSeen, SessionIsFresh, GoneIsGone, LabelInv, AimInv, FreshInv

\* And of the next state.
LEMMA PartsNext == TypeOK' /\ TicketInv' /\ AbsentInv' /\ (\A u \in Users : Fine(u)') => IInv'
  BY DEF IInv, Fine, Kind, TapWhereSeen, SessionIsFresh, GoneIsGone, LabelInv, AimInv, FreshInv

(***************************************************************************)
(* Initially the invariant holds.                                          *)
(***************************************************************************)
LEMMA InitInv == Init => IInv
<1> SUFFICES ASSUME Init PROVE IInv
  OBVIOUS
<1>1. TypeOK
  <2>1. app \in Nat /\ app \in 0..app /\ 0 \in 0..app /\ 0 \in 0..MaxOps /\ 0 \in 0..MaxRetry
    BY DEF Init, NoPid
  <2> QED
    BY <2>1 DEF Init, TypeOK, NoPid
<1>2. TicketInv /\ AbsentInv
  BY DEF Init, TicketInv, AbsentInv, Kind
<1>3. \A u \in Users : Fine(u)
  BY DEF Init, Fine, Kind
<1> QED
  BY <1>1, <1>2, <1>3, Parts

(***************************************************************************)
(* A user to whom nothing happens stays in order, whatever others do to    *)
(* the application and to the element.                                     *)
(***************************************************************************)
LEMMA Bystander ==
  ASSUME IInv, NEW v \in Users,
         pc'[v] = pc[v], op'[v] = op[v], kind'[op[v]] = kind[op[v]],
         op[v] # 0 => result'[op[v]] = result[op[v]],
         pid'[v] = pid[v], at'[v] = at[v], base'[v] = base[v], seen[v] \subseteq seen'[v],
         pc[v] = "bounds" => element' \in {element, NoPlace} \cup seen'[v],
         absent \subseteq absent' \cup (Users \ {v}), cut \subseteq cut' \cup (Users \ {v}),
         unstopped \subseteq unstopped', app' \in {app, NoPid, pids + 1}
  PROVE  Fine(v)'
<1>1. TypeOK /\ TicketInv /\ Fine(v)
  BY Parts
<1>2. Kind(v)' = Kind(v) /\ (op[v] = 0 => Kind(v) = "none")
  BY <1>1 DEF Kind, TicketInv
<1>3. base[v] \in Nat /\ base[v] <= pids /\ pids \in Nat /\ app \in Nat
  BY <1>1 DEF TypeOK
<1>4. /\ pc[v] = "bounds" => element' \in seen'[v] \cup {NoPlace}
      /\ pc[v] = "tap" => at'[v] \in seen'[v]
  BY <1>1 DEF Fine
<1>5. app > base[v] \/ app = NoPid => app' > base[v] \/ app' = NoPid
  BY <1>3
<1>6. /\ v \in absent => v \in absent'
      /\ v \in cut => v \in cut'
      /\ op[v] \in unstopped => op[v] \in unstopped'
  OBVIOUS
<1> QED
  BY <1>1, <1>2, <1>4, <1>5, <1>6 DEF Fine

(***************************************************************************)
(* A step of one user in an operation keeps the invariant if it leaves     *)
(* that user in order.                                                     *)
(***************************************************************************)
LEMMA UserStep ==
  ASSUME IInv, NEW u \in Users, pc[u] # "idle",
         TypeOK', AbsentInv', Fine(u)',
         UNCHANGED <<op, ops, kind, base, pids>>,
         \A v \in Users \ {u} : /\ pc'[v] = pc[v] /\ pid'[v] = pid[v]
                                /\ at'[v] = at[v] /\ seen'[v] = seen[v],
         \A i \in Ops \ {op[u]} : result'[i] = result[i],
         element' \in {element, NoPlace}, absent \subseteq absent', cut \subseteq cut',
         unstopped' \in {unstopped, unstopped \cup {op[u]}}, app' \in {app, NoPid}
  PROVE  IInv'
<1>1. TypeOK /\ TicketInv
  BY Parts
<1>2. TicketInv'
  <2>1. op[u] \in 1..ops
    BY <1>1 DEF TypeOK, TicketInv
  <2>2. unstopped' \subseteq 1..ops'
    BY <1>1, <2>1 DEF TicketInv
  <2>3. \A v \in Users : op'[v] <= ops' /\ (op'[v] = 0 => pc'[v] = "idle" /\ Kind(v)' = "none")
    BY <1>1, <2>1 DEF TicketInv, Kind
  <2>4. \A v, w \in Users : op'[v] = op'[w] => v = w \/ op'[v] = 0
    BY <1>1 DEF TicketInv
  <2> QED
    BY <2>2, <2>3, <2>4 DEF TicketInv
<1>3. ASSUME NEW v \in Users \ {u} PROVE Fine(v)'
  <2>1. op[v] # 0 => op[v] \in Ops \ {op[u]}
    BY <1>1 DEF TypeOK, TicketInv, Ops
  <2> QED
    BY <2>1, Bystander
<1> QED
  BY <1>2, <1>3, PartsNext

(***************************************************************************)
(* A step that leaves the application and the element alone.               *)
(***************************************************************************)
LEMMA QuietStep ==
  ASSUME IInv, NEW u \in Users, pc[u] # "idle",
         TypeOK', Fine(u)',
         UNCHANGED <<op, ops, kind, base, pids, app, element, absent, unstopped>>,
         \A v \in Users \ {u} : /\ pc'[v] = pc[v] /\ pid'[v] = pid[v]
                                /\ at'[v] = at[v] /\ seen'[v] = seen[v],
         \A i \in Ops \ {op[u]} : result'[i] = result[i],
         cut \subseteq cut'
  PROVE  IInv'
<1>1. AbsentInv'
  BY DEF IInv, AbsentInv
<1> QED
  BY <1>1, UserStep

(***************************************************************************)
(* Beginning an operation.                                                 *)
(***************************************************************************)
LEMMA BeginStep ==
  ASSUME IInv, NEW u \in Users, NEW k \in Kinds, Begin(u, k)
  PROVE  IInv'
<1>1. TypeOK /\ TicketInv /\ AbsentInv /\ Fine(u) /\ k \in OpKinds
  BY Parts
<1>2. /\ ops \in 0..MaxOps /\ ops < MaxOps /\ ops + 1 \in Ops /\ ops + 1 \in 0..MaxOps
  BY <1>1 DEF Begin, TypeOK, Ops
<1>3. /\ pc' = [pc EXCEPT ![u] = Entry(k)] /\ ops' = ops + 1
      /\ op' = [op EXCEPT ![u] = ops + 1] /\ kind' = [kind EXCEPT ![ops + 1] = k]
      /\ retries' = [retries EXCEPT ![u] = 0] /\ base' = [base EXCEPT ![u] = pids]
      /\ absent' = (IF element = NoPlace THEN absent \cup {u} ELSE absent \ {u})
      /\ cut' = cut \ {u}
      /\ UNCHANGED <<result, session, pid, at, seen, app, starting, pids, element, unstopped>>
  BY DEF Begin, Goto, proc
<1>4. Entry(k) \in {"look", "await", "start", "stop"}
  BY DEF Entry
<1>5. /\ pc'[u] = Entry(k) /\ op'[u] = ops + 1 /\ Kind(u)' = k
      /\ \A v \in Users \ {u} : /\ pc'[v] = pc[v] /\ op'[v] = op[v] /\ base'[v] = base[v]
                                /\ op[v] <= ops /\ kind'[op[v]] = kind[op[v]]
  BY <1>1, <1>2, <1>3 DEF TypeOK, TicketInv, Kind
<1>6. TypeOK'
  BY <1>1, <1>2, <1>3, <1>4 DEF TypeOK
<1>7. TicketInv'
  <2>1. unstopped' \subseteq 1..ops'
    BY <1>1, <1>2, <1>3 DEF TicketInv
  <2>2. \A v \in Users : op'[v] <= ops' /\ (op'[v] = 0 => pc'[v] = "idle" /\ Kind(v)' = "none")
    BY <1>1, <1>2, <1>3, <1>5 DEF TicketInv, TypeOK, Kind
  <2>3. \A v, w \in Users : op'[v] = op'[w] => v = w \/ op'[v] = 0
    <3>1. \A v \in Users \ {u} : op'[v] \in Nat /\ op'[v] <= ops
      BY <1>1, <1>5 DEF TypeOK
    <3> QED
      BY <1>1, <1>2, <1>5, <3>1 DEF TicketInv
  <2> QED
    BY <2>1, <2>2, <2>3 DEF TicketInv
<1>8. AbsentInv'
  BY <1>1, <1>3 DEF AbsentInv
<1>9. Fine(u)'
  <2>1. /\ Entry(k) \in {"stop", "start"} => k \in {"new", "attach", "restart", "close"}
        /\ Entry(k) = "start" => k = "attach"
        /\ Entry(k) = "look" => k \in {"click", "text", "gone"}
        /\ Entry(k) = "await" => k = "vanish"
    BY <1>1 DEF Entry, OpKinds
  <2> QED
    BY <1>4, <1>5, <2>1 DEF Fine
<1>10. ASSUME NEW v \in Users \ {u} PROVE Fine(v)'
  BY <1>3, <1>5, Bystander
<1> QED
  BY <1>6, <1>7, <1>8, <1>9, <1>10, PartsNext

(***************************************************************************)
(* Where a step leaves its user: Return, Continue and Miss.                *)
(***************************************************************************)
Labels  == {"idle", "stop", "start", "wait", "look", "bounds", "tap", "pause", "request", "await"}
Results == {"none", "ok", "false", "error", "notfound"}

Leads(u, l, r) == /\ pc' = [pc EXCEPT ![u] = l]
                  /\ result' = [result EXCEPT ![op[u]] = r]

\* What the step does to the label and to the result of its user, and of no other.
LEMMA Leading ==
  ASSUME IInv, NEW u \in Users, pc[u] # "idle", NEW l \in Labels, NEW r \in Results,
         Leads(u, l, r)
  PROVE  /\ pc' \in [Users -> Labels] /\ result' \in [Ops -> Results]
         /\ pc'[u] = l /\ result'[op[u]] = r
         /\ \A v \in Users \ {u} : pc'[v] = pc[v]
         /\ \A i \in Ops \ {op[u]} : result'[i] = result[i]
<1>1. TypeOK /\ TicketInv
  BY Parts
<1>2. op[u] \in Ops
  BY <1>1 DEF TypeOK, TicketInv, Ops
<1> QED
  BY <1>1, <1>2 DEF Leads, TypeOK, Labels, Results

\* Return and Continue leave their user so.
LEMMA Going ==
  ASSUME IInv, NEW u \in Users, pc[u] # "idle"
  PROVE  /\ \A l : Continue(u, l) => Leads(u, l, result[op[u]])
         /\ \A r : Return(u, r) => Leads(u, "idle", r)
         /\ result[op[u]] \in Results
<1>1. TypeOK /\ TicketInv
  BY Parts
<1>2. op[u] \in Ops
  BY <1>1 DEF TypeOK, TicketInv, Ops
<1> QED
  BY <1>1, <1>2 DEF Leads, Continue, Return, Goto, TypeOK, Results

(***************************************************************************)
(* The steps of a Session.                                                 *)
(***************************************************************************)
LEMMA StopStep ==
  ASSUME IInv, NEW u \in Users, AppStop(u)
  PROVE  IInv'
<1>1. TypeOK /\ TicketInv /\ AbsentInv /\ Fine(u)
  BY Parts
<1>2. /\ pc[u] = "stop" /\ Stopped(u)
      /\ UNCHANGED <<op, ops, kind, session, at, retries, seen, base, cut, pids>>
      /\ \/ /\ app' = NoPid /\ starting' = FALSE /\ element' = NoPlace /\ absent' = Users
            /\ UNCHANGED unstopped
         \/ /\ UNCHANGED <<app, starting, element, absent>>
            /\ unstopped' = unstopped \cup {op[u]}
  BY DEF AppStop, Ends, Shows, ticket, tap, proc, screen
<1>3. PICK l \in {"idle", "start"}, r \in Results :
        /\ Leads(u, l, r)
        /\ l = "idle" => Kind(u) = "close"
  <2>1. CASE Kind(u) = "close" /\ Return(u, "ok")
    BY <1>2, <2>1, Going DEF Results
  <2>2. CASE Continue(u, "start")
    BY <1>2, <2>2, Going
  <2> QED
    BY <1>2, <2>1, <2>2 DEF Stopped
<1>4. /\ pid' \in {pid, [pid EXCEPT ![u] = NoPid]}
      /\ op[u] \in Ops
  BY <1>1, <1>2 DEF Stopped, TypeOK, TicketInv, Ops
<1>5. /\ pc' \in [Users -> Labels] /\ result' \in [Ops -> Results]
      /\ pc'[u] = l /\ result'[op[u]] = r
      /\ \A v \in Users \ {u} : pc'[v] = pc[v]
      /\ \A i \in Ops \ {op[u]} : result'[i] = result[i]
  BY <1>2, <1>3, Leading DEF Labels
<1>6. TypeOK'
  <2>1. pid' \in [Users -> 0..pids] /\ app' \in 0..pids
    <3>1. NoPid \in 0..pids /\ app \in 0..pids /\ pid \in [Users -> 0..pids]
      BY <1>1 DEF TypeOK, NoPid
    <3> QED
      BY <1>2, <1>4, <3>1
  <2>2. unstopped' \subseteq Ops /\ element' \in Places \cup {NoPlace} /\ absent' \subseteq Users
    BY <1>1, <1>2, <1>4 DEF TypeOK
  <2> QED
    BY <1>1, <1>2, <1>5, <2>1, <2>2 DEF TypeOK, Labels, Results
<1>7. AbsentInv'
  BY <1>1, <1>2 DEF AbsentInv
<1>8. Fine(u)'
  <2>1. Kind(u)' = Kind(u)
    BY <1>2 DEF Kind
  <2>2. op[u] \notin unstopped' => app' = NoPid
    BY <1>2
  <2> QED
    BY <1>1, <1>2, <1>3, <1>5, <2>1, <2>2 DEF Fine
<1>9. \A v \in Users \ {u} : pid'[v] = pid[v]
  BY <1>1, <1>4 DEF TypeOK
<1>10. absent \subseteq absent'
  BY <1>1, <1>2 DEF TypeOK
<1> QED
  BY <1>2, <1>5, <1>6, <1>7, <1>8, <1>9, <1>10, UserStep

\* The application is started, or the start is lost.
LEMMA StartStep ==
  ASSUME IInv, NEW u \in Users, AppStart(u)
  PROVE  IInv'
<1>1. TypeOK /\ Fine(u)
  BY Parts
<1>2. /\ pc[u] = "start" /\ Continue(u, "wait") /\ starting' \in BOOLEAN
      /\ UNCHANGED <<op, ops, kind, session, pid, at, retries, seen, app, pids,
                     element, absent, base, unstopped, cut>>
  BY <1>1 DEF AppStart, ticket, tap, screen, past, TypeOK
<1>3. /\ pc' \in [Users -> Labels] /\ result' \in [Ops -> Results]
      /\ pc'[u] = "wait"
      /\ \A v \in Users \ {u} : pc'[v] = pc[v]
      /\ \A i \in Ops \ {op[u]} : result'[i] = result[i]
  BY <1>2, Going, Leading DEF Labels
<1>4. TypeOK'
  BY <1>1, <1>2, <1>3 DEF TypeOK, Labels, Results
<1>5. Fine(u)'
  BY <1>1, <1>2, <1>3 DEF Fine, Kind
<1> QED
  BY <1>2, <1>3, <1>4, <1>5, QuietStep

\* The wait for the application ends, with a process or without.
LEMMA WaitStep ==
  ASSUME IInv, NEW u \in Users, AppWait(u)
  PROVE  IInv'
<1>1. TypeOK /\ Fine(u)
  BY Parts
<1>2. /\ pc[u] = "wait" /\ session' \subseteq Users
      /\ UNCHANGED <<op, ops, kind, at, retries, seen, app, starting, pids,
                     element, absent, base, unstopped, cut>>
  BY <1>1 DEF AppWait, ticket, tap, proc, screen, past, TypeOK
<1>3. PICK r \in {"ok", "error"} : Return(u, r)
  BY DEF AppWait
<1>4. \/ app # NoPid /\ pid' = [pid EXCEPT ![u] = app]
      \/ pid' = [pid EXCEPT ![u] = NoPid]
      \/ pid' = pid /\ Kind(u) # "restart" /\ Return(u, "error")
  BY DEF AppWait
<1>5. /\ pc' \in [Users -> Labels] /\ result' \in [Ops -> Results]
      /\ pc'[u] = "idle" /\ result'[op[u]] = r
      /\ \A v \in Users \ {u} : pc'[v] = pc[v]
      /\ \A i \in Ops \ {op[u]} : result'[i] = result[i]
  <2>1. Leads(u, "idle", r) /\ r \in Results /\ "idle" \in Labels
    BY <1>2, <1>3, Going DEF Labels, Results
  <2> QED
    BY <1>2, <2>1, Leading
<1>6. /\ pid' \in [Users -> 0..pids]
      /\ \A v \in Users \ {u} : pid'[v] = pid[v]
      /\ pid'[u] = app \/ pid'[u] = NoPid \/ result'[op[u]] = "error"
  <2>1. Return(u, "error") => result'[op[u]] = "error"
    <3>1. Return(u, "error") => Leads(u, "idle", "error")
      BY <1>2, Going
    <3> QED
      BY <1>2, <3>1, Leading DEF Labels, Results
  <2>2. CASE app # NoPid /\ pid' = [pid EXCEPT ![u] = app]
    BY <1>1, <2>2 DEF TypeOK
  <2>3. CASE pid' = [pid EXCEPT ![u] = NoPid]
    <3>1. NoPid \in 0..pids
      BY <1>1 DEF TypeOK, NoPid
    <3> QED
      BY <1>1, <2>3, <3>1 DEF TypeOK
  <2>4. CASE pid' = pid /\ Return(u, "error")
    BY <1>1, <2>1, <2>4 DEF TypeOK
  <2> QED
    BY <1>4, <2>2, <2>3, <2>4
<1>7. TypeOK'
  BY <1>1, <1>2, <1>5, <1>6 DEF TypeOK, Labels, Results
<1>8. Fine(u)'
  BY <1>1, <1>2, <1>5, <1>6 DEF Fine, Kind
<1> QED
  BY <1>2, <1>5, <1>6, <1>7, <1>8, QuietStep

(***************************************************************************)
(* The steps of a UiObject.  They have requests lost, and all but Tap      *)
(* leave the application and the element alone.                            *)
(***************************************************************************)
Elements == /\ UNCHANGED <<op, ops, kind, session, pid, app, starting, pids,
                           element, absent, base, unstopped>>
            /\ retries' \in [Users -> 0..MaxRetry]

\* Miss tries again after a pause, or returns an error.
LEMMA Missing ==
  ASSUME IInv, NEW u \in Users, NEW r \in {"error", "notfound"},
         pc[u] \in {"look", "bounds", "tap"}, Miss(u, r)
  PROVE  \E l \in {"idle", "pause"}, q \in Results :
           Leads(u, l, q) /\ (l = "idle" => q # "ok")
<1>1. CASE Continue(u, "pause")
  BY <1>1, Going
<1>2. CASE Return(u, r)
  BY <1>2, Going DEF Results
<1> QED
  BY <1>1, <1>2 DEF Miss

\* A step of an element operation keeps the invariant, if where it leads is justified.
LEMMA ElementStep ==
  ASSUME IInv, NEW u \in Users, NEW l \in Labels, NEW r \in Results, Leads(u, l, r),
         pc[u] # "idle", Elements,
         at' \in [Users -> Places \cup {NoPlace}], seen' \in [Users -> SUBSET Places],
         \A v \in Users \ {u} : at'[v] = at[v] /\ seen'[v] = seen[v],
         cut' \in {cut, cut \cup {u}},
         l \in {"idle", "look", "bounds", "tap", "pause", "request"},
         l \in {"look", "bounds", "tap", "pause"} => Kind(u) \in {"click", "text", "gone"},
         l = "request" => Kind(u) = "text",
         l = "bounds" => element \in seen'[u] \cup {NoPlace},
         l = "tap" => at'[u] \in seen'[u],
         l = "idle" /\ r = "ok" => Kind(u) \notin {"new", "restart"},
         (l = "idle" /\ r = "ok" /\ Kind(u) \in {"vanish", "gone"}) /\ u \notin cut' => u \in absent
  PROVE  IInv'
<1>1. TypeOK
  BY Parts
<1>2. /\ UNCHANGED <<op, ops, kind, session, pid, app, starting, pids,
                     element, absent, base, unstopped>>
      /\ retries' \in [Users -> 0..MaxRetry]
  BY DEF Elements
<1>3. /\ pc' \in [Users -> Labels] /\ result' \in [Ops -> Results]
      /\ pc'[u] = l /\ result'[op[u]] = r
      /\ \A v \in Users \ {u} : pc'[v] = pc[v]
      /\ \A i \in Ops \ {op[u]} : result'[i] = result[i]
  BY Leading
<1>4. TypeOK'
  BY <1>1, <1>2, <1>3 DEF TypeOK, Labels, Results
<1>5. Fine(u)'
  BY <1>2, <1>3 DEF Fine, Kind
<1>6. cut \subseteq cut'
  OBVIOUS
<1> QED
  BY <1>2, <1>3, <1>4, <1>5, <1>6, QuietStep

\* MustWait finds the element, or misses it.
LEMMA LookStep ==
  ASSUME IInv, NEW u \in Users, MustWait(u)
  PROVE  IInv'
<1>1. /\ TypeOK /\ pc[u] = "look" /\ Elements /\ at' = at /\ cut' = cut
      /\ Kind(u) \in {"click", "text", "gone"}
  BY Parts DEF MustWait, ticket, proc, screen, past, Elements, Fine, TypeOK
<1>2. CASE /\ element # NoPlace /\ seen' = [seen EXCEPT ![u] = {element}]
           /\ Continue(u, IF Kind(u) = "text" THEN "request" ELSE "bounds")
  <2>1. PICK l \in {"request", "bounds"} : Continue(u, l) /\ (l = "request" => Kind(u) = "text")
    BY <1>2
  <2>2. Leads(u, l, result[op[u]]) /\ result[op[u]] \in Results
    BY <1>1, <2>1, Going
  <2>3. /\ seen' \in [Users -> SUBSET Places] /\ seen'[u] = {element}
        /\ \A v \in Users \ {u} : seen'[v] = seen[v]
    BY <1>1, <1>2 DEF TypeOK
  <2>4. /\ at' \in [Users -> Places \cup {NoPlace}] /\ l \in Labels
        /\ \A v \in Users \ {u} : at'[v] = at[v]
    BY <1>1, <1>2 DEF TypeOK, Labels
  <2> QED
    BY <1>1, <2>1, <2>2, <2>3, <2>4, ElementStep
<1>3. CASE (\E r \in {"error", "notfound"} : Miss(u, r)) /\ UNCHANGED seen
  <2>1. PICK l \in {"idle", "pause"}, q \in Results :
          Leads(u, l, q) /\ (l = "idle" => q # "ok")
    BY <1>1, <1>3, Missing
  <2>2. /\ at' \in [Users -> Places \cup {NoPlace}] /\ seen' \in [Users -> SUBSET Places]
        /\ l \in Labels
        /\ \A v \in Users \ {u} : at'[v] = at[v] /\ seen'[v] = seen[v]
    BY <1>1, <1>3 DEF TypeOK, Labels
  <2> QED
    BY <1>1, <2>1, <2>2, ElementStep
<1> QED
  BY <1>2, <1>3 DEF MustWait

\* Center reads where the element is now.
LEMMA CenterStep ==
  ASSUME IInv, NEW u \in Users, Center(u)
  PROVE  IInv'
<1>1. /\ TypeOK /\ pc[u] = "bounds" /\ Elements /\ seen' = seen /\ cut' = cut
      /\ Kind(u) \in {"click", "text", "gone"} /\ element \in seen[u] \cup {NoPlace}
  BY Parts DEF Center, ticket, proc, screen, past, Elements, Fine, TypeOK
<1>2. CASE /\ element # NoPlace /\ at' = [at EXCEPT ![u] = element]
           /\ Continue(u, "tap")
  <2>1. Leads(u, "tap", result[op[u]]) /\ result[op[u]] \in Results /\ "tap" \in Labels
    BY <1>1, <1>2, Going DEF Labels
  <2>2. /\ at' \in [Users -> Places \cup {NoPlace}] /\ at'[u] = element
        /\ seen' \in [Users -> SUBSET Places]
        /\ \A v \in Users \ {u} : at'[v] = at[v] /\ seen'[v] = seen[v]
    BY <1>1, <1>2 DEF TypeOK
  <2> QED
    BY <1>1, <1>2, <2>1, <2>2, ElementStep
<1>3. CASE (\E r \in {"error", "notfound"} : Miss(u, r)) /\ UNCHANGED at
  <2>1. PICK l \in {"idle", "pause"}, q \in Results :
          Leads(u, l, q) /\ (l = "idle" => q # "ok")
    BY <1>1, <1>3, Missing
  <2>2. /\ at' \in [Users -> Places \cup {NoPlace}] /\ seen' \in [Users -> SUBSET Places]
        /\ l \in Labels
        /\ \A v \in Users \ {u} : at'[v] = at[v] /\ seen'[v] = seen[v]
    BY <1>1, <1>3 DEF TypeOK, Labels
  <2> QED
    BY <1>1, <2>1, <2>2, ElementStep
<1> QED
  BY <1>2, <1>3 DEF Center

(***************************************************************************)
(* GetText, SetText and DragTo, WaitGone, and the loop of ClickGone.       *)
(***************************************************************************)
LEMMA NameStep ==
  ASSUME IInv, NEW u \in Users, ByName(u)
  PROVE  IInv'
<1>1. /\ TypeOK /\ pc[u] = "request" /\ Elements /\ at' = at /\ seen' = seen
      /\ Kind(u) = "text" /\ cut' = cut
  BY Parts DEF ByName, ticket, tap, proc, screen, past, Elements, Fine, TypeOK
<1>2. PICK r \in Results : Return(u, r)
  BY DEF ByName, Results
<1>3. Leads(u, "idle", r) /\ "idle" \in Labels
  BY <1>1, <1>2, Going DEF Labels
<1>4. at \in [Users -> Places \cup {NoPlace}] /\ seen \in [Users -> SUBSET Places]
  BY <1>1 DEF TypeOK
<1> QED
  BY <1>1, <1>3, <1>4, ElementStep

\* The wait for the element to vanish ends.
LEMMA GoneStep ==
  ASSUME IInv, NEW u \in Users, AwaitGone(u)
  PROVE  IInv'
<1>1. /\ TypeOK /\ pc[u] = "await" /\ Elements /\ at' = at /\ seen' = seen
      /\ Kind(u) = "vanish" /\ cut' = cut
      /\ element = NoPlace => u \in absent
  BY Parts DEF AwaitGone, ticket, tap, proc, screen, past, Elements, Fine, TypeOK, AbsentInv
<1>2. PICK r \in Results : Return(u, r) /\ (r = "ok" => element = NoPlace)
  BY DEF AwaitGone, Results
<1>3. Leads(u, "idle", r) /\ "idle" \in Labels
  BY <1>1, <1>2, Going DEF Labels
<1>4. at \in [Users -> Places \cup {NoPlace}] /\ seen \in [Users -> SUBSET Places]
  BY <1>1 DEF TypeOK
<1> QED
  BY <1>1, <1>2, <1>3, <1>4, ElementStep

\* After the pause the operation looks again.
LEMMA PauseStep ==
  ASSUME IInv, NEW u \in Users, Pause(u)
  PROVE  IInv'
<1>1. /\ TypeOK /\ pc[u] = "pause" /\ at' = at /\ seen' = seen
      /\ UNCHANGED <<op, ops, kind, session, pid, app, starting, pids,
                     element, absent, base, unstopped>>
      /\ Kind(u) \in {"click", "text", "gone"} /\ cut' \in {cut, cut \cup {u}}
      /\ element = NoPlace => u \in absent
  BY Parts DEF Pause, ticket, proc, screen, Fine, AbsentInv
<1>2. at \in [Users -> Places \cup {NoPlace}] /\ seen \in [Users -> SUBSET Places]
  BY <1>1 DEF TypeOK
<1>3. CASE /\ UNCHANGED retries
           /\ \E r \in {"ok", "false"} :
                Return(u, r) /\ (r = "ok" => element = NoPlace \/ u \in cut')
  <2>1. PICK r \in {"ok", "false"} :
          Return(u, r) /\ (r = "ok" => element = NoPlace \/ u \in cut')
    BY <1>3
  <2>2. Leads(u, "idle", r) /\ "idle" \in Labels /\ r \in Results
    BY <1>1, <2>1, Going DEF Labels, Results
  <2>3. Elements
    BY <1>1, <1>3 DEF Elements, TypeOK
  <2> QED
    BY <1>1, <1>2, <2>1, <2>2, <2>3, ElementStep
<1>4. CASE /\ retries[u] < MaxRetry /\ retries' = [retries EXCEPT ![u] = @ + 1]
           /\ Continue(u, "look")
  <2>1. Leads(u, "look", result[op[u]]) /\ "look" \in Labels /\ result[op[u]] \in Results
    BY <1>1, <1>4, Going DEF Labels
  <2>2. retries[u] + 1 \in 0..MaxRetry
    BY <1>1, <1>4 DEF TypeOK
  <2>3. Elements
    BY <1>1, <1>4, <2>2 DEF Elements, TypeOK
  <2> QED
    BY <1>1, <1>2, <2>1, <2>3, ElementStep
<1> QED
  BY <1>3, <1>4 DEF Pause

(***************************************************************************)
(* A tap, which may dismiss the element.                                   *)
(***************************************************************************)
LEMMA TapStep ==
  ASSUME IInv, NEW u \in Users, Tap(u)
  PROVE  IInv'
<1>1. /\ TypeOK /\ TicketInv /\ AbsentInv /\ pc[u] = "tap"
      /\ UNCHANGED <<op, ops, kind, session, pid, at, retries, seen, app, starting, pids,
                     base, unstopped>>
      /\ Kind(u) \in {"click", "text", "gone"} /\ cut' = cut
  BY Parts DEF Tap, ticket, tap, proc, past, Fine
<1>2. /\ element' \in {element, NoPlace}
      /\ absent' = IF element' = NoPlace THEN Users ELSE absent
  BY <1>1 DEF Tap, Tapped, Shows, screen, AbsentInv
<1>3. PICK l \in {"idle", "pause"}, r \in Results :
        Leads(u, l, r) /\ (l = "idle" => Kind(u) # "gone" \/ r # "ok")
  <2>1. CASE Continue(u, "pause")
    BY <1>1, <2>1, Going
  <2>2. CASE Kind(u) # "gone" /\ Return(u, "ok")
    BY <1>1, <2>2, Going DEF Results
  <2>3. CASE Miss(u, "error")
    BY <1>1, <2>3, Missing
  <2> QED
    BY <2>1, <2>2, <2>3 DEF Tap, Miss
<1>4. /\ pc' \in [Users -> Labels] /\ result' \in [Ops -> Results]
      /\ pc'[u] = l /\ result'[op[u]] = r
      /\ \A v \in Users \ {u} : pc'[v] = pc[v]
      /\ \A i \in Ops \ {op[u]} : result'[i] = result[i]
  BY <1>1, <1>3, Leading DEF Labels
<1>5. TypeOK'
  BY <1>1, <1>2, <1>4 DEF TypeOK, Labels, Results
<1>6. AbsentInv' /\ absent \subseteq absent'
  BY <1>1, <1>2 DEF AbsentInv, TypeOK
<1>7. Fine(u)'
  BY <1>1, <1>3, <1>4 DEF Fine, Kind
<1> QED
  BY <1>1, <1>2, <1>4, <1>5, <1>6, <1>7, UserStep

(***************************************************************************)
(* The application starts, exits, and moves its element.                   *)
(***************************************************************************)
LEMMA WorldStep ==
  ASSUME IInv, AppUp \/ AppExit \/ Move
  PROVE  IInv'
<1>1. /\ TypeOK /\ TicketInv /\ AbsentInv
      /\ UNCHANGED <<pc, op, ops, kind, result, session, pid, at, retries, base, unstopped, cut>>
  BY Parts DEF AppUp, AppExit, Move, ticket, tap, past
<1>2. /\ pids' \in Nat /\ pids <= pids' /\ app' \in 0..pids' /\ starting' \in BOOLEAN
      /\ app' \in {app, NoPid, pids + 1}
  <2>1. /\ pids \in Nat /\ app \in 0..pids /\ starting \in BOOLEAN
        /\ pids + 1 \in Nat /\ pids <= pids + 1 /\ pids + 1 \in 0..(pids + 1)
        /\ NoPid \in 0..pids
    BY <1>1 DEF TypeOK, NoPid
  <2>2. CASE app' = pids + 1 /\ pids' = pids + 1 /\ starting' = FALSE
    BY <2>1, <2>2
  <2>3. CASE app' \in {app, NoPid} /\ pids' = pids /\ starting' \in {starting, FALSE}
    <3>1. pids' \in Nat /\ pids <= pids'
      BY <2>1, <2>3
    <3>2. starting' \in BOOLEAN
      BY <2>1, <2>3, Zenon
    <3>3. app' \in 0..pids' /\ app' \in {app, NoPid, pids + 1}
      BY <2>1, <2>3
    <3> QED
      BY <3>1, <3>2, <3>3
  <2> QED
    BY <2>2, <2>3 DEF AppUp, AppExit, Ends, Move, proc
<1>3. /\ element' \in Places \cup {NoPlace}
      /\ absent' = IF element' = NoPlace THEN Users ELSE absent
  BY <1>1 DEF AppUp, AppExit, Ends, Move, Shows, screen, TypeOK, AbsentInv
<1>4. /\ seen' \in [Users -> SUBSET Places]
      /\ \A u \in Users : /\ seen[u] \subseteq seen'[u]
                          /\ pc[u] = "bounds" => element' \in {element, NoPlace} \cup seen'[u]
  <2>1. CASE AppUp \/ AppExit
    BY <1>1, <2>1 DEF AppUp, AppExit, Ends, Shows, screen, tap, TypeOK
  <2>2. CASE Move
    BY <1>1, <1>3, <2>2 DEF Move, TypeOK
  <2> QED
    BY <2>1, <2>2
<1>5. TypeOK'
  BY <1>1, <1>2, <1>3, <1>4 DEF TypeOK
<1>6. TicketInv'
  BY <1>1 DEF TicketInv, Kind
<1>7. AbsentInv' /\ absent \subseteq absent'
  BY <1>1, <1>3 DEF AbsentInv, TypeOK
<1>8. ASSUME NEW u \in Users PROVE Fine(u)'
  BY <1>1, <1>2, <1>4, <1>7, Bystander
<1> QED
  BY <1>5, <1>6, <1>7, <1>8, PartsNext

(***************************************************************************)
(* Every step keeps the invariant.                                         *)
(***************************************************************************)
LEMMA NextStep == IInv /\ [Next]_vars => IInv'
<1> SUFFICES ASSUME IInv, [Next]_vars PROVE IInv'
  OBVIOUS
<1>1. CASE UNCHANGED vars
  <2>1. UNCHANGED <<pc, op, ops, kind, result, session, pid, at, retries, seen, app, starting,
                    pids, element, absent, base, unstopped, cut>>
    BY <1>1 DEF vars, ticket, tap, proc, screen, past
  <2> QED
    BY <2>1 DEF IInv, TypeOK, TapWhereSeen, SessionIsFresh, GoneIsGone, TicketInv, LabelInv,
                AbsentInv, AimInv, FreshInv, Kind
<1>2. ASSUME NEW u \in Users, NEW k \in Kinds, Begin(u, k) PROVE IInv'
  BY <1>2, BeginStep
<1>3. ASSUME NEW u \in Users, Step(u) PROVE IInv'
  BY <1>3, StopStep, StartStep, WaitStep, LookStep, CenterStep, TapStep, PauseStep,
     NameStep, GoneStep DEF Step
<1>4. CASE AppUp \/ AppExit \/ Move
  BY <1>4, WorldStep
<1> QED
  BY <1>1, <1>2, <1>3, <1>4 DEF Next

(***************************************************************************)
(* The invariant of sessions and elements holds in every state, for any    *)
(* number of goroutines, operations and places.                            *)
(***************************************************************************)
THEOREM InvariantHolds == Spec => []IInv
  BY InitInv, NextStep, PTL DEF Spec

(***************************************************************************)
(* The variables have their types: ClickGone goes round no more often than *)
(* its argument says.                                                      *)
(***************************************************************************)
THEOREM TypeCorrect == Spec => []TypeOK
<1>1. IInv => TypeOK
  BY DEF IInv
<1> QED
  BY <1>1, InvariantHolds, PTL

(***************************************************************************)
(* Click, LongClick and ClickGone tap where the element has been since     *)
(* this click found it, whatever other goroutines do to the application.   *)
(***************************************************************************)
THEOREM TapsWhereSeen == Spec => []TapWhereSeen
<1>1. IInv => TapWhereSeen
  BY DEF IInv
<1> QED
  BY <1>1, InvariantHolds, PTL

(***************************************************************************)
(* NewSession and Restart record a process that was started after they     *)
(* began, unless their own stop was lost.                                  *)
(***************************************************************************)
THEOREM SessionsAreFresh == Spec => []SessionIsFresh
<1>1. IInv => SessionIsFresh
  BY DEF IInv
<1> QED
  BY <1>1, InvariantHolds, PTL

(***************************************************************************)
(* WaitGone and ClickGone call nothing gone that was there all the time,   *)
(* whatever is lost on the way, unless the last Exists of ClickGone fails. *)
(***************************************************************************)
THEOREM GoneMeansGone == Spec => []GoneIsGone
<1>1. IInv => GoneIsGone
  BY DEF IInv
<1> QED
  BY <1>1, InvariantHolds, PTL

-----------------------------------------------------------------------------
(***************************************************************************)
(* Selector.                                                               *)
(*                                                                         *)
(* The heap is in order (Orderly) and no two handles reach a common node   *)
(* (Disjoint); together that is the inductive invariant.  What can be      *)
(* reached is the least closed set, so no induction is needed: to bound it *)
(* one shows a closed set.  Every operation is first reduced to its effect *)
(* on the heap (Local); the rest of the argument is about that effect.     *)
(***************************************************************************)

HIDE SessionAssumption

\* What the children of a node are, and what can be reached, in any heap hp in
\* which the nodes 1..u are allocated: Reach for a heap that is not the variable.
Downward(hp, u) == \A m \in 1..u : \A i \in DOMAIN hp[m].kids : hp[m].kids[i] \in (m + 1)..u
ClosedIn(hp, S) == \A m \in S : \A i \in DOMAIN hp[m].kids : hp[m].kids[i] \in S
ReachIn(hp, u, n) ==
  {m \in n..u : \A S \in {S \in SUBSET (n..u) : n \in S /\ ClosedIn(hp, S)} : m \in S}

(***************************************************************************)
(* What can be reached from n holds n and its members' children, all of    *)
(* them above n, and nothing that a set like that could do without.        *)
(***************************************************************************)
LEMMA ReachFacts ==
  ASSUME NEW hp, NEW u \in Nat, NEW n \in 1..u, Downward(hp, u)
  PROVE  /\ n \in ReachIn(hp, u, n)
         /\ ReachIn(hp, u, n) \subseteq n..u
         /\ ClosedIn(hp, ReachIn(hp, u, n))
<1>1. n \in n..u
  OBVIOUS
<1>2. ASSUME NEW m \in ReachIn(hp, u, n), NEW i \in DOMAIN hp[m].kids
      PROVE  hp[m].kids[i] \in ReachIn(hp, u, n)
  <2>1. m \in n..u /\ m \in 1..u
    BY <1>2 DEF ReachIn
  <2>2. hp[m].kids[i] \in (m + 1)..u
    BY <2>1 DEF Downward
  <2>3. hp[m].kids[i] \in n..u
    BY <2>1, <2>2
  <2> QED
    BY <2>3 DEF ReachIn, ClosedIn
<1> QED
  BY <1>1, <1>2 DEF ReachIn, ClosedIn

\* Whatever is closed and holds n holds all that n reaches.
LEMMA ReachLeast ==
  ASSUME NEW hp, NEW u \in Nat, NEW n \in 1..u, Downward(hp, u),
         NEW S, n \in S, ClosedIn(hp, S)
  PROVE  ReachIn(hp, u, n) \subseteq S
<1> DEFINE T == S \cap (n..u)
<1>1. n \in T
  OBVIOUS
<1>2. ClosedIn(hp, T)
  <2> SUFFICES ASSUME NEW m \in T, NEW i \in DOMAIN hp[m].kids PROVE hp[m].kids[i] \in T
    BY DEF ClosedIn
  <2>1. m \in 1..u /\ m \in n..u
    OBVIOUS
  <2>2. hp[m].kids[i] \in (m + 1)..u
    BY <2>1 DEF Downward
  <2>3. hp[m].kids[i] \in S
    BY DEF ClosedIn
  <2> QED
    BY <2>1, <2>2, <2>3
<1>3. T \in SUBSET (n..u)
  OBVIOUS
<1> QED
  BY <1>1, <1>2, <1>3 DEF ReachIn

(***************************************************************************)
(* Where no children change, nothing else can be reached.                  *)
(***************************************************************************)
LEMMA ReachFrame ==
  ASSUME NEW hp, NEW u \in Nat, NEW n \in 1..u, Downward(hp, u),
         NEW hq, NEW v \in Nat, u <= v, Downward(hq, v),
         \A m \in ReachIn(hp, u, n) : hq[m].kids = hp[m].kids
  PROVE  ReachIn(hq, v, n) = ReachIn(hp, u, n)
<1> DEFINE R == ReachIn(hp, u, n)
           Q == ReachIn(hq, v, n)
<1>1. n \in 1..v
  OBVIOUS
<1>2. n \in R /\ ClosedIn(hp, R)
  BY ReachFacts
<1>3. n \in Q /\ ClosedIn(hq, Q)
  BY <1>1, ReachFacts
<1>4. Q \subseteq R
  <2>1. ClosedIn(hq, R)
    BY <1>2 DEF ClosedIn
  <2> QED
    BY <1>1, <1>2, <2>1, ReachLeast
<1>5. R \subseteq Q
  <2>1. ClosedIn(hp, R \cap Q)
    <3> SUFFICES ASSUME NEW m \in R \cap Q, NEW i \in DOMAIN hp[m].kids
                 PROVE  hp[m].kids[i] \in R \cap Q
      BY DEF ClosedIn
    <3>1. hq[m].kids = hp[m].kids
      OBVIOUS
    <3> QED
      BY <1>2, <1>3, <3>1 DEF ClosedIn
  <2>2. R \subseteq R \cap Q
    <3>1. n \in R \cap Q
      BY <1>2, <1>3
    <3> HIDE DEF R, Q
    <3>2. ReachIn(hp, u, n) \subseteq R \cap Q
      BY <2>1, <3>1, ReachLeast
    <3> QED
      BY <3>2 DEF R
  <2> QED
    BY <2>2
<1> QED
  BY <1>4, <1>5

(***************************************************************************)
(* The rank of a node is its number: the ranks of a finite set of nodes    *)
(* are the numbers up to its size, in the order of the nodes.              *)
(***************************************************************************)
LEMMA RankFacts ==
  ASSUME NEW S, NEW N \in Nat, S \subseteq 1..N
  PROVE  /\ IsFiniteSet(S) /\ Cardinality(S) \in Nat
         /\ \A n \in S : Rank(S, n) \in 1..Cardinality(S)
         /\ \A m, n \in S : m < n => Rank(S, m) < Rank(S, n)
         /\ \A m, n \in S : Rank(S, m) = Rank(S, n) => m = n
         /\ \A k \in 1..Cardinality(S) : \E n \in S : Rank(S, n) = k
<1>1. IsFiniteSet(S) /\ Cardinality(S) \in Nat
  <2>1. IsFiniteSet(1..N)
    BY FS_Interval
  <2> QED
    BY <2>1, FS_Subset, FS_CardinalityType
<1> DEFINE upto(n) == {m \in S : m <= n}
<1>2. ASSUME NEW n \in S
      PROVE  /\ IsFiniteSet(upto(n)) /\ Cardinality(upto(n)) \in 1..Cardinality(S)
             /\ Rank(S, n) = Cardinality(upto(n))
  <2>1. upto(n) \subseteq S /\ n \in upto(n)
    OBVIOUS
  <2>2. IsFiniteSet(upto(n)) /\ Cardinality(upto(n)) \in Nat /\ Cardinality(upto(n)) <= Cardinality(S)
    BY <1>1, <2>1, FS_Subset, FS_CardinalityType
  <2>3. Cardinality(upto(n)) # 0
    BY <2>1, <2>2, FS_EmptySet
  <2>4. Rank(S, n) = Cardinality(upto(n))
    BY Zenon DEF Rank
  <2> QED
    BY <1>1, <2>2, <2>3, <2>4
<1>3. ASSUME NEW m \in S, NEW n \in S, m < n
      PROVE  Cardinality(upto(m)) < Cardinality(upto(n))
  <2>1. upto(m) \subseteq upto(n) /\ n \in upto(n) /\ n \notin upto(m)
    <3>1. m \in Nat /\ n \in Nat /\ S \subseteq Nat
      OBVIOUS
    <3>2. \A k \in S : k <= m => k <= n
      BY <1>3, <3>1
    <3>3. n <= n /\ ~(n <= m)
      BY <1>3, <3>1
    <3> QED
      BY <3>2, <3>3
  <2>2. upto(m) # upto(n)
    BY <2>1
  <2> QED
    BY <1>2, <2>1, <2>2, FS_Subset
<1> HIDE DEF upto
<1>4. \A n \in S : Rank(S, n) \in 1..Cardinality(S)
  BY <1>2
<1>5. \A m, n \in S : m < n => Rank(S, m) < Rank(S, n)
  BY <1>2, <1>3
<1>6. \A m, n \in S : Rank(S, m) = Rank(S, n) => m = n
  <2> SUFFICES ASSUME NEW m \in S, NEW n \in S, m # n PROVE Rank(S, m) # Rank(S, n)
    OBVIOUS
  <2>1. m < n \/ n < m
    OBVIOUS
  <2>2. Rank(S, m) \in Nat /\ Rank(S, n) \in Nat
    BY <1>4
  <2> QED
    BY <1>5, <2>1, <2>2
<1>7. \A k \in 1..Cardinality(S) : \E n \in S : Rank(S, n) = k
  <2> DEFINE T == 1..Cardinality(S)
             f == [n \in S |-> Rank(S, n)]
  <2>1. IsFiniteSet(T) /\ Cardinality(T) = Cardinality(S)
    BY <1>1, FS_Interval
  <2>2. f \in Injection(S, T)
    BY <1>4, <1>6 DEF Injection, IsInjective
  <2> HIDE DEF T
  <2>3. f \in Surjection(S, T)
    <3> HIDE DEF f
    <3> QED
      BY <2>1, <2>2, FS_Injection
  <2>4. \A k \in T : \E n \in S : f[n] = k
    BY <2>3 DEF Surjection
  <2> QED
    BY <2>4 DEF T
<1> QED
  BY <1>1, <1>4, <1>5, <1>6, <1>7

(***************************************************************************)
(* The number of a copy: above all nodes in use, at most as many as are    *)
(* copied, and in the order of the nodes they stand for.                   *)
(***************************************************************************)
LEMMA RenamedFacts ==
  ASSUME NEW S, NEW N \in Nat, S \subseteq 1..N, used \in Nat
  PROVE  /\ Cardinality(S) \in Nat
         /\ \A n \in S : Renamed(S)[n] \in (used + 1)..(used + Cardinality(S))
         /\ \A m, n \in S : m < n => Renamed(S)[m] < Renamed(S)[n]
<1>1. \A n \in S : Renamed(S)[n] = used + Rank(S, n)
  BY DEF Renamed
<1>2. /\ Cardinality(S) \in Nat
      /\ \A n \in S : Rank(S, n) \in 1..Cardinality(S)
      /\ \A m, n \in S : m < n => Rank(S, m) < Rank(S, n)
  BY RankFacts
<1>3. \A n \in S : used + Rank(S, n) \in (used + 1)..(used + Cardinality(S))
  BY <1>2
<1>4. ASSUME NEW m \in S, NEW n \in S, m < n
      PROVE  used + Rank(S, m) < used + Rank(S, n)
  <2>1. Rank(S, m) \in Nat /\ Rank(S, n) \in Nat /\ Rank(S, m) < Rank(S, n)
    BY <1>2, <1>4
  <2> QED
    BY <2>1
<1> QED
  BY <1>1, <1>2, <1>3, <1>4

\* A selector in order, and a heap in order of which the nodes 1..u are allocated.
Formed(node) == /\ node \in Node
                /\ node.mask = Present(node.fields)
                /\ Len(node.rels) = Len(node.kids)
                /\ Valid(node.fields)
Orderly(hp, u) == /\ hp \in [Nodes -> Node]
                  /\ \A n \in 1..u : Formed(hp[n])
                  /\ Downward(hp, u)
                  /\ \A n \in Nodes : n > u => hp[n] = Empty
                  /\ Unshared(hp, Nodes)

(***************************************************************************)
(* A field may have no value, or a number if it is the instance.           *)
(***************************************************************************)
LEMMA ValuesFacts ==
  /\ \A k : NoValue \in Values(k)
  /\ \A i \in 0..MaxIndex :
       /\ <<"int", i>> \in Values("instance")
       /\ <<"int", i>> # NoValue
       /\ Accepts("instance", <<"int", i>>)
  BY DEF Values, Ints, NoValue, Accepts

\* Content, field by field.
LEMMA ContentFacts ==
  ASSUME NEW c
  PROVE  c \in Content <=> c = [k \in Fields |-> c[k]] /\ \A k \in Fields : c[k] \in Values(k)
  BY DEF Content

\* A node that is not allocated has the form of one that is.
LEMMA EmptyFormed == Formed(Empty)
<1>1. Empty.fields \in Content
  BY ContentFacts, ValuesFacts DEF Empty
<1>2. Empty \in Node
  BY <1>1 DEF Empty, Node
<1> QED
  BY <1>2 DEF Formed, Empty, Present, Valid

(***************************************************************************)
(* Setting fields to values that are accepted keeps a selector in order.   *)
(***************************************************************************)
LEMMA SetInFormed ==
  ASSUME NEW node, Formed(node), NEW updates, NEW which \in SUBSET Fields,
         \A k \in which : /\ updates[k] \in Values(k) /\ updates[k] # NoValue
                          /\ Accepts(k, updates[k])
  PROVE  /\ Formed(SetIn(node, updates, which))
         /\ SetIn(node, updates, which).kids = node.kids
<1> DEFINE new == SetIn(node, updates, which)
           f == [k \in Fields |-> IF k \in which THEN updates[k] ELSE node.fields[k]]
<1>1. node \in Node
  BY DEF Formed
<1>2. new = [node EXCEPT !.fields = f, !.mask = node.mask \cup which]
  BY Zenon DEF SetIn
<1>3. f \in Content
  BY <1>1, ContentFacts DEF Node
<1>4. /\ new \in Node
      /\ new.fields = f /\ new.mask = node.mask \cup which
      /\ new.rels = node.rels /\ new.kids = node.kids
  <2> HIDE DEF f, new
  <2> QED
    BY <1>1, <1>2, <1>3 DEF Node
<1>5. node.mask \cup which = Present(f)
  BY DEF Formed, Present
<1>6. Valid(f)
  BY DEF Formed, Present, Valid
<1> QED
  BY <1>4, <1>5, <1>6 DEF Formed

\* Set, of fields that are all accepted, makes a node of the right form.
LEMMA NewNodeFormed ==
  ASSUME NEW c \in Content, Valid(c)
  PROVE  Formed(NewNode(c)) /\ NewNode(c).kids = <<>>
<1>1. \A k \in Present(c) : /\ c[k] \in Values(k) /\ c[k] # NoValue
                            /\ Accepts(k, c[k])
  BY ContentFacts DEF Present, Valid
<1>2. Present(c) \in SUBSET Fields
  BY DEF Present
<1>3. Empty.kids = <<>>
  BY DEF Empty
<1> QED
  BY <1>1, <1>2, <1>3, EmptyFormed, SetInFormed DEF NewNode

(***************************************************************************)
(* A heap in order stays so when a selector is replaced by one that is in  *)
(* order and has the same children, and when one is allocated.             *)
(***************************************************************************)
LEMMA Replaced ==
  ASSUME NEW hp, NEW u \in 0..MaxNodes, MaxNodes \in Nat, Orderly(hp, u),
         NEW n \in 1..u, NEW hq, hq = [m \in Nodes |-> hq[m]],
         \A m \in Nodes \ {n} : hq[m] = hp[m],
         Formed(hq[n]), hq[n].kids = hp[n].kids
  PROVE  /\ Orderly(hq, u)
         /\ \A m \in 1..u : hq[m].kids = hp[m].kids /\ (m # n => hq[m] = hp[m])
<1>1. n \in Nodes /\ hq[n] \in Node /\ hp \in [Nodes -> Node] /\ 1..u \subseteq Nodes
  BY DEF Nodes, Formed, Orderly
<1>2. \A m \in Nodes : hq[m].kids = hp[m].kids /\ hq[m] \in Node
  BY <1>1
<1>3. hq \in [Nodes -> Node]
  BY <1>2
<1>4. \A m \in 1..u : Formed(hq[m])
  BY <1>1 DEF Orderly
<1>5. Downward(hq, u)
  BY <1>1, <1>2 DEF Orderly, Downward
<1>6. \A m \in Nodes : m > u => hq[m] = Empty
  BY <1>1 DEF Orderly
<1>7. Unshared(hq, Nodes)
  BY <1>2 DEF Orderly, Unshared
<1> QED
  BY <1>1, <1>2, <1>3, <1>4, <1>5, <1>6, <1>7 DEF Orderly

\* Allocating a node without children keeps the order.
LEMMA Allocated ==
  ASSUME NEW hp, NEW u \in 0..MaxNodes, MaxNodes \in Nat, Orderly(hp, u), u < MaxNodes,
         NEW node, Formed(node), node.kids = <<>>
  PROVE  Orderly([hp EXCEPT ![u + 1] = node], u + 1)
<1> DEFINE hq == [hp EXCEPT ![u + 1] = node]
<1>1. u + 1 \in Nodes /\ node \in Node /\ hp \in [Nodes -> Node] /\ 1..(u + 1) \subseteq Nodes
  BY DEF Nodes, Formed, Orderly
<1>2. hq \in [Nodes -> Node]
  BY <1>1
<1>3. \A m \in Nodes : hq[m] = IF m = u + 1 THEN node ELSE hp[m]
  BY <1>1
<1>9. hp[u + 1].kids = <<>>
  BY <1>1 DEF Orderly, Empty
<1>10. \A m \in Nodes : hq[m].kids = hp[m].kids
  BY <1>3, <1>9
<1> HIDE DEF hq
<1>4. \A m \in 1..(u + 1) : Formed(hq[m])
  BY <1>1, <1>3 DEF Orderly
<1>5. Downward(hq, u + 1)
  <2> SUFFICES ASSUME NEW m \in 1..(u + 1), NEW i \in DOMAIN hq[m].kids
               PROVE  hq[m].kids[i] \in (m + 1)..(u + 1)
    BY DEF Downward
  <2>1. CASE m = u + 1
    BY <1>1, <1>9, <1>10, <2>1
  <2>2. CASE m \in 1..u
    BY <1>1, <1>10, <2>2 DEF Orderly, Downward
  <2> QED
    BY <2>1, <2>2
<1>6. \A m \in Nodes : m > u + 1 => hq[m] = Empty
  BY <1>1, <1>3 DEF Orderly, Nodes
<1>7. Unshared(hq, Nodes)
  BY <1>10 DEF Orderly, Unshared
<1>8. Orderly(hq, u + 1)
  BY <1>2, <1>4, <1>5, <1>6, <1>7 DEF Orderly
<1> QED
  BY <1>8 DEF hq

(***************************************************************************)
(* A child or sibling more: a new node, and its parent knows it.           *)
(***************************************************************************)
LEMMA ExtendedAt ==
  ASSUME NEW hp, NEW u \in 0..MaxNodes, MaxNodes \in Nat, Orderly(hp, u), u < MaxNodes,
         NEW n \in 1..u, NEW rel \in Rels, NEW c
  PROVE  LET hq == Extended(hp, n, u + 1, rel, c)
         IN  /\ hq[u + 1] = NewNode(c)
             /\ \A m \in Nodes \ {n, u + 1} : hq[m] = hp[m]
             /\ hq[n] \in Node
             /\ hq[n].fields = hp[n].fields /\ hq[n].mask = hp[n].mask
             /\ hq[n].rels = Append(hp[n].rels, rel)
             /\ hq[n].kids = Append(hp[n].kids, u + 1)
             /\ DOMAIN hq = Nodes
<1> DEFINE hq == Extended(hp, n, u + 1, rel, c)
<1>1. n \in Nodes /\ u + 1 \in Nodes /\ n # u + 1 /\ hp \in [Nodes -> Node]
  BY DEF Nodes, Orderly
<1>2. /\ hq[u + 1] = NewNode(c)
      /\ \A m \in Nodes \ {n, u + 1} : hq[m] = hp[m]
      /\ hq[n] = [hp[n] EXCEPT !.rels = Append(@, rel), !.kids = Append(@, u + 1)]
      /\ DOMAIN hq = Nodes
  BY <1>1 DEF Extended
<1> HIDE DEF hq
<1>3. hp[n] \in Node
  BY <1>1
<1>4. Append(hp[n].rels, rel) \in Seq(Rels) /\ Append(hp[n].kids, u + 1) \in Seq(Nodes)
  BY <1>1, <1>3 DEF Node
<1>5. /\ hq[n] \in Node
      /\ hq[n].fields = hp[n].fields /\ hq[n].mask = hp[n].mask
      /\ hq[n].rels = Append(hp[n].rels, rel)
      /\ hq[n].kids = Append(hp[n].kids, u + 1)
  BY <1>2, <1>3, <1>4 DEF Node
<1> QED
  BY <1>2, <1>5 DEF hq

\* So does Child or Sibling of a selector; only the lists of n grow, by the new node.
LEMMA ExtendedOrderly ==
  ASSUME NEW hp, NEW u \in 0..MaxNodes, MaxNodes \in Nat, Orderly(hp, u), u < MaxNodes,
         NEW n \in 1..u, NEW rel \in Rels, NEW c \in Content, Valid(c)
  PROVE  LET hq == Extended(hp, n, u + 1, rel, c)
         IN  /\ Orderly(hq, u + 1)
             /\ \A m \in 1..u : m # n => hq[m] = hp[m]
             /\ \A i \in DOMAIN hq[n].kids :
                  \/ hq[n].kids[i] = u + 1
                  \/ \E j \in DOMAIN hp[n].kids : hq[n].kids[i] = hp[n].kids[j]
<1> DEFINE hq == Extended(hp, n, u + 1, rel, c)
<1>1. /\ n \in Nodes /\ u + 1 \in Nodes /\ n # u + 1 /\ 1..u \subseteq Nodes
      /\ hp \in [Nodes -> Node] /\ Formed(hp[n])
  BY DEF Nodes, Orderly
<1>2. /\ hq[u + 1] = NewNode(c)
      /\ \A m \in Nodes \ {n, u + 1} : hq[m] = hp[m]
      /\ hq[n] \in Node
      /\ hq[n].fields = hp[n].fields /\ hq[n].mask = hp[n].mask
      /\ hq[n].rels = Append(hp[n].rels, rel)
      /\ hq[n].kids = Append(hp[n].kids, u + 1)
      /\ DOMAIN hq = Nodes
  BY ExtendedAt
<1>3. Formed(NewNode(c)) /\ NewNode(c).kids = <<>>
  BY NewNodeFormed
<1> HIDE DEF hq
<1>4. hp[n].rels \in Seq(Rels) /\ hp[n].kids \in Seq(Nodes)
  BY <1>1 DEF Node
<1>5. /\ Len(hq[n].rels) = Len(hp[n].rels) + 1 /\ Len(hq[n].kids) = Len(hp[n].kids) + 1
      /\ DOMAIN hq[n].kids = 1..(Len(hp[n].kids) + 1) /\ DOMAIN hp[n].kids = 1..Len(hp[n].kids)
      /\ hq[n].kids[Len(hp[n].kids) + 1] = u + 1
      /\ \A i \in 1..Len(hp[n].kids) : hq[n].kids[i] = hp[n].kids[i]
  BY <1>1, <1>2, <1>4
<1>6. Formed(hq[n])
  BY <1>1, <1>2, <1>5 DEF Formed
<1>7. \A m \in 1..(u + 1) : Formed(hq[m])
  <2> TAKE m \in 1..(u + 1)
  <2>1. m \in 1..u \/ m = u + 1
    OBVIOUS
  <2>2. m \in 1..u /\ m # n => m \in Nodes \ {n, u + 1}
    BY <1>1
  <2> QED
    BY <1>2, <1>3, <1>6, <2>1, <2>2 DEF Orderly
<1>8. hq \in [Nodes -> Node]
  <2>1. \A m \in Nodes : hq[m] \in Node
    BY <1>1, <1>2, <1>3 DEF Formed
  <2>2. hq = [m \in Nodes |-> hq[m]]
    BY <1>1, <1>2 DEF Extended, hq, Orderly
  <2> QED
    BY <2>1, <2>2
<1>9. \A i \in DOMAIN hq[n].kids :
        \/ i = Len(hp[n].kids) + 1 /\ hq[n].kids[i] = u + 1
        \/ i \in DOMAIN hp[n].kids /\ hq[n].kids[i] = hp[n].kids[i]
  <2> TAKE i \in DOMAIN hq[n].kids
  <2>1. i = Len(hp[n].kids) + 1 \/ i \in 1..Len(hp[n].kids)
    BY <1>4, <1>5
  <2> QED
    BY <1>5, <2>1
<1>10. \A m \in Nodes : /\ m > u => DOMAIN hq[m].kids = {}
                        /\ m # n /\ m <= u => hq[m].kids = hp[m].kids
  <2> TAKE m \in Nodes
  <2>1. CASE m = u + 1
    BY <1>2, <1>3, <2>1
  <2>2. CASE m = n
    BY <1>1, <2>2
  <2>3. CASE m \in Nodes \ {n, u + 1}
    BY <1>2, <2>3 DEF Orderly, Empty
  <2> QED
    BY <2>1, <2>2, <2>3
<1>11. Downward(hq, u + 1)
  <2> SUFFICES ASSUME NEW m \in 1..(u + 1), NEW i \in DOMAIN hq[m].kids
               PROVE  hq[m].kids[i] \in (m + 1)..(u + 1)
    BY DEF Downward
  <2>1. m \in 1..u
    BY <1>1, <1>10
  <2>2. \A j \in DOMAIN hp[m].kids : hp[m].kids[j] \in (m + 1)..u
    BY <2>1 DEF Orderly, Downward
  <2>3. hq[m].kids[i] = u + 1 \/ \E j \in DOMAIN hp[m].kids : hq[m].kids[i] = hp[m].kids[j]
    BY <1>1, <1>9, <1>10, <2>1
  <2> QED
    BY <2>1, <2>2, <2>3
<1>12. Unshared(hq, Nodes)
  <2> SUFFICES ASSUME NEW k \in Nodes, NEW m \in Nodes,
                      NEW i \in DOMAIN hq[k].kids, NEW j \in DOMAIN hq[m].kids,
                      hq[k].kids[i] = hq[m].kids[j]
               PROVE  k = m /\ i = j
    BY DEF Unshared
  <2>1. k \in 1..u /\ m \in 1..u
    BY <1>10 DEF Nodes
  <2>2. /\ \A l \in DOMAIN hp[k].kids : hp[k].kids[l] # u + 1
        /\ \A l \in DOMAIN hp[m].kids : hp[m].kids[l] # u + 1
    BY <2>1 DEF Orderly, Downward
  <2>3. \/ k = n /\ i = Len(hp[n].kids) + 1 /\ hq[k].kids[i] = u + 1
        \/ i \in DOMAIN hp[k].kids /\ hq[k].kids[i] = hp[k].kids[i]
    BY <1>9, <1>10, <2>1
  <2>4. \/ m = n /\ j = Len(hp[n].kids) + 1 /\ hq[m].kids[j] = u + 1
        \/ j \in DOMAIN hp[m].kids /\ hq[m].kids[j] = hp[m].kids[j]
    BY <1>9, <1>10, <2>1
  <2>5. Unshared(hp, Nodes)
    BY DEF Orderly
  <2> QED
    BY <2>2, <2>3, <2>4, <2>5 DEF Unshared
<1>13. \A m \in Nodes : m > u + 1 => hq[m] = Empty
  BY <1>1, <1>2 DEF Orderly, Nodes
<1>14. Orderly(hq, u + 1)
  BY <1>7, <1>8, <1>11, <1>12, <1>13 DEF Orderly
<1>15. \A m \in 1..u : m # n => hq[m] = hp[m]
  BY <1>1, <1>2
<1> QED
  BY <1>9, <1>14, <1>15 DEF hq

(***************************************************************************)
(* What a copy consists of: for each node of S a new one, with new         *)
(* children, and the heap as it was.                                       *)
(***************************************************************************)
LEMMA CopiedAt ==
  ASSUME NEW sp, NEW S, NEW N \in Nat, S \subseteq 1..N, used \in Nat, MaxNodes \in Nat,
         used + Cardinality(S) <= MaxNodes,
         \A n \in S : sp[n] \in Node /\ \A i \in DOMAIN sp[n].kids : sp[n].kids[i] \in S
  PROVE  LET new == Renamed(S)
             hq  == Copied(sp, S)
         IN  /\ \A n \in S :
                  /\ new[n] \in Nodes
                  /\ hq[new[n]] \in Node
                  /\ hq[new[n]].fields = sp[n].fields /\ hq[new[n]].mask = sp[n].mask
                  /\ hq[new[n]].rels = sp[n].rels
                  /\ hq[new[n]].kids = [i \in DOMAIN sp[n].kids |-> new[sp[n].kids[i]]]
             /\ \A c \in Nodes : (\E n \in S : c = new[n]) \/ hq[c] = heap[c]
             /\ hq = [c \in Nodes |-> hq[c]]
<1> DEFINE new == Renamed(S)
           hq  == Copied(sp, S)
           copy(n) == [sp[n] EXCEPT !.kids = [i \in DOMAIN sp[n].kids |-> new[sp[n].kids[i]]]]
<1>1. /\ Cardinality(S) \in Nat
      /\ \A n \in S : new[n] \in (used + 1)..(used + Cardinality(S))
      /\ \A m, n \in S : m < n => new[m] < new[n]
  BY RenamedFacts
<1>2. \A n \in S : new[n] \in Nodes
  BY <1>1 DEF Nodes
<1>3. \A m, n \in S : new[m] = new[n] => m = n
  <2> SUFFICES ASSUME NEW m \in S, NEW n \in S, m # n PROVE new[m] # new[n]
    OBVIOUS
  <2>1. m < n \/ n < m
    OBVIOUS
  <2> HIDE DEF new
  <2>2. new[m] \in Nodes /\ new[n] \in Nodes
    BY <1>2
  <2>3. new[m] \in Nat /\ new[n] \in Nat
    BY <2>2 DEF Nodes
  <2>4. (m < n => new[m] < new[n]) /\ (n < m => new[n] < new[m])
    BY <1>1
  <2> QED
    BY <2>1, <2>3, <2>4
<1>4. hq = [c \in Nodes |-> IF \E n \in S : new[n] = c
                            THEN copy(CHOOSE n \in S : new[n] = c) ELSE heap[c]]
  BY Zenon DEF Copied
<1> HIDE DEF hq, new
<1>5. ASSUME NEW n \in S PROVE hq[new[n]] = copy(n)
  <2>1. (CHOOSE k \in S : new[k] = new[n]) = n
    BY <1>3
  <2> HIDE DEF copy
  <2> QED
    BY <1>2, <1>4, <2>1
<1>6. ASSUME NEW n \in S
      PROVE  /\ hq[new[n]] \in Node
             /\ hq[new[n]].fields = sp[n].fields /\ hq[new[n]].mask = sp[n].mask
             /\ hq[new[n]].rels = sp[n].rels
             /\ hq[new[n]].kids = [i \in DOMAIN sp[n].kids |-> new[sp[n].kids[i]]]
  <2> DEFINE kids == [i \in DOMAIN sp[n].kids |-> new[sp[n].kids[i]]]
  <2>1. sp[n] \in Node
    OBVIOUS
  <2>2. /\ sp[n].kids \in Seq(Nodes) /\ Len(sp[n].kids) \in Nat
        /\ DOMAIN sp[n].kids = 1..Len(sp[n].kids)
    BY <2>1 DEF Node
  <2>3. kids \in [1..Len(sp[n].kids) -> Nodes]
    BY <1>2, <2>2
  <2>4. kids \in Seq(Nodes)
    BY <2>2, <2>3
  <2>5. hq[new[n]] = [sp[n] EXCEPT !.kids = kids]
    BY Zenon, <1>5
  <2> HIDE DEF kids
  <2>6. /\ hq[new[n]] \in Node
        /\ hq[new[n]].fields = sp[n].fields /\ hq[new[n]].mask = sp[n].mask
        /\ hq[new[n]].rels = sp[n].rels
        /\ hq[new[n]].kids = kids
    BY <2>1, <2>4, <2>5 DEF Node
  <2> QED
    BY <2>6 DEF kids
<1>7. \A c \in Nodes : (\E n \in S : c = new[n]) \/ hq[c] = heap[c]
  <2> HIDE DEF copy
  <2> QED
    BY <1>4
<1>8. hq = [c \in Nodes |-> hq[c]]
  <2> HIDE DEF copy
  <2> QED
    BY <1>4
<1> QED
  BY <1>2, <1>6, <1>7, <1>8 DEF hq, new

\* So does a copy, and the nodes that were there stay as they are.
LEMMA CopiedOrderly ==
  ASSUME NEW sp, NEW S, NEW N \in Nat, S \subseteq 1..N, used \in Nat, MaxNodes \in Nat,
         used + Cardinality(S) <= MaxNodes, Orderly(heap, used), Unshared(sp, S),
         \A n \in S : /\ Formed(sp[n])
                      /\ \A i \in DOMAIN sp[n].kids : sp[n].kids[i] \in S /\ sp[n].kids[i] > n
  PROVE  /\ Orderly(Copied(sp, S), used + Cardinality(S))
         /\ \A m \in 1..used : Copied(sp, S)[m] = heap[m]
<1> DEFINE new == Renamed(S)
           hq  == Copied(sp, S)
           u   == used + Cardinality(S)
<1>1. /\ Cardinality(S) \in Nat
      /\ \A n \in S : new[n] \in (used + 1)..u
      /\ \A m, n \in S : m < n => new[m] < new[n]
  BY RenamedFacts
<1>2. \A n \in S : sp[n] \in Node /\ \A i \in DOMAIN sp[n].kids : sp[n].kids[i] \in S
  BY DEF Formed
<1>3. /\ \A n \in S :
           /\ new[n] \in Nodes
           /\ hq[new[n]] \in Node
           /\ hq[new[n]].fields = sp[n].fields /\ hq[new[n]].mask = sp[n].mask
           /\ hq[new[n]].rels = sp[n].rels
           /\ hq[new[n]].kids = [i \in DOMAIN sp[n].kids |-> new[sp[n].kids[i]]]
      /\ \A c \in Nodes : (\E n \in S : c = new[n]) \/ hq[c] = heap[c]
      /\ hq = [c \in Nodes |-> hq[c]]
  BY <1>2, CopiedAt
<1> HIDE DEF new, hq, u
<1>4. u \in Nat /\ used <= u /\ u <= MaxNodes /\ 1..used \subseteq Nodes /\ 1..u \subseteq Nodes
  BY <1>1 DEF u, Nodes
<1>5. \A m \in 1..used : hq[m] = heap[m]
  <2> SUFFICES ASSUME NEW m \in 1..used PROVE ~ \E n \in S : m = new[n]
    BY <1>3, <1>4
  <2>1. \A n \in S : used < new[n]
    BY <1>1, <1>4
  <2>2. ~ used < m
    BY <1>4
  <2> QED
    BY <2>1, <2>2
<1>6. ASSUME NEW n \in S PROVE Formed(hq[new[n]])
  <2>1. Formed(sp[n]) /\ sp[n] \in Node
    BY <1>2
  <2>2. Len(hq[new[n]].kids) = Len(sp[n].kids)
    <3>1. sp[n].kids \in Seq(Nodes)
      BY <2>1 DEF Node
    <3>2. DOMAIN hq[new[n]].kids = DOMAIN sp[n].kids
      BY <1>3
    <3>3. hq[new[n]].kids \in Seq(Nodes)
      BY <1>3 DEF Node
    <3> QED
      BY <3>1, <3>2, <3>3
  <2> QED
    BY <1>3, <2>1, <2>2 DEF Formed
<1>7. \A c \in Nodes :
        \/ \E n \in S : c = new[n]
        \/ c \in 1..used /\ hq[c] = heap[c]
        \/ c > used /\ hq[c] = Empty
  BY <1>3 DEF Orderly, Nodes
<1>8. hq \in [Nodes -> Node]
  <2>1. ASSUME NEW c \in Nodes PROVE hq[c] \in Node
    BY <1>3 DEF Orderly
  <2> QED
    BY <1>3, <2>1
<1>9. \A m \in 1..u : Formed(hq[m])
  BY <1>4, <1>6, <1>7, EmptyFormed DEF Orderly
<1>10. ASSUME NEW n \in S, NEW i \in DOMAIN hq[new[n]].kids
       PROVE  i \in DOMAIN sp[n].kids /\ hq[new[n]].kids[i] = new[sp[n].kids[i]]
  <2>1. hq[new[n]].kids = [l \in DOMAIN sp[n].kids |-> new[sp[n].kids[l]]]
    BY <1>3
  <2> QED
    BY <2>1
<1>11. Downward(hq, u)
  <2> SUFFICES ASSUME NEW m \in 1..u, NEW i \in DOMAIN hq[m].kids
               PROVE  hq[m].kids[i] \in (m + 1)..u
    BY DEF Downward
  <2>1. ASSUME NEW n \in S, m = new[n] PROVE hq[m].kids[i] \in (m + 1)..u
    <3>1. i \in DOMAIN sp[n].kids /\ hq[m].kids[i] = new[sp[n].kids[i]]
      <4>1. i \in DOMAIN hq[new[n]].kids
        BY <2>1
      <4> QED
        BY <1>10, <2>1, <4>1
    <3>2. sp[n].kids[i] \in S /\ n < sp[n].kids[i]
      BY <3>1
    <3>3. new[n] < new[sp[n].kids[i]] /\ new[sp[n].kids[i]] \in (used + 1)..u
      BY <1>1, <3>2
    <3> QED
      BY <1>4, <2>1, <3>1, <3>3
  <2>2. CASE m \in 1..used /\ hq[m] = heap[m]
    BY <1>4, <2>2 DEF Orderly, Downward
  <2>3. CASE hq[m] = Empty
    BY <2>3 DEF Empty
  <2> QED
    BY <1>4, <1>7, <2>1, <2>2, <2>3
<1>12. \A c \in Nodes : c > u => hq[c] = Empty
  BY <1>1, <1>4, <1>7 DEF Nodes
<1>13. Unshared(hq, Nodes)
  <2> SUFFICES ASSUME NEW k \in Nodes, NEW m \in Nodes,
                      NEW i \in DOMAIN hq[k].kids, NEW j \in DOMAIN hq[m].kids,
                      hq[k].kids[i] = hq[m].kids[j]
               PROVE  k = m /\ i = j
    BY DEF Unshared
  <2>1. ASSUME NEW a \in Nodes, NEW l \in DOMAIN hq[a].kids
        PROVE  \/ /\ a \in 1..used /\ hq[a] = heap[a]
                  /\ hq[a].kids[l] \in 1..used
               \/ \E n \in S : /\ a = new[n] /\ l \in DOMAIN sp[n].kids
                               /\ hq[a].kids[l] = new[sp[n].kids[l]]
                               /\ hq[a].kids[l] \notin 1..used
    <3>1. CASE a \in 1..used /\ hq[a] = heap[a]
      BY <3>1 DEF Orderly, Downward
    <3>2. ASSUME NEW n \in S, a = new[n]
          PROVE  /\ l \in DOMAIN sp[n].kids /\ hq[a].kids[l] = new[sp[n].kids[l]]
                 /\ hq[a].kids[l] \notin 1..used
      <4>1. l \in DOMAIN sp[n].kids /\ hq[a].kids[l] = new[sp[n].kids[l]]
        <5>1. l \in DOMAIN hq[new[n]].kids
          BY <3>2
        <5> QED
          BY <1>10, <3>2, <5>1
      <4>2. new[sp[n].kids[l]] \in (used + 1)..u
        BY <1>1, <4>1
      <4> QED
        BY <1>4, <4>1, <4>2
    <3>3. hq[a] # Empty
      BY DEF Empty
    <3> QED
      BY <1>7, <3>1, <3>2, <3>3
  <2>2. CASE k \in 1..used /\ m \in 1..used /\ hq[k] = heap[k] /\ hq[m] = heap[m]
    BY <1>4, <2>2 DEF Orderly, Unshared
  <2>3. ASSUME NEW a \in S, NEW b \in S, k = new[a], m = new[b],
               i \in DOMAIN sp[a].kids, j \in DOMAIN sp[b].kids,
               new[sp[a].kids[i]] = new[sp[b].kids[j]]
        PROVE  k = m /\ i = j
    <3>1. sp[a].kids[i] \in S /\ sp[b].kids[j] \in S
      BY <2>3
    <3>2. \A x, y \in S : new[x] = new[y] => x = y
      <4> SUFFICES ASSUME NEW x \in S, NEW y \in S, x # y PROVE new[x] # new[y]
        OBVIOUS
      <4>1. (x < y \/ y < x) /\ new[x] \in Nat /\ new[y] \in Nat
        BY <1>1
      <4> QED
        BY <1>1, <4>1
    <3>3. sp[a].kids[i] = sp[b].kids[j]
      BY <2>3, <3>1, <3>2
    <3>4. a = b /\ i = j
      BY <2>3, <3>3 DEF Unshared
    <3> QED
      BY <2>3, <3>4
  <2> QED
    BY <2>1, <2>2, <2>3
<1>14. Orderly(hq, u)
  BY <1>8, <1>9, <1>11, <1>12, <1>13 DEF Orderly
<1> QED
  BY <1>5, <1>14 DEF hq, u

(***************************************************************************)
(* The instance is set in the selector itself or in its last child.        *)
(***************************************************************************)
LEMMA NumberedOrderly ==
  ASSUME NEW hp, NEW u \in 0..MaxNodes, MaxNodes \in Nat, Orderly(hp, u),
         NEW n \in 1..u, NEW i \in 0..MaxIndex, "instance" \in Fields
  PROVE  /\ Orderly(Numbered(hp, n, i), u)
         /\ Target(hp, n) \in n..u
         /\ Target(hp, n) \in ReachIn(hp, u, n)
         /\ \A m \in 1..u : /\ Numbered(hp, n, i)[m].kids = hp[m].kids
                            /\ m # Target(hp, n) => Numbered(hp, n, i)[m] = hp[m]
<1> DEFINE t  == Target(hp, n)
           hq == Numbered(hp, n, i)
           updates == [k \in Fields |-> <<"int", i>>]
<1>1. n \in Nodes /\ hp \in [Nodes -> Node] /\ 1..u \subseteq Nodes /\ hp[n].kids \in Seq(Nodes)
  BY DEF Nodes, Orderly, Node
<1>2. t = n \/ \E j \in DOMAIN hp[n].kids : t = hp[n].kids[j]
  <2>1. CASE hp[n].kids = <<>>
    BY <2>1 DEF Target
  <2>2. CASE hp[n].kids # <<>>
    <3>1. Len(hp[n].kids) \in DOMAIN hp[n].kids
      BY <1>1, <2>2
    <3> QED
      BY <2>2, <3>1 DEF Target
  <2> QED
    BY <2>1, <2>2
<1>3. t \in n..u
  BY <1>2 DEF Orderly, Downward
<1>4. t \in ReachIn(hp, u, n)
  BY <1>2, ReachFacts DEF Orderly, ClosedIn
<1>5. Formed(hp[t]) /\ t \in Nodes /\ t \in 1..u
  BY <1>1, <1>3 DEF Orderly
<1>6. hq = [hp EXCEPT ![t] = SetIn(hp[t], updates, {"instance"})]
  BY Zenon DEF Numbered
<1>7. Formed(SetIn(hp[t], updates, {"instance"})) /\ SetIn(hp[t], updates, {"instance"}).kids = hp[t].kids
  <2>1. \A k \in {"instance"} : /\ updates[k] \in Values(k) /\ updates[k] # NoValue
                                /\ Accepts(k, updates[k])
    BY ValuesFacts
  <2> HIDE DEF updates, t
  <2> QED
    BY <1>5, <2>1, SetInFormed
<1> HIDE DEF t, hq, updates
<1>8. /\ hq[t] = SetIn(hp[t], updates, {"instance"})
      /\ \A m \in Nodes \ {t} : hq[m] = hp[m]
      /\ hq = [m \in Nodes |-> hq[m]]
  BY <1>1, <1>5, <1>6
<1>9. /\ Orderly(hq, u)
      /\ \A m \in 1..u : hq[m].kids = hp[m].kids /\ (m # t => hq[m] = hp[m])
  BY <1>5, <1>7, <1>8, Replaced
<1> QED
  BY <1>3, <1>9, <1>4 DEF t, hq

-----------------------------------------------------------------------------
(* The inductive invariant of Selector, in parts.                          *)

Counted  == root \in [Handles -> 0..used] /\ used \in 0..MaxNodes /\ steps \in 0..MaxSteps
Disjoint == \A g, h \in Handles :
              g # h /\ root[g] # 0 /\ root[h] # 0 =>
                ReachIn(heap, used, root[g]) \cap ReachIn(heap, used, root[h]) = {}

\* ReachIn is what Selector takes for the reach, on the heap of the state.
LEMMA ReachIs == ASSUME NEW n PROVE Reach(n) = ReachIn(heap, used, n)
  BY Zenon DEF Reach, Closed, ReachIn, ClosedIn

\* The invariant of Selector, in its parts.
LEMMA OrderlyParts ==
  ASSUME MaxNodes \in Nat
  PROVE  SelectorIInv <=> Counted /\ Orderly(heap, used) /\ Disjoint
<1>1. ASSUME SelectorIInv PROVE Counted /\ Orderly(heap, used) /\ Disjoint
  <2>1. Counted /\ 1..used \subseteq Nodes
    BY <1>1 DEF SelectorIInv, WellFormed, SelectorTypeOK, Counted, Nodes
  <2>2. \A n \in 1..used : Formed(heap[n])
    BY <1>1, <2>1 DEF SelectorIInv, WellFormed, SelectorTypeOK, Formed
  <2>3. Downward(heap, used)
    BY <1>1, <2>1 DEF SelectorIInv, WellFormed, SelectorTypeOK, Downward
  <2>4. Orderly(heap, used)
    BY <1>1, <2>2, <2>3 DEF SelectorIInv, WellFormed, SelectorTypeOK, Separate, Orderly
  <2>5. Disjoint
    BY <1>1, ReachIs DEF SelectorIInv, Separate, Disjoint
  <2> QED
    BY <2>1, <2>4, <2>5
<1>2. ASSUME Counted, Orderly(heap, used), Disjoint PROVE SelectorIInv
  <2>1. SelectorTypeOK
    <3>1. \A n \in Nodes : \A i \in DOMAIN heap[n].kids : heap[n].kids[i] \in (n + 1)..used
      <4> TAKE n \in Nodes
      <4>1. CASE n \in 1..used
        BY <1>2, <4>1 DEF Orderly, Downward
      <4>2. CASE n \notin 1..used
        BY <1>2, <4>2 DEF Orderly, Counted, Nodes, Empty
      <4> QED
        BY <4>1, <4>2
    <3> QED
      BY <1>2, <3>1 DEF SelectorTypeOK, Orderly, Counted
  <2>2. WellFormed
    BY <1>2, <2>1 DEF WellFormed, Orderly, Formed
  <2>3. Separate
    BY <1>2, ReachIs DEF Separate, Orderly, Disjoint
  <2> QED
    BY <2>2, <2>3 DEF SelectorIInv
<1> QED
  BY <1>1, <1>2

\* And of the next state.
LEMMA OrderlyPartsNext ==
  ASSUME MaxNodes \in Nat
  PROVE  SelectorIInv' <=> (Counted /\ Orderly(heap, used) /\ Disjoint)'
  BY OrderlyParts, PTL

\* What any operation on h does: h is assigned a node that was not allocated, or
\* nodes that h reaches change, and get no children but new ones and old ones.
Local(h) ==
  /\ root' = [g \in Handles |-> IF g = h THEN root'[h] ELSE root[g]]
  /\ \/ /\ root[h] = 0 /\ root'[h] \in (used + 1)..used'
        /\ \A m \in 1..used : heap'[m] = heap[m]
     \/ /\ root[h] # 0 /\ root'[h] = root[h]
        /\ \A m \in 1..used :
             /\ m \in ReachIn(heap, used, root[h]) \/ heap'[m] = heap[m]
             /\ \A i \in DOMAIN heap'[m].kids :
                  \/ heap'[m].kids[i] \in (used + 1)..used'
                  \/ \E j \in DOMAIN heap[m].kids : heap'[m].kids[i] = heap[m].kids[j]

Effect(h) == /\ used' \in used..MaxNodes /\ steps' \in 0..MaxSteps
             /\ Orderly(heap', used') /\ Local(h)

\* Step counts to its bound.
LEMMA StepEffect ==
  ASSUME Counted, SelectorStep
  PROVE  steps' \in 0..MaxSteps
  BY SelectorAssumption DEF Counted, SelectorStep

\* Assign gives the handle its node, and no other handle another.
LEMMA AssignEffect ==
  ASSUME Counted, NEW h \in Handles, NEW n, Assign(h, n)
  PROVE  /\ root[h] = 0 /\ root'[h] = n
         /\ root' = [g \in Handles |-> IF g = h THEN root'[h] ELSE root[g]]
  BY DEF Counted, Assign

(***************************************************************************)
(* New and FindElement: one node more.                                     *)
(***************************************************************************)
LEMMA NewEffect ==
  ASSUME Counted, Orderly(heap, used),
         NEW h \in Handles, NEW c \in Content, New(h, c)
  PROVE  Effect(h)
<1>1. /\ SelectorStep /\ used < MaxNodes /\ Valid(c) /\ Assign(h, used + 1)
      /\ heap' = [heap EXCEPT ![used + 1] = NewNode(c)] /\ used' = used + 1
  BY DEF New
<1>2. MaxNodes \in Nat /\ used \in 0..MaxNodes
  BY SelectorAssumption DEF Counted
<1>3. Orderly(heap', used')
  BY <1>1, <1>2, NewNodeFormed, Allocated
<1>4. \A m \in 1..used : heap'[m] = heap[m]
  BY <1>1, <1>2 DEF Orderly, Nodes
<1>5. Local(h)
  BY <1>1, <1>2, <1>4, AssignEffect DEF Local
<1> QED
  BY <1>1, <1>2, <1>3, <1>5, StepEffect DEF Effect

(***************************************************************************)
(* Set and UpdateAtPath: other fields of a node that h reaches.            *)
(***************************************************************************)
LEMMA RewriteEffect ==
  ASSUME Counted, Orderly(heap, used), NEW h \in Handles, root[h] # 0, SelectorStep,
         NEW n \in ReachIn(heap, used, root[h]),
         heap' = [m \in Nodes |-> heap'[m]],
         \A m \in Nodes \ {n} : heap'[m] = heap[m],
         Formed(heap'[n]), heap'[n].kids = heap[n].kids,
         root' = root, used' = used
  PROVE  Effect(h)
<1>1. MaxNodes \in Nat /\ used \in 0..MaxNodes /\ root[h] \in 1..used
  BY SelectorAssumption DEF Counted
<1>2. n \in 1..used
  BY <1>1, ReachFacts DEF Orderly
<1>3. /\ Orderly(heap', used)
      /\ \A m \in 1..used : heap'[m].kids = heap[m].kids /\ (m # n => heap'[m] = heap[m])
  BY <1>1, <1>2, Replaced
<1>4. Local(h)
  BY <1>3 DEF Local, Counted
<1> QED
  BY <1>1, <1>3, <1>4, StepEffect DEF Effect

\* UpdateAtPath changes one node that h reaches.
LEMMA UpdateAtPathEffect ==
  ASSUME Counted, Orderly(heap, used),
         NEW h \in Handles, NEW updates \in Content, UpdateAtPath(h, updates)
  PROVE  Effect(h)
<1> DEFINE accepted == {k \in Present(updates) : Accepts(k, updates[k])}
<1>1. PICK n \in Reach(root[h]), which \in SUBSET accepted :
        heap' = [heap EXCEPT ![n] = SetIn(heap[n], updates, which)]
  BY Zenon DEF UpdateAtPath
<1>2. SelectorStep /\ root[h] # 0 /\ root' = root /\ used' = used
  BY DEF UpdateAtPath
<1>3. root[h] \in 1..used /\ n \in ReachIn(heap, used, root[h])
  BY <1>1, <1>2, ReachIs DEF Counted
<1>4. n \in 1..used /\ n \in Nodes
  BY <1>3, ReachFacts, SelectorAssumption DEF Orderly, Counted, Nodes
<1>5. /\ which \in SUBSET Fields
      /\ \A k \in which : /\ updates[k] \in Values(k) /\ updates[k] # NoValue
                           /\ Accepts(k, updates[k])
  BY <1>1, ContentFacts DEF Present
<1>6. /\ Formed(SetIn(heap[n], updates, which))
      /\ SetIn(heap[n], updates, which).kids = heap[n].kids
  <2>1. Formed(heap[n])
    BY <1>4 DEF Orderly
  <2> QED
    BY <1>5, <2>1, SetInFormed
<1>7. /\ heap' = [m \in Nodes |-> heap'[m]]
      /\ \A m \in Nodes \ {n} : heap'[m] = heap[m]
      /\ heap'[n] = SetIn(heap[n], updates, which)
  BY <1>1, <1>4 DEF Orderly
<1> QED
  BY <1>2, <1>3, <1>6, <1>7, RewriteEffect

(***************************************************************************)
(* Delete forgets a field and its bit in the mask.                         *)
(***************************************************************************)
LEMMA DeleteEffect ==
  ASSUME Counted, Orderly(heap, used),
         NEW h \in Handles, NEW k \in Fields, Delete(h, k)
  PROVE  Effect(h)
<1> DEFINE n == root[h]
<1>1. /\ SelectorStep /\ n # 0 /\ root' = root /\ used' = used
      /\ heap' = [heap EXCEPT ![n].fields[k] = NoValue, ![n].mask = @ \ {k}]
  BY DEF Delete
<1>2. n \in 1..used /\ n \in Nodes /\ n \in ReachIn(heap, used, n)
  BY <1>1, ReachFacts, SelectorAssumption DEF Orderly, Counted, Nodes
<1>3. Formed(heap[n]) /\ heap[n] \in Node
  BY <1>2 DEF Orderly, Formed
<1> DEFINE f == [heap[n].fields EXCEPT ![k] = NoValue]
<1>4. /\ heap' = [m \in Nodes |-> heap'[m]]
      /\ \A m \in Nodes \ {n} : heap'[m] = heap[m]
  BY <1>1, <1>2 DEF Orderly
<1>5. heap'[n] = [heap[n] EXCEPT !.fields = f, !.mask = heap[n].mask \ {k}]
  BY <1>1, <1>2, <1>3 DEF Orderly
<1>6. /\ f \in Content /\ f[k] = NoValue
      /\ \A j \in Fields \ {k} : f[j] = heap[n].fields[j]
  <2>1. heap[n].fields \in Content
    BY <1>3 DEF Node
  <2>2. /\ heap[n].fields = [j \in Fields |-> heap[n].fields[j]]
        /\ \A j \in Fields : heap[n].fields[j] \in Values(j)
    BY <2>1, ContentFacts
  <2>3. f = [j \in Fields |-> IF j = k THEN NoValue ELSE heap[n].fields[j]]
    BY <2>2
  <2> HIDE DEF f
  <2>4. f \in Content
    BY <2>2, <2>3, ContentFacts, ValuesFacts
  <2> QED
    BY <2>3, <2>4
<1> HIDE DEF n, f
<1>7. /\ heap'[n] \in Node
      /\ heap'[n].fields = f /\ heap'[n].mask = heap[n].mask \ {k}
      /\ heap'[n].rels = heap[n].rels /\ heap'[n].kids = heap[n].kids
  BY <1>3, <1>5, <1>6 DEF Node
<1>8. heap'[n].mask = Present(f) /\ Valid(f)
  BY <1>3, <1>6, <1>7 DEF Formed, Present, Valid
<1>9. Formed(heap'[n])
  BY <1>3, <1>7, <1>8 DEF Formed
<1> QED
  BY <1>1, <1>2, <1>4, <1>7, <1>9, RewriteEffect DEF n

(***************************************************************************)
(* UpdateInstance.                                                         *)
(***************************************************************************)
LEMMA UpdateInstanceEffect ==
  ASSUME Counted, Orderly(heap, used),
         NEW h \in Handles, NEW i \in 0..MaxIndex, UpdateInstance(h, i)
  PROVE  Effect(h)
<1>1. /\ SelectorStep /\ root[h] # 0 /\ root' = root /\ used' = used
      /\ heap' = Numbered(heap, root[h], i)
  BY DEF UpdateInstance
<1>2. MaxNodes \in Nat /\ used \in 0..MaxNodes /\ root[h] \in 1..used /\ "instance" \in Fields
  BY <1>1, SelectorAssumption DEF Counted
<1> DEFINE n == root[h]
<1> HIDE DEF n
<1>3. /\ Orderly(Numbered(heap, n, i), used)
      /\ Target(heap, n) \in ReachIn(heap, used, n)
      /\ \A m \in 1..used : /\ Numbered(heap, n, i)[m].kids = heap[m].kids
                            /\ m # Target(heap, n) => Numbered(heap, n, i)[m] = heap[m]
  <2>1. n \in 1..used
    BY <1>2 DEF n
  <2>2. Orderly(Numbered(heap, n, i), used)
    BY <1>2, <2>1, NumberedOrderly
  <2>3. Target(heap, n) \in ReachIn(heap, used, n)
    BY <1>2, <2>1, NumberedOrderly
  <2>4. \A m \in 1..used : /\ Numbered(heap, n, i)[m].kids = heap[m].kids
                           /\ m # Target(heap, n) => Numbered(heap, n, i)[m] = heap[m]
    BY <1>2, <2>1, NumberedOrderly
  <2> QED
    BY <2>2, <2>3, <2>4
<1>4. /\ Orderly(heap', used)
      /\ \A m \in 1..used : /\ heap'[m].kids = heap[m].kids
                            /\ m \in ReachIn(heap, used, n) \/ heap'[m] = heap[m]
  BY <1>1, <1>3 DEF n
<1>5. Local(h)
  BY <1>1, <1>4 DEF Local, Counted, n
<1> QED
  BY <1>1, <1>2, <1>4, <1>5, StepEffect DEF Effect

(***************************************************************************)
(* Child and Sibling of a Selector.                                        *)
(***************************************************************************)
LEMMA AddChildEffect ==
  ASSUME Counted, Orderly(heap, used),
         NEW h \in Handles, NEW rel \in Rels, NEW c \in Content, AddChild(h, rel, c)
  PROVE  Effect(h)
<1> DEFINE n == root[h]
<1>1. /\ SelectorStep /\ n # 0 /\ root' = root /\ used' = used + 1 /\ used < MaxNodes /\ Valid(c)
      /\ heap' = Extended(heap, n, used + 1, rel, c)
  BY DEF AddChild
<1>2. MaxNodes \in Nat /\ used \in 0..MaxNodes /\ n \in 1..used
  BY <1>1, SelectorAssumption DEF Counted
<1>3. n \in ReachIn(heap, used, n)
  BY <1>2, ReachFacts DEF Orderly
<1> HIDE DEF n
<1>4. /\ Orderly(heap', used + 1)
      /\ \A m \in 1..used : m # n => heap'[m] = heap[m]
      /\ \A i \in DOMAIN heap'[n].kids :
           \/ heap'[n].kids[i] = used + 1
           \/ \E j \in DOMAIN heap[n].kids : heap'[n].kids[i] = heap[n].kids[j]
  <2>1. Valid(c) /\ used < MaxNodes
    BY <1>1
  <2>2. LET hq == Extended(heap, n, used + 1, rel, c)
        IN  /\ Orderly(hq, used + 1)
            /\ \A m \in 1..used : m # n => hq[m] = heap[m]
            /\ \A i \in DOMAIN hq[n].kids :
                 \/ hq[n].kids[i] = used + 1
                 \/ \E j \in DOMAIN heap[n].kids : hq[n].kids[i] = heap[n].kids[j]
    BY <1>2, <2>1, ExtendedOrderly
  <2> QED
    BY <1>1, <2>2
<1>5. used + 1 \in (used + 1)..used'
  BY <1>1, <1>2
<1>6. \A m \in 1..used :
        /\ m \in ReachIn(heap, used, n) \/ heap'[m] = heap[m]
        /\ \A i \in DOMAIN heap'[m].kids :
             \/ heap'[m].kids[i] \in (used + 1)..used'
             \/ \E j \in DOMAIN heap[m].kids : heap'[m].kids[i] = heap[m].kids[j]
  <2> TAKE m \in 1..used
  <2>1. CASE m = n
    BY <1>3, <1>4, <1>5, <2>1
  <2>2. CASE m # n
    BY <1>4, <2>2
  <2> QED
    BY <2>1, <2>2
<1>7. Local(h)
  BY <1>1, <1>6 DEF Local, Counted, n
<1> QED
  BY <1>1, <1>2, <1>4, <1>7, StepEffect DEF Effect

(***************************************************************************)
(* What is cloned: all that can be reached, as a tree above its root.      *)
(***************************************************************************)
LEMMA Cloned ==
  ASSUME Counted, Orderly(heap, used), NEW g \in Handles, root[g] # 0,
         NEW S, S = ReachIn(heap, used, root[g])
  PROVE  /\ Clone(root[g]) = [heap |-> Copied(heap, S), node |-> Renamed(S)[root[g]],
                              used |-> used + Cardinality(S)]
         /\ root[g] \in S /\ S \subseteq 1..used /\ \A n \in S : root[g] <= n
         /\ Unshared(heap, S)
         /\ \A n \in S : /\ Formed(heap[n])
                         /\ \A i \in DOMAIN heap[n].kids : heap[n].kids[i] \in S /\ heap[n].kids[i] > n
         /\ \A T \in SUBSET S : root[g] \in T /\ ClosedIn(heap, T) => T = S
<1>1. used \in Nat /\ used \in 0..MaxNodes /\ MaxNodes \in Nat /\ root[g] \in 1..used
  BY SelectorAssumption DEF Counted
<1>2. root[g] \in S /\ S \subseteq root[g]..used /\ ClosedIn(heap, S)
  BY <1>1, ReachFacts DEF Orderly
<1>3. S \subseteq 1..used /\ \A n \in S : root[g] <= n
  BY <1>1, <1>2
<1>4. Clone(root[g]) = [heap |-> Copied(heap, S), node |-> Renamed(S)[root[g]],
                        used |-> used + Cardinality(S)]
  BY ReachIs DEF Clone
<1>5. Unshared(heap, S)
  BY <1>1, <1>3 DEF Orderly, Unshared, Nodes
<1>6. \A n \in S : /\ Formed(heap[n])
                   /\ \A i \in DOMAIN heap[n].kids : heap[n].kids[i] \in S /\ heap[n].kids[i] > n
  <2> TAKE n \in S
  <2>1. n \in 1..used
    BY <1>3
  <2>2. Formed(heap[n])
    BY <2>1 DEF Orderly
  <2>3. \A i \in DOMAIN heap[n].kids : heap[n].kids[i] \in S
    BY <1>2 DEF ClosedIn
  <2>4. \A i \in DOMAIN heap[n].kids : heap[n].kids[i] \in (n + 1)..used
    BY <2>1 DEF Orderly, Downward
  <2> QED
    BY <1>1, <2>1, <2>2, <2>3, <2>4
<1>7. ASSUME NEW T \in SUBSET S, root[g] \in T, ClosedIn(heap, T)
      PROVE  T = S
  <2>1. ReachIn(heap, used, root[g]) \subseteq T
    BY <1>1, <1>7, ReachLeast DEF Orderly
  <2> QED
    BY <2>1
<1> QED
  BY <1>2, <1>3, <1>4, <1>5, <1>6, <1>7

(***************************************************************************)
(* A clone is new throughout, and the original stays as it is.             *)
(***************************************************************************)
LEMMA CloneFacts ==
  ASSUME Counted, Orderly(heap, used), NEW g \in Handles, root[g] # 0
  PROVE  LET clone == Clone(root[g])
         IN  /\ clone.used \in Nat
             /\ clone.used <= MaxNodes =>
                  /\ clone.used \in used..MaxNodes
                  /\ clone.node \in (used + 1)..clone.used
                  /\ Orderly(clone.heap, clone.used)
                  /\ \A m \in 1..used : clone.heap[m] = heap[m]
<1> DEFINE S == ReachIn(heap, used, root[g])
           clone == Clone(root[g])
<1>1. MaxNodes \in Nat /\ used \in Nat /\ used \in 0..MaxNodes
  BY SelectorAssumption DEF Counted
<1>2. /\ clone = [heap |-> Copied(heap, S), node |-> Renamed(S)[root[g]],
                  used |-> used + Cardinality(S)]
      /\ root[g] \in S /\ S \subseteq 1..used
      /\ Unshared(heap, S)
      /\ \A n \in S : /\ Formed(heap[n])
                      /\ \A i \in DOMAIN heap[n].kids : heap[n].kids[i] \in S /\ heap[n].kids[i] > n
  BY Cloned
<1> HIDE DEF S, clone
<1>3. /\ Cardinality(S) \in Nat
      /\ Renamed(S)[root[g]] \in (used + 1)..(used + Cardinality(S))
  <2>1. /\ Cardinality(S) \in Nat
        /\ \A n \in S : Renamed(S)[n] \in (used + 1)..(used + Cardinality(S))
    BY <1>1, <1>2, RenamedFacts
  <2> QED
    BY <1>2, <2>1
<1>4. ASSUME clone.used <= MaxNodes
      PROVE  /\ Orderly(Copied(heap, S), used + Cardinality(S))
             /\ \A m \in 1..used : Copied(heap, S)[m] = heap[m]
             /\ used + Cardinality(S) \in used..MaxNodes
  <2>1. used + Cardinality(S) <= MaxNodes
    BY <1>2, <1>4
  <2>2. /\ Orderly(Copied(heap, S), used + Cardinality(S))
        /\ \A m \in 1..used : Copied(heap, S)[m] = heap[m]
    BY <1>1, <1>2, <2>1, CopiedOrderly
  <2>3. used + Cardinality(S) \in used..MaxNodes
    BY <1>1, <1>3, <2>1
  <2> QED
    BY <2>2, <2>3
<1>5. used + Cardinality(S) \in Nat
  BY <1>1, <1>3
<1>6. /\ clone.used \in Nat
      /\ clone.used <= MaxNodes =>
           /\ clone.used \in used..MaxNodes
           /\ clone.node \in (used + 1)..clone.used
           /\ Orderly(clone.heap, clone.used)
           /\ \A m \in 1..used : clone.heap[m] = heap[m]
  BY <1>2, <1>3, <1>4, <1>5
<1> QED
  BY <1>6 DEF clone

(***************************************************************************)
(* Child and Sibling of a UiObject: the clone gets the new child.          *)
(***************************************************************************)
LEMMA ChildEffect ==
  ASSUME Counted, Orderly(heap, used), NEW h \in Handles, NEW g \in Handles,
         NEW rel \in Rels, NEW c \in Content, Child(h, g, rel, c)
  PROVE  Effect(h)
<1> DEFINE clone == Clone(root[g])
           hp == clone.heap
           n  == clone.node
           u  == clone.used
<1>1. /\ SelectorStep /\ root[g] # 0 /\ Valid(c) /\ Assign(h, n) /\ u < MaxNodes
      /\ heap' = Extended(hp, n, u + 1, rel, c) /\ used' = u + 1
  BY DEF Child
<1> HIDE DEF hp, n, u
<1>2. MaxNodes \in Nat /\ used \in 0..MaxNodes
  BY SelectorAssumption DEF Counted
<1>3. /\ u \in used..MaxNodes /\ n \in (used + 1)..u /\ Orderly(hp, u)
      /\ \A m \in 1..used : hp[m] = heap[m]
  <2>1. u \in Nat
    BY <1>1, CloneFacts DEF u
  <2>2. u <= MaxNodes
    BY <1>1, <1>2, <2>1
  <2> QED
    BY <1>1, <2>2, CloneFacts DEF hp, n, u
<1>4. n \in 1..u /\ u \in 0..MaxNodes /\ u < MaxNodes /\ Valid(c)
  BY <1>1, <1>2, <1>3
<1>5. LET hq == Extended(hp, n, u + 1, rel, c)
      IN  Orderly(hq, u + 1) /\ \A m \in 1..u : m # n => hq[m] = hp[m]
  BY <1>2, <1>3, <1>4, ExtendedOrderly
<1>6. \A m \in 1..used : heap'[m] = heap[m]
  <2> TAKE m \in 1..used
  <2>1. m \in 1..u /\ m # n
    BY <1>2, <1>3
  <2> QED
    BY <1>1, <1>3, <1>5, <2>1
<1>7. used' \in used..MaxNodes /\ n \in (used + 1)..used'
  BY <1>1, <1>2, <1>3
<1>8. Local(h)
  BY <1>1, <1>6, <1>7, AssignEffect DEF Local
<1> QED
  BY <1>1, <1>5, <1>7, <1>8, StepEffect DEF Effect

(***************************************************************************)
(* Instance: the clone, or its last child, gets the number.                *)
(***************************************************************************)
LEMMA InstanceEffect ==
  ASSUME Counted, Orderly(heap, used), NEW h \in Handles, NEW g \in Handles,
         NEW i \in 0..MaxIndex, NEW back \in 0..MaxIndex, NEW count \in 0..MaxIndex,
         Instance(h, g, i, back, count)
  PROVE  Effect(h)
<1> DEFINE clone == Clone(root[g])
           hp == clone.heap
           n  == clone.node
           u  == clone.used
           k  == Resolved(i, back, count)
<1>1. /\ SelectorStep /\ root[g] # 0 /\ Assign(h, n) /\ u <= MaxNodes
      /\ heap' = Numbered(hp, n, k) /\ used' = u
  BY DEF Instance
<1>2. MaxNodes \in Nat /\ used \in 0..MaxNodes /\ "instance" \in Fields /\ k \in 0..MaxIndex
  BY SelectorAssumption DEF Counted, Resolved
<1> HIDE DEF hp, n, u, k
<1>3. /\ u \in used..MaxNodes /\ n \in (used + 1)..u /\ Orderly(hp, u)
      /\ \A m \in 1..used : hp[m] = heap[m]
  BY <1>1, CloneFacts DEF hp, n, u
<1>4. n \in 1..u /\ u \in 0..MaxNodes
  BY <1>2, <1>3
<1>5. /\ Orderly(Numbered(hp, n, k), u)
      /\ Target(hp, n) \in n..u
      /\ \A m \in 1..u : m # Target(hp, n) => Numbered(hp, n, k)[m] = hp[m]
  BY <1>2, <1>3, <1>4, NumberedOrderly
<1>6. \A m \in 1..used : heap'[m] = heap[m]
  <2> TAKE m \in 1..used
  <2>1. m \in 1..u /\ m # Target(hp, n)
    BY <1>2, <1>3, <1>5
  <2> QED
    BY <1>1, <1>3, <1>5, <2>1
<1>7. Local(h)
  BY <1>1, <1>3, <1>6, AssignEffect DEF Local
<1> QED
  BY <1>1, <1>3, <1>5, <1>7, StepEffect DEF Effect

(***************************************************************************)
(* ChildByText: the nodes of an answer are all new, and it has one root.   *)
(***************************************************************************)
LEMMA ChildByTextEffect ==
  ASSUME Counted, Orderly(heap, used),
         NEW h \in Handles, NEW a \in Answers, ChildByText(h, a)
  PROVE  Effect(h)
<1> DEFINE S == 1..a.size
<1>1. /\ SelectorStep /\ used + a.size <= MaxNodes /\ Decodes(a) /\ Assign(h, used + 1)
      /\ heap' = Copied(a.node, S) /\ used' = used + a.size
  BY DEF ChildByText
<1>2. MaxNodes \in Nat /\ used \in 0..MaxNodes /\ IsAnswer(a)
  BY SelectorAssumption DEF Counted
<1>3. a.size \in Nat \ {0} /\ Cardinality(S) = a.size
  BY <1>2, FS_Interval DEF IsAnswer, Nodes
<1>4. Unshared(a.node, S)
  BY <1>2 DEF IsAnswer
<1>5. \A n \in S : /\ Formed(a.node[n])
                   /\ \A i \in DOMAIN a.node[n].kids : a.node[n].kids[i] \in S /\ a.node[n].kids[i] > n
  <2> TAKE n \in S
  <2>1. Formed(a.node[n])
    BY <1>1, <1>2 DEF IsAnswer, Decodes, Formed
  <2>2. \A i \in DOMAIN a.node[n].kids : a.node[n].kids[i] \in (n + 1)..a.size
    BY <1>2 DEF IsAnswer
  <2> QED
    BY <1>3, <2>1, <2>2
<1>6. used \in Nat /\ a.size \in Nat /\ S \subseteq 1..a.size /\ used + Cardinality(S) <= MaxNodes
  BY <1>1, <1>2, <1>3
<1> HIDE DEF S
<1>7. /\ Orderly(Copied(a.node, S), used + Cardinality(S))
      /\ \A m \in 1..used : Copied(a.node, S)[m] = heap[m]
  BY <1>2, <1>4, <1>5, <1>6, CopiedOrderly
<1>8. used' \in used..MaxNodes /\ used + 1 \in (used + 1)..used'
  BY <1>1, <1>2, <1>3
<1>9. Local(h)
  BY <1>1, <1>7, <1>8, AssignEffect DEF Local
<1> QED
  BY <1>1, <1>3, <1>7, <1>8, <1>9, StepEffect DEF Effect

\* The operations on h.
Does(h) ==
  \/ \E c \in Inputs : New(h, c) \/ \E rel \in Rels : AddChild(h, rel, c)
  \/ \E c \in Inputs : UpdateAtPath(h, c)
  \/ \E k \in Fields : Delete(h, k)
  \/ \E i \in 0..MaxIndex : UpdateInstance(h, i)
  \/ \E g \in Handles, rel \in Rels, c \in Inputs : Child(h, g, rel, c)
  \/ \E g \in Handles, i, back, count \in 0..MaxIndex : Instance(h, g, i, back, count)
  \/ \E a \in Answers : ChildByText(h, a)

(***************************************************************************)
(* Every step is an operation on one handle.                               *)
(***************************************************************************)
LEMMA ByHandle == SelectorNext => \E h \in Handles : Does(h)
  BY Zenon DEF SelectorNext, Does

(***************************************************************************)
(* And an operation on h has such an effect.                               *)
(***************************************************************************)
LEMMA DoesEffect ==
  ASSUME Counted, Orderly(heap, used), NEW h \in Handles, Does(h)
  PROVE  Effect(h)
<1>1. Inputs \subseteq Content
  BY DEF Inputs
<1>2. ASSUME NEW c \in Inputs, New(h, c) PROVE Effect(h)
  BY <1>1, <1>2, NewEffect
<1>3. ASSUME NEW c \in Inputs, NEW rel \in Rels, AddChild(h, rel, c) PROVE Effect(h)
  BY <1>1, <1>3, AddChildEffect
<1>4. ASSUME NEW c \in Inputs, UpdateAtPath(h, c) PROVE Effect(h)
  BY <1>1, <1>4, UpdateAtPathEffect
<1>5. ASSUME NEW k \in Fields, Delete(h, k) PROVE Effect(h)
  BY <1>5, DeleteEffect
<1>6. ASSUME NEW i \in 0..MaxIndex, UpdateInstance(h, i) PROVE Effect(h)
  BY <1>6, UpdateInstanceEffect
<1>7. ASSUME NEW g \in Handles, NEW rel \in Rels, NEW c \in Inputs, Child(h, g, rel, c)
      PROVE  Effect(h)
  BY <1>1, <1>7, ChildEffect
<1>8. ASSUME NEW g \in Handles, NEW i \in 0..MaxIndex, NEW back \in 0..MaxIndex,
             NEW count \in 0..MaxIndex, Instance(h, g, i, back, count)
      PROVE  Effect(h)
  BY <1>8, InstanceEffect
<1>9. ASSUME NEW a \in Answers, ChildByText(h, a) PROVE Effect(h)
  BY <1>9, ChildByTextEffect
<1> QED
  BY Zenon, <1>2, <1>3, <1>4, <1>5, <1>6, <1>7, <1>8, <1>9 DEF Does

(***************************************************************************)
(* What others reach stays as it is, and what h reaches is what it reached *)
(* before and new nodes.                                                   *)
(***************************************************************************)
LEMMA OthersKeep ==
  ASSUME MaxNodes \in Nat, Counted, Orderly(heap, used), Disjoint,
         NEW h \in Handles, Effect(h), NEW g \in Handles \ {h}, root[g] # 0
  PROVE  /\ ReachIn(heap', used', root[g]) = ReachIn(heap, used, root[g])
         /\ \A n \in ReachIn(heap, used, root[g]) : heap'[n] = heap[n]
<1> DEFINE R == ReachIn(heap, used, root[g])
<1>1. used \in Nat /\ root[g] \in 1..used /\ used' \in Nat /\ used <= used'
  BY DEF Counted, Effect
<1>2. Downward(heap, used) /\ Downward(heap', used')
  BY DEF Orderly, Effect
<1>3. R \subseteq 1..used
  BY <1>1, <1>2, ReachFacts
<1>4. \A n \in R : heap'[n] = heap[n]
  <2>1. root[h] # 0 => R \cap ReachIn(heap, used, root[h]) = {}
    BY DEF Disjoint
  <2> QED
    BY <1>3, <2>1 DEF Effect, Local
<1> HIDE DEF R
<1>5. \A n \in R : heap'[n].kids = heap[n].kids
  BY <1>4
<1>6. ReachIn(heap', used', root[g]) = R
  BY <1>1, <1>2, <1>5, ReachFrame DEF R
<1> QED
  BY <1>4, <1>6 DEF R

\* What h reaches afterwards is new, or h reached it before.
LEMMA OwnReach ==
  ASSUME MaxNodes \in Nat, Counted, Orderly(heap, used), NEW h \in Handles, Effect(h), root'[h] # 0
  PROVE  \A n \in ReachIn(heap', used', root'[h]) :
           n \in (used + 1)..used' \/ (root[h] # 0 /\ n \in ReachIn(heap, used, root[h]))
<1>1. used \in Nat /\ root[h] \in 0..used /\ used' \in Nat /\ used <= used'
  BY DEF Counted, Effect
<1>2. Downward(heap, used) /\ Downward(heap', used')
  BY DEF Orderly, Effect
<1>3. CASE root[h] = 0
  <2>1. root'[h] \in (used + 1)..used'
    BY <1>3 DEF Effect, Local
  <2>2. ReachIn(heap', used', root'[h]) \subseteq root'[h]..used'
    BY <1>1, <1>2, <2>1, ReachFacts
  <2> QED
    BY <1>1, <2>1, <2>2
<1>4. CASE root[h] # 0
  <2> DEFINE R == ReachIn(heap, used, root[h])
             T == R \cup (used + 1)..used'
  <2>1. root'[h] = root[h] /\ root[h] \in 1..used /\ root[h] \in 1..used'
    BY <1>1, <1>4 DEF Effect, Local
  <2>2. root[h] \in R /\ R \subseteq root[h]..used /\ ClosedIn(heap, R)
    BY <1>1, <1>2, <2>1, ReachFacts
  <2> HIDE DEF R
  <2>3. ClosedIn(heap', T)
    <3> SUFFICES ASSUME NEW m \in T, NEW i \in DOMAIN heap'[m].kids PROVE heap'[m].kids[i] \in T
      BY DEF ClosedIn
    <3>1. CASE m \in R
      <4>1. m \in 1..used
        BY <2>1, <2>2, <3>1
      <4>2. \/ heap'[m].kids[i] \in (used + 1)..used'
            \/ \E j \in DOMAIN heap[m].kids : heap'[m].kids[i] = heap[m].kids[j]
        BY <1>4, <4>1 DEF Effect, Local
      <4> QED
        BY <2>2, <3>1, <4>2 DEF ClosedIn
    <3>2. CASE m \in (used + 1)..used'
      BY <1>1, <1>2, <3>2 DEF Downward
    <3> QED
      BY <3>1, <3>2
  <2>4. ReachIn(heap', used', root[h]) \subseteq T
    BY <1>1, <1>2, <2>1, <2>2, <2>3, ReachLeast
  <2> QED
    BY <1>4, <2>1, <2>4 DEF R
<1> QED
  BY <1>3, <1>4

\* An operation with such an effect keeps the invariant.
LEMMA InvariantKept ==
  ASSUME MaxNodes \in Nat, Counted, Orderly(heap, used), Disjoint, NEW h \in Handles, Effect(h)
  PROVE  (Counted /\ Orderly(heap, used) /\ Disjoint)'
<1>1. used \in 0..MaxNodes /\ used' \in used..MaxNodes /\ root \in [Handles -> 0..used]
  BY DEF Counted, Effect
<1>2. root'[h] \in 0..used'
  BY <1>1 DEF Effect, Local
<1>3. root' \in [Handles -> 0..used']
  BY <1>1, <1>2 DEF Effect, Local
<1>4. Counted'
  BY <1>1, <1>3 DEF Counted, Effect
<1>5. \A g \in Handles \ {h} : root'[g] = root[g]
  BY DEF Effect, Local
<1>6. ASSUME NEW g \in Handles \ {h}, root[g] # 0, root'[h] # 0
      PROVE  ReachIn(heap', used', root[g]) \cap ReachIn(heap', used', root'[h]) = {}
  <2>1. ReachIn(heap', used', root[g]) = ReachIn(heap, used, root[g])
    BY <1>6, OthersKeep
  <2>2. ReachIn(heap, used, root[g]) \subseteq 1..used
    <3>1. root[g] \in 1..used /\ used \in Nat
      BY <1>1, <1>6
    <3>2. ReachIn(heap, used, root[g]) \subseteq root[g]..used
      BY <3>1, ReachFacts DEF Orderly
    <3> QED
      BY <3>1, <3>2
  <2>3. root[h] # 0 => ReachIn(heap, used, root[g]) \cap ReachIn(heap, used, root[h]) = {}
    BY <1>6 DEF Disjoint
  <2>4. \A n \in ReachIn(heap', used', root'[h]) :
           n \in (used + 1)..used' \/ (root[h] # 0 /\ n \in ReachIn(heap, used, root[h]))
    BY <1>6, OwnReach
  <2>5. \A n \in (used + 1)..used' : n \notin 1..used
    BY <1>1
  <2> QED
    BY <2>1, <2>2, <2>3, <2>4, <2>5
<1>7. ASSUME NEW g \in Handles \ {h}, NEW f \in Handles \ {h}, g # f, root[g] # 0, root[f] # 0
      PROVE  ReachIn(heap', used', root[g]) \cap ReachIn(heap', used', root[f]) = {}
  BY <1>7, OthersKeep DEF Disjoint
<1>8. Disjoint'
  <2> SUFFICES ASSUME NEW g \in Handles, NEW f \in Handles, g # f, root'[g] # 0, root'[f] # 0
               PROVE  ReachIn(heap', used', root'[g]) \cap ReachIn(heap', used', root'[f]) = {}
    BY DEF Disjoint
  <2>1. CASE g = h
    BY <1>5, <1>6, <2>1
  <2>2. CASE f = h
    BY <1>5, <1>6, <2>2
  <2>3. CASE g # h /\ f # h
    BY <1>5, <1>7, <2>3
  <2> QED
    BY <2>1, <2>2, <2>3
<1>9. Orderly(heap, used)'
  BY DEF Effect
<1> QED
  BY <1>4, <1>8, <1>9

(***************************************************************************)
(* The inductive invariant of Selector holds: no operation of any handle   *)
(* leaves a selector out of order, or shared with another handle.          *)
(***************************************************************************)
THEOREM SelectorInv == SelectorSpec => []SelectorIInv
<1>1. MaxNodes \in Nat
  BY SelectorAssumption
<1>2. SelectorInit => SelectorIInv
  <2> SUFFICES ASSUME SelectorInit PROVE Counted /\ Orderly(heap, used) /\ Disjoint
    BY <1>1, OrderlyParts
  <2>1. Counted /\ Disjoint
    BY SelectorAssumption DEF SelectorInit, Counted, Disjoint
  <2>2. heap = [n \in Nodes |-> Empty] /\ used = 0
    BY DEF SelectorInit
  <2>3. \A n \in Nodes : heap[n].kids = <<>> /\ heap[n] \in Node
    BY <2>2, EmptyFormed DEF Formed, Empty
  <2>4. Unshared(heap, Nodes)
    BY <2>3 DEF Unshared
  <2>5. heap \in [Nodes -> Node]
    BY <2>2, <2>3
  <2>6. 1..used = {}
    BY <2>2
  <2>7. Orderly(heap, used)
    BY <2>2, <2>4, <2>5, <2>6 DEF Orderly, Downward
  <2> QED
    BY <2>1, <2>7
<1>3. SelectorIInv /\ [SelectorNext]_selectorVars => SelectorIInv'
  <2> SUFFICES ASSUME SelectorIInv, [SelectorNext]_selectorVars PROVE SelectorIInv'
    OBVIOUS
  <2>1. Counted /\ Orderly(heap, used) /\ Disjoint
    BY <1>1, OrderlyParts
  <2>2. CASE SelectorNext
    <3>1. PICK h \in Handles : Effect(h)
      BY <2>1, <2>2, ByHandle, DoesEffect
    <3>2. (Counted /\ Orderly(heap, used) /\ Disjoint)'
      BY <1>1, <2>1, <3>1, InvariantKept
    <3> QED
      BY <1>1, <3>2, OrderlyPartsNext
  <2>3. CASE UNCHANGED selectorVars
    <3>1. root' = root /\ heap' = heap /\ used' = used /\ steps' = steps
      BY <2>3 DEF selectorVars
    <3>2. (Counted /\ Orderly(heap, used) /\ Disjoint)'
      BY <2>1, <3>1 DEF Counted, Disjoint
    <3> QED
      BY <1>1, <3>2, OrderlyPartsNext
  <2> QED
    BY <2>2, <2>3
<1> QED
  BY <1>2, <1>3, PTL DEF SelectorSpec

(***************************************************************************)
(* Masks, relations and values always agree with what fieldDefs allows.    *)
(***************************************************************************)
THEOREM SelectorsWellFormed == SelectorSpec => []WellFormed
<1>1. SelectorIInv => WellFormed
  BY DEF SelectorIInv
<1> QED
  BY <1>1, SelectorInv, PTL

(***************************************************************************)
(* No two handles ever reach a common selector, and no selector is a child *)
(* twice.                                                                  *)
(***************************************************************************)
THEOREM SelectorsSeparate == SelectorSpec => []Separate
<1>1. SelectorIInv => Separate
  BY DEF SelectorIInv
<1> QED
  BY <1>1, SelectorInv, PTL

(***************************************************************************)
(* An operation on one handle touches nothing that another one reaches.    *)
(***************************************************************************)
THEOREM SelectorsConfined == SelectorSpec => Confined
<1> DEFINE Keeps(h) == \A g \in Handles \ {h} :
                         /\ root'[g] = root[g]
                         /\ root[g] # 0 =>
                              /\ Reach(root[g])' = Reach(root[g])
                              /\ \A n \in Reach(root[g]) : heap'[n] = heap[n]
<1>1. MaxNodes \in Nat
  BY SelectorAssumption
<1>2. SelectorIInv /\ [SelectorNext]_selectorVars => [\E h \in Handles : Keeps(h)]_selectorVars
  <2> SUFFICES ASSUME SelectorIInv, SelectorNext PROVE \E h \in Handles : Keeps(h)
    OBVIOUS
  <2>1. Counted /\ Orderly(heap, used) /\ Disjoint
    BY <1>1, OrderlyParts
  <2>2. PICK h \in Handles : Effect(h)
    BY <2>1, ByHandle, DoesEffect
  <2>3. ASSUME NEW g \in Handles \ {h} PROVE root'[g] = root[g]
    BY <2>2 DEF Effect, Local
  <2>4. ASSUME NEW g \in Handles \ {h}, root[g] # 0
        PROVE  /\ Reach(root[g])' = Reach(root[g])
               /\ \A n \in Reach(root[g]) : heap'[n] = heap[n]
    <3>1. /\ ReachIn(heap', used', root[g]) = ReachIn(heap, used, root[g])
          /\ \A n \in ReachIn(heap, used, root[g]) : heap'[n] = heap[n]
      BY <1>1, <2>1, <2>2, <2>4, OthersKeep
    <3>2. Reach(root[g]) = ReachIn(heap, used, root[g])
      BY Zenon, ReachIs
    <3>3. Reach(root[g])' = ReachIn(heap', used', root[g]')
      BY Zenon DEF Reach, Closed, ReachIn, ClosedIn
    <3>4. root[g]' = root[g]
      BY <2>3
    <3> QED
      BY <3>1, <3>2, <3>3, <3>4
  <2>5. Keeps(h)
    BY <2>3, <2>4
  <2> QED
    BY <2>5
<1> QED
  BY <1>2, SelectorInv, PTL DEF SelectorSpec, Confined

-----------------------------------------------------------------------------
(* Selector implements SelectorValues.  Map and ReachIn read any heap, as  *)
(* ToMap reads the one of the state; the lemmas say what is read after     *)
(* each operation, from what was read before it.                           *)

\* The map of the nodes S of any heap hp: ToMap for a heap that is not the variable.
Map(hp, S) ==
  [k \in 1..Cardinality(S) |-> EntryOf(hp[CHOOSE m \in S : Rank(S, m) = k], S)]

IsMap(v, hp, S) == /\ v = [k \in 1..Cardinality(S) |-> v[k]]
                   /\ \A m \in S : v[Rank(S, m)] = EntryOf(hp[m], S)

(***************************************************************************)
(* The map of some nodes has an entry for each, at its rank, and there is  *)
(* no other sequence that has.                                             *)
(***************************************************************************)
LEMMA MapFacts ==
  ASSUME NEW hp, NEW S, NEW N \in Nat, S \subseteq 1..N
  PROVE  /\ Map(hp, S) = [k \in 1..Cardinality(S) |-> Map(hp, S)[k]]
         /\ DOMAIN Map(hp, S) = 1..Cardinality(S)
         /\ Len(Map(hp, S)) = Cardinality(S)
         /\ \A m \in S : Map(hp, S)[Rank(S, m)] = EntryOf(hp[m], S)
<1>1. Map(hp, S) = [k \in 1..Cardinality(S) |-> Map(hp, S)[k]] /\ DOMAIN Map(hp, S) = 1..Cardinality(S)
  BY DEF Map
<1>2. Cardinality(S) \in Nat
  BY RankFacts
<1>3. Len(Map(hp, S)) = Cardinality(S)
  BY <1>1, <1>2
<1>4. ASSUME NEW m \in S PROVE Map(hp, S)[Rank(S, m)] = EntryOf(hp[m], S)
  <2>1. Rank(S, m) \in 1..Cardinality(S)
    BY RankFacts
  <2>2. (CHOOSE n \in S : Rank(S, n) = Rank(S, m)) = m
    BY RankFacts
  <2> QED
    BY Zenon, <2>1, <2>2 DEF Map
<1> QED
  BY <1>1, <1>3, <1>4

\* A sequence that is the map entry by entry is the map.
LEMMA MapIs ==
  ASSUME NEW hp, NEW S, NEW N \in Nat, S \subseteq 1..N,
         NEW v, IsMap(v, hp, S)
  PROVE  v = Map(hp, S)
<1>1. ASSUME NEW k \in 1..Cardinality(S) PROVE v[k] = Map(hp, S)[k]
  <2>1. PICK m \in S : Rank(S, m) = k
    BY RankFacts
  <2>2. Map(hp, S)[Rank(S, m)] = EntryOf(hp[m], S)
    BY MapFacts
  <2> QED
    BY <2>1, <2>2 DEF IsMap
<1>2. Map(hp, S) = [k \in 1..Cardinality(S) |-> Map(hp, S)[k]]
  BY MapFacts
<1> QED
  BY <1>1, <1>2 DEF IsMap

(***************************************************************************)
(* The least node of a set is its first.                                   *)
(***************************************************************************)
LEMMA FirstRank ==
  ASSUME NEW S, NEW N \in Nat, S \subseteq 1..N, NEW r \in S, \A n \in S : r <= n
  PROVE  Rank(S, r) = 1 /\ Cardinality(S) \in Nat \ {0}
<1>1. Rank(S, r) \in 1..Cardinality(S) /\ Cardinality(S) \in Nat
  BY RankFacts
<1>2. PICK n \in S : Rank(S, n) = 1
  <2>1. 1 \in 1..Cardinality(S)
    BY <1>1
  <2> QED
    BY <2>1, RankFacts
<1>3. r < n => Rank(S, r) < Rank(S, n)
  BY RankFacts
<1>4. r = n \/ r < n
  OBVIOUS
<1> QED
  BY <1>1, <1>2, <1>3, <1>4

(***************************************************************************)
(* What counts in a selector in order is what its fields are.              *)
(***************************************************************************)
LEMMA EntryFacts ==
  ASSUME NEW node, NEW S
  PROVE  /\ EntryOf(node, S).fields = Read(node)
         /\ EntryOf(node, S).rels = node.rels
         /\ EntryOf(node, S).kids = [i \in DOMAIN node.kids |-> Rank(S, node.kids[i])]
         /\ Formed(node) => Read(node) = node.fields /\ node.fields \in ValidContents
<1>1. /\ EntryOf(node, S).fields = Read(node)
      /\ EntryOf(node, S).rels = node.rels
      /\ EntryOf(node, S).kids = [i \in DOMAIN node.kids |-> Rank(S, node.kids[i])]
  BY DEF EntryOf
<1>2. ASSUME Formed(node) PROVE Read(node) = node.fields /\ node.fields \in ValidContents
  <2>1. node.fields \in Content /\ node.mask = Present(node.fields) /\ Valid(node.fields)
    BY <1>2 DEF Formed, Node
  <2>2. node.fields = [k \in Fields |-> node.fields[k]]
    BY <2>1, ContentFacts
  <2>3. \A k \in Fields : node.fields[k] = IF k \in node.mask THEN node.fields[k] ELSE NoValue
    BY <2>1 DEF Present
  <2> QED
    BY <2>1, <2>2, <2>3 DEF Read, ValidContents
<1> QED
  BY <1>1, <1>2

(***************************************************************************)
(* A copy is read as what it is a copy of: its nodes are the new ones, in  *)
(* the order of the nodes they stand for.                                  *)
(***************************************************************************)
LEMMA CopiedMap ==
  ASSUME NEW sp, NEW S, NEW N \in Nat, S \subseteq 1..N, used \in Nat, MaxNodes \in Nat,
         used + Cardinality(S) <= MaxNodes, Orderly(heap, used), Unshared(sp, S),
         \A n \in S : /\ Formed(sp[n])
                      /\ \A i \in DOMAIN sp[n].kids : sp[n].kids[i] \in S /\ sp[n].kids[i] > n,
         NEW r \in S, \A n \in S : r <= n,
         \A T \in SUBSET S : r \in T /\ ClosedIn(sp, T) => T = S
  PROVE  /\ Renamed(S)[r] = used + 1
         /\ ReachIn(Copied(sp, S), used + Cardinality(S), used + 1)
              = (used + 1)..(used + Cardinality(S))
         /\ Map(Copied(sp, S), (used + 1)..(used + Cardinality(S))) = Map(sp, S)
<1> DEFINE new == Renamed(S)
           hq  == Copied(sp, S)
           u   == used + Cardinality(S)
           C   == (used + 1)..u
           R   == ReachIn(hq, u, used + 1)
<1>1. /\ Cardinality(S) \in Nat
      /\ \A n \in S : Rank(S, n) \in 1..Cardinality(S)
      /\ \A k \in 1..Cardinality(S) : \E n \in S : Rank(S, n) = k
  BY RankFacts
<1>2. \A n \in S : new[n] = used + Rank(S, n)
  BY DEF Renamed
<1>3. Rank(S, r) = 1 /\ Cardinality(S) \in Nat \ {0}
  BY FirstRank
<1>4. /\ \A n \in S :
           /\ hq[new[n]].fields = sp[n].fields /\ hq[new[n]].mask = sp[n].mask
           /\ hq[new[n]].rels = sp[n].rels
           /\ hq[new[n]].kids = [i \in DOMAIN sp[n].kids |-> new[sp[n].kids[i]]]
  <2>1. \A n \in S : sp[n] \in Node /\ \A i \in DOMAIN sp[n].kids : sp[n].kids[i] \in S
    BY DEF Formed
  <2> QED
    BY <2>1, CopiedAt
<1>5. Downward(hq, u)
  BY CopiedOrderly DEF Orderly
<1> HIDE DEF new, hq
<1>6. u \in Nat /\ used + 1 \in 1..u /\ C \subseteq 1..u
  BY <1>3
<1>7. used + 1 \in R /\ R \subseteq C /\ ClosedIn(hq, R)
  <2> HIDE DEF u
  <2> QED
    BY <1>5, <1>6, ReachFacts
<1>8. \A c \in C : \E n \in S : c = new[n]
  <2> TAKE c \in C
  <2>1. c - used \in 1..Cardinality(S)
    BY <1>1
  <2>2. PICK n \in S : Rank(S, n) = c - used
    BY <1>1, <2>1
  <2>3. c = new[n]
    BY <1>2, <2>2
  <2> QED
    BY <2>3
<1> HIDE DEF R
<1>9. R = C
  <2> DEFINE T == {n \in S : new[n] \in R}
  <2>1. r \in T
    BY <1>2, <1>3, <1>7
  <2>2. ClosedIn(sp, T)
    <3> SUFFICES ASSUME NEW n \in T, NEW i \in DOMAIN sp[n].kids PROVE sp[n].kids[i] \in T
      BY DEF ClosedIn
    <3>1. sp[n].kids[i] \in S
      OBVIOUS
    <3>2. i \in DOMAIN hq[new[n]].kids /\ hq[new[n]].kids[i] = new[sp[n].kids[i]]
      BY <1>4
    <3>3. hq[new[n]].kids[i] \in R
      BY <1>7, <3>2 DEF ClosedIn
    <3> QED
      BY <3>1, <3>2, <3>3
  <2>3. T = S
    BY <2>1, <2>2
  <2>4. \A n \in S : new[n] \in R
    BY <2>3
  <2>5. C \subseteq R
    BY <1>8, <2>4
  <2> QED
    BY <1>7, <2>5
<1>10. ASSUME NEW n \in S PROVE Rank(C, new[n]) = Rank(S, n)
  <2> DEFINE k == Rank(S, n)
  <2>1. k \in 1..Cardinality(S) /\ new[n] = used + k
    BY <1>1, <1>2
  <2> HIDE DEF k
  <2>2. {m \in C : m <= used + k} = (used + 1)..(used + k)
    BY <1>1, <2>1
  <2>3. Cardinality((used + 1)..(used + k)) = k
    <3>1. used + 1 \in Int /\ used + k \in Int /\ k \in Nat \ {0}
      BY <1>1, <2>1
    <3>2. Cardinality((used + 1)..(used + k))
            = IF used + 1 > used + k THEN 0 ELSE (used + k) - (used + 1) + 1
      BY <3>1, FS_Interval
    <3> QED
      BY <3>1, <3>2
  <2>4. Rank(C, new[n]) = Cardinality({m \in C : m <= used + k})
    BY Zenon, <2>1 DEF Rank
  <2> QED
    BY <2>2, <2>3, <2>4 DEF k
<1>11. Cardinality(C) = Cardinality(S)
  <2>1. used + 1 \in Int /\ u \in Int
    BY <1>6
  <2>2. Cardinality(C) = IF used + 1 > u THEN 0 ELSE u - (used + 1) + 1
    BY <2>1, FS_Interval
  <2> QED
    BY <1>3, <2>2
<1>12. ASSUME NEW c \in C PROVE Map(sp, S)[Rank(C, c)] = EntryOf(hq[c], C)
  <2>1. PICK n \in S : c = new[n]
    BY <1>8
  <2>2. Map(sp, S)[Rank(C, c)] = EntryOf(sp[n], S)
    BY <1>10, <2>1, MapFacts
  <2>3. Read(hq[c]) = Read(sp[n])
    BY <1>4, <2>1 DEF Read
  <2>4. [i \in DOMAIN hq[c].kids |-> Rank(C, hq[c].kids[i])]
          = [i \in DOMAIN sp[n].kids |-> Rank(S, sp[n].kids[i])]
    <3>1. hq[c].kids = [i \in DOMAIN sp[n].kids |-> new[sp[n].kids[i]]]
      BY <1>4, <2>1
    <3>2. \A i \in DOMAIN sp[n].kids : Rank(C, new[sp[n].kids[i]]) = Rank(S, sp[n].kids[i])
      BY <1>10
    <3> QED
      BY <3>1, <3>2
  <2>5. hq[c].rels = sp[n].rels
    BY <1>4, <2>1
  <2> QED
    BY Zenon, <2>2, <2>3, <2>4, <2>5 DEF EntryOf
<1>13. Map(sp, S) = [k \in 1..Cardinality(C) |-> Map(sp, S)[k]]
  BY <1>11, MapFacts
<1> HIDE DEF C
<1>14. Map(sp, S) = Map(hq, C)
  <2>1. IsMap(Map(sp, S), hq, C)
    BY <1>12, <1>13 DEF IsMap
  <2> QED
    BY <1>6, <2>1, MapIs
<1>15. new[r] = used + 1
  BY <1>2, <1>3
<1> QED
  BY <1>9, <1>14, <1>15 DEF new, hq, u, C, R

(***************************************************************************)
(* A new child or sibling is the last entry, and the first knows it.       *)
(***************************************************************************)
LEMMA ExtendedReach ==
  ASSUME NEW hp, NEW u \in 0..MaxNodes, MaxNodes \in Nat, Orderly(hp, u), u < MaxNodes,
         NEW n \in 1..u, NEW rel \in Rels, NEW c \in Content, Valid(c)
  PROVE  ReachIn(Extended(hp, n, u + 1, rel, c), u + 1, n) = ReachIn(hp, u, n) \cup {u + 1}
<1> DEFINE hq == Extended(hp, n, u + 1, rel, c)
           S  == ReachIn(hp, u, n)
           T  == ReachIn(hq, u + 1, n)
<1>1. u + 1 \in Nat /\ n \in 1..(u + 1) /\ n \in Nodes /\ 1..u \subseteq Nodes
  BY DEF Nodes
<1>2. /\ hq[u + 1] = NewNode(c)
      /\ \A m \in Nodes \ {n, u + 1} : hq[m] = hp[m]
      /\ hq[n] \in Node
      /\ hq[n].fields = hp[n].fields /\ hq[n].mask = hp[n].mask
      /\ hq[n].rels = Append(hp[n].rels, rel)
      /\ hq[n].kids = Append(hp[n].kids, u + 1)
      /\ DOMAIN hq = Nodes
  BY ExtendedAt
<1>3. NewNode(c).kids = <<>>
  BY NewNodeFormed
<1>4. Orderly(hq, u + 1)
  BY ExtendedOrderly
<1>5. hp[n].kids \in Seq(Nodes)
  BY <1>1 DEF Orderly, Node
<1> HIDE DEF hq
<1>6. /\ DOMAIN hq[n].kids = 1..(Len(hp[n].kids) + 1) /\ DOMAIN hp[n].kids = 1..Len(hp[n].kids)
      /\ Len(hp[n].kids) \in Nat
      /\ hq[n].kids[Len(hp[n].kids) + 1] = u + 1
      /\ \A i \in 1..Len(hp[n].kids) : hq[n].kids[i] = hp[n].kids[i]
  BY <1>2, <1>5
<1>7. n \in S /\ S \subseteq n..u /\ ClosedIn(hp, S)
  BY ReachFacts DEF Orderly
<1>8. n \in T /\ T \subseteq n..(u + 1) /\ ClosedIn(hq, T)
  BY <1>1, <1>4, ReachFacts DEF Orderly
<1> HIDE DEF S, T
<1>9. T \subseteq S \cup {u + 1}
  <2>1. ClosedIn(hq, S \cup {u + 1})
    <3> SUFFICES ASSUME NEW m \in S \cup {u + 1}, NEW i \in DOMAIN hq[m].kids
                 PROVE  hq[m].kids[i] \in S \cup {u + 1}
      BY DEF ClosedIn
    <3>1. m # u + 1
      BY <1>2, <1>3
    <3>2. CASE m = n
      <4>1. i = Len(hp[n].kids) + 1 \/ i \in 1..Len(hp[n].kids)
        BY <1>6, <3>2
      <4> QED
        BY <1>6, <1>7, <3>2, <4>1 DEF ClosedIn
    <3>3. CASE m # n
      <4>1. m \in S /\ m \in Nodes \ {n, u + 1}
        BY <1>1, <1>7, <3>1, <3>3
      <4>2. hq[m] = hp[m]
        BY <1>2, <4>1
      <4> QED
        BY <1>7, <4>1, <4>2 DEF ClosedIn
    <3> QED
      BY <3>2, <3>3
  <2>2. n \in S \cup {u + 1} /\ Downward(hq, u + 1)
    BY <1>4, <1>7 DEF Orderly
  <2> QED
    BY <1>1, <2>1, <2>2, ReachLeast DEF T
<1>10. S \subseteq T
  <2>1. ClosedIn(hp, S \cap T)
    <3> SUFFICES ASSUME NEW m \in S \cap T, NEW i \in DOMAIN hp[m].kids
                 PROVE  hp[m].kids[i] \in S \cap T
      BY DEF ClosedIn
    <3>1. hp[m].kids[i] \in S
      BY <1>7 DEF ClosedIn
    <3>2. i \in DOMAIN hq[m].kids /\ hq[m].kids[i] = hp[m].kids[i]
      <4>1. CASE m = n
        <5>1. i \in 1..Len(hp[n].kids) /\ i \in 1..(Len(hp[n].kids) + 1)
          BY <1>6, <4>1
        <5> QED
          BY <1>6, <4>1, <5>1
      <4>2. CASE m # n
        <5>1. m \in Nodes \ {n, u + 1}
          BY <1>1, <1>7, <4>2
        <5> QED
          BY <1>2, <5>1
      <4> QED
        BY <4>1, <4>2
    <3> QED
      BY <1>8, <3>1, <3>2 DEF ClosedIn
  <2>2. n \in S \cap T /\ Downward(hp, u)
    BY <1>7, <1>8 DEF Orderly
  <2>3. S \subseteq S \cap T
    BY <2>1, <2>2, ReachLeast DEF S
  <2> QED
    BY <2>3
<1>11. u + 1 \in T
  <2>1. Len(hp[n].kids) + 1 \in DOMAIN hq[n].kids
    BY <1>6
  <2> QED
    BY <1>6, <1>8, <2>1 DEF ClosedIn
<1>12. T = S \cup {u + 1}
  BY <1>9, <1>10, <1>11
<1> QED
  BY <1>12 DEF hq, S, T

(***************************************************************************)
(* A node above all others is the last, and changes no other's rank.       *)
(***************************************************************************)
LEMMA LastRank ==
  ASSUME NEW u \in Nat, NEW S, S \subseteq 1..u
  PROVE  /\ Cardinality(S \cup {u + 1}) = Cardinality(S) + 1
         /\ Rank(S \cup {u + 1}, u + 1) = Cardinality(S) + 1
         /\ \A m \in S : Rank(S \cup {u + 1}, m) = Rank(S, m)
<1>1. u + 1 \notin S /\ (\A m \in S : m \in Nat /\ m <= u) /\ IsFiniteSet(S)
  <2>1. u + 1 \notin 1..u /\ \A m \in 1..u : m \in Nat /\ m <= u
    OBVIOUS
  <2>2. IsFiniteSet(S)
    BY RankFacts
  <2> QED
    BY <2>1, <2>2
<1>2. Cardinality(S \cup {u + 1}) = Cardinality(S) + 1
  BY <1>1, FS_AddElement
<1>3. Rank(S \cup {u + 1}, u + 1) = Cardinality(S) + 1
  <2>1. {m \in S \cup {u + 1} : m <= u + 1} = S \cup {u + 1}
    <3>1. \A m \in S \cup {u + 1} : m <= u + 1
      BY <1>1
    <3> QED
      BY <3>1
  <2> QED
    BY Zenon, <1>2, <2>1 DEF Rank
<1>4. ASSUME NEW m \in S PROVE Rank(S \cup {u + 1}, m) = Rank(S, m)
  <2>1. {k \in S \cup {u + 1} : k <= m} = {k \in S : k <= m}
    <3>1. ~(u + 1 <= m)
      BY <1>1
    <3> QED
      BY <3>1
  <2> QED
    BY Zenon, <2>1 DEF Rank
<1> QED
  BY <1>2, <1>3, <1>4

\* A sequence of entries.
Listed(v) == /\ Len(v) \in Nat \ {0} /\ v = [k \in 1..Len(v) |-> v[k]]
             /\ v[1] = [fields |-> v[1].fields, rels |-> v[1].rels, kids |-> v[1].kids]

\* w is v with one more entry, a child or sibling of the first one.
Grown(w, v, rel, c) ==
  /\ DOMAIN w = 1..(Len(v) + 1) /\ w = [k \in 1..(Len(v) + 1) |-> w[k]]
  /\ w[Len(v) + 1] = [fields |-> c, rels |-> <<>>, kids |-> <<>>]
  /\ w[1] = [fields |-> v[1].fields, rels |-> Append(v[1].rels, rel),
             kids |-> Append(v[1].kids, Len(v) + 1)]
  /\ \A k \in 2..Len(v) : w[k] = v[k]

(***************************************************************************)
(* What With does to a sequence of entries.                                *)
(***************************************************************************)
LEMMA WithFacts ==
  ASSUME NEW v, NEW rel, NEW c, Listed(v)
  PROVE  Grown(Abstract!With(v, rel, c), v, rel, c)
<1> DEFINE w == Abstract!With(v, rel, c)
           l == Len(v)
           A == Append(v[1].rels, rel)
           B == Append(v[1].kids, l + 1)
           x == [v EXCEPT ![1].rels = Append(@, rel), ![1].kids = Append(@, l + 1)]
           y == [v[1] EXCEPT !.rels = A]
           e == [fields |-> c, rels |-> <<>>, kids |-> <<>>]
<1>1. /\ l \in Nat \ {0} /\ DOMAIN v = 1..l /\ 1 \in 1..l
      /\ v[1] = [fields |-> v[1].fields, rels |-> v[1].rels, kids |-> v[1].kids]
  BY DEF Listed
<1>2. x[1] = [v[1] EXCEPT !.rels = A, !.kids = B]
  BY <1>1
<1>3. DOMAIN x = 1..l /\ \A k \in 2..l : x[k] = v[k]
  BY <1>1
<1>4. x = [k \in 1..l |-> x[k]]
  BY <1>1
<1>5. w = Append(x, e)
  BY Zenon DEF Abstract!With, Abstract!Leaf
<1> HIDE DEF x, e, w, l
<1>6. x[1] = [fields |-> v[1].fields, rels |-> A, kids |-> B]
  <2> HIDE DEF A, B
  <2>1. x[1] = [y EXCEPT !.kids = B]
    BY <1>2
  <2>2. y = [fields |-> v[1].fields, rels |-> A, kids |-> v[1].kids]
    BY <1>1
  <2> HIDE DEF y
  <2> QED
    BY <2>1, <2>2
<1> HIDE DEF A, B
<1>7. Len(x) = l
  BY <1>1, <1>3, <1>4
<1> DEFINE E == {x[k] : k \in 1..l} \cup {e}
<1>8. x \in Seq(E)
  BY <1>1, <1>4
<1>9. e \in E
  OBVIOUS
<1> HIDE DEF E
<1>10. /\ w \in Seq(E) /\ Len(w) = l + 1
       /\ w[l + 1] = e /\ \A k \in 1..l : w[k] = x[k]
  BY <1>5, <1>7, <1>8, <1>9, AppendProperties
<1>11. DOMAIN w = 1..(l + 1) /\ w = [k \in 1..(l + 1) |-> w[k]]
  BY <1>10
<1>12. w[1] = [fields |-> v[1].fields, rels |-> A, kids |-> B]
  BY <1>1, <1>6, <1>10
<1>13. \A k \in 2..l : w[k] = v[k]
  BY <1>3, <1>10
<1>14. w[l + 1] = [fields |-> c, rels |-> <<>>, kids |-> <<>>]
  BY <1>10 DEF e
<1> QED
  BY <1>11, <1>12, <1>13, <1>14 DEF w, l, A, B, Grown

(***************************************************************************)
(* A node that was just allocated is a leaf.                               *)
(***************************************************************************)
LEMMA NewEntry ==
  ASSUME NEW c \in Content, Valid(c), NEW S
  PROVE  EntryOf(NewNode(c), S) = Abstract!Leaf(c)
<1>1. Formed(NewNode(c)) /\ NewNode(c).kids = <<>>
  BY NewNodeFormed
<1>2. NewNode(c).rels = <<>> /\ NewNode(c).fields = c
  <2>1. c = [k \in Fields |-> c[k]]
    BY ContentFacts
  <2> QED
    BY <2>1 DEF NewNode, SetIn, Empty, Present
<1>3. Read(NewNode(c)) = c
  BY <1>1, <1>2, EntryFacts
<1>4. [i \in DOMAIN NewNode(c).kids |-> Rank(S, NewNode(c).kids[i])] = <<>>
  BY <1>1
<1> QED
  BY Zenon, <1>2, <1>3, <1>4 DEF EntryOf, Abstract!Leaf

\* Child and Sibling of a selector add an entry to its map, as With does.
LEMMA ExtendedMap ==
  ASSUME NEW hp, NEW u \in 0..MaxNodes, MaxNodes \in Nat, Orderly(hp, u), u < MaxNodes,
         NEW n \in 1..u, NEW rel \in Rels, NEW c \in Content, Valid(c)
  PROVE  Map(Extended(hp, n, u + 1, rel, c), ReachIn(hp, u, n) \cup {u + 1})
           = Abstract!With(Map(hp, ReachIn(hp, u, n)), rel, c)
<1> DEFINE hq == Extended(hp, n, u + 1, rel, c)
           S  == ReachIn(hp, u, n)
           T  == S \cup {u + 1}
           v  == Map(hp, S)
           w  == Abstract!With(v, rel, c)
           l  == Cardinality(S)
           d  == [i \in DOMAIN hp[n].kids |-> Rank(S, hp[n].kids[i])]
<1>1. n \in S /\ S \subseteq n..u /\ S \subseteq 1..u /\ ClosedIn(hp, S)
  BY ReachFacts DEF Orderly
<1>2. n \in Nodes /\ 1..u \subseteq Nodes /\ u \in Nat
  BY DEF Nodes
<1>3. /\ hq[u + 1] = NewNode(c)
      /\ \A m \in Nodes \ {n, u + 1} : hq[m] = hp[m]
      /\ hq[n] \in Node
      /\ hq[n].fields = hp[n].fields /\ hq[n].mask = hp[n].mask
      /\ hq[n].rels = Append(hp[n].rels, rel)
      /\ hq[n].kids = Append(hp[n].kids, u + 1)
      /\ DOMAIN hq = Nodes
  BY ExtendedAt
<1>4. hp[n].kids \in Seq(Nodes)
  BY <1>2 DEF Orderly, Node
<1> HIDE DEF hq, S
<1>5. Rank(S, n) = 1 /\ l \in Nat \ {0}
  <2>1. \A m \in S : n <= m
    BY <1>1
  <2> QED
    BY <1>1, <1>2, <2>1, FirstRank
<1>6. /\ \A m \in S : Rank(S, m) \in 1..l
      /\ \A m \in S : m # n => Rank(S, m) # 1
  <2>1. /\ \A m \in S : Rank(S, m) \in 1..l
        /\ \A m, k \in S : Rank(S, m) = Rank(S, k) => m = k
    BY <1>1, <1>2, RankFacts
  <2> QED
    BY <1>1, <1>5, <2>1
<1>7. Cardinality(T) = l + 1 /\ Rank(T, u + 1) = l + 1 /\ \A m \in S : Rank(T, m) = Rank(S, m)
  BY <1>1, <1>2, LastRank
<1>8. /\ v = [k \in 1..l |-> v[k]]
      /\ \A m \in S : v[Rank(S, m)] = EntryOf(hp[m], S)
  BY <1>1, <1>2, MapFacts
<1>9. v[1] = [fields |-> Read(hp[n]), rels |-> hp[n].rels, kids |-> d]
  BY <1>1, <1>5, <1>8 DEF EntryOf
<1> HIDE DEF v, l, d
<1>10. /\ w = [k \in 1..(l + 1) |-> w[k]]
       /\ w[l + 1] = [fields |-> c, rels |-> <<>>, kids |-> <<>>]
       /\ w[1] = [fields |-> Read(hp[n]), rels |-> Append(hp[n].rels, rel), kids |-> Append(d, l + 1)]
       /\ \A k \in 2..l : w[k] = v[k]
  <2>1. Len(v) = l
    BY <1>5, <1>8
  <2>2. /\ v[1].fields = Read(hp[n]) /\ v[1].rels = hp[n].rels /\ v[1].kids = d
        /\ v[1] = [fields |-> v[1].fields, rels |-> v[1].rels, kids |-> v[1].kids]
    BY <1>9
  <2>4. Listed(v)
    BY <1>5, <1>8, <2>1, <2>2 DEF Listed
  <2>3. /\ w = [k \in 1..(Len(v) + 1) |-> w[k]]
        /\ w[Len(v) + 1] = [fields |-> c, rels |-> <<>>, kids |-> <<>>]
        /\ w[1] = [fields |-> v[1].fields, rels |-> Append(v[1].rels, rel),
                   kids |-> Append(v[1].kids, Len(v) + 1)]
        /\ \A k \in 2..Len(v) : w[k] = v[k]
    <3>1. Grown(w, v, rel, c)
      BY <2>4, WithFacts
    <3> HIDE DEF w
    <3> QED
      BY Zenon, <3>1 DEF Grown
  <2> HIDE DEF w
  <2> QED
    BY <2>1, <2>2, <2>3
<1> HIDE DEF w, T
<1>11. EntryOf(hq[u + 1], T) = w[l + 1]
  BY Zenon, <1>3, <1>10, NewEntry DEF Abstract!Leaf
<1>12. EntryOf(hq[n], T) = w[1]
  <2>1. Read(hq[n]) = Read(hp[n])
    BY <1>3 DEF Read
  <2>2. [i \in DOMAIN hq[n].kids |-> Rank(T, hq[n].kids[i])] = Append(d, l + 1)
    <3> DEFINE a == Len(hp[n].kids)
    <3>1. a \in Nat /\ DOMAIN hp[n].kids = 1..a
      BY <1>4
    <3>2. /\ DOMAIN hq[n].kids = 1..(a + 1) /\ hq[n].kids[a + 1] = u + 1
          /\ \A i \in 1..a : hq[n].kids[i] = hp[n].kids[i]
      BY <1>3, <1>4
    <3>3. \A i \in 1..a : hp[n].kids[i] \in S
      BY <1>1, <3>1 DEF ClosedIn
    <3> HIDE DEF a
    <3>4. d = [i \in 1..a |-> Rank(S, hp[n].kids[i])]
      BY <3>1 DEF d
    <3>5. d \in Seq(1..l) /\ Len(d) = a
      BY <1>6, <3>1, <3>3, <3>4
    <3>6. Append(d, l + 1) = [i \in 1..(a + 1) |-> IF i = a + 1 THEN l + 1 ELSE d[i]]
      BY <3>5
    <3>7. ASSUME NEW i \in 1..(a + 1)
          PROVE  Rank(T, hq[n].kids[i]) = IF i = a + 1 THEN l + 1 ELSE d[i]
      <4>1. CASE i = a + 1
        BY <1>7, <3>2, <4>1
      <4>2. CASE i # a + 1
        <5>1. i \in 1..a
          BY <3>1, <4>2
        <5> QED
          BY <1>7, <3>2, <3>3, <3>4, <4>2, <5>1
      <4> QED
        BY <4>1, <4>2
    <3> QED
      BY <3>2, <3>6, <3>7
  <2> QED
    BY Zenon, <1>3, <1>10, <2>1, <2>2 DEF EntryOf
<1>13. ASSUME NEW m \in S, m # n PROVE EntryOf(hq[m], T) = w[Rank(S, m)]
  <2>1. m \in Nodes \ {n, u + 1}
    BY <1>1, <1>2, <1>13
  <2>2. hq[m] = hp[m]
    BY <1>3, <2>1
  <2>3. Rank(S, m) \in 2..l
    BY <1>5, <1>6, <1>13
  <2>4. [i \in DOMAIN hp[m].kids |-> Rank(T, hp[m].kids[i])]
          = [i \in DOMAIN hp[m].kids |-> Rank(S, hp[m].kids[i])]
    BY <1>1, <1>7 DEF ClosedIn
  <2>5. EntryOf(hp[m], T) = EntryOf(hp[m], S)
    BY Zenon, <2>4 DEF EntryOf
  <2> QED
    BY <1>8, <1>10, <2>2, <2>3, <2>5
<1>14. ASSUME NEW m \in T PROVE w[Rank(T, m)] = EntryOf(hq[m], T)
  <2>1. m = u + 1 \/ m \in S
    BY DEF T
  <2> QED
    BY <1>1, <1>5, <1>7, <1>11, <1>12, <1>13, <2>1
<1>15. u + 1 \in Nat /\ T \subseteq 1..(u + 1)
  BY <1>1, <1>2 DEF T
<1>16. w = Map(hq, T)
  <2>1. w = [k \in 1..Cardinality(T) |-> w[k]]
    BY <1>7, <1>10
  <2>2. IsMap(w, hq, T)
    BY <1>14, <2>1 DEF IsMap
  <2> QED
    BY <1>15, <2>2, MapIs
<1> QED
  BY <1>16 DEF hq, S, T, v, w

(***************************************************************************)
(* Other fields of one node are other fields of its entry.                 *)
(***************************************************************************)
LEMMA RefilledMap ==
  ASSUME NEW hp, NEW hq, NEW S, NEW N \in Nat, S \subseteq 1..N, NEW m \in S,
         \A n \in S \ {m} : hq[n] = hp[n], hq[m].rels = hp[m].rels, hq[m].kids = hp[m].kids
  PROVE  /\ Map(hq, S) = [Map(hp, S) EXCEPT ![Rank(S, m)].fields = Read(hq[m])]
         /\ Rank(S, m) \in DOMAIN Map(hp, S)
<1> DEFINE k == Rank(S, m)
           v == Map(hp, S)
           f == Read(hq[m])
           w == [v EXCEPT ![k].fields = f]
           d == [i \in DOMAIN hp[m].kids |-> Rank(S, hp[m].kids[i])]
<1>1. /\ DOMAIN v = 1..Cardinality(S)
      /\ \A n \in S : v[Rank(S, n)] = EntryOf(hp[n], S)
  BY MapFacts
<1>2. /\ k \in 1..Cardinality(S)
      /\ \A n \in S : Rank(S, n) \in 1..Cardinality(S)
      /\ \A n \in S : n # m => Rank(S, n) # k
  BY RankFacts
<1>3. v[k] = [fields |-> Read(hp[m]), rels |-> hp[m].rels, kids |-> d]
  BY <1>1 DEF EntryOf
<1>4. EntryOf(hq[m], S) = [fields |-> f, rels |-> hp[m].rels, kids |-> d]
  BY DEF EntryOf
<1> HIDE DEF k, v, f, d
<1>5. w = [j \in 1..Cardinality(S) |-> w[j]] /\ w[k] = [v[k] EXCEPT !.fields = f]
      /\ \A j \in 1..Cardinality(S) : j # k => w[j] = v[j]
  BY <1>1, <1>2
<1> HIDE DEF w
<1>6. w[k] = EntryOf(hq[m], S)
  BY <1>3, <1>4, <1>5
<1>7. ASSUME NEW n \in S PROVE w[Rank(S, n)] = EntryOf(hq[n], S)
  <2>1. CASE n = m
    BY <1>6, <2>1 DEF k
  <2>2. CASE n # m
    BY <1>1, <1>2, <1>5, <2>2
  <2> QED
    BY <2>1, <2>2
<1>8. w = Map(hq, S)
  <2>1. w = [j \in 1..Cardinality(S) |-> w[j]]
    BY <1>5
  <2>2. IsMap(w, hq, S)
    BY <1>7, <2>1 DEF IsMap
  <2> QED
    BY <2>2, MapIs
<1>9. k \in DOMAIN v
  BY <1>1, <1>2
<1> QED
  BY <1>8, <1>9 DEF w, v, k, f

(***************************************************************************)
(* The instance is set in the entry of the last child, or in the first.    *)
(***************************************************************************)
LEMMA NumberedMap ==
  ASSUME NEW hp, NEW u \in 0..MaxNodes, MaxNodes \in Nat, Orderly(hp, u),
         NEW n \in 1..u, NEW i \in 0..MaxIndex, "instance" \in Fields
  PROVE  Map(Numbered(hp, n, i), ReachIn(hp, u, n))
           = Abstract!WithInstance(Map(hp, ReachIn(hp, u, n)), <<"int", i>>)
<1> DEFINE S  == ReachIn(hp, u, n)
           hq == Numbered(hp, n, i)
           t  == Target(hp, n)
           v  == Map(hp, S)
           c  == <<"int", i>>
           d  == [j \in DOMAIN hp[n].kids |-> Rank(S, hp[n].kids[j])]
<1>1. n \in S /\ S \subseteq n..u /\ S \subseteq 1..u /\ ClosedIn(hp, S) /\ u \in Nat
  BY ReachFacts DEF Orderly
<1>2. n \in Nodes /\ 1..u \subseteq Nodes /\ hp \in [Nodes -> Node]
  BY DEF Nodes, Orderly
<1>3. hp[n].kids \in Seq(Nodes)
  BY <1>2 DEF Node
<1>4. t \in S /\ Orderly(hq, u)
  BY NumberedOrderly
<1>5. t \in 1..u /\ t \in Nodes
  BY <1>1, <1>2, <1>4
<1>6. Formed(hp[t]) /\ Formed(hq[t])
  BY <1>4, <1>5 DEF Orderly
<1>7. hq = [hp EXCEPT ![t] = SetIn(hp[t], [k \in Fields |-> c], {"instance"})]
  BY Zenon DEF Numbered
<1>8. \A k \in S \ {t} : hq[k] = hp[k]
  BY <1>1, <1>2, <1>7
<1>9. hq[t] = SetIn(hp[t], [k \in Fields |-> c], {"instance"})
  BY <1>2, <1>5, <1>7
<1> HIDE DEF hq, t, S
<1>10. /\ hq[t].rels = hp[t].rels /\ hq[t].kids = hp[t].kids
       /\ hq[t].fields = [k \in Fields |-> IF k = "instance" THEN c ELSE hp[t].fields[k]]
  <2>1. hp[t] \in Node
    BY <1>6 DEF Formed
  <2>2. hq[t] = [hp[t] EXCEPT !.fields = [k \in Fields |-> IF k \in {"instance"} THEN c ELSE hp[t].fields[k]],
                              !.mask = hp[t].mask \cup {"instance"}]
    BY <1>9 DEF SetIn
  <2> DEFINE f == [k \in Fields |-> IF k \in {"instance"} THEN c ELSE hp[t].fields[k]]
  <2>3. f = [k \in Fields |-> IF k = "instance" THEN c ELSE hp[t].fields[k]]
    OBVIOUS
  <2> HIDE DEF f
  <2>4. hq[t].rels = hp[t].rels /\ hq[t].kids = hp[t].kids /\ hq[t].fields = f
    BY <2>1, <2>2 DEF Node, f
  <2> QED
    BY <2>3, <2>4
<1>11. hq[t].fields = [hp[t].fields EXCEPT !["instance"] = c]
  <2>1. hp[t].fields = [k \in Fields |-> hp[t].fields[k]]
    BY <1>6, ContentFacts DEF Formed, Node
  <2> QED
    BY <1>10, <2>1
<1>12. Read(hq[t]) = hq[t].fields /\ Read(hp[t]) = hp[t].fields
  BY <1>6, EntryFacts
<1>13. Map(hq, S) = [v EXCEPT ![Rank(S, t)].fields = Read(hq[t])]
  BY <1>1, <1>4, <1>8, <1>10, RefilledMap
<1>14. /\ v[Rank(S, t)].fields = hp[t].fields
       /\ v[Rank(S, n)].kids = d
  <2>1. v[Rank(S, t)] = EntryOf(hp[t], S) /\ v[Rank(S, n)] = EntryOf(hp[n], S)
    BY <1>1, <1>4, MapFacts
  <2> HIDE DEF v
  <2> QED
    BY <1>12, <2>1 DEF EntryOf
<1>15. Rank(S, n) = 1
  <2>1. \A m \in S : n <= m
    BY <1>1
  <2> QED
    BY <1>1, <2>1, FirstRank
<1> HIDE DEF v
<1>16. Abstract!Target(v) = Rank(S, t)
  <2>1. v[1].kids = d
    BY <1>14, <1>15
  <2>2. DOMAIN hp[n].kids = 1..Len(hp[n].kids) /\ Len(hp[n].kids) \in Nat
    BY <1>3
  <2>3. Len(d) = Len(hp[n].kids)
    BY <2>2
  <2>4. CASE hp[n].kids = <<>>
    <3>1. d = <<>> /\ t = n
      BY <2>4 DEF Target, t
    <3> QED
      BY <1>15, <2>1, <3>1 DEF Abstract!Target
  <2>5. CASE hp[n].kids # <<>>
    <3>1. Len(hp[n].kids) \in DOMAIN hp[n].kids
      BY <1>3, <2>5
    <3>2. t = hp[n].kids[Len(hp[n].kids)]
      BY <2>5 DEF Target, t
    <3>3. d[Len(hp[n].kids)] = Rank(S, t) /\ d # <<>>
      BY <3>1, <3>2
    <3> HIDE DEF d
    <3> QED
      BY <2>1, <2>3, <3>3 DEF Abstract!Target
  <2> QED
    BY <2>4, <2>5
<1>17. Abstract!WithInstance(v, c)
         = [v EXCEPT ![Rank(S, t)].fields = [v[Rank(S, t)].fields EXCEPT !["instance"] = c]]
  BY Zenon, <1>16 DEF Abstract!WithInstance
<1>18. Map(hq, S) = Abstract!WithInstance(v, c)
  BY Zenon, <1>11, <1>12, <1>13, <1>14, <1>17
<1> QED
  BY <1>18 DEF hq, v, S

\* What h is read as: ToMap, if it is assigned.
Value(h) == IF root[h] = 0 THEN <<>> ELSE Map(heap, ReachIn(heap, used, root[h]))

\* What the promise lets an operation on h make of its value.
Promised(h) == Value(h)' \in IF Value(h) = <<>> THEN Abstract!Made
                                                 ELSE Abstract!Changed(Value(h))

(***************************************************************************)
(* It is what Abstract takes for the value of h.                           *)
(***************************************************************************)
LEMMA ValueIs ==
  ASSUME MaxNodes \in Nat, NEW h \in Handles
  PROVE  SelectorIInv => Value(h) = IF root[h] = 0 THEN NoSelector ELSE ToMap(root[h])
<1> SUFFICES ASSUME SelectorIInv, root[h] # 0
             PROVE  Map(heap, ReachIn(heap, used, root[h])) = ToMap(root[h])
  BY DEF Value, NoSelector
<1> DEFINE S == ReachIn(heap, used, root[h])
<1>1. Counted /\ Orderly(heap, used)
  BY OrderlyParts
<1>2. used \in Nat /\ root[h] \in 1..used /\ used <= MaxNodes
  BY <1>1 DEF Counted
<1>3. S \subseteq root[h]..used
  BY <1>1, <1>2, ReachFacts DEF Orderly
<1> HIDE DEF S
<1>4. S \in SUBSET Nodes
  BY <1>2, <1>3 DEF Nodes
<1>5. ToMap(root[h]) = Entries[S]
  BY ReachIs DEF ToMap, S
<1>6. Entries[S] = Map(heap, S)
  BY <1>4 DEF Entries, Map
<1> QED
  BY <1>5, <1>6 DEF S

\* A handle has a value from when it is assigned.
LEMMA ValueNil ==
  ASSUME Counted, Orderly(heap, used), NEW h \in Handles
  PROVE  Value(h) = <<>> <=> root[h] = 0
<1> SUFFICES ASSUME root[h] # 0 PROVE Value(h) # <<>>
  BY DEF Value
<1> DEFINE S == ReachIn(heap, used, root[h])
<1>1. used \in Nat /\ S \subseteq 1..used /\ root[h] \in S /\ \A n \in S : root[h] <= n
  BY Cloned, SelectorAssumption DEF Counted
<1> HIDE DEF S
<1>2. Cardinality(S) \in Nat \ {0}
  BY <1>1, FirstRank
<1>3. DOMAIN Map(heap, S) = 1..Cardinality(S)
  BY <1>1, MapFacts
<1>4. 1 \in DOMAIN Map(heap, S)
  BY <1>2, <1>3
<1>5. Map(heap, S) # <<>>
  BY <1>4
<1> QED
  BY <1>5 DEF Value, S

(***************************************************************************)
(* What the promise allows to be derived or refilled.                      *)
(***************************************************************************)
LEMMA DerivedBy ==
  ASSUME NEW v
  PROVE  /\ \A rel \in Rels, c \in Content :
              Valid(c) => Abstract!With(v, rel, c) \in Abstract!Derived(v)
         /\ \A i \in 0..MaxIndex :
              Abstract!WithInstance(v, <<"int", i>>) \in Abstract!Derived(v)
<1>1. ASSUME NEW rel \in Rels, NEW c \in Content, Valid(c)
      PROVE  Abstract!With(v, rel, c) \in Abstract!Derived(v)
  <2>1. rel \in {"child", "sibling"} /\ c \in ValidContents
    BY <1>1 DEF Rels, ValidContents
  <2> QED
    BY <2>1 DEF Abstract!Derived
<1>2. ASSUME NEW i \in 0..MaxIndex
      PROVE  Abstract!WithInstance(v, <<"int", i>>) \in Abstract!Derived(v)
  <2>1. <<"int", i>> \in Ints
    BY DEF Ints
  <2> QED
    BY <2>1 DEF Abstract!Derived
<1> QED
  BY <1>1, <1>2

\* Other accepted fields in an entry refill it.
LEMMA RefilledBy ==
  ASSUME NEW v, NEW k \in DOMAIN v, NEW c \in ValidContents,
         NEW w, w = [v EXCEPT ![k].fields = c]
  PROVE  w \in Abstract!Refilled(v)
<1>1. w = Abstract!WithFields(v, k, c)
  BY Zenon DEF Abstract!WithFields
<1> QED
  BY <1>1 DEF Abstract!Refilled

(***************************************************************************)
(* A selector that is allocated is one entry.                              *)
(***************************************************************************)
LEMMA NewValue ==
  ASSUME Counted, Orderly(heap, used),
         NEW h \in Handles, NEW c \in Content, New(h, c)
  PROVE  Promised(h)
<1>1. /\ used < MaxNodes /\ Valid(c) /\ Assign(h, used + 1)
      /\ heap' = [heap EXCEPT ![used + 1] = NewNode(c)] /\ used' = used + 1
  BY DEF New
<1>2. MaxNodes \in Nat /\ used \in 0..MaxNodes
  BY SelectorAssumption DEF Counted
<1>3. root[h] = 0 /\ root'[h] = used + 1
  BY <1>1, AssignEffect
<1>4. Formed(NewNode(c)) /\ NewNode(c).kids = <<>>
  BY <1>1, NewNodeFormed
<1>5. Orderly(heap', used + 1) /\ heap'[used + 1] = NewNode(c)
  <2>1. used + 1 \in Nodes
    BY <1>1, <1>2 DEF Nodes
  <2>2. heap'[used + 1] = NewNode(c)
    BY <1>1, <2>1 DEF Orderly
  <2>3. Orderly(heap', used + 1)
    BY <1>1, <1>2, <1>4, Allocated
  <2> QED
    BY <2>2, <2>3
<1> DEFINE S == {used + 1}
<1>6. ReachIn(heap', used', root'[h]) = S
  <2>1. used + 1 \in ReachIn(heap', used + 1, used + 1)
        /\ ReachIn(heap', used + 1, used + 1) \subseteq (used + 1)..(used + 1)
    BY <1>2, <1>5, ReachFacts DEF Orderly
  <2>2. (used + 1)..(used + 1) = {used + 1}
    BY <1>2
  <2>3. ReachIn(heap', used + 1, used + 1) = S
    BY <2>1, <2>2
  <2> QED
    BY <1>1, <1>3, <2>3
<1>7. Cardinality(S) = 1
  BY FS_Singleton
<1>8. EntryOf(NewNode(c), S) = Abstract!Leaf(c)
  BY <1>1, NewEntry
<1>9. Map(heap', S) = <<Abstract!Leaf(c)>>
  <2>1. S \subseteq 1..(used + 1) /\ used + 1 \in Nat /\ used + 1 \in S
    BY <1>2
  <2>2. Rank(S, used + 1) = 1
    <3>1. \A n \in S : used + 1 <= n
      BY <2>1
    <3> HIDE DEF S
    <3> QED
      BY <2>1, <3>1, FirstRank
  <2>3. IsMap(<<Abstract!Leaf(c)>>, heap', S)
    <3>1. \A m \in S : m = used + 1
      OBVIOUS
    <3> HIDE DEF S
    <3> QED
      BY <1>5, <1>7, <1>8, <2>2, <3>1 DEF IsMap
  <2> HIDE DEF S
  <2> QED
    BY <2>1, <2>3, MapIs
<1>10. Value(h)' = <<Abstract!Leaf(c)>>
  <2>1. root'[h] # 0
    BY <1>2, <1>3
  <2> QED
    BY <1>6, <1>9, <2>1 DEF Value
<1>11. c \in ValidContents
  BY <1>1 DEF ValidContents
<1> QED
  BY <1>3, <1>10, <1>11 DEF Promised, Value, Abstract!Made

(***************************************************************************)
(* Set, UpdateAtPath and Delete refill one entry.                          *)
(***************************************************************************)
LEMMA RewriteValue ==
  ASSUME Counted, Orderly(heap, used), NEW h \in Handles, root[h] # 0,
         Effect(h), NEW n \in ReachIn(heap, used, root[h]),
         \A m \in Nodes \ {n} : heap'[m] = heap[m],
         heap'[n].rels = heap[n].rels, heap'[n].kids = heap[n].kids,
         root' = root, used' = used
  PROVE  Promised(h)
<1> DEFINE S == ReachIn(heap, used, root[h])
<1>1. /\ used \in Nat /\ used <= MaxNodes /\ MaxNodes \in Nat
      /\ S \subseteq 1..used /\ root[h] \in 1..used
  BY Cloned, SelectorAssumption DEF Counted
<1>2. \A m \in S \ {n} : heap'[m] = heap[m]
  BY <1>1 DEF Nodes
<1>3. Orderly(heap', used)
  BY DEF Effect
<1>4. ReachIn(heap', used, root[h]) = S
  <2>1. \A m \in S : heap'[m].kids = heap[m].kids
    BY <1>2
  <2> QED
    BY <1>1, <1>3, <2>1, ReachFrame DEF Orderly
<1> HIDE DEF S
<1>5. /\ Map(heap', S) = [Map(heap, S) EXCEPT ![Rank(S, n)].fields = Read(heap'[n])]
      /\ Rank(S, n) \in DOMAIN Map(heap, S)
  BY <1>1, <1>2, RefilledMap DEF S
<1>6. Read(heap'[n]) \in ValidContents
  <2>1. n \in 1..used
    BY <1>1 DEF S
  <2>2. Formed(heap'[n])
    BY <1>3, <2>1 DEF Orderly
  <2> QED
    BY <2>2, EntryFacts
<1>7. Value(h) = Map(heap, S) /\ Value(h)' = Map(heap', S)
  BY <1>4 DEF Value, S
<1>8. Value(h)' \in Abstract!Refilled(Value(h))
  <2>1. Map(heap', S) \in Abstract!Refilled(Map(heap, S))
    <3> DEFINE k == Rank(S, n)
               c == Read(heap'[n])
               v == Map(heap, S)
               w == Map(heap', S)
    <3>1. k \in DOMAIN v /\ c \in ValidContents /\ w = [v EXCEPT ![k].fields = c]
      BY <1>5, <1>6
    <3> HIDE DEF k, c, v, w
    <3>2. w \in Abstract!Refilled(v)
      BY <3>1, RefilledBy
    <3> QED
      BY <3>2 DEF v, w
  <2> QED
    BY <1>7, <2>1
<1> QED
  BY <1>8, ValueNil DEF Promised, Abstract!Changed

\* UpdateAtPath refills the entry at the path.
LEMMA UpdateAtPathValue ==
  ASSUME Counted, Orderly(heap, used),
         NEW h \in Handles, NEW updates \in Content, UpdateAtPath(h, updates)
  PROVE  Promised(h)
<1> DEFINE accepted == {k \in Present(updates) : Accepts(k, updates[k])}
<1>1. PICK n \in Reach(root[h]), which \in SUBSET accepted :
        heap' = [heap EXCEPT ![n] = SetIn(heap[n], updates, which)]
  BY Zenon DEF UpdateAtPath
<1>2. root[h] # 0 /\ root' = root /\ used' = used
  BY DEF UpdateAtPath
<1>3. n \in ReachIn(heap, used, root[h])
  BY <1>1, ReachIs
<1>4. n \in Nodes /\ heap[n] \in Node
  <2>1. n \in 1..used
    <3>1. ReachIn(heap, used, root[h]) \subseteq 1..used
      BY <1>2, Cloned
    <3> QED
      BY <1>3, <3>1
  <2> QED
    BY <2>1, SelectorAssumption DEF Orderly, Counted, Nodes
<1>5. /\ \A m \in Nodes \ {n} : heap'[m] = heap[m]
      /\ heap'[n] = SetIn(heap[n], updates, which)
  BY <1>1, <1>4 DEF Orderly
<1>6. heap'[n].rels = heap[n].rels /\ heap'[n].kids = heap[n].kids
  BY <1>4, <1>5 DEF SetIn, Node
<1> QED
  BY <1>2, <1>3, <1>5, <1>6, UpdateAtPathEffect, RewriteValue

\* Delete refills the first.
LEMMA DeleteValue ==
  ASSUME Counted, Orderly(heap, used),
         NEW h \in Handles, NEW k \in Fields, Delete(h, k)
  PROVE  Promised(h)
<1> DEFINE n == root[h]
<1>1. /\ n # 0 /\ root' = root /\ used' = used
      /\ heap' = [heap EXCEPT ![n].fields[k] = NoValue, ![n].mask = @ \ {k}]
  BY DEF Delete
<1>2. n \in ReachIn(heap, used, root[h]) /\ n \in 1..used
  BY <1>1, Cloned
<1>3. n \in Nodes /\ heap[n] \in Node
  BY <1>2, SelectorAssumption DEF Orderly, Counted, Nodes
<1> HIDE DEF n
<1>4. \A m \in Nodes \ {n} : heap'[m] = heap[m]
  BY <1>1, <1>3 DEF Orderly
<1>5. heap'[n].rels = heap[n].rels /\ heap'[n].kids = heap[n].kids
  BY <1>1, <1>3 DEF Orderly, Node
<1>6. Effect(h)
  BY DeleteEffect
<1> QED
  BY <1>1, <1>2, <1>4, <1>5, <1>6, RewriteValue DEF n

(***************************************************************************)
(* UpdateInstance and AddChild derive the value of the handle they change. *)
(***************************************************************************)
LEMMA UpdateInstanceValue ==
  ASSUME Counted, Orderly(heap, used),
         NEW h \in Handles, NEW i \in 0..MaxIndex, UpdateInstance(h, i)
  PROVE  Promised(h)
<1> DEFINE S == ReachIn(heap, used, root[h])
<1>1. root[h] # 0 /\ root' = root /\ used' = used /\ heap' = Numbered(heap, root[h], i)
  BY DEF UpdateInstance
<1>2. MaxNodes \in Nat /\ used \in 0..MaxNodes /\ root[h] \in 1..used /\ "instance" \in Fields
  BY <1>1, SelectorAssumption DEF Counted
<1>3. /\ Orderly(heap', used)
      /\ \A m \in 1..used : heap'[m].kids = heap[m].kids
  <2>1. Orderly(Numbered(heap, root[h], i), used)
    BY <1>2, NumberedOrderly
  <2>2. \A m \in 1..used : Numbered(heap, root[h], i)[m].kids = heap[m].kids
    BY <1>2, NumberedOrderly
  <2> QED
    BY <1>1, <2>1, <2>2
<1>4. S \subseteq 1..used
  BY <1>1, Cloned
<1>5. ReachIn(heap', used, root[h]) = S
  <2>1. \A m \in S : heap'[m].kids = heap[m].kids
    BY <1>3, <1>4
  <2>2. Downward(heap, used) /\ Downward(heap', used) /\ used \in Nat /\ used <= used
    BY <1>2, <1>3 DEF Orderly
  <2> QED
    BY <1>2, <2>1, <2>2, ReachFrame
<1>6. Map(heap', S) = Abstract!WithInstance(Map(heap, S), <<"int", i>>)
  BY <1>1, <1>2, NumberedMap
<1> HIDE DEF S
<1>7. Value(h) = Map(heap, S) /\ Value(h)' = Map(heap', S)
  BY <1>1, <1>5 DEF Value, S
<1>8. Value(h)' \in Abstract!Derived(Value(h))
  BY <1>6, <1>7, DerivedBy
<1> QED
  BY <1>1, <1>8, ValueNil DEF Promised, Abstract!Changed

\* AddChild derives the value with one more entry.
LEMMA AddChildValue ==
  ASSUME Counted, Orderly(heap, used),
         NEW h \in Handles, NEW rel \in Rels, NEW c \in Content, AddChild(h, rel, c)
  PROVE  Promised(h)
<1> DEFINE S == ReachIn(heap, used, root[h])
<1>1. /\ root[h] # 0 /\ root' = root /\ used' = used + 1 /\ used < MaxNodes /\ Valid(c)
      /\ heap' = Extended(heap, root[h], used + 1, rel, c)
  BY DEF AddChild
<1>2. MaxNodes \in Nat /\ used \in 0..MaxNodes /\ root[h] \in 1..used
  BY <1>1, SelectorAssumption DEF Counted
<1>3. ReachIn(heap', used', root[h]) = S \cup {used + 1}
  BY <1>1, <1>2, ExtendedReach
<1>4. Map(heap', S \cup {used + 1}) = Abstract!With(Map(heap, S), rel, c)
  BY <1>1, <1>2, ExtendedMap
<1> HIDE DEF S
<1>5. Value(h) = Map(heap, S) /\ Value(h)' = Map(heap', S \cup {used + 1})
  BY <1>1, <1>3 DEF Value, S
<1>6. Value(h)' \in Abstract!Derived(Value(h))
  BY <1>1, <1>4, <1>5, DerivedBy
<1> QED
  BY <1>1, <1>6, ValueNil DEF Promised, Abstract!Changed

(***************************************************************************)
(* A clone has the value of its original.                                  *)
(***************************************************************************)
LEMMA CloneMap ==
  ASSUME Counted, Orderly(heap, used), NEW g \in Handles, root[g] # 0,
         NEW hp, NEW n, NEW u, hp = Clone(root[g]).heap, n = Clone(root[g]).node,
         u = Clone(root[g]).used, u <= MaxNodes
  PROVE  Map(hp, ReachIn(hp, u, n)) = Value(g)
<1> DEFINE S == ReachIn(heap, used, root[g])
<1>1. MaxNodes \in Nat /\ used \in Nat
  BY SelectorAssumption DEF Counted
<1>2. /\ Clone(root[g]) = [heap |-> Copied(heap, S), node |-> Renamed(S)[root[g]],
                           used |-> used + Cardinality(S)]
      /\ root[g] \in S /\ S \subseteq 1..used /\ \A m \in S : root[g] <= m
      /\ Unshared(heap, S)
      /\ \A m \in S : /\ Formed(heap[m])
                      /\ \A i \in DOMAIN heap[m].kids : heap[m].kids[i] \in S /\ heap[m].kids[i] > m
      /\ \A T \in SUBSET S : root[g] \in T /\ ClosedIn(heap, T) => T = S
  BY Cloned
<1> HIDE DEF S
<1>3. /\ hp = Copied(heap, S) /\ n = Renamed(S)[root[g]]
      /\ u = used + Cardinality(S)
  BY <1>2
<1>4. /\ Renamed(S)[root[g]] = used + 1
      /\ ReachIn(Copied(heap, S), used + Cardinality(S), used + 1)
           = (used + 1)..(used + Cardinality(S))
      /\ Map(Copied(heap, S), (used + 1)..(used + Cardinality(S))) = Map(heap, S)
  <2>1. used + Cardinality(S) <= MaxNodes
    BY <1>3
  <2> QED
    BY <1>1, <1>2, <2>1, CopiedMap
<1> QED
  BY <1>3, <1>4 DEF Value, S

(***************************************************************************)
(* Child, Sibling and Instance of a UiObject derive from another's value.  *)
(***************************************************************************)
LEMMA Deriving ==
  ASSUME SelectorIInv, NEW h \in Handles, NEW g \in Handles,
         root[h] = 0, root[g] # 0, Value(h)' \in Abstract!Derived(Value(g))
  PROVE  Promised(h)
<1>1. MaxNodes \in Nat /\ Counted /\ Orderly(heap, used)
  BY OrderlyParts, SelectorAssumption
<1>2. Value(h) = <<>> /\ Value(g) # Abstract!Nil
  BY <1>1, ValueNil DEF Abstract!Nil
<1> DEFINE value == [f \in Handles |-> IF root[f] = 0 THEN NoSelector ELSE ToMap(root[f])]
<1>3. Value(g) = value[g]
  BY <1>1, ValueIs
<1>4. Value(g) \in {value[f] : f \in Handles} \ {Abstract!Nil}
  <2> HIDE DEF value
  <2> QED
    BY <1>2, <1>3
<1>5. Value(h)' \in UNION {Abstract!Derived(v) : v \in {value[f] : f \in Handles} \ {Abstract!Nil}}
  <2> HIDE DEF value
  <2> QED
    BY <1>4
<1>6. Value(h)' \in Abstract!Made
  BY Zenon, <1>5 DEF Abstract!Made
<1> QED
  BY <1>2, <1>6 DEF Promised

\* Child and Sibling of a UiObject: of the value of g, which the clone has too.
LEMMA ChildValue ==
  ASSUME Counted, Orderly(heap, used), NEW h \in Handles, NEW g \in Handles,
         NEW rel \in Rels, NEW c \in Content, Child(h, g, rel, c)
  PROVE  root[h] = 0 /\ root[g] # 0 /\ Value(h)' \in Abstract!Derived(Value(g))
<1> DEFINE hp == Clone(root[g]).heap
           n  == Clone(root[g]).node
           u  == Clone(root[g]).used
           S  == ReachIn(hp, u, n)
<1>1. /\ root[g] # 0 /\ Valid(c) /\ Assign(h, n) /\ u < MaxNodes
      /\ heap' = Extended(hp, n, u + 1, rel, c) /\ used' = u + 1
  BY DEF Child
<1> HIDE DEF hp, n, u
<1>2. MaxNodes \in Nat /\ used \in 0..MaxNodes
  BY SelectorAssumption DEF Counted
<1>3. u \in Nat /\ u <= MaxNodes
  <2>1. u \in Nat
    BY <1>1, CloneFacts DEF u
  <2> QED
    BY <1>1, <1>2, <2>1
<1>4. u \in used..MaxNodes /\ n \in (used + 1)..u /\ Orderly(hp, u)
  BY <1>1, <1>3, CloneFacts DEF hp, n, u
<1>5. n \in 1..u /\ u \in 0..MaxNodes /\ n # 0
  BY <1>2, <1>4
<1>6. Map(hp, S) = Value(g)
  BY <1>1, <1>3, CloneMap DEF hp, n, u
<1>7. root[h] = 0 /\ root'[h] = n
  BY <1>1, AssignEffect
<1>8. ReachIn(heap', used', n) = S \cup {u + 1}
  BY <1>1, <1>2, <1>4, <1>5, ExtendedReach
<1>9. Map(heap', S \cup {u + 1}) = Abstract!With(Map(hp, S), rel, c)
  BY <1>1, <1>2, <1>4, <1>5, ExtendedMap
<1> HIDE DEF S
<1>10. Value(h)' = Abstract!With(Value(g), rel, c)
  BY <1>5, <1>6, <1>7, <1>8, <1>9 DEF Value
<1> QED
  BY <1>1, <1>7, <1>10, DerivedBy

\* Instance, likewise.
LEMMA InstanceValue ==
  ASSUME Counted, Orderly(heap, used), NEW h \in Handles, NEW g \in Handles,
         NEW i \in 0..MaxIndex, NEW back \in 0..MaxIndex, NEW count \in 0..MaxIndex,
         Instance(h, g, i, back, count)
  PROVE  root[h] = 0 /\ root[g] # 0 /\ Value(h)' \in Abstract!Derived(Value(g))
<1> DEFINE hp == Clone(root[g]).heap
           n  == Clone(root[g]).node
           u  == Clone(root[g]).used
           k  == Resolved(i, back, count)
           S  == ReachIn(hp, u, n)
<1>1. /\ root[g] # 0 /\ Assign(h, n) /\ u <= MaxNodes
      /\ heap' = Numbered(hp, n, k) /\ used' = u
  BY DEF Instance
<1>2. MaxNodes \in Nat /\ used \in 0..MaxNodes /\ "instance" \in Fields /\ k \in 0..MaxIndex
  BY SelectorAssumption DEF Counted, Resolved
<1> HIDE DEF hp, n, u, k
<1>3. u \in used..MaxNodes /\ n \in (used + 1)..u /\ Orderly(hp, u)
  BY <1>1, CloneFacts DEF hp, n, u
<1>4. n \in 1..u /\ u \in 0..MaxNodes /\ n # 0 /\ u \in Nat
  BY <1>2, <1>3
<1>5. Map(hp, S) = Value(g)
  BY <1>1, CloneMap DEF hp, n, u
<1>6. root[h] = 0 /\ root'[h] = n
  BY <1>1, AssignEffect
<1>7. /\ Orderly(heap', u)
      /\ \A m \in 1..u : heap'[m].kids = hp[m].kids
  <2>1. Orderly(Numbered(hp, n, k), u)
    BY <1>2, <1>3, <1>4, NumberedOrderly
  <2>2. \A m \in 1..u : Numbered(hp, n, k)[m].kids = hp[m].kids
    BY <1>2, <1>3, <1>4, NumberedOrderly
  <2> QED
    BY <1>1, <2>1, <2>2
<1>8. S \subseteq n..u
  BY <1>3, <1>4, ReachFacts DEF Orderly
<1>9. ReachIn(heap', u, n) = S
  <2>1. \A m \in S : heap'[m].kids = hp[m].kids
    BY <1>4, <1>7, <1>8
  <2>2. Downward(hp, u) /\ Downward(heap', u) /\ u <= u
    BY <1>3, <1>4, <1>7 DEF Orderly
  <2> QED
    BY <1>4, <2>1, <2>2, ReachFrame
<1>10. Map(heap', S) = Abstract!WithInstance(Map(hp, S), <<"int", k>>)
  BY <1>1, <1>2, <1>3, <1>4, NumberedMap
<1> HIDE DEF S
<1>11. Value(h)' = Abstract!WithInstance(Value(g), <<"int", k>>)
  BY <1>1, <1>4, <1>5, <1>6, <1>9, <1>10 DEF Value
<1> QED
  BY <1>1, <1>2, <1>6, <1>11, DerivedBy

(***************************************************************************)
(* ChildByText: what FromMap makes of an answer is read as the answer.     *)
(***************************************************************************)
LEMMA ChildByTextValue ==
  ASSUME Counted, Orderly(heap, used),
         NEW h \in Handles, NEW a \in Answers, ChildByText(h, a)
  PROVE  root[h] = 0 /\ Value(h)' \in FoundSelectors
<1> DEFINE S == 1..a.size
           v == [n \in 1..a.size |-> [fields |-> a.node[n].fields, rels |-> a.node[n].rels,
                                      kids |-> a.node[n].kids]]
<1>1. /\ used + a.size <= MaxNodes /\ Decodes(a) /\ Assign(h, used + 1)
      /\ heap' = Copied(a.node, S) /\ used' = used + a.size
  BY DEF ChildByText
<1>2. MaxNodes \in Nat /\ used \in Nat /\ IsAnswer(a)
  BY SelectorAssumption DEF Counted
<1>3. a.size \in Nat \ {0} /\ Cardinality(S) = a.size /\ 1 \in S
  BY <1>2, FS_Interval DEF IsAnswer, Nodes
<1>4. \A n \in S : /\ Formed(a.node[n])
                   /\ \A i \in DOMAIN a.node[n].kids : a.node[n].kids[i] \in S /\ a.node[n].kids[i] > n
  <2> TAKE n \in S
  <2>1. Formed(a.node[n])
    BY <1>1, <1>2 DEF IsAnswer, Decodes, Formed
  <2>2. \A i \in DOMAIN a.node[n].kids : a.node[n].kids[i] \in (n + 1)..a.size
    BY <1>2 DEF IsAnswer
  <2> QED
    BY <1>3, <2>1, <2>2
<1>5. /\ Unshared(a.node, S)
      /\ \A T \in SUBSET S : 1 \in T /\ ClosedIn(a.node, T) => T = S
  BY <1>2 DEF IsAnswer, ClosedIn
<1>6. S \subseteq 1..a.size /\ \A n \in S : 1 <= n
  OBVIOUS
<1>7. \A n \in S : Rank(S, n) = n
  <2> TAKE n \in S
  <2>1. {m \in S : m <= n} = 1..n
    BY <1>3
  <2>2. Cardinality(1..n) = n
    BY FS_Interval
  <2> QED
    BY <2>1, <2>2 DEF Rank
<1> HIDE DEF S
<1>8. /\ Renamed(S)[1] = used + 1
      /\ ReachIn(Copied(a.node, S), used + Cardinality(S), used + 1)
           = (used + 1)..(used + Cardinality(S))
      /\ Map(Copied(a.node, S), (used + 1)..(used + Cardinality(S))) = Map(a.node, S)
  <2> DEFINE sp == a.node
             N  == a.size
  <2>1. /\ N \in Nat /\ S \subseteq 1..N /\ used \in Nat /\ MaxNodes \in Nat /\ 1 \in S
        /\ used + Cardinality(S) <= MaxNodes /\ Unshared(sp, S) /\ \A n \in S : 1 <= n
    BY <1>1, <1>2, <1>3, <1>5, <1>6
  <2>2. \A n \in S : /\ Formed(sp[n])
                     /\ \A i \in DOMAIN sp[n].kids : sp[n].kids[i] \in S /\ sp[n].kids[i] > n
    BY <1>4
  <2>3. \A T \in SUBSET S : 1 \in T /\ ClosedIn(sp, T) => T = S
    BY <1>5
  <2> HIDE DEF sp, N
  <2>4. /\ Renamed(S)[1] = used + 1
        /\ ReachIn(Copied(sp, S), used + Cardinality(S), used + 1)
             = (used + 1)..(used + Cardinality(S))
        /\ Map(Copied(sp, S), (used + 1)..(used + Cardinality(S))) = Map(sp, S)
    BY <2>1, <2>2, <2>3, CopiedMap
  <2> QED
    BY <2>4 DEF sp
<1>9. root[h] = 0 /\ root'[h] = used + 1 /\ root'[h] # 0
  BY <1>1, <1>2, AssignEffect
<1>10. Value(h)' = Map(a.node, S)
  BY <1>1, <1>3, <1>8, <1>9 DEF Value
<1>11. Map(a.node, S) = v
  <2>1. ASSUME NEW n \in S PROVE v[Rank(S, n)] = EntryOf(a.node[n], S)
    <3>1. v[n] = [fields |-> a.node[n].fields, rels |-> a.node[n].rels, kids |-> a.node[n].kids]
      BY DEF S
    <3>2. Read(a.node[n]) = a.node[n].fields
      BY <1>4, EntryFacts
    <3>3. [i \in DOMAIN a.node[n].kids |-> Rank(S, a.node[n].kids[i])] = a.node[n].kids
      <4>1. a.node[n].kids \in Seq(Nodes)
        BY <1>4 DEF Formed, Node
      <4>2. a.node[n].kids = [i \in DOMAIN a.node[n].kids |-> a.node[n].kids[i]]
        BY <4>1
      <4>3. \A i \in DOMAIN a.node[n].kids : Rank(S, a.node[n].kids[i]) = a.node[n].kids[i]
        BY <1>4, <1>7
      <4> QED
        BY <4>2, <4>3
    <3> QED
      BY <1>7, <3>1, <3>2, <3>3 DEF EntryOf
  <2>2. v = [k \in 1..Cardinality(S) |-> v[k]]
    BY <1>3
  <2> HIDE DEF v
  <2>3. IsMap(v, a.node, S)
    BY <2>1, <2>2 DEF IsMap
  <2> QED
    BY <1>3, <1>6, <2>3, MapIs
<1>12. v \in FoundSelectors
  BY <1>1 DEF FoundSelectors
<1> QED
  BY <1>9, <1>10, <1>11, <1>12

(***************************************************************************)
(* Every operation on h gives h a value that the promise allows.           *)
(***************************************************************************)
LEMMA DoesValue ==
  ASSUME SelectorIInv, NEW h \in Handles, Does(h)
  PROVE  Promised(h)
<1>1. Inputs \subseteq Content
  BY DEF Inputs
<1> Counted /\ Orderly(heap, used)
  BY OrderlyParts, SelectorAssumption
<1>2. ASSUME NEW c \in Inputs, New(h, c) PROVE Promised(h)
  BY <1>1, <1>2, NewValue
<1>3. ASSUME NEW c \in Inputs, NEW rel \in Rels, AddChild(h, rel, c) PROVE Promised(h)
  BY <1>1, <1>3, AddChildValue
<1>4. ASSUME NEW c \in Inputs, UpdateAtPath(h, c) PROVE Promised(h)
  BY <1>1, <1>4, UpdateAtPathValue
<1>5. ASSUME NEW k \in Fields, Delete(h, k) PROVE Promised(h)
  BY <1>5, DeleteValue
<1>6. ASSUME NEW i \in 0..MaxIndex, UpdateInstance(h, i) PROVE Promised(h)
  BY <1>6, UpdateInstanceValue
<1>7. ASSUME NEW g \in Handles, NEW rel \in Rels, NEW c \in Inputs, Child(h, g, rel, c)
      PROVE  Promised(h)
  BY <1>1, <1>7, ChildValue, Deriving
<1>8. ASSUME NEW g \in Handles, NEW i \in 0..MaxIndex, NEW back \in 0..MaxIndex,
             NEW count \in 0..MaxIndex, Instance(h, g, i, back, count)
      PROVE  Promised(h)
  BY <1>8, InstanceValue, Deriving
<1>9. ASSUME NEW a \in Answers, ChildByText(h, a) PROVE Promised(h)
  <2>1. root[h] = 0 /\ Value(h)' \in FoundSelectors
    BY <1>9, ChildByTextValue
  <2>2. Value(h) = <<>>
    BY <2>1, ValueNil
  <2>3. Value(h)' \in Abstract!Made
    BY Zenon, <2>1 DEF Abstract!Made
  <2> QED
    BY <2>2, <2>3 DEF Promised
<1> QED
  BY Zenon, <1>2, <1>3, <1>4, <1>5, <1>6, <1>7, <1>8, <1>9 DEF Does

(***************************************************************************)
(* A map depends on the nodes that it is made of, and on no others.        *)
(***************************************************************************)
LEMMA MapFrame ==
  ASSUME NEW hp, NEW hq, NEW S, NEW N \in Nat, S \subseteq 1..N,
         \A n \in S : hq[n] = hp[n]
  PROVE  Map(hq, S) = Map(hp, S)
<1> DEFINE v == Map(hq, S)
<1>1. /\ v = [k \in 1..Cardinality(S) |-> v[k]]
      /\ \A m \in S : v[Rank(S, m)] = EntryOf(hq[m], S)
  BY MapFacts
<1> HIDE DEF v
<1>2. IsMap(v, hp, S)
  BY <1>1 DEF IsMap
<1>3. v = Map(hp, S)
  BY <1>2, MapIs
<1> QED
  BY <1>3 DEF v

(***************************************************************************)
(* No operation on h changes the value of another handle.                  *)
(***************************************************************************)
LEMMA OthersValue ==
  ASSUME MaxNodes \in Nat, Counted, Orderly(heap, used), Disjoint,
         NEW h \in Handles, Effect(h), NEW g \in Handles \ {h}
  PROVE  Value(g)' = Value(g)
<1>1. root'[g] = root[g]
  BY DEF Effect, Local
<1>2. CASE root[g] = 0
  BY <1>1, <1>2 DEF Value
<1>3. CASE root[g] # 0
  <2> DEFINE S == ReachIn(heap, used, root[g])
  <2>1. ReachIn(heap', used', root[g]) = S /\ \A n \in S : heap'[n] = heap[n]
    BY <1>3, OthersKeep
  <2>2. used \in Nat /\ S \subseteq 1..used
    <3>1. root[g] \in 1..used /\ used \in Nat
      BY <1>3 DEF Counted
    <3>2. S \subseteq root[g]..used
      BY <3>1, ReachFacts DEF Orderly
    <3> QED
      BY <3>1, <3>2
  <2> HIDE DEF S
  <2>3. Map(heap', S) = Map(heap, S)
    BY <2>1, <2>2, MapFrame
  <2> QED
    BY <1>1, <1>3, <2>1, <2>3 DEF Value, S
<1> QED
  BY <1>2, <1>3

\* The refinement mapping: what Selector gives Abstract for value.
Mapped == [h \in Handles |-> IF root[h] = 0 THEN NoSelector ELSE ToMap(root[h])]

\* The refinement mapping is Value, handle by handle.
LEMMA ValuesAre ==
  ASSUME MaxNodes \in Nat, SelectorIInv
  PROVE  Mapped = [h \in Handles |-> Value(h)]
<1>1. \A h \in Handles : Value(h) = IF root[h] = 0 THEN NoSelector ELSE ToMap(root[h])
  BY ValueIs
<1> QED
  BY Zenon, <1>1 DEF Mapped

(***************************************************************************)
(* Selectors are values: whatever is shared, copied or refused on the heap *)
(* behind them, each operation makes or changes the map of one handle from *)
(* the maps as they were, and leaves every other one alone.                *)
(***************************************************************************)
THEOREM SelectorsAreValues == SelectorSpec => SelectorPromise
<1>1. MaxNodes \in Nat
  BY SelectorAssumption
<1>2. SelectorInit => Mapped = [h \in Handles |-> Abstract!Nil]
  BY DEF SelectorInit, Mapped, NoSelector, Abstract!Nil
<1>3. SelectorIInv => Mapped = [h \in Handles |-> Value(h)]
  BY <1>1, ValuesAre
<1>4. SelectorIInv' => Mapped' = [h \in Handles |-> Value(h)']
  <2>1. SelectorIInv' => (Mapped = [h \in Handles |-> Value(h)])'
    BY <1>3, PTL
  <2> QED
    BY <2>1
<1>5. SelectorIInv /\ SelectorIInv' /\ [SelectorNext]_selectorVars
        => [\E h \in Handles :
              /\ Mapped' = [Mapped EXCEPT ![h] = Mapped'[h]]
              /\ Mapped'[h] \in IF Mapped[h] = Abstract!Nil THEN Abstract!Made
                                ELSE Abstract!Changed(Mapped[h])]_Mapped
  <2> SUFFICES ASSUME SelectorIInv, SelectorIInv', [SelectorNext]_selectorVars, Mapped' # Mapped
               PROVE  \E h \in Handles :
                        /\ Mapped' = [Mapped EXCEPT ![h] = Mapped'[h]]
                        /\ Mapped'[h] \in IF Mapped[h] = Abstract!Nil THEN Abstract!Made
                                          ELSE Abstract!Changed(Mapped[h])
    OBVIOUS
  <2>1. Counted /\ Orderly(heap, used) /\ Disjoint
    BY <1>1, OrderlyParts
  <2>2. SelectorNext
    <3>1. UNCHANGED selectorVars => Mapped' = Mapped
      BY DEF selectorVars, Mapped, ToMap, Entries, Reach, Closed
    <3> QED
      BY <3>1
  <2>3. PICK h \in Handles : Does(h)
    BY <2>2, ByHandle
  <2>4. Effect(h) /\ Promised(h)
    BY <2>1, <2>3, DoesEffect, DoesValue
  <2>5. \A g \in Handles \ {h} : Value(g)' = Value(g)
    BY <1>1, <2>1, <2>4, OthersValue
  <2>6. \A g \in Handles : Mapped[g] = Value(g) /\ Mapped'[g] = Value(g)'
    BY <1>3, <1>4
  <2>7. Mapped' = [Mapped EXCEPT ![h] = Mapped'[h]]
    <3>1. \A g \in Handles \ {h} : Mapped'[g] = Mapped[g]
      BY <2>5, <2>6
    <3>2. Mapped = [g \in Handles |-> Mapped[g]] /\ Mapped' = [g \in Handles |-> Mapped'[g]]
      BY DEF Mapped
    <3> QED
      BY <3>1, <3>2
  <2>8. Mapped'[h] \in IF Mapped[h] = Abstract!Nil THEN Abstract!Made
                       ELSE Abstract!Changed(Mapped[h])
    BY <2>4, <2>6 DEF Promised, Abstract!Nil
  <2> QED
    BY <2>7, <2>8
<1>6. SelectorInit => Abstract!Init
  BY <1>2 DEF Abstract!Init, Mapped
<1>7. SelectorIInv /\ SelectorIInv' /\ [SelectorNext]_selectorVars => [Abstract!Next]_Mapped
  BY <1>5 DEF Abstract!Next, Mapped
<1> QED
  BY <1>6, <1>7, SelectorInv, PTL DEF SelectorSpec, SelectorPromise, Abstract!Spec, Mapped
=============================================================================
