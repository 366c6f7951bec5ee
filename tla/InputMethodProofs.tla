------------------------- MODULE InputMethodProofs --------------------------
(* What holds of InputMethod for every value of its constants.             *)
EXTENDS InputMethod, TLAPS

USE InputAssumption DEF Ops, MaxTries

(***************************************************************************)
(* Initially the invariant holds.                                          *)
(***************************************************************************)
LEMMA InitInv == Init => IInv
<1> SUFFICES ASSUME Init PROVE IInv
  OBVIOUS
<1>1. {enabled, current} \subseteq BOOLEAN
  <2>1. Installed \in BOOLEAN
    BY Zenon
  <2> QED
    BY <2>1, Zenon DEF Init
<1>2. TypeOK
  BY <1>1 DEF Init, TypeOK, OpKinds
<1>3. TicketInv
  BY DEF Init, TicketInv, Switching
<1>4. AttemptInv
  BY DEF Init, AttemptInv
<1>5. EnteredOnSuccess /\ OnceUnlessLost
  BY DEF Init, EnteredOnSuccess, OnceUnlessLost
<1> QED
  BY <1>2, <1>3, <1>4, <1>5 DEF IInv

(***************************************************************************)
(* A user in an operation has a number of its own.                         *)
(***************************************************************************)
LEMMA ActiveOp ==
  ASSUME TypeOK, TicketInv, NEW u \in Users, pc[u] # "idle"
  PROVE  /\ op[u] \in Ops /\ op[u] <= ops /\ result[op[u]] = "none"
         /\ \A v \in Users : op[v] = op[u] => v = u
<1>1. op[u] \in 0..MaxOps /\ ops \in 0..MaxOps /\ op[u] # 0 /\ op[u] <= ops
  BY DEF TypeOK, TicketInv
<1>2. result[op[u]] = "none" /\ \A v \in Users : op[v] = op[u] => v = u
  BY <1>1 DEF TicketInv
<1> QED
  BY <1>1, <1>2

(***************************************************************************)
(* Beginning an operation takes a fresh number.                            *)
(***************************************************************************)
LEMMA BeginStep ==
  ASSUME IInv, NEW u \in Users, NEW k \in Kinds, Begin(u, k)
  PROVE  IInv'
<1> DEFINE i == ops + 1
           l == IF k = "disable" THEN "disable" ELSE "current"
<1>1. /\ pc[u] = "idle" /\ ops < MaxOps /\ ops' = i
      /\ op' = [op EXCEPT ![u] = i]
      /\ kind' = [kind EXCEPT ![i] = k]
      /\ pc' = [pc EXCEPT ![u] = l]
      /\ UNCHANGED <<result, polls, tries, enabled, current, entered, late, lost>>
  BY DEF Begin, Goto, device, effects
<1>2. /\ TypeOK /\ TicketInv /\ AttemptInv
      /\ ops \in 0..MaxOps /\ i \in Ops /\ k \in OpKinds
  BY <1>1 DEF IInv, TypeOK
<1>3. /\ op'[u] = i /\ pc'[u] = l /\ kind'[i] = k
      /\ \A v \in Users : v # u => op'[v] = op[v] /\ pc'[v] = pc[v]
      /\ \A j \in Ops : j # i => kind'[j] = kind[j]
  BY <1>1, <1>2 DEF TypeOK
<1>4. /\ \A v \in Users : op[v] \in 0..MaxOps /\ op[v] <= ops
      /\ \A v \in Users : pc[v] # "idle" => op[v] \in Ops /\ op[v] # i
      /\ result[i] = "none" /\ entered[i] = 0 /\ late[i] = 0
  BY <1>2 DEF TypeOK, TicketInv
<1>5. TypeOK'
  BY <1>1, <1>2 DEF TypeOK
<1>6. TicketInv'
  <2>1. \A v \in Users : op'[v] <= ops'
    BY <1>1, <1>2, <1>3, <1>4
  <2>2. \A v, w \in Users : v # w /\ op'[v] = op'[w] => op'[v] = 0
    BY <1>2, <1>3, <1>4 DEF TicketInv
  <2>3. \A v \in Users : pc'[v] # "idle" => op'[v] # 0 /\ result'[op'[v]] = "none"
    BY <1>1, <1>2, <1>3, <1>4 DEF TicketInv
  <2>4. \A v \in Users : pc'[v] = "disable" => kind'[op'[v]] = "disable"
    BY <1>2, <1>3, <1>4 DEF TicketInv
  <2>5. \A v \in Users : pc'[v] \in Switching \cup {"send", "hide"} =>
                            kind'[op'[v]] # "disable"
    BY <1>2, <1>3, <1>4 DEF TicketInv, Switching
  <2>6. \A j \in Ops : j > ops' => result'[j] = "none" /\ entered'[j] = 0 /\ late'[j] = 0
    BY <1>1, <1>2 DEF TicketInv
  <2> QED
    BY <2>1, <2>2, <2>3, <2>4, <2>5, <2>6 DEF TicketInv
<1>7. AttemptInv'
  <2>1. \A v \in Users : v # u => pc'[v] = pc[v] /\ op'[v] = op[v]
    BY <1>3
  <2>2. tries[u] = 0 /\ entered[i] + late[i] = 0
    BY <1>1, <1>2, <1>4 DEF AttemptInv
  <2> QED
    BY <1>1, <1>2, <1>3, <2>1, <2>2 DEF AttemptInv
<1>8. EnteredOnSuccess'
  BY <1>1, <1>3, <1>4 DEF IInv, EnteredOnSuccess
<1>9. OnceUnlessLost'
  BY <1>1 DEF IInv, OnceUnlessLost
<1> QED
  BY <1>5, <1>6, <1>7, <1>8, <1>9 DEF IInv

(***************************************************************************)
(* A command before the first broadcast enters nothing.                    *)
(***************************************************************************)
LEMMA SwitchStep ==
  ASSUME IInv, NEW u \in Users, pc[u] \in Switching \cup {"disable"},
         UNCHANGED <<op, ops, kind, tries, entered, late, lost>>,
         polls' \in [Users -> 0..MaxPolls],
         {enabled', current'} \subseteq BOOLEAN,
         \/ pc[u] # "disable" /\ \E l \in Switching \cup {"send"} : Continue(u, l)
         \/ Return(u, "error")
         \/ pc[u] = "disable" /\ Return(u, "ok")
  PROVE  IInv'
<1> DEFINE i == op[u]
<1>1. PICK l \in Switching \cup {"send", "idle"}, r \in {"none", "ok", "error"} :
        /\ pc' = [pc EXCEPT ![u] = l]
        /\ result' = [result EXCEPT ![i] = r]
        /\ l = "idle" => r = "error" \/ (r = "ok" /\ pc[u] = "disable")
        /\ l # "idle" => r = "none" /\ pc[u] # "disable"
  <2>1. result[i] = "none" /\ result \in [Ops -> {"none", "ok", "error"}] /\ i \in Ops
    BY ActiveOp DEF IInv, TypeOK, Switching
  <2>2. CASE pc[u] # "disable" /\ \E l \in Switching \cup {"send"} : Continue(u, l)
    <3>1. PICK l \in Switching \cup {"send"} : pc' = [pc EXCEPT ![u] = l] /\ result' = result
      BY <2>2 DEF Continue, Goto
    <3>2. result' = [result EXCEPT ![i] = "none"]
      BY <2>1, <3>1
    <3> QED
      BY <2>2, <3>1, <3>2 DEF Switching
  <2>3. CASE Return(u, "error")
    BY <2>3 DEF Return, Goto
  <2>4. CASE pc[u] = "disable" /\ Return(u, "ok")
    BY <2>4 DEF Return, Goto
  <2> QED
    BY <2>2, <2>3, <2>4
<1>2. /\ TypeOK /\ TicketInv /\ AttemptInv
      /\ i \in Ops /\ i <= ops
      /\ \A v \in Users : op[v] = i => v = u
  BY ActiveOp DEF IInv, Switching
<1>3. /\ pc'[u] = l /\ result'[i] = r
      /\ \A v \in Users : v # u => pc'[v] = pc[v]
      /\ \A j \in Ops : j # i => result'[j] = result[j]
  BY <1>1, <1>2 DEF TypeOK
<1>4. tries[u] = 0 /\ entered[i] + late[i] = 0
  BY <1>2 DEF AttemptInv, Switching
<1>5. TypeOK'
  <2>1. pc' \in [Users -> {"idle", "disable", "current", "list", "enable", "set", "put",
                           "wait", "send", "hide"}]
    BY <1>1, <1>2 DEF TypeOK, Switching
  <2>2. result' \in [Ops -> {"none", "ok", "error"}]
    BY <1>1, <1>2 DEF TypeOK
  <2> QED
    BY <1>2, <2>1, <2>2 DEF TypeOK
<1>6. TicketInv'
  <2>1. \A v \in Users : pc'[v] # "idle" => op[v] # 0 /\ result'[op[v]] = "none"
    <3> SUFFICES ASSUME NEW v \in Users, pc'[v] # "idle"
                 PROVE  op[v] # 0 /\ result'[op[v]] = "none"
      OBVIOUS
    <3>1. CASE v = u
      BY <1>1, <1>2, <1>3, <3>1
    <3>2. CASE v # u
      BY <1>2, <1>3, <3>2, ActiveOp
    <3> QED
      BY <3>1, <3>2
  <2>2. \A v \in Users : pc'[v] = "disable" => kind[op[v]] = "disable"
    BY <1>2, <1>3 DEF TicketInv, Switching
  <2>3. \A v \in Users : pc'[v] \in Switching \cup {"send", "hide"} => kind[op[v]] # "disable"
    BY <1>1, <1>2, <1>3 DEF TicketInv, Switching
  <2>4. \A j \in Ops : j > ops => j # i
    BY <1>2 DEF TypeOK
  <2> QED
    BY <1>2, <1>3, <2>1, <2>2, <2>3, <2>4 DEF TicketInv
<1>7. AttemptInv'
  <2>1. \A v \in Users : v # u => pc'[v] = pc[v]
    BY <1>3
  <2>2. \A j \in Ops : result'[j] = "error" /\ entered[j] + late[j] > 0 => j \in lost
    BY <1>2, <1>3, <1>4 DEF AttemptInv
  <2>3. pc'[u] # "hide"
    BY <1>3 DEF Switching
  <2> QED
    BY <1>2, <1>4, <2>1, <2>2, <2>3 DEF AttemptInv
<1>8. EnteredOnSuccess'
  <2>1. r = "ok" => kind[i] = "disable"
    BY <1>1, <1>2 DEF TicketInv
  <2> QED
    BY <1>3, <2>1 DEF IInv, EnteredOnSuccess
<1>9. OnceUnlessLost'
  <2>1. \A j \in Ops : result'[j] = "error" /\ entered[j] > 0 => j \in lost
    <3>1. entered[i] \in 0..3 /\ late[i] \in 0..3
      BY <1>2 DEF TypeOK
    <3>2. entered[i] = 0
      BY <1>4, <3>1
    <3> QED
      BY <1>3, <3>2 DEF IInv, OnceUnlessLost
  <2> QED
    BY <2>1 DEF IInv, OnceUnlessLost
<1> QED
  BY <1>5, <1>6, <1>7, <1>8, <1>9 DEF IInv

(***************************************************************************)
(* An attempt of mustBroadcast: what it may have entered.                  *)
(***************************************************************************)
LEMMA SendEffect ==
  ASSUME IInv, NEW u \in Users, Send(u)
  PROVE  LET i == op[u] IN
         /\ entered' \in [Ops -> 0..3] /\ late' \in [Ops -> 0..3]
         /\ \A j \in Ops : j # i => entered'[j] = entered[j] /\ late'[j] = late[j]
         /\ entered'[i] + late'[i] <= tries[u] + 1
         /\ entered'[i] + late'[i] > 1 => i \in lost'
         /\ lost \subseteq lost' /\ lost' \subseteq Ops
         /\ \/ entered'[i] > 0 /\ Leave(u, Broadcasted(u))
            \/ /\ entered'[i] + late'[i] > 0 => i \in lost'
               /\ Again(u, Return(u, "error"))
<1> DEFINE i == op[u]
<1>1. /\ pc[u] = "send" /\ TypeOK /\ i \in Ops
      /\ entered \in [Ops -> 0..3] /\ late \in [Ops -> 0..3] /\ lost \subseteq Ops
      /\ entered[i] \in 0..3 /\ late[i] \in 0..3 /\ tries[u] \in 0..2
      /\ entered[i] + late[i] <= tries[u]
      /\ entered[i] + late[i] > 0 => i \in lost
  <2>1. pc[u] = "send" /\ TypeOK /\ TicketInv /\ AttemptInv
    BY DEF Send, IInv
  <2>2. i \in Ops
    BY <2>1, ActiveOp
  <2> QED
    BY <2>1, <2>2 DEF TypeOK, AttemptInv
<1>2. CASE Answered(i) /\ Leave(u, Broadcasted(u))
  <2>1. entered' = [entered EXCEPT ![i] = @ + 1] /\ late' = late /\ lost' = lost
    BY <1>2 DEF Answered
  <2>2. entered'[i] = entered[i] + 1 /\ \A j \in Ops : j # i => entered'[j] = entered[j]
    BY <1>1, <2>1
  <2>3. entered' \in [Ops -> 0..3]
    BY <1>1, <2>1
  <2> QED
    BY <1>1, <1>2, <2>1, <2>2, <2>3
<1>3. CASE Unanswered(i) /\ Again(u, Return(u, "error"))
  <2>1. i \in lost' /\ lost \subseteq lost' /\ lost' \subseteq Ops
    <3>1. lost' = lost \cup {i}
      BY <1>3 DEF Unanswered
    <3> QED
      BY <1>1, <3>1
  <2>2. CASE entered' = [entered EXCEPT ![i] = @ + 1] /\ late' = late
    <3>1. entered'[i] = entered[i] + 1 /\ \A j \in Ops : j # i => entered'[j] = entered[j]
      BY <1>1, <2>2
    <3>2. entered' \in [Ops -> 0..3]
      BY <1>1, <2>2
    <3>3. entered'[i] + late'[i] <= tries[u] + 1
      BY <1>1, <2>2, <3>1
    <3> QED
      BY <1>1, <1>3, <2>1, <2>2, <3>1, <3>2, <3>3, Zenon
  <2>3. CASE late' = [late EXCEPT ![i] = @ + 1] /\ entered' = entered
    <3>1. late'[i] = late[i] + 1 /\ \A j \in Ops : j # i => late'[j] = late[j]
      BY <1>1, <2>3
    <3>2. late' \in [Ops -> 0..3]
      BY <1>1, <2>3
    <3>3. entered'[i] + late'[i] <= tries[u] + 1
      BY <1>1, <2>3, <3>1
    <3> QED
      BY <1>1, <1>3, <2>1, <2>3, <3>1, <3>2, <3>3, Zenon
  <2>4. CASE UNCHANGED <<entered, late>>
    <3>1. entered'[i] + late'[i] <= tries[u] + 1
      BY <1>1, <2>4
    <3> QED
      BY <1>1, <1>3, <2>1, <2>4, <3>1, Zenon
  <2> QED
    BY <1>3, <2>2, <2>3, <2>4 DEF Unanswered
<1>4. CASE Unheard /\ Again(u, Return(u, "error"))
  BY <1>1, <1>4 DEF Unheard, effects
<1> QED
  BY <1>2, <1>3, <1>4 DEF Send

(***************************************************************************)
(* After an attempt mustBroadcast tries again or its caller goes on.       *)
(***************************************************************************)
LEMMA SendNext ==
  ASSUME IInv, NEW u \in Users, Send(u)
  PROVE  \E l \in {"send", "hide", "idle"}, r \in {"none", "ok", "error"}, n \in 0..2 :
           /\ pc' = [pc EXCEPT ![u] = l]
           /\ result' = [result EXCEPT ![op[u]] = r]
           /\ tries' = [tries EXCEPT ![u] = n]
           /\ l = "send" => n = tries[u] + 1
           /\ l = "idle" => n = 0
           /\ r # "none" <=> l = "idle"
           /\ l = "hide" \/ r = "ok" => entered'[op[u]] > 0
           /\ (l = "send" \/ r = "error") /\ entered'[op[u]] + late'[op[u]] > 0 =>
                op[u] \in lost'
<1> DEFINE i == op[u]
<1>1. /\ pc[u] = "send" /\ i \in Ops /\ result[i] = "none" /\ tries[u] \in 0..2
      /\ pc \in [Users -> {"idle", "disable", "current", "list", "enable", "set", "put",
                           "wait", "send", "hide"}]
      /\ result \in [Ops -> {"none", "ok", "error"}]
  <2>1. pc[u] = "send"
    BY DEF Send
  <2> QED
    BY <2>1, ActiveOp DEF IInv, TypeOK
<1>2. pc = [pc EXCEPT ![u] = "send"] /\ result = [result EXCEPT ![i] = "none"]
  BY <1>1
<1>3. CASE entered'[i] > 0 /\ Leave(u, Broadcasted(u))
  <2>1. tries' = [tries EXCEPT ![u] = 0]
    BY <1>3 DEF Leave
  <2>2. CASE pc' = [pc EXCEPT ![u] = "hide"] /\ result' = result
    BY <1>2, <1>3, <2>1, <2>2
  <2>3. CASE pc' = [pc EXCEPT ![u] = "idle"] /\ result' = [result EXCEPT ![i] = "ok"]
    BY <1>3, <2>1, <2>3
  <2> QED
    BY <1>3, <2>2, <2>3 DEF Leave, Broadcasted, Continue, Return, Goto
<1>4. CASE /\ entered'[i] + late'[i] > 0 => i \in lost'
           /\ Again(u, Return(u, "error"))
  <2>1. CASE tries[u] + 1 < 3
    <3>1. pc' = pc /\ result' = result /\ tries' = [tries EXCEPT ![u] = @ + 1]
      BY <1>4, <2>1 DEF Again
    <3>2. tries[u] + 1 \in 0..2 /\ tries' = [tries EXCEPT ![u] = tries[u] + 1]
      BY <1>1, <2>1, <3>1
    <3> QED
      BY <1>2, <1>4, <3>1, <3>2
  <2>2. CASE ~(tries[u] + 1 < 3)
    <3>1. /\ pc' = [pc EXCEPT ![u] = "idle"] /\ result' = [result EXCEPT ![i] = "error"]
          /\ tries' = [tries EXCEPT ![u] = 0]
      BY <1>4, <2>2 DEF Again, Leave, Return, Goto
    <3> QED
      BY <1>4, <3>1
  <2> QED
    BY <2>1, <2>2
<1> QED
  BY <1>3, <1>4, SendEffect

LEMMA SendStep ==
  ASSUME IInv, NEW u \in Users, Send(u)
  PROVE  IInv'
<1> DEFINE i == op[u]
<1>1. /\ TypeOK /\ TicketInv /\ AttemptInv /\ EnteredOnSuccess /\ OnceUnlessLost
      /\ pc[u] = "send" /\ i \in Ops /\ i <= ops
      /\ \A v \in Users : op[v] = i => v = u
      /\ UNCHANGED <<op, ops, kind, polls, enabled, current>>
  <2>1. pc[u] = "send" /\ UNCHANGED <<op, ops, kind, polls, enabled, current>>
    BY DEF Send, ticket, device
  <2> QED
    BY <2>1, ActiveOp DEF IInv
<1>2. /\ entered' \in [Ops -> 0..3] /\ late' \in [Ops -> 0..3]
      /\ \A j \in Ops : j # i => entered'[j] = entered[j] /\ late'[j] = late[j]
      /\ entered'[i] + late'[i] <= tries[u] + 1
      /\ entered'[i] + late'[i] > 1 => i \in lost'
      /\ lost \subseteq lost' /\ lost' \subseteq Ops
  BY SendEffect
<1>3. PICK l \in {"send", "hide", "idle"}, r \in {"none", "ok", "error"}, n \in 0..2 :
        /\ pc' = [pc EXCEPT ![u] = l]
        /\ result' = [result EXCEPT ![i] = r]
        /\ tries' = [tries EXCEPT ![u] = n]
        /\ l = "send" => n = tries[u] + 1
        /\ l = "idle" => n = 0
        /\ r # "none" <=> l = "idle"
        /\ l = "hide" \/ r = "ok" => entered'[i] > 0
        /\ (l = "send" \/ r = "error") /\ entered'[i] + late'[i] > 0 => i \in lost'
  BY SendNext
<1>4. /\ pc'[u] = l /\ result'[i] = r /\ tries'[u] = n
      /\ \A v \in Users : v # u => pc'[v] = pc[v] /\ tries'[v] = tries[v] /\ op[v] # i
      /\ \A j \in Ops : j # i => result'[j] = result[j]
  BY <1>1, <1>3 DEF TypeOK
<1>5. TypeOK'
  <2>1. pc' \in [Users -> {"idle", "disable", "current", "list", "enable", "set", "put",
                           "wait", "send", "hide"}]
    BY <1>1, <1>3 DEF TypeOK
  <2>2. result' \in [Ops -> {"none", "ok", "error"}] /\ tries' \in [Users -> 0..2]
    BY <1>1, <1>3 DEF TypeOK
  <2> QED
    BY <1>1, <1>2, <2>1, <2>2 DEF TypeOK
<1>6. TicketInv'
  <2>1. \A v \in Users : pc'[v] # "idle" => op[v] # 0 /\ result'[op[v]] = "none"
    <3> SUFFICES ASSUME NEW v \in Users, pc'[v] # "idle"
                 PROVE  op[v] # 0 /\ result'[op[v]] = "none"
      OBVIOUS
    <3>1. CASE v = u
      BY <1>1, <1>3, <1>4, <3>1
    <3>2. CASE v # u
      BY <1>1, <1>4, <3>2, ActiveOp
    <3> QED
      BY <3>1, <3>2
  <2>2. \A v \in Users : pc'[v] = "disable" => kind[op[v]] = "disable"
    BY <1>1, <1>4 DEF TicketInv
  <2>3. \A v \in Users : pc'[v] \in Switching \cup {"send", "hide"} => kind[op[v]] # "disable"
    BY <1>1, <1>4 DEF TicketInv
  <2>4. \A j \in Ops : j > ops => j # i
    BY <1>1 DEF TypeOK
  <2> QED
    BY <1>1, <1>2, <1>4, <2>1, <2>2, <2>3, <2>4 DEF TicketInv
<1>7. AttemptInv'
  <2>1. \A v \in Users : v # u /\ pc[v] # "idle" =>
           op[v] \in Ops /\ entered'[op[v]] = entered[op[v]] /\ late'[op[v]] = late[op[v]]
    BY <1>1, <1>2, <1>4, ActiveOp
  <2>2. \A v \in Users : pc'[v] # "idle" /\ pc'[v] \notin {"send", "hide"} =>
           tries'[v] = 0 /\ entered'[op[v]] + late'[op[v]] = 0
    BY <1>1, <1>4, <2>1 DEF AttemptInv
  <2>3. \A v \in Users : pc'[v] = "idle" => tries'[v] = 0
    BY <1>1, <1>3, <1>4 DEF AttemptInv
  <2>4. \A v \in Users : pc'[v] = "send" =>
           /\ entered'[op[v]] + late'[op[v]] <= tries'[v]
           /\ entered'[op[v]] + late'[op[v]] > 0 => op[v] \in lost'
    <3> SUFFICES ASSUME NEW v \in Users, pc'[v] = "send"
                 PROVE  /\ entered'[op[v]] + late'[op[v]] <= tries'[v]
                        /\ entered'[op[v]] + late'[op[v]] > 0 => op[v] \in lost'
      OBVIOUS
    <3>1. CASE v = u
      BY <1>2, <1>3, <1>4, <3>1
    <3>2. CASE v # u
      BY <1>1, <1>2, <1>4, <2>1, <3>2 DEF AttemptInv
    <3> QED
      BY <3>1, <3>2
  <2>5. \A v \in Users : pc'[v] = "hide" => entered'[op[v]] > 0
    BY <1>1, <1>3, <1>4, <2>1 DEF AttemptInv
  <2>6. \A j \in Ops : result'[j] = "error" /\ entered'[j] + late'[j] > 0 => j \in lost'
    BY <1>1, <1>2, <1>3, <1>4 DEF AttemptInv
  <2> QED
    BY <1>1, <2>2, <2>3, <2>4, <2>5, <2>6 DEF AttemptInv
<1>8. EnteredOnSuccess'
  BY <1>1, <1>2, <1>3, <1>4 DEF EnteredOnSuccess
<1>9. OnceUnlessLost'
  <2>1. \A j \in Ops : entered'[j] \in 0..3 /\ late'[j] \in 0..3
    BY <1>2
  <2>2. entered'[i] + late'[i] <= 3
    <3>1. tries[u] \in 0..2
      BY <1>1 DEF TypeOK
    <3>2. entered'[i] \in 0..3 /\ late'[i] \in 0..3
      BY <1>1, <2>1
    <3>3. entered'[i] + late'[i] <= tries[u] + 1
      BY <1>2
    <3> QED
      BY <3>1, <3>2, <3>3
  <2>3. result'[i] = "error" /\ entered'[i] > 0 => i \in lost'
    BY <1>1, <1>3, <1>4, <2>1
  <2>4. \A j \in Ops : j # i =>
          /\ entered'[j] + late'[j] > 1 => j \in lost'
          /\ result'[j] = "error" /\ entered'[j] > 0 => j \in lost'
          /\ entered'[j] + late'[j] <= 3
    BY <1>1, <1>2, <1>4 DEF OnceUnlessLost
  <2> QED
    BY <1>2, <2>2, <2>3, <2>4 DEF OnceUnlessLost
<1> QED
  BY <1>5, <1>6, <1>7, <1>8, <1>9 DEF IInv

(***************************************************************************)
(* Hiding the keyboard ends in success, whatever becomes of it.            *)
(***************************************************************************)
LEMMA HideStep ==
  ASSUME IInv, NEW u \in Users, Hide(u)
  PROVE  IInv'
<1> DEFINE i == op[u]
<1>1. /\ TypeOK /\ TicketInv /\ AttemptInv /\ EnteredOnSuccess /\ OnceUnlessLost
      /\ pc[u] = "hide" /\ i \in Ops /\ i <= ops /\ result[i] = "none" /\ entered[i] > 0
      /\ \A v \in Users : op[v] = i => v = u
      /\ UNCHANGED <<op, ops, kind, polls, enabled, current, entered, late, lost>>
  <2>1. pc[u] = "hide"
    BY DEF Hide
  <2>2. UNCHANGED <<op, ops, kind, polls, enabled, current, entered, late, lost>>
    BY DEF Hide, ticket, device, effects
  <2> QED
    BY <2>1, <2>2, ActiveOp DEF IInv, AttemptInv
<1>2. PICK l \in {"hide", "idle"}, r \in {"none", "ok"}, n \in 0..2 :
        /\ pc' = [pc EXCEPT ![u] = l]
        /\ result' = [result EXCEPT ![i] = r]
        /\ tries' = [tries EXCEPT ![u] = n]
        /\ l = "idle" => n = 0
        /\ r = "ok" <=> l = "idle"
  <2>1. CASE Leave(u, Return(u, "ok"))
    BY <2>1 DEF Leave, Return, Goto
  <2>2. CASE ~Leave(u, Return(u, "ok"))
    <3>1. /\ tries[u] + 1 < 3 /\ pc' = pc /\ result' = result
          /\ tries' = [tries EXCEPT ![u] = tries[u] + 1]
      BY <2>2 DEF Hide, Again
    <3>2. tries[u] + 1 \in 0..2
      <4>1. tries[u] \in 0..2
        BY <1>1 DEF TypeOK
      <4> QED
        BY <3>1, <4>1
    <3>3. pc' = [pc EXCEPT ![u] = "hide"] /\ result' = [result EXCEPT ![i] = "none"]
      BY <1>1, <3>1 DEF TypeOK
    <3> QED
      BY <3>1, <3>2, <3>3
  <2> QED
    BY <2>1, <2>2
<1>3. /\ pc'[u] = l /\ result'[i] = r /\ tries'[u] = n
      /\ \A v \in Users : v # u => pc'[v] = pc[v] /\ tries'[v] = tries[v] /\ op[v] # i
      /\ \A j \in Ops : j # i => result'[j] = result[j]
  BY <1>1, <1>2 DEF TypeOK
<1>4. TypeOK'
  <2>1. pc' \in [Users -> {"idle", "disable", "current", "list", "enable", "set", "put",
                           "wait", "send", "hide"}]
    BY <1>1, <1>2 DEF TypeOK
  <2>2. result' \in [Ops -> {"none", "ok", "error"}] /\ tries' \in [Users -> 0..2]
    BY <1>1, <1>2 DEF TypeOK
  <2> QED
    BY <1>1, <2>1, <2>2 DEF TypeOK
<1>5. TicketInv'
  <2>1. \A v \in Users : pc'[v] # "idle" => op[v] # 0 /\ result'[op[v]] = "none"
    <3> SUFFICES ASSUME NEW v \in Users, pc'[v] # "idle"
                 PROVE  op[v] # 0 /\ result'[op[v]] = "none"
      OBVIOUS
    <3>1. CASE v = u
      BY <1>1, <1>2, <1>3, <3>1
    <3>2. CASE v # u
      BY <1>1, <1>3, <3>2, ActiveOp
    <3> QED
      BY <3>1, <3>2
  <2>2. \A v \in Users : pc'[v] = "disable" => kind[op[v]] = "disable"
    BY <1>1, <1>3 DEF TicketInv
  <2>3. \A v \in Users : pc'[v] \in Switching \cup {"send", "hide"} => kind[op[v]] # "disable"
    BY <1>1, <1>3 DEF TicketInv, Switching
  <2>4. \A j \in Ops : j > ops => j # i
    BY <1>1 DEF TypeOK
  <2> QED
    BY <1>1, <1>3, <2>1, <2>2, <2>3, <2>4 DEF TicketInv
<1>6. AttemptInv'
  BY <1>1, <1>2, <1>3 DEF AttemptInv
<1>7. EnteredOnSuccess'
  BY <1>1, <1>3 DEF EnteredOnSuccess
<1>8. OnceUnlessLost'
  BY <1>1, <1>3 DEF OnceUnlessLost
<1> QED
  BY <1>4, <1>5, <1>6, <1>7, <1>8 DEF IInv

(***************************************************************************)
(* A late broadcast was counted when its answer was lost.                  *)
(***************************************************************************)
LEMMA StragglerStep ==
  ASSUME IInv, NEW i \in Ops, Straggler(i)
  PROVE  IInv'
<1>1. /\ TypeOK /\ TicketInv /\ AttemptInv /\ EnteredOnSuccess /\ OnceUnlessLost
      /\ entered[i] \in 0..3 /\ late[i] \in 0..3
      /\ late[i] > 0 /\ late' = [late EXCEPT ![i] = @ - 1]
      /\ entered' = entered \/ entered' = [entered EXCEPT ![i] = @ + 1]
      /\ UNCHANGED <<pc, op, ops, kind, result, polls, tries, enabled, current, lost>>
  BY DEF Straggler, IInv, TypeOK, ticket, device
<1>2. /\ late'[i] = late[i] - 1
      /\ entered'[i] \in {entered[i], entered[i] + 1}
      /\ \A j \in Ops : j # i => entered'[j] = entered[j] /\ late'[j] = late[j]
  BY <1>1 DEF TypeOK
<1>3. entered[i] + late[i] <= 3
  BY <1>1 DEF OnceUnlessLost
<1>4. TypeOK'
  <2>1. entered' \in [Ops -> 0..3] /\ late' \in [Ops -> 0..3]
    BY <1>1, <1>3 DEF TypeOK
  <2> QED
    BY <1>1, <2>1 DEF TypeOK
<1>5. \A j \in Ops : /\ entered[j] \in 0..3 /\ late[j] \in 0..3
                     /\ entered'[j] \in 0..3 /\ late'[j] \in 0..3
                     /\ entered'[j] >= entered[j]
                     /\ entered'[j] + late'[j] <= entered[j] + late[j]
  BY <1>1, <1>2, <1>4 DEF TypeOK
<1>6. \A v \in Users : pc[v] # "idle" => op[v] \in Ops
  BY <1>1, ActiveOp
<1>7. TicketInv'
  BY <1>1, <1>2 DEF TicketInv, TypeOK
<1>8. AttemptInv'
  <2>1. \A v \in Users : pc[v] # "idle" /\ pc[v] \notin {"send", "hide"} =>
           tries[v] = 0 /\ entered'[op[v]] + late'[op[v]] = 0
    BY <1>1, <1>5, <1>6 DEF AttemptInv
  <2>2. \A v \in Users : pc[v] = "send" =>
           /\ entered'[op[v]] + late'[op[v]] <= tries[v]
           /\ entered'[op[v]] + late'[op[v]] > 0 => op[v] \in lost
    <3> SUFFICES ASSUME NEW v \in Users, pc[v] = "send"
                 PROVE  /\ entered'[op[v]] + late'[op[v]] <= tries[v]
                        /\ entered'[op[v]] + late'[op[v]] > 0 => op[v] \in lost
      OBVIOUS
    <3>1. /\ tries[v] \in 0..2 /\ op[v] \in Ops
          /\ entered[op[v]] + late[op[v]] <= tries[v]
          /\ entered[op[v]] + late[op[v]] > 0 => op[v] \in lost
      BY <1>1, <1>6 DEF AttemptInv, TypeOK
    <3> QED
      BY <1>5, <3>1
  <2>3. \A v \in Users : pc[v] = "hide" => entered'[op[v]] > 0
    BY <1>1, <1>5, <1>6 DEF AttemptInv
  <2>4. \A j \in Ops : result[j] = "error" /\ entered'[j] + late'[j] > 0 => j \in lost
    BY <1>1, <1>5 DEF AttemptInv
  <2> QED
    BY <1>1, <2>1, <2>2, <2>3, <2>4 DEF AttemptInv
<1>9. EnteredOnSuccess'
  BY <1>1, <1>5 DEF EnteredOnSuccess
<1>10. OnceUnlessLost'
  <2> SUFFICES ASSUME NEW j \in Ops
               PROVE  /\ entered'[j] + late'[j] > 1 => j \in lost
                      /\ result[j] = "error" /\ entered'[j] > 0 => j \in lost
                      /\ entered'[j] + late'[j] <= 3
    BY <1>1 DEF OnceUnlessLost
  <2>1. /\ entered[j] + late[j] > 1 => j \in lost
        /\ result[j] = "error" /\ entered[j] + late[j] > 0 => j \in lost
        /\ entered[j] + late[j] <= 3
    BY <1>1 DEF OnceUnlessLost, AttemptInv
  <2> QED
    BY <1>5, <2>1
<1> QED
  BY <1>4, <1>7, <1>8, <1>9, <1>10 DEF IInv

(***************************************************************************)
(* The shell commands before the first broadcast, one step per command.    *)
(***************************************************************************)
LEMMA DisableStep ==
  ASSUME IInv, NEW u \in Users, Disable(u)
  PROVE  IInv'
<1>1. pc[u] = "disable" /\ UNCHANGED <<op, ops, kind, polls, tries, entered, late, lost>>
  BY DEF Disable, ticket, effects
<1>2. polls' \in [Users -> 0..MaxPolls]
  BY <1>1 DEF IInv, TypeOK
<1>3. {enabled', current'} \subseteq BOOLEAN
  <2>1. enabled \in BOOLEAN /\ current \in BOOLEAN
    BY Zenon DEF IInv, TypeOK
  <2>2. \/ enabled' = FALSE /\ current' = FALSE
        \/ enabled' = enabled /\ current' = current
    BY DEF Disable, device
  <2> QED
    BY <2>1, <2>2, Zenon
<1>4. Return(u, "error") \/ Return(u, "ok")
  BY DEF Disable
<1> QED
  BY <1>1, <1>2, <1>3, <1>4, SwitchStep

LEMMA SwitchingStep ==
  ASSUME IInv, NEW u \in Users,
         \/ Current(u) \/ IsInstalled(u) \/ Enable(u) \/ SetDefault(u) \/ PutDefault(u)
         \/ WaitReady(u)
  PROVE  IInv'
<1>1. pc[u] \in Switching /\ UNCHANGED <<op, ops, kind, tries, entered, late, lost>>
  BY DEF Current, IsInstalled, Enable, SetDefault, PutDefault, WaitReady, ticket, effects,
         Switching
<1>2. polls' \in [Users -> 0..MaxPolls]
  <2>1. polls \in [Users -> 0..MaxPolls]
    BY DEF IInv, TypeOK
  <2>2. CASE polls' = polls
    BY <2>1, <2>2
  <2>3. CASE WaitReady(u)
    <3>1. CASE polls' = [polls EXCEPT ![u] = 0]
      BY <2>1, <3>1
    <3>2. CASE polls[u] # MaxPolls /\ polls' = [polls EXCEPT ![u] = @ + 1]
      BY <2>1, <3>2
    <3> QED
      BY <2>3, <3>1, <3>2 DEF WaitReady, Shell
  <2> QED
    BY <2>2, <2>3 DEF Current, IsInstalled, Enable, SetDefault, PutDefault
<1>3. {enabled', current'} \subseteq BOOLEAN
  <2>1. enabled \in BOOLEAN /\ current \in BOOLEAN
    BY Zenon DEF IInv, TypeOK
  <2>2. enabled' = enabled \/ enabled' = TRUE
    BY DEF Current, IsInstalled, Enable, SetDefault, PutDefault, WaitReady, Shell, device
  <2>3. \/ current' = current \/ current' = TRUE
        \/ current' = (current \/ enabled)
    BY DEF Current, IsInstalled, Enable, SetDefault, PutDefault, WaitReady, Shell, device
  <2> QED
    BY <2>1, <2>2, <2>3, Zenon
<1>4. (\E l \in Switching \cup {"send"} : Continue(u, l)) \/ Return(u, "error")
  BY DEF Current, IsInstalled, Enable, SetDefault, PutDefault, WaitReady, Shell, Switching
<1>5. pc[u] # "disable"
  BY <1>1 DEF Switching
<1> QED
  BY <1>1, <1>2, <1>3, <1>4, <1>5, SwitchStep

(***************************************************************************)
(* Every step keeps the invariant.                                         *)
(***************************************************************************)
LEMMA NextStep == IInv /\ [Next]_vars => IInv'
<1> SUFFICES ASSUME IInv, [Next]_vars PROVE IInv'
  OBVIOUS
<1>1. CASE UNCHANGED vars
  <2>1. UNCHANGED <<pc, op, ops, kind, result, polls, tries, enabled, current, entered,
                    late, lost>>
    BY <1>1 DEF vars, ticket, device, effects
  <2>2. TypeOK' /\ TicketInv'
    BY <2>1 DEF IInv, TypeOK, TicketInv
  <2>3. AttemptInv' /\ EnteredOnSuccess' /\ OnceUnlessLost'
    BY <2>1 DEF IInv, AttemptInv, EnteredOnSuccess, OnceUnlessLost
  <2> QED
    BY <2>2, <2>3 DEF IInv
<1>2. ASSUME NEW u \in Users, NEW k \in Kinds, Begin(u, k) PROVE IInv'
  BY <1>2, BeginStep
<1>3. ASSUME NEW u \in Users, Step(u) PROVE IInv'
  <2>1. CASE Disable(u)
    BY <2>1, DisableStep
  <2>2. CASE \/ Current(u) \/ IsInstalled(u) \/ Enable(u) \/ SetDefault(u) \/ PutDefault(u)
             \/ WaitReady(u)
    BY <2>2, SwitchingStep
  <2>3. CASE Send(u)
    BY <2>3, SendStep
  <2>4. CASE Hide(u)
    BY <2>4, HideStep
  <2> QED
    BY <1>3, <2>1, <2>2, <2>3, <2>4 DEF Step
<1>4. ASSUME NEW i \in Ops, Straggler(i) PROVE IInv'
  BY <1>4, StragglerStep
<1> QED
  BY <1>1, <1>2, <1>3, <1>4 DEF Next

(***************************************************************************)
(* The invariant holds, whatever number of goroutines share the            *)
(* InputMethod and however often waitReady looks.                          *)
(***************************************************************************)
THEOREM InvariantHolds == Spec => []IInv
  BY InitInv, NextStep, PTL DEF Spec

(***************************************************************************)
(* Every variable keeps its type: waitReady ends after its last poll, and  *)
(* mustBroadcast after its third attempt.                                  *)
(***************************************************************************)
THEOREM TypeCorrect == Spec => []TypeOK
<1>1. IInv => TypeOK
  BY DEF IInv
<1> QED
  BY <1>1, InvariantHolds, PTL

(***************************************************************************)
(* SendKeys, SendAction and ClearText report success only if their input   *)
(* took effect, even while another goroutine switches the keyboard off.    *)
(***************************************************************************)
THEOREM SuccessMeansEntered == Spec => []EnteredOnSuccess
<1>1. IInv => EnteredOnSuccess
  BY DEF IInv
<1> QED
  BY <1>1, InvariantHolds, PTL

(***************************************************************************)
(* Input is entered twice, or entered by an operation that reports an      *)
(* error, only if a broadcast went unanswered; and three times at most.    *)
(***************************************************************************)
THEOREM EnteredOnceUnlessLost == Spec => []OnceUnlessLost
<1>1. IInv => OnceUnlessLost
  BY DEF IInv
<1> QED
  BY <1>1, InvariantHolds, PTL
=============================================================================
