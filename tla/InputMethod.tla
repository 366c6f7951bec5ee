---------------------------- MODULE InputMethod ----------------------------
(***************************************************************************)
(* Text input through the AdbKeyboard (libs/input.go): switching the input *)
(* method with shell commands whose errors are ignored, waiting until the  *)
(* switch is visible, and broadcasts that are repeated until one of them   *)
(* is answered with result=-1.                                             *)
(*                                                                         *)
(* Every step is one Device.Shell.  Its command may fail, or be quiet for  *)
(* the 3 s after which ExecShell returns without error what it has read;   *)
(* a command whose output nobody read may be carried out, now or later.    *)
(***************************************************************************)
EXTENDS Naturals

CONSTANTS
  Users,      \* goroutines that share the InputMethod
  Kinds,      \* the operations they use
  MaxOps,     \* bound: operations started in a behaviour
  MaxPolls,   \* polls of waitReady (10 in the code)
  Installed,  \* the AdbKeyboard is installed
  LossyLink,  \* a shell command may return an error
  SlowDevice  \* a shell command may be quiet for 3 s

OpKinds == {"keys", "action", "clear", "disable"}

ASSUME InputAssumption ==
  /\ Kinds \subseteq OpKinds
  /\ MaxOps \in Nat
  /\ MaxPolls \in Nat
  /\ {Installed, LossyLink, SlowDevice} \subseteq BOOLEAN

Ops == 1..MaxOps
MaxTries == 3   \* of mustBroadcast

VARIABLES
  pc,        \* pc[u]: the next shell command of user u
  op,        \* op[u]: its current or last operation
  ops,       \* operations started so far
  kind,      \* kind[i]: what operation i is
  result,    \* result[i]: "none", "ok" or "error"
  polls,     \* polls[u]: how often waitReady has looked (0 outside its loop)
  tries,     \* tries[u]: unsuccessful attempts of mustBroadcast (0 outside)
  enabled,   \* the AdbKeyboard is enabled
  current,   \* it is the default input method
  entered,   \* entered[i]: how often the input of i took effect
  late,      \* late[i]: broadcasts of i that may still be carried out
  lost       \* operations with a broadcast whose answer nobody read

ticket  == <<op, ops, kind>>
device  == <<enabled, current>>
effects == <<entered, late, lost>>
vars == <<pc, ticket, result, polls, tries, device, effects>>

Goto(u, label) == pc' = [pc EXCEPT ![u] = label]

Return(u, r) == /\ Goto(u, "idle")
                /\ result' = [result EXCEPT ![op[u]] = r]

Continue(u, label) == Goto(u, label) /\ UNCHANGED result

-----------------------------------------------------------------------------
(* SetInputIME.                                                            *)

Begin(u, k) ==
  /\ pc[u] = "idle"
  /\ ops < MaxOps
  /\ ops' = ops + 1
  /\ op' = [op EXCEPT ![u] = ops + 1]
  /\ kind' = [kind EXCEPT ![ops + 1] = k]
  /\ Goto(u, IF k = "disable" THEN "disable" ELSE "current")
  /\ UNCHANGED <<result, polls, tries, device, effects>>

\* A command that does what it says, or fails; the error is the caller's to see.
Shell(effect, failed) ==
  \/ effect
  \/ (LossyLink \/ SlowDevice) /\ failed

\* ime disable; when it was the default, the system falls back to another one.
Disable(u) ==
  /\ pc[u] = "disable"
  /\ \/ enabled' = FALSE /\ current' = FALSE /\ Return(u, "ok")
     \/ SlowDevice /\ UNCHANGED device /\ Return(u, "ok")
     \/ LossyLink /\ Return(u, "error")
        /\ \/ enabled' = FALSE /\ current' = FALSE
           \/ UNCHANGED device
  /\ UNCHANGED <<ticket, polls, tries, effects>>

\* CurrentIME; output nobody read is no input method's name.
Current(u) ==
  /\ pc[u] = "current"
  /\ Shell(Continue(u, IF current THEN "send" ELSE "list"), Continue(u, "list"))
  /\ UNCHANGED <<ticket, polls, tries, device, effects>>

\* IsInstalled; a list that could not be read is an empty one.
IsInstalled(u) ==
  /\ pc[u] = "list"
  /\ Shell(IF Installed THEN Continue(u, "enable") ELSE Return(u, "error"),
           Return(u, "error"))
  /\ UNCHANGED <<ticket, polls, tries, device, effects>>

\* Three commands whose errors are ignored.
Enable(u) ==
  /\ pc[u] = "enable"
  /\ Shell(enabled' = TRUE, UNCHANGED enabled)
  /\ Continue(u, "set")
  /\ UNCHANGED <<ticket, polls, tries, current, effects>>

SetDefault(u) ==
  /\ pc[u] = "set"
  /\ Shell(current' = (current \/ enabled), UNCHANGED current)
  /\ Continue(u, "put")
  /\ UNCHANGED <<ticket, polls, tries, enabled, effects>>

PutDefault(u) ==
  /\ pc[u] = "put"
  /\ Shell(current' = TRUE, UNCHANGED current)
  /\ Continue(u, "wait")
  /\ UNCHANGED <<ticket, polls, tries, enabled, effects>>

\* A waitReady without a last poll.
WaitReady_Endless(u) ==
  /\ pc[u] = "wait"
  /\ \/ current /\ Continue(u, "send") /\ UNCHANGED polls
     \/ ~current /\ Continue(u, "wait") /\ polls' = [polls EXCEPT ![u] = @ + 1]
  /\ UNCHANGED <<ticket, tries, device, effects>>

\* waitReady.
WaitReady(u) ==
  /\ pc[u] = "wait"
  /\ LET again == Continue(u, "wait") /\ polls' = [polls EXCEPT ![u] = @ + 1]
     IN IF polls[u] = MaxPolls
        THEN Return(u, "error") /\ polls' = [polls EXCEPT ![u] = 0]
        ELSE Shell(IF current THEN Continue(u, "send") /\ polls' = [polls EXCEPT ![u] = 0]
                   ELSE again, again)
  /\ UNCHANGED <<ticket, tries, device, effects>>

-----------------------------------------------------------------------------
(* mustBroadcast.                                                          *)

\* The AdbKeyboard receives broadcasts while it is the enabled input method.
Receives == Installed /\ enabled /\ current

\* The broadcast reaches the keyboard and its result=-1 is read.
Answered(i) ==
  /\ Receives
  /\ entered' = [entered EXCEPT ![i] = @ + 1]
  /\ UNCHANGED <<late, lost>>

\* An error, or output that nobody read: carried out, not carried out, or later.
Unanswered(i) ==
  /\ LossyLink \/ SlowDevice
  /\ lost' = lost \cup {i}
  /\ \/ Receives /\ entered' = [entered EXCEPT ![i] = @ + 1] /\ UNCHANGED late
     \/ late' = [late EXCEPT ![i] = @ + 1] /\ UNCHANGED entered
     \/ UNCHANGED <<entered, late>>

\* result=0: there was nobody to receive it.
Unheard == ~Receives /\ UNCHANGED effects

\* SendKeys goes on to hide the keyboard.
Broadcasted(u) == IF kind[op[u]] = "keys" THEN Continue(u, "hide") ELSE Return(u, "ok")

\* mustBroadcast returns, and its caller goes on with next.
Leave(u, next) == next /\ tries' = [tries EXCEPT ![u] = 0]

\* Another attempt, or the last error.
Again(u, last) == IF tries[u] + 1 < MaxTries
                  THEN /\ tries' = [tries EXCEPT ![u] = @ + 1]
                       /\ UNCHANGED <<pc, result>>
                  ELSE Leave(u, last)

\* Taking any answer for result=-1.
Send_AnyResult(u) ==
  /\ pc[u] = "send"
  /\ \/ (Answered(op[u]) \/ Unheard) /\ Leave(u, Broadcasted(u))
     \/ Unanswered(op[u]) /\ Again(u, Return(u, "error"))
  /\ UNCHANGED <<ticket, polls, device>>

\* Forgetting to leave the loop after a success.
Send_NoReturn(u) ==
  /\ pc[u] = "send"
  /\ \/ Answered(op[u]) /\ Again(u, Broadcasted(u))
     \/ (Unanswered(op[u]) \/ Unheard) /\ Again(u, Return(u, "error"))
  /\ UNCHANGED <<ticket, polls, device>>

Send(u) ==
  /\ pc[u] = "send"
  /\ \/ Answered(op[u]) /\ Leave(u, Broadcasted(u))
     \/ (Unanswered(op[u]) \/ Unheard) /\ Again(u, Return(u, "error"))
  /\ UNCHANGED <<ticket, polls, device>>

\* Hiding the keyboard enters nothing, and its error is ignored.
Hide(u) ==
  /\ pc[u] = "hide"
  /\ \/ Receives /\ Leave(u, Return(u, "ok"))
     \/ (~Receives \/ LossyLink \/ SlowDevice) /\ Again(u, Return(u, "ok"))
  /\ UNCHANGED <<ticket, polls, device, effects>>

\* A broadcast nobody waits for is carried out after all, or dropped.
Straggler(i) ==
  /\ late[i] > 0
  /\ late' = [late EXCEPT ![i] = @ - 1]
  /\ entered' \in {entered} \cup (IF Receives THEN {[entered EXCEPT ![i] = @ + 1]} ELSE {})
  /\ UNCHANGED <<pc, ticket, result, polls, tries, device, lost>>

Init ==
  /\ pc = [u \in Users |-> "idle"]
  /\ op = [u \in Users |-> 0]
  /\ ops = 0
  /\ kind = [i \in 0..MaxOps |-> "none"]
  /\ result = [i \in Ops |-> "none"]
  /\ polls = [u \in Users |-> 0]
  /\ tries = [u \in Users |-> 0]
  /\ enabled \in {FALSE, Installed}
  /\ current \in {FALSE, enabled}
  /\ entered = [i \in Ops |-> 0]
  /\ late = [i \in Ops |-> 0]
  /\ lost = {}

Step(u) == \/ Disable(u) \/ Current(u) \/ IsInstalled(u) \/ Enable(u) \/ SetDefault(u)
           \/ PutDefault(u) \/ WaitReady(u) \/ Send(u) \/ Hide(u)

Next == \/ \E u \in Users : (\E k \in Kinds : Begin(u, k)) \/ Step(u)
        \/ \E i \in Ops : Straggler(i)

Spec == Init /\ [][Next]_vars

-----------------------------------------------------------------------------
(* Properties.                                                             *)

\* Every variable keeps its type: waitReady looks MaxPolls times at most, and a
\* broadcast is sent at most three times.
TypeOK ==
  /\ pc \in [Users -> {"idle", "disable", "current", "list", "enable", "set", "put",
                       "wait", "send", "hide"}]
  /\ op \in [Users -> 0..MaxOps]
  /\ ops \in 0..MaxOps
  /\ kind \in [0..MaxOps -> OpKinds \cup {"none"}]
  /\ result \in [Ops -> {"none", "ok", "error"}]
  /\ polls \in [Users -> 0..MaxPolls]
  /\ tries \in [Users -> 0..MaxTries - 1]
  /\ {enabled, current} \subseteq BOOLEAN
  /\ entered \in [Ops -> 0..MaxTries]
  /\ late \in [Ops -> 0..MaxTries]
  /\ lost \subseteq Ops

\* SendKeys, SendAction and ClearText report success only if their input took
\* effect, also when another goroutine switches the keyboard off meanwhile.
EnteredOnSuccess ==
  \A i \in Ops : kind[i] # "disable" /\ result[i] = "ok" => entered[i] > 0

\* Input takes effect twice, or takes effect although the operation reports an
\* error, only if the answer to one of its broadcasts was lost; and at most three
\* times even then, stragglers included.
OnceUnlessLost ==
  \A i \in Ops :
    /\ entered[i] + late[i] > 1 => i \in lost
    /\ result[i] = "error" /\ entered[i] > 0 => i \in lost
    /\ entered[i] + late[i] <= MaxTries

-----------------------------------------------------------------------------
(* The inductive invariant that the properties above follow from.          *)

Switching == {"current", "list", "enable", "set", "put", "wait"}

\* Operation numbers are handed out once, and what has no number yet is fresh.
TicketInv ==
  /\ \A u \in Users : op[u] <= ops
  /\ \A u, v \in Users : u # v /\ op[u] = op[v] => op[u] = 0
  /\ \A u \in Users : pc[u] # "idle" => op[u] # 0 /\ result[op[u]] = "none"
  /\ \A u \in Users : pc[u] = "disable" => kind[op[u]] = "disable"
  /\ \A u \in Users : pc[u] \in Switching \cup {"send", "hide"} => kind[op[u]] # "disable"
  /\ \A i \in Ops : i > ops => result[i] = "none" /\ entered[i] = 0 /\ late[i] = 0

\* Every attempt adds at most one input, and none is left out without a loss.
AttemptInv ==
  /\ \A u \in Users : pc[u] # "idle" /\ pc[u] \notin {"send", "hide"} =>
        tries[u] = 0 /\ entered[op[u]] + late[op[u]] = 0
  /\ \A u \in Users : pc[u] = "idle" => tries[u] = 0
  /\ \A u \in Users : pc[u] = "send" =>
        /\ entered[op[u]] + late[op[u]] <= tries[u]
        /\ entered[op[u]] + late[op[u]] > 0 => op[u] \in lost
  /\ \A u \in Users : pc[u] = "hide" => entered[op[u]] > 0
  /\ \A i \in Ops : result[i] = "error" /\ entered[i] + late[i] > 0 => i \in lost

IInv == TypeOK /\ TicketInv /\ AttemptInv /\ EnteredOnSuccess /\ OnceUnlessLost
=============================================================================
