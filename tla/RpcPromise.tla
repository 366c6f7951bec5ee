----------------------------- MODULE RpcPromise -----------------------------
(***************************************************************************)
(* What a caller of JsonRpcWrapper.Call may rely on, whatever happens to   *)
(* the service underneath.  A UI request (a click, a key press) is not     *)
(* idempotent: one call is carried out on the device at most MaxApply      *)
(* times.  A call that reported success was carried out, and is not        *)
(* carried out again afterwards; one that reported an error may still be   *)
(* carried out after it returned.                                          *)
(***************************************************************************)
EXTENDS Naturals

CONSTANTS Calls,        \* the calls ever made
          MaxApply      \* how often one call may be carried out

VARIABLES phase,        \* phase[c]: "new", "pending", "ok" or "error"
          applied       \* applied[c]: how often c was carried out

vars == <<phase, applied>>

Init == /\ phase = [c \in Calls |-> "new"]
        /\ applied = [c \in Calls |-> 0]

Issue(c) == /\ phase[c] = "new"
            /\ phase' = [phase EXCEPT ![c] = "pending"]
            /\ UNCHANGED applied

CarryOut(c) == /\ applied[c] < MaxApply
               /\ applied' = [applied EXCEPT ![c] = @ + 1]

Apply(c) == /\ phase[c] \in {"pending", "error"}
            /\ CarryOut(c)
            /\ UNCHANGED phase

\* The device may carry the request out and the answer arrive in one step.
Reply(c) == /\ phase[c] = "pending"
            /\ CarryOut(c) \/ UNCHANGED applied
            /\ \E r \in {"ok", "error"} :
                  /\ r = "ok" => applied'[c] > 0
                  /\ phase' = [phase EXCEPT ![c] = r]

Next == \E c \in Calls : Issue(c) \/ Apply(c) \/ Reply(c)

Spec == Init /\ [][Next]_vars
=============================================================================
