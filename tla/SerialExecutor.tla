---------------------------- MODULE SerialExecutor ----------------------------
(***************************************************************************)
(* What withSerializedConnectionFor promises its callers, without lanes,   *)
(* channels or a rotation: the function of a call is executed by itself,   *)
(* at most once per call, never after the call was refused, and a caller   *)
(* is told a verdict of the function only after the function gave it.      *)
(***************************************************************************)
CONSTANT Calls
VARIABLES
    status,   \* status[c]: how far the function of c has come
    told      \* told[c]: what the caller was told, "none" while it waits

vars == <<status, told>>

Init ==
    /\ status = [c \in Calls |-> "asked"]
    /\ told = [c \in Calls |-> "none"]

Accept(c) ==
    /\ status[c] = "asked"
    /\ status' = [status EXCEPT ![c] = "accepted"]
    /\ UNCHANGED told

Begin(c) ==
    /\ status[c] = "accepted"
    /\ told[c] = "none"
    /\ \A d \in Calls : status[d] # "active"
    /\ status' = [status EXCEPT ![c] = "active"]
    /\ UNCHANGED told

Settle(c) ==
    /\ status[c] = "active"
    /\ status' = [status EXCEPT ![c] = "settled"]
    /\ UNCHANGED told

(* A call that was accepted is withdrawn without having begun. *)
Withdraw(c) ==
    /\ status[c] = "accepted"
    /\ status' = [status EXCEPT ![c] = "refused"]
    /\ UNCHANGED told

(* A call that was never accepted is turned away. *)
TurnAway(c) ==
    /\ status[c] = "asked"
    /\ status' = [status EXCEPT ![c] = "refused"]
    /\ told' = [told EXCEPT ![c] = "ctx"]

Tell(c) ==
    /\ told[c] = "none"
    /\ \/ status[c] = "settled" /\ \E v \in {"ok", "err"} : told' = [told EXCEPT ![c] = v]
       \/ status[c] # "asked" /\ told' = [told EXCEPT ![c] = "ctx"]
    /\ UNCHANGED status

Renew(c) ==
    /\ status[c] \in {"settled", "refused"}
    /\ told[c] # "none"
    /\ status' = [status EXCEPT ![c] = "asked"]
    /\ told' = [told EXCEPT ![c] = "none"]

Next == \E c \in Calls :
    \/ Accept(c) \/ Begin(c) \/ Settle(c) \/ Withdraw(c)
    \/ TurnAway(c) \/ Tell(c) \/ Renew(c)

Spec == Init /\ [][Next]_vars
=============================================================================
