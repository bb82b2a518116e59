----------------------------- MODULE OneTimeToken -----------------------------
(***************************************************************************)
(* What a single-use pairing token promises: it is issued once, and then   *)
(* either withdrawn or given to one holder, each in one atomic step; only  *)
(* that holder is ever told that it was accepted.                          *)
(***************************************************************************)
CONSTANTS Tokens, Holders, NoOne

VARIABLES
    status,   \* [Tokens -> {"none", "open", "cancelled", "redeemed"}]
    holder,   \* [Tokens -> Holders \cup {NoOne}]
    told      \* pairs <<token, holder>> answered with success

vars == <<status, holder, told>>

Init ==
    /\ status = [t \in Tokens |-> "none"]
    /\ holder = [t \in Tokens |-> NoOne]
    /\ told = {}

Issue(t) ==
    /\ status[t] = "none"
    /\ status' = [status EXCEPT ![t] = "open"]
    /\ UNCHANGED <<holder, told>>

Cancel(t) ==
    /\ status[t] = "open"
    /\ status' = [status EXCEPT ![t] = "cancelled"]
    /\ UNCHANGED <<holder, told>>

Redeem(t, h) ==
    /\ status[t] = "open"
    /\ status' = [status EXCEPT ![t] = "redeemed"]
    /\ holder' = [holder EXCEPT ![t] = h]
    /\ UNCHANGED told

Tell(t) ==
    /\ status[t] = "redeemed"
    /\ told' = told \cup {<<t, holder[t]>>}
    /\ UNCHANGED <<status, holder>>

Next ==
    \E t \in Tokens :
        \/ Issue(t)
        \/ Cancel(t)
        \/ \E h \in Holders : Redeem(t, h)
        \/ Tell(t)

Spec == Init /\ [][Next]_vars

=============================================================================
