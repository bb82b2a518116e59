----------------------------- MODULE CratePairing -----------------------------
(***************************************************************************)
(* Crate pairing at a nakli-hub: a browser registers a secret, may cancel  *)
(* it, and a daemon redeems it for a capability.  The handlers read the    *)
(* row of crate_pairing_tokens, decide, and write it with a guarded UPDATE *)
(* of its own, so two handlers may decide on the same row.                 *)
(***************************************************************************)
EXTENDS Naturals, FiniteSets

CONSTANTS
    Tokens,       \* secrets
    Daemons,      \* daemon public keys
    Caps,         \* ULIDs of capabilities this hub can mint
    Requests,     \* cancel and redeem handlers
    NoOne,        \* the NULL columns
    MaxCrashes

ASSUME TokenAssumption ==
    /\ NoOne \notin Daemons \cup Caps
    /\ MaxCrashes \in Nat

VARIABLES
    row,       \* [Tokens -> row of crate_pairing_tokens]
    expired,   \* tokens whose expires_at has passed
    known,     \* capabilities with a row in grants_known
    minted,    \* capabilities minted
    req,       \* [Requests -> local state]
    answers,   \* success answers sent
    crashes

vars == <<row, expired, known, minted, req, answers, crashes>>

Column(S) == S \cup {NoOne}

\* A row of crate_pairing_tokens, and what a handler keeps in its variables.
Row   == [exists : BOOLEAN, cancelled : BOOLEAN, by : Column(Daemons), cap : Column(Caps)]
Local == [pc : {"idle", "cancel", "cancelled", "check", "update", "remember", "answer"},
          token : Column(Tokens), daemon : Column(Daemons), cap : Column(Caps)]

TypeOK ==
    /\ row \in [Tokens -> Row]
    /\ expired \subseteq Tokens
    /\ known \subseteq Caps
    /\ minted \subseteq Caps
    /\ req \in [Requests -> Local]
    /\ answers \subseteq [op : {"cancel", "redeem"}, token : Tokens,
                          daemon : Column(Daemons), cap : Column(Caps)]
    /\ crashes \in Nat

Idle == [pc |-> "idle", token |-> NoOne, daemon |-> NoOne, cap |-> NoOne]

Init ==
    /\ row = [t \in Tokens |-> [exists |-> FALSE, cancelled |-> FALSE,
                                by |-> NoOne, cap |-> NoOne]]
    /\ expired = {}
    /\ known = {}
    /\ minted = {}
    /\ req = [r \in Requests |-> Idle]
    /\ answers = {}
    /\ crashes = 0

\* The lookup finds a row; what it says of the token are the columns below.
LookupCratePairingToken(t) == row[t].exists

Redeemed(t)   == row[t].by # NoOne
Open(t)       == LookupCratePairingToken(t) /\ ~row[t].cancelled /\ ~Redeemed(t)
Redeemable(t) == Open(t) /\ t \notin expired

\* The INSERT; the secret is the primary key.
CreateCratePairingToken(t) ==
    /\ ~row[t].exists
    /\ row' = [row EXCEPT ![t].exists = TRUE]

Goto(r, label) == req' = [req EXCEPT ![r].pc = label]
Drop(r)        == req' = [req EXCEPT ![r] = Idle]

\* A payload that has not expired is stored; a second intent with the secret
\* violates the primary key, is answered like the first and changes nothing.
handleCratePairingIntent(t) ==
    /\ t \notin expired
    /\ CreateCratePairingToken(t)
    /\ UNCHANGED <<expired, known, minted, req, answers, crashes>>

Expire(t) ==
    /\ row[t].exists
    /\ t \notin expired
    /\ expired' = expired \cup {t}
    /\ UNCHANGED <<row, known, minted, req, answers, crashes>>

-----------------------------------------------------------------------------
(* handleCratePairingCancel and CancelCratePairingToken.                   *)

\* The lookup: redeemed tokens are answered 409, cancelled ones 204 at once.
handleCratePairingCancel(r) ==
    /\ req[r].pc = "idle"
    /\ \E t \in Tokens :
          /\ LookupCratePairingToken(t) /\ ~Redeemed(t)
          /\ req' = [req EXCEPT ![r] = [pc |-> IF row[t].cancelled THEN "cancelled" ELSE "cancel",
                                        token |-> t, daemon |-> NoOne, cap |-> NoOne]]
    /\ UNCHANGED <<row, expired, known, minted, answers, crashes>>

\* Mutant: no guard in the WHERE clause.
CancelUnguarded(r) ==
    LET t == req[r].token IN
    /\ req[r].pc = "cancel"
    /\ row' = [row EXCEPT ![t].cancelled = TRUE]
    /\ Goto(r, "cancelled")
    /\ UNCHANGED <<expired, known, minted, answers, crashes>>

\* UPDATE ... WHERE cancelled_at IS NULL AND redeemed_at IS NULL; the number
\* of rows it changed is not looked at.
CancelCratePairingToken(r) ==
    LET t == req[r].token IN
    /\ req[r].pc = "cancel"
    /\ row' = IF Open(t) THEN [row EXCEPT ![t].cancelled = TRUE] ELSE row
    /\ Goto(r, "cancelled")
    /\ UNCHANGED <<expired, known, minted, answers, crashes>>

\* 204 No Content.
AnswerCancel(r) ==
    /\ req[r].pc = "cancelled"
    /\ answers' = answers \cup {[op |-> "cancel", token |-> req[r].token,
                                 daemon |-> NoOne, cap |-> NoOne]}
    /\ Drop(r)
    /\ UNCHANGED <<row, expired, known, minted, crashes>>

-----------------------------------------------------------------------------
(* handleCratePairingRedeem and RedeemCratePairingToken.                   *)

\* The handler's own lookup, then a fresh capability is minted.
handleCratePairingRedeem(r) ==
    /\ req[r].pc = "idle"
    /\ \E t \in Tokens, d \in Daemons, c \in Caps \ minted :
          /\ Redeemable(t)
          /\ minted' = minted \cup {c}
          /\ req' = [req EXCEPT ![r] = [pc |-> "check", token |-> t, daemon |-> d, cap |-> c]]
    /\ UNCHANGED <<row, expired, known, answers, crashes>>

\* RedeemCratePairingToken looks the row up again (409, 410 or 500).
RecheckToken(r) ==
    /\ req[r].pc = "check"
    /\ IF Redeemable(req[r].token) THEN Goto(r, "update") ELSE Drop(r)
    /\ UNCHANGED <<row, expired, known, minted, answers, crashes>>

\* Mutant: the WHERE clause leaves cancelled_at out.
RedeemDespiteCancel(r) ==
    LET t == req[r].token IN
    /\ req[r].pc = "update"
    /\ IF ~Redeemed(t)
       THEN /\ row' = [row EXCEPT ![t].by = req[r].daemon, ![t].cap = req[r].cap]
            /\ Goto(r, "remember")
       ELSE /\ Drop(r)
            /\ UNCHANGED row
    /\ UNCHANGED <<expired, known, minted, answers, crashes>>

\* Mutant: the number of changed rows is not looked at.
RedeemRowsIgnored(r) ==
    LET t == req[r].token IN
    /\ req[r].pc = "update"
    /\ row' = IF Open(t)
              THEN [row EXCEPT ![t].by = req[r].daemon, ![t].cap = req[r].cap]
              ELSE row
    /\ Goto(r, "remember")
    /\ UNCHANGED <<expired, known, minted, answers, crashes>>

\* UPDATE ... WHERE redeemed_at IS NULL AND cancelled_at IS NULL; no row
\* changed means another handler won (409).
RedeemCratePairingToken(r) ==
    LET t == req[r].token IN
    /\ req[r].pc = "update"
    /\ IF Open(t)
       THEN /\ row' = [row EXCEPT ![t].by = req[r].daemon, ![t].cap = req[r].cap]
            /\ Goto(r, "remember")
       ELSE /\ Drop(r)
            /\ UNCHANGED row
    /\ UNCHANGED <<expired, known, minted, answers, crashes>>

\* The row is read again and the capability recorded; the error of
\* RememberGrant is dropped.
RememberGrant(r) ==
    /\ req[r].pc = "remember"
    /\ known' \in {known, known \cup {req[r].cap}}
    /\ Goto(r, "answer")
    /\ UNCHANGED <<row, expired, minted, answers, crashes>>

AnswerRedeem(r) ==
    /\ req[r].pc = "answer"
    /\ answers' = answers \cup {[op |-> "redeem", token |-> req[r].token,
                                 daemon |-> req[r].daemon, cap |-> req[r].cap]}
    /\ Drop(r)
    /\ UNCHANGED <<row, expired, known, minted, crashes>>

-----------------------------------------------------------------------------

\* A statement fails (the request's context ends, SQLITE_BUSY): an error
\* answer, and the redemption already written stays.
Fail(r) ==
    /\ req[r].pc \in {"cancel", "check", "update", "remember"}
    /\ Drop(r)
    /\ UNCHANGED <<row, expired, known, minted, answers, crashes>>

Crash ==
    /\ crashes < MaxCrashes
    /\ \E r \in Requests : req[r].pc # "idle"
    /\ req' = [r \in Requests |-> Idle]
    /\ crashes' = crashes + 1
    /\ UNCHANGED <<row, expired, known, minted, answers>>

Next ==
    \/ \E t \in Tokens : handleCratePairingIntent(t) \/ Expire(t)
    \/ \E r \in Requests :
          \/ handleCratePairingCancel(r)
          \/ CancelCratePairingToken(r)
          \/ AnswerCancel(r)
          \/ handleCratePairingRedeem(r)
          \/ RecheckToken(r)
          \/ RedeemCratePairingToken(r)
          \/ RememberGrant(r)
          \/ AnswerRedeem(r)
          \/ Fail(r)
    \/ Crash

Spec == Init /\ [][Next]_vars

-----------------------------------------------------------------------------
(* What the handlers keep.                                                 *)

\* A token is never both cancelled and redeemed, though the two handlers may
\* both have found it open.
CancelExcludesRedeem == \A t \in Tokens : ~(row[t].cancelled /\ Redeemed(t))

\* A daemon told it is paired holds the capability the row names: no second
\* daemon gets one, and the capability the browser can revoke is the one in use.
AnswerMatchesRow ==
    \A a \in answers : a.op = "redeem" =>
        row[a.token].by = a.daemon /\ row[a.token].cap = a.cap

Token == INSTANCE OneTimeToken WITH
    Holders <- Daemons \X Caps,
    status <- [t \in Tokens |->
                  IF ~row[t].exists THEN "none"
                  ELSE IF Redeemed(t) THEN "redeemed"
                  ELSE IF row[t].cancelled THEN "cancelled" ELSE "open"],
    holder <- [t \in Tokens |-> IF Redeemed(t) THEN <<row[t].by, row[t].cap>> ELSE NoOne],
    told <- {<<a.token, <<a.daemon, a.cap>>>> : a \in {b \in answers : b.op = "redeem"}}

\* The handlers implement the single-use token ("Mark redeemed (atomic)" of
\* the pairing protocol).
ImplementsOneTimeToken == Token!Spec

=============================================================================
