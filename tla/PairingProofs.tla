---------------------------- MODULE PairingProofs ----------------------------
(***************************************************************************)
(* Theorems about the pairing protocols, for every set of tokens, parties  *)
(* and handlers; each module has names of its own.  CratePairing: what its *)
(* answers promise, and that it implements OneTimeToken although lookup    *)
(* and UPDATE are separate steps.  DevicePairing: enrolled devices are     *)
(* known, and two devices share a token only when their handlers           *)
(* overlapped between check and UPDATE.  WorkerPairing: the Durable Object *)
(* gives out one capability per token, whatever happens to the records in  *)
(* the key-value store, and without a race a confirmed cancellation holds. *)
(***************************************************************************)
EXTENDS CratePairing, DevicePairing, WorkerPairing, FiniteSetTheorems, TLAPS

\* What a handler works on: a token and, once it redeems, a daemon and a
\* capability.
InputsKnown ==
    \A r \in Requests :
        /\ req[r].pc # "idle" => req[r].token \in Tokens
        /\ req[r].pc \in {"check", "update", "remember", "answer"} =>
              req[r].daemon \in Daemons /\ req[r].cap \in Caps

\* A handler past its UPDATE is the one the row names; a second one never
\* gets there.
WinnersHold ==
    \A r \in Requests :
        req[r].pc \in {"remember", "answer"} =>
            /\ row[req[r].token].by = req[r].daemon
            /\ row[req[r].token].cap = req[r].cap

\* Only a row that was inserted is cancelled or redeemed, and a redeemed one
\* names a daemon and a capability.
RowsMatch ==
    \A t \in Tokens :
        /\ row[t].cancelled \/ Redeemed(t) => row[t].exists
        /\ Redeemed(t) => row[t].by \in Daemons /\ row[t].cap \in Caps

\* A success answer to a redemption names the daemon that asked.
AnswersKnown == \A a \in answers : a.op = "redeem" => a.daemon \in Daemons

IInv ==
    /\ TypeOK
    /\ InputsKnown
    /\ RowsMatch
    /\ CancelExcludesRedeem
    /\ WinnersHold
    /\ AnswersKnown
    /\ AnswerMatchesRow

-----------------------------------------------------------------------------
(* Steps.                                                                  *)

Handler(r) ==
    \/ handleCratePairingCancel(r)
    \/ CancelCratePairingToken(r)
    \/ AnswerCancel(r)
    \/ handleCratePairingRedeem(r)
    \/ RecheckToken(r)
    \/ RedeemCratePairingToken(r)
    \/ RememberGrant(r)
    \/ AnswerRedeem(r)
    \/ Fail(r)

\* A step of a handler leaves the local state of the others alone.
LEMMA HandlerFrame ==
    ASSUME TypeOK, NEW r \in Requests, Handler(r), NEW q \in Requests \ {r}
    PROVE  req'[q] = req[q]
  BY DEF TypeOK, Handler, handleCratePairingCancel, CancelCratePairingToken, AnswerCancel,
         handleCratePairingRedeem, RecheckToken, RedeemCratePairingToken, RememberGrant,
         AnswerRedeem, Fail, Goto, Drop

\* What a step does to its handler: back to idle, a start, or on to the next
\* statement with the same inputs.
LocalStep(r) ==
    \/ req' = [req EXCEPT ![r] = Idle]
    \/ \E t \in Tokens, pc \in {"cancel", "cancelled"} :
          req' = [req EXCEPT ![r] = [pc |-> pc, token |-> t, daemon |-> NoOne, cap |-> NoOne]]
    \/ \E t \in Tokens, d \in Daemons, c \in Caps :
          req' = [req EXCEPT ![r] = [pc |-> "check", token |-> t, daemon |-> d, cap |-> c]]
    \/ req[r].pc = "cancel" /\ Goto(r, "cancelled")
    \/ req[r].pc = "check" /\ Goto(r, "update")
    \/ req[r].pc = "update" /\ Open(req[r].token) /\ Goto(r, "remember")
    \/ req[r].pc = "remember" /\ Goto(r, "answer")

LEMMA LocalSteps ==
    ASSUME NEW r \in Requests, Handler(r)
    PROVE  LocalStep(r)
<1>1. CASE handleCratePairingCancel(r)
  <2>1. PICK t \in Tokens :
           req' = [req EXCEPT ![r] =
                      [pc |-> IF row[t].cancelled THEN "cancelled" ELSE "cancel",
                       token |-> t, daemon |-> NoOne, cap |-> NoOne]]
    BY <1>1 DEF handleCratePairingCancel
  <2>2. CASE row[t].cancelled
    BY <2>1, <2>2 DEF LocalStep
  <2>3. CASE ~row[t].cancelled
    BY <2>1, <2>3 DEF LocalStep
  <2>4. QED
    BY <2>2, <2>3
<1>2. CASE handleCratePairingRedeem(r)
  BY <1>2 DEF handleCratePairingRedeem, LocalStep
<1>3. CASE CancelCratePairingToken(r) \/ AnswerCancel(r) \/ RecheckToken(r)
  BY <1>3 DEF CancelCratePairingToken, AnswerCancel, RecheckToken, LocalStep, Drop
<1>4. CASE RedeemCratePairingToken(r) \/ RememberGrant(r) \/ AnswerRedeem(r) \/ Fail(r)
  BY <1>4 DEF RedeemCratePairingToken, RememberGrant, AnswerRedeem, Fail, LocalStep, Drop
<1>5. QED
  BY <1>1, <1>2, <1>3, <1>4 DEF Handler

\* The row of a token changes in three ways only: inserted, cancelled while
\* open, redeemed while open.
RowStep(t) ==
    \/ row'[t] = row[t]
    \/ ~row[t].exists /\ row'[t] = [row[t] EXCEPT !.exists = TRUE]
    \/ Open(t) /\ row'[t] = [row[t] EXCEPT !.cancelled = TRUE]
    \/ \E d \in Daemons, c \in Caps :
          Open(t) /\ row'[t] = [row[t] EXCEPT !.by = d, !.cap = c]

LEMMA RowSteps ==
    ASSUME IInv, [Next]_vars, NEW t \in Tokens
    PROVE  RowStep(t)
<1>1. row \in [Tokens -> Row] /\ row[t] \in Row
  BY DEF IInv, TypeOK
<1>2. CASE \E u \in Tokens : handleCratePairingIntent(u)
  <2> PICK u \in Tokens : handleCratePairingIntent(u)
    BY <1>2
  <2>1. ~row[u].exists /\ row' = [row EXCEPT ![u].exists = TRUE]
    BY DEF handleCratePairingIntent, CreateCratePairingToken
  <2>2. QED
    BY <1>1, <2>1 DEF RowStep
<1>3. CASE \E r \in Requests : CancelCratePairingToken(r)
  <2> PICK r \in Requests : CancelCratePairingToken(r)
    BY <1>3
  <2>1. req[r].token \in Tokens
    BY DEF CancelCratePairingToken, IInv, InputsKnown
  <2>2. row' = IF Open(req[r].token) THEN [row EXCEPT ![req[r].token].cancelled = TRUE] ELSE row
    BY DEF CancelCratePairingToken
  <2>3. QED
    BY <1>1, <2>1, <2>2 DEF RowStep
<1>4. CASE \E r \in Requests : RedeemCratePairingToken(r)
  <2> PICK r \in Requests : RedeemCratePairingToken(r)
    BY <1>4
  <2> DEFINE u == req[r].token
             d == req[r].daemon
             c == req[r].cap
  <2>1. u \in Tokens /\ d \in Daemons /\ c \in Caps
    BY DEF RedeemCratePairingToken, IInv, InputsKnown
  <2>2. \/ Open(u) /\ row' = [row EXCEPT ![u].by = d, ![u].cap = c]
        \/ row' = row
    BY DEF RedeemCratePairingToken
  <2>3. CASE Open(u) /\ t = u /\ row' = [row EXCEPT ![u].by = d, ![u].cap = c]
    <3>1. row'[t] = [row[t] EXCEPT !.by = d, !.cap = c]
      BY <1>1, <2>3
    <3>2. QED
      BY <2>1, <2>3, <3>1 DEF RowStep
  <2>4. CASE t # u \/ row' = row
    <3>1. row'[t] = row[t]
      BY <1>1, <2>2, <2>4
    <3>2. QED
      BY <3>1 DEF RowStep
  <2>5. QED
    BY <2>2, <2>3, <2>4
<1>5. CASE row' = row
  BY <1>5 DEF RowStep
<1>6. QED
  BY <1>2, <1>3, <1>4, <1>5
     DEF Next, vars, Expire, handleCratePairingCancel, AnswerCancel,
         handleCratePairingRedeem,
         RecheckToken, RememberGrant, AnswerRedeem, Fail, Crash

\* A redeemed row never changes again.
LEMMA RedemptionIsFinal ==
    ASSUME IInv, [Next]_vars, NEW t \in Tokens, Redeemed(t)
    PROVE  row'[t] = row[t]
<1>1. row[t].exists /\ ~Open(t)
  BY DEF IInv, RowsMatch, Open, LookupCratePairingToken
<1>2. QED
  BY <1>1, RowSteps DEF RowStep

-----------------------------------------------------------------------------
(* The inductive invariant.                                                *)

LEMMA IdleType == Idle \in Local
  BY DEF Idle, Local, Column

\* A step keeps the type of its handler's variables.
LEMMA LocalType ==
    ASSUME TypeOK, NEW r \in Requests, Handler(r)
    PROVE  req' \in [Requests -> Local]
<1>1. req \in [Requests -> Local]
  BY DEF TypeOK
<1>2. \A label \in {"cancelled", "update", "remember", "answer"} :
          [req[r] EXCEPT !.pc = label] \in Local
  BY <1>1 DEF Local
<1>3. \A t \in Tokens, pc \in {"cancel", "cancelled"} :
          [pc |-> pc, token |-> t, daemon |-> NoOne, cap |-> NoOne] \in Local
  BY DEF Local, Column
<1>4. \A t \in Tokens, d \in Daemons, c \in Caps :
          [pc |-> "check", token |-> t, daemon |-> d, cap |-> c] \in Local
  BY DEF Local, Column
<1>5. \E q \in Local : req' = [req EXCEPT ![r] = q]
  BY <1>2, <1>3, <1>4, IdleType, LocalSteps DEF LocalStep, Goto
<1>6. QED
  BY <1>1, <1>5

\* An UPDATE keeps the type of the table.
LEMMA RowType ==
    ASSUME IInv, NEW r \in Requests,
           CancelCratePairingToken(r) \/ RedeemCratePairingToken(r)
    PROVE  row' \in [Tokens -> Row]
<1> DEFINE t == req[r].token
           d == req[r].daemon
           c == req[r].cap
<1>1. t \in Tokens /\ row \in [Tokens -> Row]
  BY DEF CancelCratePairingToken, RedeemCratePairingToken, IInv, InputsKnown, TypeOK
<1>2. CASE CancelCratePairingToken(r)
  <2>1. [row[t] EXCEPT !.cancelled = TRUE] \in Row
    BY <1>1 DEF Row
  <2>2. row' = [row EXCEPT ![t] = [row[t] EXCEPT !.cancelled = TRUE]] \/ row' = row
    BY <1>2 DEF CancelCratePairingToken
  <2>3. QED
    BY <1>1, <2>1, <2>2
<1>3. CASE RedeemCratePairingToken(r)
  <2>1. d \in Daemons /\ c \in Caps
    BY <1>3 DEF RedeemCratePairingToken, IInv, InputsKnown
  <2>2. [row[t] EXCEPT !.by = d, !.cap = c] \in Row
    BY <1>1, <2>1 DEF Row, Column
  <2>3. \/ row' = [row EXCEPT ![t].by = d, ![t].cap = c]
        \/ row' = row
    BY <1>3 DEF RedeemCratePairingToken
  <2>4. [row EXCEPT ![t].by = d, ![t].cap = c]
           = [row EXCEPT ![t] = [row[t] EXCEPT !.by = d, !.cap = c]]
    BY <1>1
  <2>5. QED
    BY <1>1, <2>2, <2>3, <2>4
<1>4. QED
  BY <1>2, <1>3

LEMMA TypeStep ==
    ASSUME IInv, [Next]_vars
    PROVE  TypeOK'
<1>1. TypeOK
  BY DEF IInv
<1>2. CASE \E t \in Tokens : handleCratePairingIntent(t) \/ Expire(t)
  <2> PICK t \in Tokens : handleCratePairingIntent(t) \/ Expire(t)
    BY <1>2
  <2>1. [row[t] EXCEPT !.exists = TRUE] \in Row
    BY <1>1 DEF TypeOK, Row
  <2>2. row' \in [Tokens -> Row]
    BY <1>1, <2>1 DEF TypeOK, handleCratePairingIntent, CreateCratePairingToken, Expire
  <2>3. QED
    BY <1>1, <2>2 DEF TypeOK, handleCratePairingIntent, CreateCratePairingToken, Expire
<1>3. ASSUME NEW r \in Requests, Handler(r)
      PROVE  TypeOK'
  <2>0. req' \in [Requests -> Local]
    BY <1>1, <1>3, LocalType
  <2>1. CASE handleCratePairingCancel(r) \/ handleCratePairingRedeem(r)
    BY <1>1, <2>1, <2>0 DEF TypeOK, handleCratePairingCancel, handleCratePairingRedeem
  <2>2. CASE CancelCratePairingToken(r)
    BY <1>1, <2>2, RowType, <2>0 DEF TypeOK, CancelCratePairingToken
  <2>3. CASE RedeemCratePairingToken(r)
    BY <1>1, <2>3, RowType, <2>0 DEF TypeOK, RedeemCratePairingToken
  <2>4. CASE AnswerCancel(r)
    <3>1. req[r].token \in Tokens
      BY <2>4 DEF AnswerCancel, IInv, InputsKnown
    <3>2. [op |-> "cancel", token |-> req[r].token, daemon |-> NoOne, cap |-> NoOne]
             \in [op : {"cancel", "redeem"}, token : Tokens,
                  daemon : Column(Daemons), cap : Column(Caps)]
      BY <3>1 DEF Column
    <3>3. QED
      BY <1>1, <2>4, <3>2, <2>0 DEF TypeOK, AnswerCancel
  <2>5. CASE AnswerRedeem(r)
    <3>1. req[r].token \in Tokens /\ req[r].daemon \in Daemons /\ req[r].cap \in Caps
      BY <2>5 DEF AnswerRedeem, IInv, InputsKnown
    <3>2. [op |-> "redeem", token |-> req[r].token,
           daemon |-> req[r].daemon, cap |-> req[r].cap]
             \in [op : {"cancel", "redeem"}, token : Tokens,
                  daemon : Column(Daemons), cap : Column(Caps)]
      BY <3>1 DEF Column
    <3>3. QED
      BY <1>1, <2>5, <3>2, <2>0 DEF TypeOK, AnswerRedeem
  <2>6. CASE RecheckToken(r) \/ Fail(r)
    BY <1>1, <2>6, <2>0 DEF TypeOK, RecheckToken, Fail
  <2>7. CASE RememberGrant(r)
    BY <1>1, <2>7, <2>0 DEF TypeOK, RememberGrant, IInv, InputsKnown
  <2>8. QED
    BY <1>3, <2>1, <2>2, <2>3, <2>4, <2>5, <2>6, <2>7 DEF Handler
<1>4. CASE Crash
  BY <1>1, <1>4, IdleType DEF TypeOK, Crash
<1>5. CASE UNCHANGED vars
  BY <1>1, <1>5 DEF TypeOK, vars
<1>6. QED
  BY <1>2, <1>3, <1>4, <1>5 DEF Next, Handler

\* A handler's inputs are fixed when it starts.
LEMMA InputsStep ==
    ASSUME IInv, [Next]_vars
    PROVE  InputsKnown'
<1>1. TypeOK /\ InputsKnown
  BY DEF IInv
<1>2. ASSUME NEW r \in Requests, Handler(r)
      PROVE  InputsKnown'
  <2>1. req \in [Requests -> Local] /\ req[r] \in Local
    BY <1>1 DEF TypeOK
  <2>2. /\ req'[r].pc # "idle" => req'[r].token \in Tokens
        /\ req'[r].pc \in {"check", "update", "remember", "answer"} =>
              req'[r].daemon \in Daemons /\ req'[r].cap \in Caps
    BY <1>1, <1>2, <2>1, LocalSteps DEF LocalStep, InputsKnown, Idle, Local, Goto
  <2>3. QED
    BY <1>1, <1>2, <2>2, HandlerFrame DEF InputsKnown
<1>3. CASE Crash
  BY <1>3 DEF Crash, InputsKnown, Idle
<1>4. CASE req' = req
  BY <1>1, <1>4 DEF InputsKnown
<1>5. QED
  BY <1>2, <1>3, <1>4 DEF Next, Handler, vars, handleCratePairingIntent,
                          CreateCratePairingToken, Expire

\* The UPDATE's WHERE clause keeps cancellation and redemption apart.
LEMMA RowsStep ==
    ASSUME IInv, [Next]_vars
    PROVE  RowsMatch' /\ CancelExcludesRedeem'
<1> SUFFICES ASSUME NEW t \in Tokens
             PROVE  /\ row'[t].cancelled \/ row'[t].by # NoOne => row'[t].exists
                    /\ row'[t].by # NoOne => row'[t].by \in Daemons /\ row'[t].cap \in Caps
                    /\ ~(row'[t].cancelled /\ row'[t].by # NoOne)
  BY DEF RowsMatch, CancelExcludesRedeem, Redeemed
<1>1. RowStep(t)
  BY RowSteps
<1>2. row[t] \in Row
  BY DEF IInv, TypeOK
<1>3. /\ row[t].cancelled \/ row[t].by # NoOne => row[t].exists
      /\ row[t].by # NoOne => row[t].by \in Daemons /\ row[t].cap \in Caps
      /\ ~(row[t].cancelled /\ row[t].by # NoOne)
  BY DEF IInv, RowsMatch, CancelExcludesRedeem, Redeemed
<1>4. QED
  BY <1>1, <1>2, <1>3 DEF RowStep, Open, LookupCratePairingToken, Redeemed, Row

\* Whoever the UPDATE let through stays the one the row names.
LEMMA WinnersStep ==
    ASSUME IInv, [Next]_vars
    PROVE  WinnersHold'
<1> SUFFICES ASSUME NEW q \in Requests, req'[q].pc \in {"remember", "answer"}
             PROVE  /\ row'[req'[q].token].by = req'[q].daemon
                    /\ row'[req'[q].token].cap = req'[q].cap
  BY DEF WinnersHold
<1>0. req \in [Requests -> Local] /\ req[q] \in Local /\ row \in [Tokens -> Row]
  BY DEF IInv, TypeOK
<1>1. CASE /\ req'[q].token = req[q].token /\ req'[q].daemon = req[q].daemon
           /\ req'[q].cap = req[q].cap
           /\ req[q].pc \in {"remember", "answer"}
  <2>1. /\ req[q].token \in Tokens /\ req[q].daemon \in Daemons
        /\ row[req[q].token].by = req[q].daemon
        /\ row[req[q].token].cap = req[q].cap
    BY <1>1 DEF IInv, WinnersHold, InputsKnown
  <2>2. Redeemed(req[q].token)
    BY <2>1, TokenAssumption DEF Redeemed
  <2>3. QED
    BY <1>1, <2>1, <2>2, RedemptionIsFinal
<1>2. CASE RedeemCratePairingToken(q)
  <2>1. req[q].pc = "update" /\ req[q].token \in Tokens
    BY <1>2 DEF RedeemCratePairingToken, IInv, InputsKnown
  <2>2. req' = [req EXCEPT ![q].pc = "remember"]
    BY <1>0, <1>2 DEF RedeemCratePairingToken, Goto, Drop, Idle
  <2>3. row' = [row EXCEPT ![req[q].token].by = req[q].daemon,
                           ![req[q].token].cap = req[q].cap]
    BY <1>0, <1>2, <2>2 DEF RedeemCratePairingToken, Goto, Drop, Idle
  <2>4. req'[q].token = req[q].token /\ req'[q].daemon = req[q].daemon
        /\ req'[q].cap = req[q].cap
    BY <1>0, <2>2 DEF Local
  <2>5. QED
    BY <1>0, <2>1, <2>3, <2>4 DEF Row
<1>3. CASE Crash \/ req' = req
  BY <1>1, <1>3 DEF Crash, Idle
<1>4. CASE \E r \in Requests : Handler(r) /\ r # q
  BY <1>1, <1>4, HandlerFrame DEF IInv
<1>5. CASE Handler(q) /\ ~RedeemCratePairingToken(q)
  <2>1. req[q].pc # "update" \/ req'[q] = Idle
    BY <1>0, <1>5 DEF Handler, handleCratePairingCancel, CancelCratePairingToken,
                      AnswerCancel,
       handleCratePairingRedeem, RecheckToken, RememberGrant, AnswerRedeem, Fail, Drop
  <2>2. req[q].pc = "remember" /\ Goto(q, "answer")
    BY <1>0, <1>5, <2>1, LocalSteps DEF LocalStep, Goto, Idle, Local
  <2>3. QED
    BY <1>0, <1>1, <2>2 DEF Goto, Local
<1>6. QED
  BY <1>2, <1>3, <1>4, <1>5 DEF Next, Handler, vars, handleCratePairingIntent,
                                CreateCratePairingToken, Expire

\* An answer names what the row names when it is sent, for good.
LEMMA AnswersStep ==
    ASSUME IInv, [Next]_vars
    PROVE  AnswersKnown' /\ AnswerMatchesRow'
<1> SUFFICES ASSUME NEW a \in answers', a.op = "redeem"
             PROVE  /\ a.daemon \in Daemons
                    /\ row'[a.token].by = a.daemon /\ row'[a.token].cap = a.cap
  BY DEF AnswersKnown, AnswerMatchesRow
<1>1. CASE a \in answers
  <2>1. /\ a.token \in Tokens /\ a.daemon \in Daemons
        /\ row[a.token].by = a.daemon /\ row[a.token].cap = a.cap
    BY <1>1 DEF IInv, TypeOK, AnswersKnown, AnswerMatchesRow
  <2>2. Redeemed(a.token)
    BY <2>1, TokenAssumption DEF Redeemed
  <2>3. QED
    BY <2>1, <2>2, RedemptionIsFinal
<1>2. CASE a \notin answers
  <2>0. ASSUME NEW r \in Requests, AnswerCancel(r)
        PROVE  FALSE
    BY <1>2, <2>0 DEF AnswerCancel
  <2>1. PICK r \in Requests : AnswerRedeem(r)
    BY <1>2, <2>0 DEF Next, vars, handleCratePairingIntent, CreateCratePairingToken, Expire,
                handleCratePairingCancel, CancelCratePairingToken,
                   handleCratePairingRedeem, RecheckToken,
                RedeemCratePairingToken, RememberGrant, Fail, Crash
  <2>2. /\ a = [op |-> "redeem", token |-> req[r].token,
               daemon |-> req[r].daemon, cap |-> req[r].cap]
        /\ req[r].pc = "answer" /\ row' = row
    BY <1>2, <2>1 DEF AnswerRedeem
  <2>3. QED
    BY <2>2 DEF IInv, InputsKnown, WinnersHold
<1>3. QED
  BY <1>1, <1>2

LEMMA Initially == Init => IInv
<1> SUFFICES ASSUME Init PROVE IInv
  OBVIOUS
<1>1. [exists |-> FALSE, cancelled |-> FALSE, by |-> NoOne, cap |-> NoOne] \in Row
  BY DEF Row, Column
<1>2. TypeOK
  BY <1>1, IdleType, TokenAssumption DEF Init, TypeOK
<1>3. QED
  BY <1>2 DEF Init, IInv, InputsKnown, RowsMatch, CancelExcludesRedeem, WinnersHold,
              AnswersKnown, AnswerMatchesRow, Redeemed, Idle

LEMMA Inductive == IInv /\ [Next]_vars => IInv'
  BY TypeStep, InputsStep, RowsStep, WinnersStep, AnswersStep DEF IInv

-----------------------------------------------------------------------------
(* Theorems.                                                               *)

\* The inductive invariant of crate pairing.
THEOREM Invariance == Spec => []IInv
  BY Initially, Inductive, PTL DEF Spec

\* Rows, handlers and answers are well typed.
THEOREM TypeCorrect == Spec => []TypeOK
  BY Invariance, PTL DEF IInv

\* The two guarded UPDATEs never both change a row, however many daemons and
\* cancellations found it open.
THEOREM NeverBoth == Spec => []CancelExcludesRedeem
  BY Invariance, PTL DEF IInv

\* Every daemon that was told it is paired is the one in the row, with the
\* capability in the row: one daemon per secret.
THEOREM AnswersTrue == Spec => []AnswerMatchesRow
  BY Invariance, PTL DEF IInv

-----------------------------------------------------------------------------
(* The handlers implement the single-use token.                            *)

\* Every step of a handler is a step of the single-use token or none.
LEMMA TokenStep ==
    ASSUME IInv, IInv', [Next]_vars
    PROVE  [Token!Next]_(Token!vars)
<1> DEFINE Status(t) == IF ~row[t].exists THEN "none"
                        ELSE IF Redeemed(t) THEN "redeemed"
                        ELSE IF row[t].cancelled THEN "cancelled" ELSE "open"
           Holder(t) == IF Redeemed(t) THEN <<row[t].by, row[t].cap>> ELSE NoOne
           Told == {<<a.token, <<a.daemon, a.cap>>>> : a \in {b \in answers : b.op = "redeem"}}
           status == [t \in Tokens |-> Status(t)]
           holder == [t \in Tokens |-> Holder(t)]
<1> USE DEF Redeemed
<1>0. /\ row \in [Tokens -> Row] /\ row' \in [Tokens -> Row]
      /\ \A t \in Tokens : row[t] \in Row /\ row'[t] \in Row
  BY DEF IInv, TypeOK
<1>1. ASSUME NEW u \in Tokens, handleCratePairingIntent(u)
      PROVE  Token!Issue(u)
  <2>1. /\ ~row[u].exists /\ row' = [row EXCEPT ![u].exists = TRUE]
        /\ answers' = answers
    BY <1>1 DEF handleCratePairingIntent, CreateCratePairingToken
  <2>2. ~row[u].cancelled /\ row[u].by = NoOne
    BY <2>1 DEF IInv, RowsMatch
  <2>3. /\ row'[u].exists /\ ~row'[u].cancelled /\ row'[u].by = NoOne
        /\ \A t \in Tokens \ {u} : row'[t] = row[t]
    BY <1>0, <2>1, <2>2 DEF Row
  <2>4. status[u] = "none" /\ status' = [status EXCEPT ![u] = "open"]
    BY <2>1, <2>3
  <2>5. holder' = holder
    BY <2>2, <2>3
  <2>6. QED
    BY <2>1, <2>4, <2>5 DEF Token!Issue
<1>2. ASSUME NEW r \in Requests, CancelCratePairingToken(r),
             NEW u \in Tokens, u = req[r].token, Open(u)
      PROVE  Token!Cancel(u)
  <2>1. /\ u \in Tokens /\ row' = [row EXCEPT ![u].cancelled = TRUE]
        /\ answers' = answers
    BY <1>2 DEF CancelCratePairingToken, IInv, InputsKnown
  <2>2. row[u].exists /\ ~row[u].cancelled /\ row[u].by = NoOne
    BY <1>2 DEF Open, LookupCratePairingToken
  <2>3. /\ row'[u].exists /\ row'[u].cancelled /\ row'[u].by = NoOne
        /\ \A t \in Tokens \ {u} : row'[t] = row[t]
    BY <1>0, <2>1, <2>2 DEF Row
  <2>4. status[u] = "open" /\ status' = [status EXCEPT ![u] = "cancelled"]
    BY <2>1, <2>2, <2>3
  <2>5. holder' = holder
    BY <2>2, <2>3
  <2>6. QED
    BY <2>1, <2>4, <2>5 DEF Token!Cancel
<1>3. ASSUME NEW r \in Requests, RedeemCratePairingToken(r),
             NEW u \in Tokens, u = req[r].token, Open(u),
             NEW d \in Daemons, d = req[r].daemon, NEW c \in Caps, c = req[r].cap
      PROVE  Token!Redeem(u, <<d, c>>)
  <2>1. /\ u \in Tokens /\ row' = [row EXCEPT ![u].by = d, ![u].cap = c]
        /\ answers' = answers /\ d \in Daemons
    BY <1>3 DEF RedeemCratePairingToken, IInv, InputsKnown
  <2>2. row[u].exists /\ ~row[u].cancelled /\ row[u].by = NoOne /\ d # NoOne
    BY <1>3, <2>1, TokenAssumption DEF Open, LookupCratePairingToken
  <2>3. /\ row'[u].exists /\ row'[u].by = d /\ row'[u].cap = c
        /\ \A t \in Tokens \ {u} : row'[t] = row[t]
    BY <1>0, <2>1, <2>2 DEF Row
  <2>4. status[u] = "open" /\ status' = [status EXCEPT ![u] = "redeemed"]
    BY <2>1, <2>2, <2>3
  <2>5. /\ Holder(u)' = <<d, c>>
        /\ \A t \in Tokens \ {u} : Holder(t)' = Holder(t)
    BY <2>2, <2>3
  <2>6. holder' = [holder EXCEPT ![u] = <<d, c>>]
    BY <2>5
  <2>7. QED
    BY <2>1, <2>4, <2>6 DEF Token!Redeem
<1>4. ASSUME NEW r \in Requests, AnswerRedeem(r), NEW u \in Tokens, u = req[r].token
      PROVE  Token!Tell(u)
  <2> DEFINE a == [op |-> "redeem", token |-> u, daemon |-> req[r].daemon, cap |-> req[r].cap]
  <2>1. /\ answers' = answers \cup {a}
        /\ row' = row /\ req[r].pc = "answer"
    BY <1>4 DEF AnswerRedeem
  <2>2. /\ u \in Tokens /\ req[r].daemon \in Daemons
        /\ row[u].by = req[r].daemon /\ row[u].cap = req[r].cap
    BY <1>4, <2>1 DEF IInv, InputsKnown, WinnersHold
  <2>3. row[u].by # NoOne /\ row[u].exists
    BY <2>2, TokenAssumption DEF IInv, RowsMatch
  <2>4. status[u] = "redeemed" /\ holder[u] = <<a.daemon, a.cap>> /\ a.token = u
    BY <2>2, <2>3
  <2>5. Told' = Told \cup {<<u, holder[u]>>}
    BY <2>1, <2>4
  <2>6. QED
    BY <2>1, <2>4, <2>5 DEF Token!Tell
<1>5. CASE row' = row /\ Told' = Told
  BY <1>5 DEF Token!vars
<1>6. \A t \in Tokens :
          Token!Issue(t) \/ Token!Cancel(t) \/ Token!Tell(t) => Token!Next
  BY DEF Token!Next
<1>7. \A t \in Tokens, d \in Daemons, c \in Caps : Token!Redeem(t, <<d, c>>) => Token!Next
  BY DEF Token!Next
<1>8. ASSUME NEW r \in Requests, AnswerCancel(r)
      PROVE  row' = row /\ Told' = Told
  BY <1>8 DEF AnswerCancel
<1>9. CASE \E u \in Tokens : handleCratePairingIntent(u)
  BY <1>1, <1>9, <1>6
<1>10. CASE \E r \in Requests : CancelCratePairingToken(r) \/ RedeemCratePairingToken(r)
  <2> PICK r \in Requests : CancelCratePairingToken(r) \/ RedeemCratePairingToken(r)
    BY <1>10
  <2>1. PICK u \in Tokens : u = req[r].token
    BY DEF CancelCratePairingToken, RedeemCratePairingToken, IInv, InputsKnown
  <2>2. CASE Open(u) /\ CancelCratePairingToken(r)
    BY <1>2, <1>6, <2>1, <2>2
  <2>3. CASE Open(u) /\ RedeemCratePairingToken(r)
    <3>1. PICK d \in Daemons, c \in Caps : d = req[r].daemon /\ c = req[r].cap
      BY <2>3 DEF RedeemCratePairingToken, IInv, InputsKnown
    <3>2. QED
      BY <1>3, <1>7, <2>1, <2>3, <3>1
  <2>4. CASE ~Open(u)
    BY <1>5, <2>1, <2>4 DEF CancelCratePairingToken, RedeemCratePairingToken
  <2>5. QED
    BY <2>2, <2>3, <2>4
<1>11. CASE \E r \in Requests : AnswerRedeem(r)
  <2>1. PICK r \in Requests : AnswerRedeem(r)
    BY <1>11
  <2>2. PICK u \in Tokens : u = req[r].token
    BY <2>1 DEF AnswerRedeem, IInv, InputsKnown
  <2>3. QED
    BY <1>4, <1>6, <2>1, <2>2
<1>12. QED
  BY <1>5, <1>8, <1>9, <1>10, <1>11
     DEF Next, vars, Expire, handleCratePairingCancel, handleCratePairingRedeem,
         RecheckToken, RememberGrant, Fail, Crash

\* Lookup, UPDATE and answer of the two handlers behave like a token that is
\* issued, withdrawn or redeemed in atomic steps.
THEOREM Refinement == Spec => ImplementsOneTimeToken
<1>1. Init => Token!Init
  BY DEF Init, Token!Init, Redeemed
<1>2. QED
  BY <1>1, TokenStep, Invariance, PTL DEF Spec, ImplementsOneTimeToken, Token!Spec

-----------------------------------------------------------------------------
(* Device pairing, independent of the above.                               *)

\* A running handler works on a token and the device it enrolls.
DeviceInputs ==
    \A r \in Completions :
        run[r].pc # "idle" => run[r].token \in PairingTokens /\ run[r].device \in Devices

\* The principal is written before the token is looked at again.
PrincipalFirst ==
    \A r \in Completions :
        run[r].pc \in {"check", "update", "answer"} => run[r].device \in principals

\* Without a race a handler that is about to update meets a free token, alone.
AloneAtUpdate ==
    \A r \in Completions :
        run[r].pc = "update" /\ run[r].token \notin raced =>
            token[run[r].token].by = Null /\ ~Contended(r)

\* Without a race whoever passed the UPDATE, answered or not, is in the row.
WinnerInRow ==
    /\ \A r \in Completions :
          run[r].pc = "answer" /\ run[r].token \notin raced =>
              token[run[r].token].by = run[r].device
    /\ \A e \in enrolled : e.token \notin raced => token[e.token].by = e.device

DeviceIInv ==
    /\ DeviceTypeOK
    /\ DeviceInputs
    /\ PrincipalFirst
    /\ EnrolledAreKnown
    /\ AloneAtUpdate
    /\ WinnerInRow

-----------------------------------------------------------------------------
(* Steps.                                                                  *)

DeviceHandler(r) ==
    \/ handlePairComplete(r)
    \/ UpsertPrincipal(r)
    \/ CheckToken(r)
    \/ CompletePairing(r)
    \/ AnswerComplete(r)
    \/ FailStatement(r)

\* What a step does to its handler: back to idle, a start, or on to the next
\* statement with the same inputs.
DeviceMove(r) ==
    \/ run' = [run EXCEPT ![r] = NotRunning]
    \/ \E t \in PairingTokens, d \in Devices :
          run' = [run EXCEPT ![r] = [pc |-> "enroll", token |-> t, device |-> d]]
    \/ run[r].pc = "enroll" /\ Proceed(r, "check")
    \/ run[r].pc = "check" /\ Proceed(r, "update")
    \/ run[r].pc = "update" /\ Proceed(r, "answer")

LEMMA DeviceMoves ==
    ASSUME NEW r \in Completions, DeviceHandler(r)
    PROVE  DeviceMove(r)
<1>1. CASE handlePairComplete(r)
  BY <1>1 DEF handlePairComplete, DeviceMove
<1>2. CASE ~handlePairComplete(r)
  BY <1>2 DEF DeviceHandler, UpsertPrincipal, CheckToken, CompletePairing, AnswerComplete,
              FailStatement, DeviceMove, Stop
<1>3. QED
  BY <1>1, <1>2

\* A step of a handler leaves the local state of the others alone.
LEMMA DeviceFrame ==
    ASSUME DeviceTypeOK, NEW r \in Completions, DeviceHandler(r), NEW q \in Completions \ {r}
    PROVE  run'[q] = run[q]
  BY DeviceMoves DEF DeviceTypeOK, DeviceMove, Proceed

\* A used token stays with the device it names; principals and races are
\* never taken back.
LEMMA DeviceMonotone ==
    ASSUME DeviceIInv, [DeviceNext]_deviceVars
    PROVE  /\ \A t \in PairingTokens : token[t].by # Null => token'[t].by = token[t].by
           /\ principals \subseteq principals'
           /\ raced \subseteq raced'
<1>1. token \in [PairingTokens -> TokenRow]
  BY DEF DeviceIInv, DeviceTypeOK
<1>2. CASE \E t \in PairingTokens : handlePairInitiate(t)
  BY <1>1, <1>2 DEF handlePairInitiate, CreatePairingToken, TokenRow
<1>3. CASE \E r \in Completions : CompletePairing(r)
  BY <1>1, <1>3 DEF CompletePairing, TokenRow
<1>4. CASE UNCHANGED token
  BY <1>4 DEF DeviceNext, deviceVars, Lapse, handlePairComplete, UpsertPrincipal,
              CheckToken, CompletePairing, AnswerComplete, FailStatement, Restart,
              handlePairInitiate, CreatePairingToken
<1>5. QED
  BY <1>2, <1>3, <1>4 DEF DeviceNext, deviceVars, Lapse, handlePairComplete,
                          UpsertPrincipal, CheckToken, AnswerComplete, FailStatement,
                          Restart

-----------------------------------------------------------------------------
(* The inductive invariant.                                                *)

LEMMA DeviceIdle == NotRunning \in Run
  BY DEF NotRunning, Run, Nullable

\* A step keeps the type of its handler's variables.
LEMMA DeviceRunType ==
    ASSUME DeviceTypeOK, NEW r \in Completions, DeviceHandler(r)
    PROVE  run' \in [Completions -> Run]
<1>1. run \in [Completions -> Run]
  BY DEF DeviceTypeOK
<1>2. \A label \in {"check", "update", "answer"} : [run[r] EXCEPT !.pc = label] \in Run
  BY <1>1 DEF Run
<1>3. \A t \in PairingTokens, d \in Devices :
          [pc |-> "enroll", token |-> t, device |-> d] \in Run
  BY DEF Run, Nullable
<1>4. \E q \in Run : run' = [run EXCEPT ![r] = q]
  BY <1>2, <1>3, DeviceIdle, DeviceMoves DEF DeviceMove, Proceed
<1>5. QED
  BY <1>1, <1>4

LEMMA DeviceTypes ==
    ASSUME DeviceIInv, [DeviceNext]_deviceVars
    PROVE  DeviceTypeOK'
<1>1. DeviceTypeOK
  BY DEF DeviceIInv
<1>2. CASE \E t \in PairingTokens : handlePairInitiate(t) \/ Lapse(t)
  <2> PICK t \in PairingTokens : handlePairInitiate(t) \/ Lapse(t)
    BY <1>2
  <2>1. [token[t] EXCEPT !.exists = TRUE] \in TokenRow
    BY <1>1 DEF DeviceTypeOK, TokenRow
  <2>2. QED
    BY <1>1, <2>1 DEF DeviceTypeOK, handlePairInitiate, CreatePairingToken, Lapse
<1>3. ASSUME NEW r \in Completions, DeviceHandler(r)
      PROVE  DeviceTypeOK'
  <2>1. run' \in [Completions -> Run]
    BY <1>1, <1>3, DeviceRunType
  <2>2. run[r].pc # "idle" => run[r].token \in PairingTokens /\ run[r].device \in Devices
    BY DEF DeviceIInv, DeviceInputs
  <2>3. CASE CompletePairing(r)
    <3>1. run[r].token \in PairingTokens /\ run[r].device \in Devices
      BY <2>2, <2>3 DEF CompletePairing
    <3>2. [token[run[r].token] EXCEPT !.by = run[r].device] \in TokenRow
      BY <1>1, <3>1 DEF DeviceTypeOK, TokenRow, Nullable
    <3>3. QED
      BY <1>1, <2>1, <2>3, <3>1, <3>2 DEF DeviceTypeOK, CompletePairing
  <2>4. CASE ~CompletePairing(r)
    BY <1>1, <1>3, <2>1, <2>2, <2>4 DEF DeviceTypeOK, DeviceHandler, handlePairComplete,
                                        UpsertPrincipal, CheckToken, AnswerComplete,
                                        FailStatement
  <2>5. QED
    BY <2>3, <2>4
<1>4. CASE Restart
  BY <1>1, <1>4, DeviceIdle DEF DeviceTypeOK, Restart
<1>5. CASE UNCHANGED deviceVars
  BY <1>1, <1>5 DEF DeviceTypeOK, deviceVars
<1>6. QED
  BY <1>2, <1>3, <1>4, <1>5 DEF DeviceNext, DeviceHandler

\* Inputs are fixed at the start; the device becomes a principal before the
\* handler goes on.
LEMMA HandlersStep ==
    ASSUME DeviceIInv, [DeviceNext]_deviceVars
    PROVE  DeviceInputs' /\ PrincipalFirst'
<1> SUFFICES ASSUME NEW q \in Completions
             PROVE  /\ run'[q].pc # "idle" =>
                          run'[q].token \in PairingTokens /\ run'[q].device \in Devices
                    /\ run'[q].pc \in {"check", "update", "answer"} =>
                          run'[q].device \in principals'
  BY DEF DeviceInputs, PrincipalFirst
<1>1. run \in [Completions -> Run] /\ run[q] \in Run
  BY DEF DeviceIInv, DeviceTypeOK
<1>2. /\ run[q].pc # "idle" => run[q].token \in PairingTokens /\ run[q].device \in Devices
      /\ run[q].pc \in {"check", "update", "answer"} => run[q].device \in principals
  BY DEF DeviceIInv, DeviceInputs, PrincipalFirst
<1>3. CASE run'[q] = run[q] \/ run'[q] = NotRunning
  BY <1>2, <1>3, DeviceMonotone DEF NotRunning
<1>4. CASE DeviceHandler(q)
  <2>1. run[q].pc = "enroll" /\ Proceed(q, "check") => run[q].device \in principals'
    BY <1>1, <1>4 DEF DeviceHandler, handlePairComplete, UpsertPrincipal, CheckToken,
                      CompletePairing, AnswerComplete, FailStatement, Proceed, Stop,
                      NotRunning, Run
  <2>2. QED
    BY <1>1, <1>2, <1>4, <2>1, DeviceMonotone, DeviceMoves
       DEF DeviceMove, Proceed, NotRunning, Run
<1>5. CASE \E r \in Completions \ {q} : DeviceHandler(r)
  BY <1>3, <1>5, DeviceFrame DEF DeviceIInv
<1>6. QED
  BY <1>3, <1>4, <1>5 DEF DeviceNext, deviceVars, DeviceHandler, handlePairInitiate,
                          CreatePairingToken, Lapse, Restart

\* Rows and answers name principals.
LEMMA KnownStep ==
    ASSUME DeviceIInv, [DeviceNext]_deviceVars
    PROVE  EnrolledAreKnown'
<1>1. ASSUME NEW t \in PairingTokens, token'[t].by # Null
      PROVE  token'[t].by \in principals'
  <2>1. CASE token'[t].by = token[t].by
    BY <1>1, <2>1, DeviceMonotone DEF DeviceIInv, EnrolledAreKnown
  <2>2. CASE token'[t].by # token[t].by
    <3>0. token \in [PairingTokens -> TokenRow]
      BY DEF DeviceIInv, DeviceTypeOK
    <3>1. PICK r \in Completions : CompletePairing(r)
      BY <3>0, <2>2 DEF DeviceNext, deviceVars, handlePairInitiate, CreatePairingToken,
                        Lapse, handlePairComplete, UpsertPrincipal, CheckToken,
                        AnswerComplete, FailStatement, Restart, TokenRow
    <3>2. token'[t].by = run[r].device /\ run[r].pc = "update"
      BY <3>0, <3>1, <2>2 DEF CompletePairing, TokenRow
    <3>3. QED
      BY <3>2, DeviceMonotone DEF DeviceIInv, PrincipalFirst
  <2>3. QED
    BY <2>1, <2>2
<1>2. ASSUME NEW e \in enrolled'
      PROVE  e.device \in principals'
  <2>1. CASE e \in enrolled
    BY <2>1, DeviceMonotone DEF DeviceIInv, EnrolledAreKnown
  <2>2. CASE e \notin enrolled
    <3>1. PICK r \in Completions : AnswerComplete(r)
      BY <1>2, <2>2 DEF DeviceNext, deviceVars, handlePairInitiate, CreatePairingToken,
                        Lapse, handlePairComplete, UpsertPrincipal, CheckToken,
                        CompletePairing, FailStatement, Restart
    <3>2. e.device = run[r].device /\ run[r].pc = "answer"
      BY <1>2, <2>2, <3>1 DEF AnswerComplete
    <3>3. QED
      BY <3>2, DeviceMonotone DEF DeviceIInv, PrincipalFirst
  <2>3. QED
    BY <2>1, <2>2
<1>3. QED
  BY <1>1, <1>2 DEF EnrolledAreKnown

-----------------------------------------------------------------------------
(* Races.                                                                  *)

\* A handler comes to its UPDATE through the check only.
LEMMA UpdateAfterCheck ==
    ASSUME DeviceIInv, [DeviceNext]_deviceVars, NEW q \in Completions, run'[q].pc = "update"
    PROVE  \/ run'[q] = run[q]
           \/ /\ CheckToken(q) /\ Usable(run[q].token)
              /\ run' = [run EXCEPT ![q].pc = "update"]
<1>1. run \in [Completions -> Run] /\ run[q] \in Run
  BY DEF DeviceIInv, DeviceTypeOK
<1>2. CASE DeviceHandler(q)
  <2>1. run[q].pc = "check"
    BY <1>1, <1>2, DeviceMoves DEF DeviceMove, Proceed, NotRunning, Run
  <2>2. CheckToken(q)
    BY <1>1, <1>2, <2>1 DEF DeviceHandler, handlePairComplete, UpsertPrincipal,
                            CompletePairing, AnswerComplete, FailStatement, Stop, NotRunning
  <2>3. QED
    BY <1>1, <2>2 DEF CheckToken, Proceed, Stop, NotRunning
<1>3. CASE \E r \in Completions \ {q} : DeviceHandler(r)
  BY <1>3, DeviceFrame DEF DeviceIInv
<1>4. CASE run' = run \/ Restart
  BY <1>4 DEF Restart, NotRunning
<1>5. QED
  BY <1>2, <1>3, <1>4 DEF DeviceNext, deviceVars, DeviceHandler, handlePairInitiate,
                          CreatePairingToken, Lapse

\* A row changes at an UPDATE only, and then it was free.
LEMMA RowChanges ==
    ASSUME DeviceIInv, [DeviceNext]_deviceVars, NEW t \in PairingTokens,
           token'[t].by # token[t].by
    PROVE  \E r \in Completions :
              /\ CompletePairing(r) /\ run[r].token = t /\ run[r].pc = "update"
              /\ run' = [run EXCEPT ![r].pc = "answer"]
              /\ token[t].by = Null /\ token'[t].by = run[r].device
<1>1. token \in [PairingTokens -> TokenRow]
  BY DEF DeviceIInv, DeviceTypeOK
<1>2. PICK r \in Completions : CompletePairing(r)
  BY <1>1 DEF DeviceNext, deviceVars, handlePairInitiate, CreatePairingToken, Lapse,
              handlePairComplete, UpsertPrincipal, CheckToken, AnswerComplete,
              FailStatement, Restart, TokenRow
<1>3. QED
  BY <1>1, <1>2 DEF CompletePairing, TokenRow, Proceed

\* A handler that reaches the UPDATE without a race found the token free and
\* nobody else there; nobody who comes later passes unnoticed.
LEMMA AloneStep ==
    ASSUME DeviceIInv, [DeviceNext]_deviceVars
    PROVE  AloneAtUpdate'
<1> SUFFICES ASSUME NEW q \in Completions, run'[q].pc = "update", run'[q].token \notin raced'
             PROVE  /\ token'[run'[q].token].by = Null
                    /\ \A p \in Completions \ {q} :
                          ~(run'[p].pc = "update" /\ run'[p].token = run'[q].token)
  BY DEF AloneAtUpdate, Contended
<1>0. run \in [Completions -> Run] /\ \A r \in Completions : run[r] \in Run
  BY DEF DeviceIInv, DeviceTypeOK
<1>1. CASE run'[q] = run[q]
  <2> DEFINE t == run[q].token
  <2>1. /\ t \in PairingTokens /\ t \notin raced /\ token[t].by = Null /\ ~Contended(q)
        /\ run[q].pc = "update"
    BY <1>1, DeviceMonotone DEF DeviceIInv, AloneAtUpdate, DeviceInputs
  <2>2. token'[t].by = Null
    <3>1. SUFFICES ASSUME token'[t].by # token[t].by PROVE FALSE
      BY <2>1
    <3>2. PICK r \in Completions : /\ run[r].token = t /\ run[r].pc = "update"
                                /\ run' = [run EXCEPT ![r].pc = "answer"]
      BY <2>1, <3>1, RowChanges
    <3>3. r # q
      BY <1>0, <1>1, <2>1, <3>2 DEF Run
    <3>4. QED
      BY <2>1, <3>2, <3>3 DEF Contended
  <2>3. ASSUME NEW p \in Completions \ {q}, run'[p].pc = "update", run'[p].token = t
        PROVE  FALSE
    <3>1. CASE run'[p] = run[p]
      BY <2>1, <2>3, <3>1 DEF Contended
    <3>2. CASE CheckToken(p) /\ run' = [run EXCEPT ![p].pc = "update"]
      <4>1. run[p].token = t
        BY <1>0, <2>3, <3>2 DEF Run
      <4>2. Contended(p)
        BY <2>1, <2>3, <4>1 DEF Contended
      <4>3. QED
        BY <1>1, <3>2, <4>1, <4>2 DEF CheckToken
    <3>3. QED
      BY <2>3, <3>1, <3>2, UpdateAfterCheck
  <2>4. QED
    BY <1>1, <2>2, <2>3
<1>2. CASE /\ CheckToken(q) /\ Usable(run[q].token)
           /\ run' = [run EXCEPT ![q].pc = "update"]
  <2>1. /\ run'[q].token = run[q].token /\ token' = token
        /\ \A p \in Completions \ {q} : run'[p] = run[p]
    BY <1>0, <1>2 DEF CheckToken, Run
  <2>2. ~Contended(q)
    BY <1>2, <2>1 DEF CheckToken
  <2>3. QED
    BY <1>2, <2>1, <2>2 DEF Contended, Usable, LookupPairingToken
<1>3. QED
  BY <1>1, <1>2, UpdateAfterCheck

\* Without a race the UPDATE of the handler that is there takes effect, and
\* the row keeps its device.
LEMMA WinnerStep ==
    ASSUME DeviceIInv, [DeviceNext]_deviceVars
    PROVE  WinnerInRow'
<1>0. /\ run \in [Completions -> Run] /\ \A r \in Completions : run[r] \in Run
      /\ token \in [PairingTokens -> TokenRow]
  BY DEF DeviceIInv, DeviceTypeOK
<1>1. ASSUME NEW q \in Completions, run'[q].pc = "answer", run'[q].token \notin raced'
      PROVE  token'[run'[q].token].by = run'[q].device
  <2>1. CASE run'[q] = run[q]
    <3>1. /\ run[q].token \in PairingTokens /\ run[q].device \in Devices
          /\ token[run[q].token].by = run[q].device
      BY <1>1, <2>1, DeviceMonotone DEF DeviceIInv, WinnerInRow, DeviceInputs
    <3>2. QED
      BY <2>1, <3>1, DeviceAssumption, DeviceMonotone
  <2>2. CASE DeviceHandler(q)
    <3>1. run[q].pc = "update" /\ run' = [run EXCEPT ![q].pc = "answer"]
      BY <1>0, <1>1, <2>2, DeviceMoves DEF DeviceMove, Proceed, NotRunning, Run
    <3>2. CompletePairing(q)
      BY <1>0, <1>1, <2>2, <3>1 DEF DeviceHandler, handlePairComplete, UpsertPrincipal,
                                    CheckToken, AnswerComplete, FailStatement, Stop,
                                    NotRunning
    <3>3. /\ run'[q].token = run[q].token /\ run'[q].device = run[q].device
          /\ run[q].token \in PairingTokens
      BY <1>0, <3>1 DEF Run, DeviceIInv, DeviceInputs
    <3>4. token[run[q].token].by = Null
      BY <1>1, <3>1, <3>3, DeviceMonotone DEF DeviceIInv, AloneAtUpdate
    <3>5. QED
      BY <1>0, <3>2, <3>3, <3>4 DEF CompletePairing, TokenRow
  <2>3. CASE \E r \in Completions \ {q} : DeviceHandler(r)
    BY <2>1, <2>3, DeviceFrame DEF DeviceIInv
  <2>4. CASE run' = run \/ Restart
    BY <1>1, <2>1, <2>4 DEF Restart, NotRunning
  <2>5. QED
    BY <2>1, <2>2, <2>3, <2>4 DEF DeviceNext, deviceVars, DeviceHandler,
                                  handlePairInitiate, CreatePairingToken, Lapse
<1>2. ASSUME NEW e \in enrolled', e.token \notin raced'
      PROVE  token'[e.token].by = e.device
  <2>1. CASE e \in enrolled
    <3>1. e.token \in PairingTokens /\ e.device \in Devices /\ token[e.token].by = e.device
      BY <1>2, <2>1, DeviceMonotone DEF DeviceIInv, DeviceTypeOK, WinnerInRow
    <3>2. QED
      BY <3>1, DeviceAssumption, DeviceMonotone
  <2>2. CASE e \notin enrolled
    <3>1. PICK r \in Completions : AnswerComplete(r)
      BY <1>2, <2>2 DEF DeviceNext, deviceVars, handlePairInitiate, CreatePairingToken,
                        Lapse, handlePairComplete, UpsertPrincipal, CheckToken,
                        CompletePairing, FailStatement, Restart
    <3>2. /\ e = [token |-> run[r].token, device |-> run[r].device]
          /\ run[r].pc = "answer" /\ token' = token /\ raced' = raced
      BY <1>2, <2>2, <3>1 DEF AnswerComplete
    <3>3. QED
      BY <1>2, <3>2 DEF DeviceIInv, WinnerInRow
  <2>3. QED
    BY <2>1, <2>2
<1>3. QED
  BY <1>1, <1>2 DEF WinnerInRow

LEMMA DeviceInitially ==
    ASSUME DeviceInit
    PROVE  DeviceIInv
<1>1. [exists |-> FALSE, by |-> Null] \in TokenRow
  BY DEF TokenRow, Nullable
<1>2. DeviceTypeOK
  BY <1>1, DeviceIdle, DeviceAssumption DEF DeviceInit, DeviceTypeOK
<1>3. QED
  BY <1>2 DEF DeviceInit, DeviceIInv, DeviceInputs, PrincipalFirst, EnrolledAreKnown,
              AloneAtUpdate, WinnerInRow, NotRunning

LEMMA DeviceInductive ==
    ASSUME DeviceIInv, [DeviceNext]_deviceVars
    PROVE  DeviceIInv'
  BY DeviceTypes, HandlersStep, KnownStep, AloneStep, WinnerStep DEF DeviceIInv

-----------------------------------------------------------------------------
(* Theorems.                                                               *)

\* The inductive invariant of device pairing.
THEOREM DeviceInvariance == DeviceSpec => []DeviceIInv
  BY DeviceInitially, DeviceInductive, PTL DEF DeviceSpec

\* Rows, handlers and answers are well typed.
THEOREM DeviceTypeCorrect == DeviceSpec => []DeviceTypeOK
  BY DeviceInvariance, PTL DEF DeviceIInv

\* Whoever a token or an answer names has a row in principals, at whichever
\* statement a handler stops.
THEOREM EnrolledKnown == DeviceSpec => []EnrolledAreKnown
  BY DeviceInvariance, PTL DEF DeviceIInv

\* A second device is enrolled with a token only when two handlers were both
\* between CompletePairing's check and its UPDATE; no other overlap, retry or
\* crash lets one in.
THEOREM OneDeviceUnlessRaced == DeviceSpec => []SecondDeviceNeedsRace
<1>1. DeviceIInv => SecondDeviceNeedsRace
  BY DEF DeviceIInv, WinnerInRow, SecondDeviceNeedsRace
<1>2. QED
  BY <1>1, DeviceInvariance, PTL

-----------------------------------------------------------------------------
(* The pairing of crates at a Cloudflare Worker hub.                       *)

\* A capability minted for a daemon.
Mine(cap, by) == [cap |-> cap, to |-> by] \in mintedCaps

\* At most one value, as a store or the object's storage holds.
Single(S) == \A x, y \in S : x = y

\* The stores hold at most one value; a handler that redeems brings one daemon.
StoresHold ==
    /\ Single(record) /\ Single(redemption) /\ Single(mintedCaps)
    /\ \A e \in Edges : Single(view[e])
    /\ \A r \in Fetches :
          fetch[r].op = "redeem" /\ fetch[r].pc # "idle" => fetch[r].by # {} /\ Single(fetch[r].by)

\* The claim is the decision: nothing is minted before it, one handler mints
\* after it, for the daemon that the object recorded.
ClaimDecides ==
    /\ redemption = {} => mintedCaps = {}
    /\ \A m \in mintedCaps : m.to = redemption
    /\ \A r \in Fetches : At(r, "redeem", "mint") =>
          /\ mintedCaps = {} /\ redemption = fetch[r].by
          /\ \A q \in Fetches : At(q, "redeem", "mint") => q = r

\* Whatever names a redemption names the capability that was minted: the
\* stored record, the caches, what handlers have read and what they write.
Genuine(rec) == rec.by # {} => Mine(rec.cap, rec.by)

RecordsGenuine ==
    /\ \A rec \in record : Genuine(rec)
    /\ \A e \in Edges : \A rec \in view[e] : Genuine(rec)
    /\ \A r \in Fetches :
          /\ Genuine(fetch[r].rec)
          /\ At(r, "redeem", "write") \/ At(r, "redeem", "answer") => Mine(fetch[r].cap, fetch[r].by)
          /\ fetch[r].pc \in {"claim", "mint", "answer"} => fetch[r].op = "redeem"

\* Between its read and its last step.
Busy(r) == fetch[r].pc \notin {"idle", "read"}

\* Without a race handlers run one after the other, and after a confirmed
\* cancellation the record is cancelled or gone and no redemption is under way.
OneAtATime ==
    ~overlapped =>
        /\ \A p, q \in Fetches : Busy(p) /\ Busy(q) => p = q
        /\ cancelled => /\ \A rec \in record : rec.cancelled
                        /\ \A r \in Fetches : Busy(r) => fetch[r].op # "redeem"

WorkerIInv ==
    /\ WorkerTypeOK
    /\ StoresHold
    /\ ClaimDecides
    /\ RecordsGenuine
    /\ OneAtATime

-----------------------------------------------------------------------------
(* Steps.                                                                  *)

\* What a step does to its handler: back to idle, a request, what follows the
\* read of a record, or on to the next step with the same inputs.
FetchStep(r) ==
    \/ fetch' = [fetch EXCEPT ![r] = NoFetch]
    \/ /\ Receive(r)
       /\ \E op \in {"intent", "cancel", "redeem"}, by \in SUBSET EdgeDaemons :
             /\ op = "redeem" => \E d \in EdgeDaemons : by = {d}
             /\ fetch' = [fetch EXCEPT ![r] =
                    [pc |-> "read", op |-> op, by |-> by, rec |-> Fresh, cap |-> 0]]
    \/ At(r, "intent", "read") /\ fetch' = [fetch EXCEPT ![r].pc = "write"]
    \/ \E rec \in View(r) :
          /\ CancelReads(r)
          /\ fetch' = [fetch EXCEPT ![r].pc = "write", ![r].rec = rec]
    \/ \E rec \in View(r) :
          /\ RedeemReads(r)
          /\ \E old \in View(r) : old.by = {} /\ ~old.cancelled
          /\ fetch' = [fetch EXCEPT ![r].pc = "claim", ![r].rec = rec]
    \/ /\ Claim(r) /\ redemption = {}
       /\ fetch' = [fetch EXCEPT ![r].pc = "mint"]
    \/ Mint(r) /\ fetch' = [fetch EXCEPT ![r].pc = "write", ![r].cap = caps + 1]
    \/ At(r, "redeem", "write") /\ RedeemWrites(r) /\ fetch' = [fetch EXCEPT ![r].pc = "answer"]

LEMMA FetchSteps ==
    ASSUME NEW r \in Fetches, WorkerHandler(r)
    PROVE  FetchStep(r)
<1>1. CASE Receive(r)
  <2>1. \/ \E op \in {"intent", "cancel"} :
              fetch' = [fetch EXCEPT ![r] =
                        [pc |-> "read", op |-> op, by |-> {}, rec |-> Fresh, cap |-> 0]]
        \/ \E d \in EdgeDaemons :
              fetch' = [fetch EXCEPT ![r] =
                        [pc |-> "read", op |-> "redeem", by |-> {d}, rec |-> Fresh, cap |-> 0]]
    BY <1>1 DEF Receive, NoFetch
  <2>2. QED
    BY <1>1, <2>1 DEF FetchStep
<1>2. CASE IntentReads(r) \/ IntentWrites(r) \/ CancelWrites(r) \/ RedeemAnswers(r) \/ Discard(r)
  BY <1>2 DEF IntentReads, IntentWrites, CancelWrites, RedeemAnswers, Discard, Done, FetchStep
<1>3. CASE CancelReads(r)
  <2>1. \/ fetch' = [fetch EXCEPT ![r] = NoFetch]
        \/ \E rec \in View(r) : fetch' = [fetch EXCEPT ![r].pc = "write", ![r].rec = rec]
    BY <1>3 DEF CancelReads, Done
  <2>2. QED
    BY <1>3, <2>1 DEF FetchStep
<1>4. CASE RedeemReads(r)
  <2>1. \/ fetch' = [fetch EXCEPT ![r] = NoFetch]
        \/ /\ \E old \in View(r) : old.by = {} /\ ~old.cancelled
           /\ \E rec \in View(r) : fetch' = [fetch EXCEPT ![r].pc = "claim", ![r].rec = rec]
    BY <1>4 DEF RedeemReads, Done
  <2>2. QED
    BY <1>4, <2>1 DEF FetchStep
<1>5. CASE Claim(r)
  BY <1>5 DEF Claim, Done, FetchStep
<1>6. CASE Mint(r) \/ RedeemWrites(r)
  BY <1>6 DEF Mint, RedeemWrites, FetchStep
<1>7. QED
  BY <1>1, <1>2, <1>3, <1>4, <1>5, <1>6 DEF WorkerHandler

\* A step of a handler leaves the local state of the others alone.
LEMMA WorkerFrame ==
    ASSUME WorkerTypeOK, NEW r \in Fetches, WorkerHandler(r), NEW q \in Fetches \ {r}
    PROVE  fetch'[q] = fetch[q]
  BY FetchSteps DEF WorkerTypeOK, FetchStep, Mint

\* The same, told by the handler's variables after the step.
After(r) ==
    LET q == fetch'[r] IN
    \/ q = NoFetch
    \/ /\ Receive(r) /\ q.pc = "read" /\ q.rec = Fresh
       /\ q.op = "redeem" => \E d \in EdgeDaemons : q.by = {d}
    \/ /\ q.op = fetch[r].op /\ q.by = fetch[r].by /\ q.cap = fetch[r].cap
       /\ \/ At(r, "intent", "read") /\ q.pc = "write" /\ q.rec = fetch[r].rec
          \/ CancelReads(r) /\ q.pc = "write" /\ q.rec \in View(r)
          \/ /\ RedeemReads(r) /\ q.pc = "claim" /\ q.rec \in View(r)
             /\ \E old \in View(r) : old.by = {} /\ ~old.cancelled
          \/ Claim(r) /\ redemption = {} /\ q.pc = "mint" /\ q.rec = fetch[r].rec
          \/ RedeemWrites(r) /\ q.pc = "answer" /\ q.rec = fetch[r].rec
    \/ /\ Mint(r) /\ q.pc = "write" /\ q.cap = caps + 1
       /\ q.op = fetch[r].op /\ q.by = fetch[r].by /\ q.rec = fetch[r].rec

LEMMA FetchAfter ==
    ASSUME WorkerTypeOK, NEW r \in Fetches, WorkerHandler(r)
    PROVE  After(r)
<1>0. fetch \in [Fetches -> Fetch] /\ fetch[r] \in Fetch
  BY DEF WorkerTypeOK
<1>1. CASE fetch' = [fetch EXCEPT ![r] = NoFetch]
  BY <1>0, <1>1 DEF After
<1>2. CASE /\ Receive(r)
           /\ \E op \in {"intent", "cancel", "redeem"}, by \in SUBSET EdgeDaemons :
                 /\ op = "redeem" => \E d \in EdgeDaemons : by = {d}
                 /\ fetch' = [fetch EXCEPT ![r] =
                        [pc |-> "read", op |-> op, by |-> by, rec |-> Fresh, cap |-> 0]]
  BY <1>0, <1>2 DEF After
<1>3. CASE At(r, "intent", "read") /\ fetch' = [fetch EXCEPT ![r].pc = "write"]
  BY <1>0, <1>3 DEF After, Fetch
<1>4. CASE CancelReads(r) /\ \E rec \in View(r) : fetch' = [fetch EXCEPT ![r].pc = "write", ![r].rec = rec]
  <2> PICK rec \in View(r) : fetch' = [fetch EXCEPT ![r].pc = "write", ![r].rec = rec]
    BY <1>4
  <2> QED
    BY <1>0, <1>4 DEF After, Fetch
<1>5. CASE \E rec \in View(r) :
             /\ RedeemReads(r)
             /\ \E old \in View(r) : old.by = {} /\ ~old.cancelled
             /\ fetch' = [fetch EXCEPT ![r].pc = "claim", ![r].rec = rec]
  <2> PICK rec \in View(r) : fetch' = [fetch EXCEPT ![r].pc = "claim", ![r].rec = rec]
    BY <1>5
  <2> QED
    BY <1>0, <1>5 DEF After, Fetch
<1>6. CASE Claim(r) /\ redemption = {} /\ fetch' = [fetch EXCEPT ![r].pc = "mint"]
  BY <1>0, <1>6 DEF After, Fetch
<1>7. CASE Mint(r) /\ fetch' = [fetch EXCEPT ![r].pc = "write", ![r].cap = caps + 1]
  BY <1>0, <1>7 DEF After, Fetch
<1>8. CASE RedeemWrites(r) /\ fetch' = [fetch EXCEPT ![r].pc = "answer"]
  BY <1>0, <1>8 DEF After, Fetch
<1>9. QED
  BY <1>1, <1>2, <1>3, <1>4, <1>5, <1>6, <1>7, <1>8, FetchSteps DEF FetchStep

-----------------------------------------------------------------------------
(* Types.                                                                  *)

LEMMA NoFetchType == Fresh \in Record /\ NoFetch \in Fetch
  BY WorkerPairingAssumption DEF Fresh, Record, NoFetch, Fetch

\* A record written by a handler is a record.
LEMMA RecordType ==
    ASSUME WorkerTypeOK, NEW rec \in Record, NEW by \in SUBSET EdgeDaemons, NEW cap \in 0..MaxCaps
    PROVE  /\ [rec EXCEPT !.cancelled = TRUE] \in Record
           /\ [rec EXCEPT !.by = by, !.cap = cap] \in Record
  BY DEF Record

\* What an edge sees are records.
LEMMA ViewType ==
    ASSUME WorkerTypeOK, NEW r \in Fetches
    PROVE  View(r) \subseteq Record /\ EdgeOf[r] \in Edges
  BY WorkerPairingAssumption DEF WorkerTypeOK, View

\* A step keeps the type of its handler's variables.
LEMMA FetchType ==
    ASSUME WorkerTypeOK, NEW r \in Fetches, WorkerHandler(r)
    PROVE  fetch' \in [Fetches -> Fetch]
<1>1. fetch \in [Fetches -> Fetch] /\ fetch[r] \in Fetch
  BY DEF WorkerTypeOK
<1>2. \A pc \in {"write", "mint", "answer"} : [fetch[r] EXCEPT !.pc = pc] \in Fetch
  BY <1>1 DEF Fetch
<1>3. \A pc \in {"write", "claim"}, rec \in Record : [fetch[r] EXCEPT !.pc = pc, !.rec = rec] \in Fetch
  BY <1>1 DEF Fetch
<1>4. \A cap \in 0..MaxCaps : [fetch[r] EXCEPT !.pc = "write", !.cap = cap] \in Fetch
  BY <1>1 DEF Fetch
<1>5. \A op \in {"intent", "cancel", "redeem"}, by \in SUBSET EdgeDaemons :
          [pc |-> "read", op |-> op, by |-> by, rec |-> Fresh, cap |-> 0] \in Fetch
  BY NoFetchType, WorkerPairingAssumption DEF Fetch
<1>6. Mint(r) => caps + 1 \in 0..MaxCaps
  BY WorkerPairingAssumption DEF Mint, WorkerTypeOK
<1>7. \/ fetch' = [fetch EXCEPT ![r] = NoFetch]
      \/ \E op \in {"intent", "cancel", "redeem"}, by \in SUBSET EdgeDaemons :
            fetch' = [fetch EXCEPT ![r] = [pc |-> "read", op |-> op, by |-> by, rec |-> Fresh, cap |-> 0]]
      \/ \E pc \in {"write", "mint", "answer"} : fetch' = [fetch EXCEPT ![r].pc = pc]
      \/ \E pc \in {"write", "claim"}, rec \in Record :
            fetch' = [fetch EXCEPT ![r].pc = pc, ![r].rec = rec]
      \/ \E cap \in 0..MaxCaps : fetch' = [fetch EXCEPT ![r].pc = "write", ![r].cap = cap]
  BY <1>6, FetchSteps, ViewType DEF FetchStep
<1>8. \E q \in Fetch : fetch' = [fetch EXCEPT ![r] = q]
  <2>1. \A pc : [fetch EXCEPT ![r].pc = pc] = [fetch EXCEPT ![r] = [fetch[r] EXCEPT !.pc = pc]]
    BY <1>1
  <2>2. CASE fetch' = [fetch EXCEPT ![r] = NoFetch]
    BY <2>2, NoFetchType
  <2>3. CASE \E op \in {"intent", "cancel", "redeem"}, by \in SUBSET EdgeDaemons :
                fetch' = [fetch EXCEPT ![r] = [pc |-> "read", op |-> op, by |-> by, rec |-> Fresh, cap |-> 0]]
    BY <1>5, <2>3
  <2>4. CASE \E pc \in {"write", "mint", "answer"} : fetch' = [fetch EXCEPT ![r].pc = pc]
    BY <1>2, <2>1, <2>4
  <2>5. CASE \E pc \in {"write", "claim"}, rec \in Record :
                fetch' = [fetch EXCEPT ![r].pc = pc, ![r].rec = rec]
    <3>1. PICK pc \in {"write", "claim"}, rec \in Record :
             fetch' = [fetch EXCEPT ![r].pc = pc, ![r].rec = rec]
      BY <2>5
    <3>2. fetch' = [fetch EXCEPT ![r] = [fetch[r] EXCEPT !.pc = pc, !.rec = rec]]
      BY <1>1, <3>1
    <3>3. QED
      BY <1>3, <3>2
  <2>6. CASE \E cap \in 0..MaxCaps : fetch' = [fetch EXCEPT ![r].pc = "write", ![r].cap = cap]
    <3>1. PICK cap \in 0..MaxCaps : fetch' = [fetch EXCEPT ![r].pc = "write", ![r].cap = cap]
      BY <2>6
    <3>2. fetch' = [fetch EXCEPT ![r] = [fetch[r] EXCEPT !.pc = "write", !.cap = cap]]
      BY <1>1, <3>1
    <3>3. QED
      BY <1>4, <3>2
  <2>7. QED
    BY <1>7, <2>2, <2>3, <2>4, <2>5, <2>6
<1>9. QED
  BY <1>1, <1>8

\* The cardinality of what holds at most one value.
LEMMA SingleCardinality ==
    ASSUME NEW S, Single(S)
    PROVE  Cardinality(S) <= 1
<1>1. CASE S = {}
  BY <1>1, FS_EmptySet
<1>2. CASE S # {}
  <2>1. PICK x \in S : S = {x}
    BY <1>2 DEF Single
  <2>2. QED
    BY <2>1, FS_Singleton
<1>3. QED
  BY <1>1, <1>2

LEMMA WorkerTypeStep ==
    ASSUME WorkerIInv, [WorkerNext]_workerVars, StoresHold'
    PROVE  WorkerTypeOK'
<1>1. WorkerTypeOK
  BY DEF WorkerIInv
<1>2. Cardinality(record') <= 1 /\ Cardinality(redemption') <= 1
  BY SingleCardinality DEF StoresHold
<1> DEFINE Stores == /\ record \subseteq Record /\ view \in [Edges -> SUBSET Record]
                     /\ redemption \subseteq EdgeDaemons
                     /\ mintedCaps \subseteq [cap : 1..MaxCaps, to : SUBSET EdgeDaemons]
                     /\ held \subseteq mintedCaps /\ caps \in 0..MaxCaps
                     /\ overdue \in BOOLEAN /\ cancelled \in BOOLEAN /\ overlapped \in BOOLEAN
                     /\ discards \in Nat
<1>3. Stores /\ fetch \in [Fetches -> Fetch]
  BY <1>1 DEF WorkerTypeOK
<1>4. ASSUME NEW r \in Fetches, WorkerHandler(r)
      PROVE  Stores'
  <2>1. View(r) \subseteq Record /\ fetch[r] \in Fetch
    BY <1>1, ViewType DEF WorkerTypeOK
  <2>2. /\ fetch[r].rec \in Record /\ fetch[r].by \in SUBSET EdgeDaemons /\ fetch[r].cap \in 0..MaxCaps
    BY <2>1 DEF Fetch
  <2>3. ASSUME NEW rec \in Record, Put(r, rec)
        PROVE  record' \subseteq Record /\ view' \in [Edges -> SUBSET Record]
    BY <1>3, <2>3 DEF Put
  <2>4. CASE Receive(r) \/ IntentReads(r) \/ CancelReads(r) \/ RedeemReads(r) \/ Discard(r)
    <3>0. Read(r) => overlapped' \in BOOLEAN
      BY DEF Read
    <3>1. /\ UNCHANGED <<kvVars, redemption, overdue, capVars>>
          /\ discards' \in Nat /\ overlapped' \in BOOLEAN /\ cancelled' \in BOOLEAN
      <4>1. CASE Receive(r) \/ Discard(r)
        <5>1. /\ UNCHANGED <<kvVars, redemption, overdue, capVars, cancelled, overlapped>>
              /\ discards' = discards \/ discards' = discards + 1
          BY <4>1 DEF Receive, Discard
        <5>2. discards' \in Nat
          BY <1>3, <5>1
        <5>3. QED
          BY <1>3, <5>1, <5>2
      <4>2. CASE IntentReads(r) \/ RedeemReads(r)
        BY <1>3, <3>0, <4>2 DEF IntentReads, RedeemReads
      <4>3. CASE CancelReads(r)
        <5>1. cancelled' \in BOOLEAN
          BY <1>3, <4>3 DEF CancelReads
        <5>2. QED
          BY <1>3, <3>0, <4>3, <5>1 DEF CancelReads
      <4>4. QED
        BY <2>4, <4>1, <4>2, <4>3
    <3>2. QED
      BY <1>3, <3>1 DEF kvVars, capVars
  <2>5. CASE IntentWrites(r)
    BY <1>3, <2>3, <2>5, NoFetchType DEF IntentWrites, capVars
  <2>6. CASE CancelWrites(r)
    BY <1>1, <1>3, <2>2, <2>3, <2>6, RecordType DEF CancelWrites, capVars
  <2>7. CASE Claim(r)
    BY <1>3, <2>2, <2>7 DEF Claim, kvVars, capVars
  <2>8. CASE Mint(r)
    <3>1. caps + 1 \in 1..MaxCaps
      BY <1>3, <2>8, WorkerPairingAssumption DEF Mint
    <3>2. [cap |-> caps + 1, to |-> fetch[r].by] \in [cap : 1..MaxCaps, to : SUBSET EdgeDaemons]
      BY <2>2, <3>1
    <3>3. QED
      BY <1>3, <2>8, <3>1, <3>2 DEF Mint, kvVars
  <2>9. CASE RedeemWrites(r)
    BY <1>1, <1>3, <2>2, <2>3, <2>9, RecordType DEF RedeemWrites, capVars
  <2>10. CASE RedeemAnswers(r)
    BY <1>3, <2>10 DEF RedeemAnswers, kvVars
  <2>11. QED
    BY <1>4, <2>4, <2>5, <2>6, <2>7, <2>8, <2>9, <2>10 DEF WorkerHandler
<1>5. CASE RunOut \/ Evict
  BY <1>1, <1>2, <1>3, <1>5 DEF WorkerTypeOK, RunOut, Evict, kvVars, capVars
<1>6. CASE \E e \in Edges : Propagate(e)
  BY <1>1, <1>2, <1>3, <1>6 DEF WorkerTypeOK, Propagate, capVars
<1>7. CASE UNCHANGED workerVars
  BY <1>1, <1>7 DEF WorkerTypeOK, workerVars
<1>8. CASE \E r \in Fetches : WorkerHandler(r)
  BY <1>1, <1>2, <1>4, <1>8, FetchType DEF WorkerTypeOK
<1>9. QED
  BY <1>5, <1>6, <1>7, <1>8 DEF WorkerNext

-----------------------------------------------------------------------------
(* One capability per token.                                               *)

\* What is claimed and minted stays; a claim is made once.
LEMMA Kept ==
    ASSUME WorkerIInv, [WorkerNext]_workerVars
    PROVE  /\ mintedCaps \subseteq mintedCaps'
           /\ redemption # {} => redemption' = redemption
<1>1. CASE \E r \in Fetches : WorkerHandler(r)
  BY <1>1 DEF WorkerHandler, Receive, IntentReads, IntentWrites, CancelReads, CancelWrites, RedeemReads,
     Claim, Mint, RedeemWrites, RedeemAnswers, Discard, kvVars, capVars
<1>2. QED
  BY <1>1 DEF WorkerNext, workerVars, RunOut, Evict, Propagate, kvVars, capVars

\* The claim comes before the capability, and is made by one handler.
LEMMA ClaimStep ==
    ASSUME WorkerIInv, [WorkerNext]_workerVars
    PROVE  ClaimDecides'
<1>0. WorkerTypeOK /\ StoresHold /\ ClaimDecides
  BY DEF WorkerIInv
<1>1. ASSUME NEW r \in Fetches, Claim(r), redemption = {}
      PROVE  ClaimDecides'
  <2>1. mintedCaps = {} /\ mintedCaps' = {} /\ redemption' = fetch[r].by
        /\ fetch' = [fetch EXCEPT ![r].pc = "mint"] /\ At(r, "redeem", "claim")
    BY <1>0, <1>1 DEF Claim, ClaimDecides, capVars
  <2>2. fetch[r].by # {} /\ fetch'[r].by = fetch[r].by
    BY <1>0, <2>1 DEF StoresHold, At, WorkerTypeOK, Fetch
  <2>3. \A q \in Fetches : ~At(q, "redeem", "mint")
    <3>1. SUFFICES ASSUME NEW q \in Fetches, At(q, "redeem", "mint") PROVE FALSE
      OBVIOUS
    <3>2. fetch[q].by = {} /\ fetch[q].by # {}
      BY <1>0, <1>1, <3>1 DEF ClaimDecides, StoresHold, At
    <3>3. QED
      BY <3>2
  <2>4. \A q \in Fetches \ {r} : fetch'[q] = fetch[q]
    BY <2>1
  <2>5. QED
    BY <2>1, <2>2, <2>3, <2>4 DEF ClaimDecides, At
<1>2. ASSUME NEW r \in Fetches, Mint(r)
      PROVE  ClaimDecides'
  <2>1. /\ At(r, "redeem", "mint") /\ mintedCaps = {} /\ redemption = fetch[r].by
        /\ redemption' = redemption /\ redemption # {}
        /\ mintedCaps' = {[cap |-> caps + 1, to |-> redemption]}
    BY <1>0, <1>2 DEF Mint, ClaimDecides, StoresHold, At
  <2>2. fetch'[r].pc = "write" /\ \A q \in Fetches \ {r} : fetch'[q] = fetch[q]
    <3>1. fetch' = [fetch EXCEPT ![r].pc = "write", ![r].cap = caps + 1]
      BY <1>2 DEF Mint
    <3>2. QED
      BY <1>0, <3>1 DEF WorkerTypeOK, Fetch
  <2>3. \A q \in Fetches : ~At(q, "redeem", "mint")'
    BY <1>0, <2>1, <2>2 DEF ClaimDecides, At
  <2>4. QED
    BY <2>1, <2>3 DEF ClaimDecides
<1>3. ASSUME mintedCaps' = mintedCaps, redemption' = redemption,
             \A q \in Fetches : fetch'[q] = fetch[q] \/ fetch'[q].pc # "mint"
      PROVE  ClaimDecides'
  BY <1>0, <1>3 DEF ClaimDecides, At
<1>4. ASSUME NEW r \in Fetches, WorkerHandler(r), ~Mint(r), ~(Claim(r) /\ redemption = {})
      PROVE  ClaimDecides'
  <2>1. mintedCaps' = mintedCaps /\ redemption' = redemption
    BY <1>4 DEF WorkerHandler, Receive, IntentReads, IntentWrites, CancelReads, CancelWrites, RedeemReads,
       Claim, RedeemWrites, RedeemAnswers, Discard, kvVars, capVars
  <2>2. fetch'[r].pc # "mint"
    BY <1>0, <1>4, FetchAfter DEF After, NoFetch
  <2>3. QED
    BY <1>0, <1>3, <1>4, <2>1, <2>2, WorkerFrame
<1>5. CASE RunOut \/ Evict \/ (\E e \in Edges : Propagate(e)) \/ UNCHANGED workerVars
  BY <1>3, <1>5 DEF workerVars, RunOut, Evict, Propagate, kvVars, capVars
<1>6. QED
  BY <1>1, <1>2, <1>4, <1>5 DEF WorkerNext

\* The stores hold one value each: a write replaces the record, the claim and
\* the mint happen once.
LEMMA StoresStep ==
    ASSUME WorkerIInv, [WorkerNext]_workerVars
    PROVE  StoresHold'
<1>0. WorkerTypeOK /\ StoresHold /\ ClaimDecides
  BY DEF WorkerIInv
<1>1. ASSUME NEW r \in Fetches, WorkerHandler(r)
      PROVE  Single(record)' /\ \A e \in Edges : Single(view[e])'
  <2>1. ASSUME NEW rec, Put(r, rec)
        PROVE  Single(record)' /\ \A e \in Edges : Single(view[e])'
    <3>1. record' = {rec} /\ \A e \in Edges : view'[e] = view[e] \/ view'[e] = {rec}
      BY <1>0, <2>1 DEF Put, WorkerTypeOK
    <3>2. QED
      BY <1>0, <3>1 DEF Single, StoresHold
  <2>2. CASE UNCHANGED kvVars
    BY <1>0, <2>2 DEF Single, StoresHold, kvVars
  <2>3. QED
    BY <1>1, <2>1, <2>2 DEF WorkerHandler, Receive, IntentReads, IntentWrites, CancelReads,
       CancelWrites, RedeemReads, Claim, Mint, RedeemWrites, RedeemAnswers, Discard
<1>2. ASSUME NEW r \in Fetches, WorkerHandler(r)
      PROVE  Single(redemption)' /\ Single(mintedCaps)'
  <2>1. CASE Claim(r)
    BY <1>0, <2>1 DEF Claim, capVars, Single, StoresHold, At
  <2>2. CASE Mint(r)
    BY <1>0, <2>2 DEF Mint, Single, StoresHold, ClaimDecides
  <2>3. CASE ~Claim(r) /\ ~Mint(r)
    <3>1. redemption' = redemption /\ mintedCaps' = mintedCaps
      BY <1>2, <2>3 DEF WorkerHandler, Receive, IntentReads, IntentWrites, CancelReads,
         CancelWrites, RedeemReads, RedeemWrites, RedeemAnswers, Discard, capVars
    <3>2. QED
      BY <1>0, <3>1 DEF Single, StoresHold
  <2>4. QED
    BY <2>1, <2>2, <2>3
<1>3. ASSUME NEW r \in Fetches, WorkerHandler(r), NEW q \in Fetches,
             fetch'[q].op = "redeem", fetch'[q].pc # "idle"
      PROVE  fetch'[q].by # {} /\ Single(fetch'[q].by)
  <2>1. CASE q # r
    <3>1. fetch'[q] = fetch[q]
      BY <1>0, <1>3, <2>1, WorkerFrame
    <3>2. QED
      BY <1>0, <1>3, <3>1 DEF StoresHold
  <2>2. CASE q = r /\ \E d \in EdgeDaemons : fetch'[r].by = {d}
    BY <2>2 DEF Single
  <2>3. CASE q = r /\ fetch'[r].by = fetch[r].by /\ fetch[r].op = "redeem" /\ fetch[r].pc # "idle"
    BY <1>0, <2>3 DEF StoresHold
  <2>4. QED
    <3>1. CancelReads(r) \/ RedeemReads(r) \/ Claim(r) \/ Mint(r) \/ RedeemWrites(r)
             => fetch[r].pc # "idle"
      BY DEF CancelReads, RedeemReads, Claim, Mint, RedeemWrites, At
    <3>2. QED
      BY <1>0, <1>3, <2>1, <2>2, <2>3, <3>1, FetchAfter DEF After, NoFetch, At
<1>4. CASE \E r \in Fetches : WorkerHandler(r)
  BY <1>1, <1>2, <1>3, <1>4 DEF StoresHold
<1>5. CASE Evict \/ RunOut \/ (\E e \in Edges : Propagate(e)) \/ UNCHANGED workerVars
  <2>1. /\ UNCHANGED <<redemption, mintedCaps, fetch>>
        /\ record' = record \/ record' = {}
        /\ \A e \in Edges : view'[e] = view[e] \/ view'[e] = record
    BY <1>0, <1>5 DEF Evict, RunOut, Propagate, workerVars, kvVars, capVars, WorkerTypeOK
  <2>2. QED
    BY <1>0, <2>1 DEF StoresHold, Single
<1>6. QED
  BY <1>4, <1>5 DEF WorkerNext

\* Records are copied, or written by the handler that minted.
LEMMA GenuineStep ==
    ASSUME WorkerIInv, [WorkerNext]_workerVars
    PROVE  RecordsGenuine'
<1>0. WorkerTypeOK /\ ClaimDecides /\ RecordsGenuine
  BY DEF WorkerIInv
<1>1. \A rec : Genuine(rec) => (rec.by # {} => [cap |-> rec.cap, to |-> rec.by] \in mintedCaps')
  BY Kept DEF Genuine, Mine
<1> DEFINE Good(rec) == rec.by # {} => [cap |-> rec.cap, to |-> rec.by] \in mintedCaps'
<1>2. \A r \in Fetches : /\ Good(fetch[r].rec) /\ \A rec \in View(r) : Good(rec)
                          /\ EdgeOf[r] \in Edges
  BY <1>0, <1>1, ViewType DEF RecordsGenuine, View
<1>3. ASSUME NEW r \in Fetches, WorkerHandler(r)
      PROVE  /\ Good(fetch'[r].rec)
             /\ At(r, "redeem", "write")' \/ At(r, "redeem", "answer")'
                  => [cap |-> fetch'[r].cap, to |-> fetch'[r].by] \in mintedCaps'
             /\ fetch'[r].pc \in {"claim", "mint", "answer"} => fetch'[r].op = "redeem"
  <2>1. CASE Mint(r)
    <3>1. /\ [cap |-> caps + 1, to |-> fetch[r].by] \in mintedCaps'
          /\ fetch' = [fetch EXCEPT ![r].pc = "write", ![r].cap = caps + 1]
      BY <2>1 DEF Mint
    <3>2. /\ fetch'[r].cap = caps + 1 /\ fetch'[r].by = fetch[r].by /\ fetch'[r].rec = fetch[r].rec
          /\ fetch'[r].pc = "write"
      BY <1>0, <3>1 DEF WorkerTypeOK, Fetch
    <3>3. QED
      BY <1>2, <3>1, <3>2
  <2>2. CASE RedeemWrites(r)
    <3>1. At(r, "redeem", "write") /\ fetch' = [fetch EXCEPT ![r].pc = "answer"]
      BY <2>2 DEF RedeemWrites
    <3>2. /\ fetch'[r].cap = fetch[r].cap /\ fetch'[r].by = fetch[r].by /\ fetch'[r].rec = fetch[r].rec
          /\ fetch'[r].op = fetch[r].op
      BY <1>0, <3>1 DEF WorkerTypeOK, Fetch
    <3>3. Mine(fetch[r].cap, fetch[r].by)
      BY <1>0, <3>1 DEF RecordsGenuine
    <3>4. QED
      BY <1>2, <3>1, <3>2, <3>3, Kept DEF Mine, At
  <2>3. CASE ~Mint(r) /\ ~RedeemWrites(r)
    <3>1. CancelReads(r) => fetch[r].op = "cancel"
      BY DEF CancelReads, At
    <3>2. RedeemReads(r) \/ Claim(r) => fetch[r].op = "redeem"
      BY DEF RedeemReads, Claim, At
    <3>3. CASE fetch'[r] = NoFetch
      BY <3>3 DEF NoFetch, Fresh, At
    <3>4. CASE fetch'[r].pc = "read" /\ fetch'[r].rec = Fresh
      BY <3>4 DEF Fresh, At
    <3>5. CASE /\ fetch'[r].op = fetch[r].op
               /\ \/ fetch[r].op # "redeem" /\ fetch'[r].pc = "write"
                  \/ fetch[r].op = "redeem" /\ fetch'[r].pc \in {"claim", "mint"}
               /\ fetch'[r].rec = fetch[r].rec \/ fetch'[r].rec \in View(r)
      <4>1. Good(fetch'[r].rec)
        BY <1>2, <3>5
      <4>2. QED
        BY <3>5, <4>1 DEF At
    <3>6. After(r)
      BY <1>0, <1>3, FetchAfter
    <3>7. QED
      BY <2>3, <3>1, <3>2, <3>3, <3>4, <3>5, <3>6 DEF After, At
  <2>4. QED
    BY <2>1, <2>2, <2>3
<1>4. ASSUME NEW r \in Fetches, WorkerHandler(r)
      PROVE  /\ \A rec \in record' : Good(rec)
             /\ \A e \in Edges : \A rec \in view'[e] : Good(rec)
  <2>1. ASSUME NEW new, Put(r, new), Good(new)
        PROVE  /\ \A rec \in record' : Good(rec)
               /\ \A e \in Edges : \A rec \in view'[e] : Good(rec)
    <3>1. record' = {new} /\ \A e \in Edges : view'[e] = view[e] \/ view'[e] = {new}
      BY <1>0, <2>1 DEF Put, WorkerTypeOK
    <3>2. QED
      BY <1>0, <1>1, <2>1, <3>1 DEF RecordsGenuine
  <2>2. CASE UNCHANGED kvVars
    BY <1>0, <1>1, <2>2 DEF RecordsGenuine, kvVars
  <2>3. CASE IntentWrites(r)
    BY <2>1, <2>3 DEF IntentWrites, Fresh
  <2>4. CASE CancelWrites(r)
    <3>1. fetch[r].rec \in Record
      BY <1>0 DEF WorkerTypeOK, Fetch
    <3>2. Good([fetch[r].rec EXCEPT !.cancelled = TRUE])
      BY <1>2, <3>1 DEF Record
    <3>3. QED
      BY <2>1, <2>4, <3>2 DEF CancelWrites
  <2>5. CASE RedeemWrites(r)
    <3>1. fetch[r].rec \in Record /\ Mine(fetch[r].cap, fetch[r].by)
      BY <1>0, <2>5 DEF WorkerTypeOK, Fetch, RedeemWrites, RecordsGenuine
    <3>2. Good([fetch[r].rec EXCEPT !.by = fetch[r].by, !.cap = fetch[r].cap])
      BY <3>1, Kept DEF Record, Mine
    <3>3. QED
      BY <2>1, <2>5, <3>2 DEF RedeemWrites
  <2>6. QED
    BY <1>4, <2>2, <2>3, <2>4, <2>5 DEF WorkerHandler, Receive, IntentReads, CancelReads, RedeemReads,
       Claim, Mint, RedeemAnswers, Discard
<1>5. CASE \E r \in Fetches : WorkerHandler(r)
  <2> PICK r \in Fetches : WorkerHandler(r)
    BY <1>5
  <2>1. \A q \in Fetches \ {r} : fetch'[q] = fetch[q]
    BY <1>0, WorkerFrame
  <2>2. \A q \in Fetches \ {r} :
           At(q, "redeem", "write")' \/ At(q, "redeem", "answer")'
              => [cap |-> fetch'[q].cap, to |-> fetch'[q].by] \in mintedCaps'
    BY <1>0, <2>1, Kept DEF RecordsGenuine, At, Mine
  <2>3. QED
    BY <1>0, <1>2, <1>3, <1>4, <2>1, <2>2 DEF RecordsGenuine, Genuine, Mine
<1>6. CASE Evict \/ RunOut \/ (\E e \in Edges : Propagate(e)) \/ UNCHANGED workerVars
  <2>1. /\ UNCHANGED <<mintedCaps, fetch>>
        /\ record' = record \/ record' = {}
        /\ \A e \in Edges : view'[e] = view[e] \/ view'[e] = record
    BY <1>0, <1>6 DEF Evict, RunOut, Propagate, workerVars, kvVars, capVars, WorkerTypeOK
  <2>2. QED
    BY <1>0, <2>1 DEF RecordsGenuine, Genuine, Mine, At
<1>7. QED
  BY <1>5, <1>6 DEF WorkerNext

-----------------------------------------------------------------------------
(* Cancellation.                                                           *)

\* Without a race a handler that reads sees the record itself, and nobody is
\* at work.
LEMMA UnracedRead ==
    ASSUME NEW r \in Fetches, Read(r), ~overlapped'
    PROVE  ~overlapped /\ View(r) = record /\ \A t \in Fetches \ {r} : ~Busy(t)
  BY DEF Read, Busy

\* A race is never taken back.
LEMMA RacedStays ==
    ASSUME [WorkerNext]_workerVars, overlapped
    PROVE  overlapped'
<1>1. ASSUME NEW r \in Fetches, Read(r) PROVE overlapped'
  BY <1>1 DEF Read
<1>2. QED
  BY <1>1 DEF WorkerNext, WorkerHandler, workerVars, Receive, IntentReads, IntentWrites, CancelReads, CancelWrites,
     RedeemReads, Claim, Mint, RedeemWrites, RedeemAnswers, Discard, RunOut, Evict, Propagate

\* A handler becomes busy at its read only.
LEMMA BusyStep ==
    ASSUME WorkerIInv, NEW r \in Fetches, WorkerHandler(r), Busy(r)'
    PROVE  Busy(r) \/ IntentReads(r) \/ CancelReads(r) \/ RedeemReads(r)
<1>1. After(r)
  BY FetchAfter DEF WorkerIInv
<1>2. Claim(r) \/ Mint(r) \/ RedeemWrites(r) => Busy(r)
  BY DEF Claim, Mint, RedeemWrites, At, Busy
<1>3. CASE fetch'[r].pc \in {"idle", "read"}
  BY <1>3 DEF Busy
<1>4. CASE At(r, "intent", "read") /\ fetch'[r].pc = "write"
  <2>1. fetch' # [fetch EXCEPT ![r] = NoFetch]
    BY <1>4 DEF NoFetch, WorkerIInv, WorkerTypeOK
  <2>2. QED
    BY <1>4, <2>1 DEF WorkerHandler, Receive, IntentWrites, CancelReads, CancelWrites, RedeemReads, Claim,
       Mint, RedeemWrites, RedeemAnswers, Discard, Done, At
<1>5. QED
  BY <1>1, <1>2, <1>3, <1>4 DEF After, NoFetch

\* Handlers that do not race run one after the other.
LEMMA CancelAloneStep ==
    ASSUME WorkerIInv, [WorkerNext]_workerVars, ~overlapped', NEW p \in Fetches, NEW q \in Fetches, Busy(p)', Busy(q)'
    PROVE  p = q
<1>0. WorkerTypeOK /\ ~overlapped /\ \A r, t \in Fetches : Busy(r) /\ Busy(t) => r = t
  BY RacedStays DEF WorkerIInv, OneAtATime
<1>1. CASE \E r \in Fetches : WorkerHandler(r)
  <2> PICK r \in Fetches : WorkerHandler(r)
    BY <1>1
  <2>1. \A t \in Fetches \ {r} : Busy(t)' <=> Busy(t)
    BY <1>0, WorkerFrame DEF Busy
  <2>2. IntentReads(r) \/ CancelReads(r) \/ RedeemReads(r) => \A t \in Fetches \ {r} : ~Busy(t)
    BY UnracedRead DEF IntentReads, CancelReads, RedeemReads
  <2>3. QED
    BY <1>0, <2>1, <2>2, BusyStep
<1>2. CASE fetch' = fetch
  BY <1>0, <1>2 DEF Busy
<1>3. QED
  BY <1>1, <1>2 DEF WorkerNext, workerVars, RunOut, Evict, Propagate

\* After a confirmed cancellation the record stays cancelled until a new intent,
\* and no redemption gets past its read.
LEMMA CancelStep ==
    ASSUME WorkerIInv, [WorkerNext]_workerVars, ~overlapped', cancelled'
    PROVE  /\ \A rec \in record' : rec.cancelled
           /\ \A r \in Fetches : Busy(r)' => fetch'[r].op # "redeem"
<1>0. /\ WorkerTypeOK /\ ~overlapped /\ \A r, t \in Fetches : Busy(r) /\ Busy(t) => r = t
      /\ cancelled => /\ \A rec \in record : rec.cancelled
                      /\ \A r \in Fetches : Busy(r) => fetch[r].op # "redeem"
      /\ Single(record)
  BY RacedStays DEF WorkerIInv, OneAtATime, StoresHold
<1> DEFINE Quiet == \A r \in Fetches : Busy(r)' => fetch'[r].op # "redeem"
<1>1. ASSUME NEW r \in Fetches, WorkerHandler(r), Busy(r)' => fetch'[r].op # "redeem", cancelled
      PROVE  Quiet
  BY <1>0, <1>1, WorkerFrame DEF Busy
<1>2. ASSUME NEW r \in Fetches, WorkerHandler(r), Busy(r)' => fetch'[r].op # "redeem",
             \A t \in Fetches \ {r} : ~Busy(t)
      PROVE  Quiet
  BY <1>0, <1>2, WorkerFrame DEF Busy
<1>3. ASSUME NEW r \in Fetches, WorkerHandler(r)
      PROVE  Quiet /\ \A rec \in record' : rec.cancelled
  <2>1. CASE Receive(r) \/ Discard(r)
    <3>1. cancelled /\ record' = record
      BY <2>1 DEF Receive, Discard, kvVars
    <3>2. ~Busy(r)'
      <4>1. CASE Discard(r)
        BY <1>0, <4>1 DEF Discard, Done, NoFetch, Busy, WorkerTypeOK
      <4>2. CASE Receive(r)
        <5>1. After(r) /\ fetch[r].pc = "idle"
          BY <1>0, <1>3, <4>2, FetchAfter DEF Receive
        <5>2. QED
          BY <5>1 DEF After, At, NoFetch, Busy, CancelReads, RedeemReads, Claim, RedeemWrites, Mint
      <4>3. QED
        BY <2>1, <4>1, <4>2
    <3>3. QED
      BY <1>0, <1>1, <1>3, <3>1, <3>2
  <2>2. CASE IntentReads(r)
    <3>1. cancelled /\ record' = record
      BY <2>2 DEF IntentReads, kvVars
    <3>2. Busy(r)' => fetch'[r].op # "redeem"
      BY <1>0, <2>2 DEF IntentReads, At, Done, NoFetch, Busy, WorkerTypeOK, Fetch
    <3>3. QED
      BY <1>0, <1>1, <1>3, <3>1, <3>2
  <2>3. CASE IntentWrites(r)
    BY <2>3 DEF IntentWrites
  <2>4. CASE CancelReads(r)
    <3>1. record' = record /\ View(r) = record /\ \A t \in Fetches \ {r} : ~Busy(t)
      BY <2>4, UnracedRead DEF CancelReads, kvVars
    <3>2. Busy(r)' => fetch'[r].op # "redeem"
      <4>1. At(r, "cancel", "read") /\ After(r)
        BY <1>0, <1>3, <2>4, FetchAfter DEF CancelReads
      <4>2. QED
        BY <4>1 DEF After, At, NoFetch, Busy, RedeemReads, Claim, RedeemWrites, Mint, Receive
    <3>3. cancelled \/ \E rec \in View(r) : rec.cancelled
      BY <2>4 DEF CancelReads
    <3>4. \A rec \in record : rec.cancelled
      BY <1>0, <3>1, <3>3 DEF Single
    <3>5. QED
      BY <1>2, <1>3, <3>1, <3>2, <3>4
  <2>5. CASE CancelWrites(r)
    <3>1. record' = {[fetch[r].rec EXCEPT !.cancelled = TRUE]} /\ Busy(r) /\ ~Busy(r)'
      BY <1>0, <2>5 DEF CancelWrites, Put, At, Done, NoFetch, Busy, WorkerTypeOK
    <3>2. fetch[r].rec \in Record
      BY <1>0 DEF WorkerTypeOK, Fetch
    <3>3. \A rec \in record' : rec.cancelled
      BY <3>1, <3>2 DEF Record
    <3>4. QED
      BY <1>0, <1>2, <1>3, <3>1, <3>3
  <2>6. CASE RedeemReads(r)
    <3>1. cancelled /\ record' = record /\ View(r) = record
      BY <2>6, UnracedRead DEF RedeemReads, kvVars
    <3>2. Done(r)
      BY <1>0, <2>6, <3>1 DEF RedeemReads
    <3>3. QED
      BY <1>0, <1>1, <1>3, <3>1, <3>2 DEF Done, NoFetch, Busy, WorkerTypeOK
  <2>7. CASE Claim(r) \/ Mint(r) \/ RedeemWrites(r) \/ RedeemAnswers(r)
    <3>1. cancelled /\ Busy(r) /\ fetch[r].op = "redeem"
      BY <2>7 DEF Claim, Mint, RedeemWrites, RedeemAnswers, At, Busy
    <3>2. QED
      BY <1>0, <3>1
  <2>8. QED
    BY <1>3, <2>1, <2>2, <2>3, <2>4, <2>5, <2>6, <2>7 DEF WorkerHandler
<1>4. CASE RunOut \/ Evict \/ (\E e \in Edges : Propagate(e)) \/ UNCHANGED workerVars
  BY <1>0, <1>4 DEF RunOut, Evict, Propagate, workerVars, kvVars, capVars, Busy
<1>5. QED
  BY <1>3, <1>4 DEF WorkerNext

-----------------------------------------------------------------------------
(* Theorems.                                                               *)

LEMMA WorkerInitially == WorkerInit => WorkerIInv
<1> SUFFICES ASSUME WorkerInit PROVE WorkerIInv
  OBVIOUS
<1>1. StoresHold
  BY DEF WorkerInit, StoresHold, Single, NoFetch
<1>2. WorkerTypeOK
  <2>1. Cardinality({}) <= 1
    BY FS_EmptySet
  <2>2. view \in [Edges -> SUBSET Record] /\ fetch \in [Fetches -> Fetch]
    BY NoFetchType DEF WorkerInit
  <2>3. FALSE \in BOOLEAN
    OBVIOUS
  <2>4. caps \in 0..MaxCaps /\ discards \in Nat
    BY WorkerPairingAssumption DEF WorkerInit
  <2>5. QED
    BY <2>1, <2>2, <2>3, <2>4 DEF WorkerInit, WorkerTypeOK
<1>3. QED
  BY <1>1, <1>2 DEF WorkerInit, WorkerIInv, ClaimDecides, RecordsGenuine, Genuine, OneAtATime,
                    NoFetch, Fresh, At, Busy

LEMMA WorkerInductive == WorkerIInv /\ [WorkerNext]_workerVars => WorkerIInv'
<1> SUFFICES ASSUME WorkerIInv, [WorkerNext]_workerVars PROVE WorkerIInv'
  OBVIOUS
<1>1. OneAtATime'
  BY CancelAloneStep, CancelStep DEF OneAtATime
<1>2. QED
  BY <1>1, StoresStep, WorkerTypeStep, ClaimStep, GenuineStep DEF WorkerIInv

\* The inductive invariant of the Worker's pairing.
THEOREM WorkerInvariance == WorkerSpec => []WorkerIInv
  BY WorkerInitially, WorkerInductive, PTL DEF WorkerSpec

\* However handlers read, overwrite and repost the records, a token yields one
\* capability, for the daemon that the Durable Object recorded.
THEOREM OneCapability == WorkerSpec => []OneCapabilityPerToken
<1>1. WorkerIInv => OneCapabilityPerToken
  BY SingleCardinality DEF WorkerIInv, StoresHold, ClaimDecides, RecordsGenuine, Genuine, Mine,
     OneCapabilityPerToken
<1>2. QED
  BY <1>1, WorkerInvariance, PTL

\* Damage needs a race: when handlers did not overlap and read no old record,
\* no capability is minted or handed over after a cancellation was confirmed.
THEOREM CancelHolds == WorkerSpec => CancelHoldsUnlessRaced
<1>1. ASSUME WorkerIInv, [WorkerNext]_workerVars, cancelled, ~overlapped'
      PROVE  mintedCaps' = mintedCaps /\ held' = held
  <2>1. \A r \in Fetches : Busy(r) => fetch[r].op # "redeem"
    BY <1>1, RacedStays DEF WorkerIInv, OneAtATime
  <2>2. \A r \in Fetches : ~Mint(r) /\ ~RedeemAnswers(r)
    BY <2>1 DEF Mint, RedeemAnswers, At, Busy
  <2>3. QED
    BY <1>1, <2>2 DEF WorkerNext, WorkerHandler, workerVars, capVars, Receive, IntentReads, IntentWrites, CancelReads,
       CancelWrites, RedeemReads, Claim, RedeemWrites, Discard, RunOut, Evict, Propagate
<1>2. WorkerIInv /\ [WorkerNext]_workerVars => (cancelled /\ ~overlapped' => mintedCaps' = mintedCaps /\ held' = held)
  BY <1>1
<1>3. QED
  BY <1>2, WorkerInvariance, PTL DEF WorkerSpec, CancelHoldsUnlessRaced

=============================================================================
