----------------------------- MODULE GrantProofs -----------------------------
(***************************************************************************)
(* Theorems about grants: GrantLifecycle and CaveatLimits, which share no  *)
(* state.                                                                  *)
(*                                                                         *)
(* GrantLifecycle, for every set of grants, principals and handlers, with  *)
(* statements that may fail and a process that may die: a revocation is    *)
(* for good and its answer true, and the row of a grant that was minted    *)
(* here names its recipient.                                               *)
(*                                                                         *)
(* CaveatLimits, for all grants and caveats, any finite set of handlers    *)
(* and any size of the cache: a rate caveat lets through no more than its  *)
(* bucket gives, and discharge-from passes only on a discharge young       *)
(* enough.                                                                 *)
(***************************************************************************)
EXTENDS GrantLifecycle, CaveatLimits, FiniteSetTheorems, TLAPS

\* Rows are of grants that exist, and only a row can be revoked.
RowsGenuine ==
    \A g \in Ids : /\ known[g].stored => Minted(g)
                   /\ known[g].revoked => known[g].stored

\* A grant minted here is used only after its own row was inserted or the
\* insertion failed: first sight comes too late to leave out the recipient.
RecordedFirst ==
    /\ \A g \in held : Minted(g)
    /\ \A g \in held \ unrecorded :
          macaroon[g].via \in {"mint", "refresh"} => known[g].stored

\* What a handler relies on between its steps.
HandlerKnows(r) ==
    /\ req[r].pc # "idle" => req[r].grant \in held
    /\ req[r].pc \in {"remember", "hand over"} => req[r].id \in Ids /\ Minted(req[r].id)
    /\ req[r].pc = "hand over" => known[req[r].id].stored \/ req[r].id \in unrecorded
    /\ req[r].pc \in {"update", "stub", "revoked"} =>
          req[r].id \in Ids /\ known[req[r].id].stored /\ req[r].op # ""
    /\ req[r].pc = "stub" \/ (req[r].pc = "revoked" /\ req[r].op = "capability") =>
          known[req[r].id].revoked

IInv ==
    /\ TypeOK
    /\ RowsGenuine
    /\ RecordedFirst
    /\ \A r \in Requests : HandlerKnows(r)
    /\ RevokeAnswerTrue
    /\ RecipientRecorded
    /\ NothingAfterRevocation

-----------------------------------------------------------------------------
(* Steps.                                                                  *)

LEMMA IdleType == Idle \in Local /\ NoRow \in Row
  BY DEF Idle, Local, NoRow, Row, Column

\* A step in which a handler keeps its grant and what it was told on the way in.
Onward(r, q, pc) ==
    /\ q.pc = pc /\ q.grant = req[r].grant /\ q.late = req[r].late
    /\ q.blind \in {req[r].blind, TRUE}

\* A mint makes a new macaroon, which the handler is then to record.
Mints(r) ==
    /\ Onward(r, req'[r], "remember")
    /\ req'[r].id \in Ids /\ ~Minted(req'[r].id)
    /\ \E m \in Macaroon : m.via # "none" /\ macaroon' = [macaroon EXCEPT ![req'[r].id] = m]

\* What a step leaves in the variables of its handler.
After(r) ==
    LET q == req'[r] IN
    \/ q = Idle
    \/ /\ authMiddleware(r) /\ q.pc = "seen" /\ q.grant \in held
       /\ IsGrantRevoked(q.grant) => q.blind
       /\ q.late => [op |-> "capability", id |-> q.grant] \in acks
    \/ rememberAuthenticatedGrant(r) /\ Onward(r, q, "handler")
    \/ handleCapabilityRefresh(r) /\ Onward(r, q, "refresh")
    \/ /\ handleGrantMint(r) \/ MintRefreshed(r)
       /\ Mints(r)
    \/ RememberGrant(r) /\ Onward(r, q, "hand over") /\ q.id = req[r].id
    \/ /\ requireGrantOwnership(r) /\ Onward(r, q, "update")
       /\ q.id \in Ids /\ known[q.id].stored /\ q.op # ""
    \/ /\ MarkGrantRevoked(r) /\ q.pc \in {"stub", "revoked"} /\ Onward(r, q, q.pc)
       /\ q.id = req[r].id /\ q.op = req[r].op
    \/ InsertStub(r) /\ Onward(r, q, "revoked") /\ q.id = req[r].id /\ q.op = req[r].op
    \/ /\ MarkFails(r) /\ Onward(r, q, "revoked") /\ q.id = req[r].id
       /\ q.op = req[r].op /\ req[r].op = "grant"

\* A step sets its handler's variables, and no other handler's.
Sets(r) == req' = [req EXCEPT ![r] = req'[r]] /\ req'[r] \in Local

LEMMA GotoLocal ==
    ASSUME TypeOK, NEW r \in Requests, NEW pc, Goto(r, pc),
           pc \in {"seen", "handler", "refresh", "remember", "hand over", "stub", "revoked"}
    PROVE  /\ Sets(r) /\ Onward(r, req'[r], pc)
           /\ req'[r].id = req[r].id /\ req'[r].op = req[r].op
  BY DEF Goto, TypeOK, Local, Sets, Onward

LEMMA DropLocal ==
    ASSUME TypeOK, NEW r \in Requests, Drop(r)
    PROVE  Sets(r) /\ req'[r] = Idle
  BY IdleType DEF Drop, TypeOK, Sets

LEMMA SetLocal ==
    ASSUME TypeOK, NEW r \in Requests, NEW q \in Local, req' = [req EXCEPT ![r] = q]
    PROVE  Sets(r) /\ req'[r] = q
  BY DEF TypeOK, Sets

\* A minted macaroon and the handler that minted it.
LEMMA MintLocal ==
    ASSUME TypeOK, \A t \in Requests : HandlerKnows(t), RecordedFirst,
           NEW r \in Requests, handleGrantMint(r) \/ MintRefreshed(r)
    PROVE  Sets(r) /\ Mints(r) /\ After(r)
<1>1. PICK c \in Ids, m \in Macaroon :
          /\ ~Minted(c) /\ m.via # "none"
          /\ macaroon' = [macaroon EXCEPT ![c] = m]
          /\ req' = [req EXCEPT ![r] = [req[r] EXCEPT !.pc = "remember", !.id = c]]
  <2>1. req[r].grant \in Ids /\ macaroon[req[r].grant] \in Macaroon
    BY DEF HandlerKnows, handleGrantMint, MintRefreshed, TypeOK
  <2>2. CASE handleGrantMint(r)
    <3>1. PICK c \in Ids, p \in Principals :
              /\ ~Minted(c)
              /\ macaroon' = [macaroon EXCEPT ![c] = [via |-> "mint", to |-> p,
                                 issuer |-> macaroon[req[r].grant].issuer, parent |-> req[r].grant]]
              /\ req' = [req EXCEPT ![r] = [req[r] EXCEPT !.pc = "remember", !.id = c]]
      BY <2>2 DEF handleGrantMint
    <3>2. [via |-> "mint", to |-> p, issuer |-> macaroon[req[r].grant].issuer,
           parent |-> req[r].grant] \in Macaroon
      BY <2>1 DEF Macaroon, Column
    <3>3. QED
      BY <3>1, <3>2
  <2>3. CASE MintRefreshed(r)
    <3>1. PICK c \in Ids :
              /\ ~Minted(c)
              /\ macaroon' = [macaroon EXCEPT ![c] = [via |-> "refresh",
                                 to |-> macaroon[req[r].grant].issuer,
                                 issuer |-> Hub, parent |-> req[r].grant]]
              /\ req' = [req EXCEPT ![r] = [req[r] EXCEPT !.pc = "remember", !.id = c]]
      BY <2>3 DEF MintRefreshed
    <3>2. [via |-> "refresh", to |-> macaroon[req[r].grant].issuer, issuer |-> Hub,
           parent |-> req[r].grant] \in Macaroon
      BY <2>1, GrantAssumption DEF Macaroon, Column
    <3>3. QED
      BY <3>1, <3>2
  <2>4. QED
    BY <2>2, <2>3
<1>2. /\ req[r] \in Local
      /\ [req[r] EXCEPT !.pc = "remember", !.id = c] \in Local
      /\ Onward(r, [req[r] EXCEPT !.pc = "remember", !.id = c], "remember")
      /\ [req[r] EXCEPT !.pc = "remember", !.id = c].id = c
  BY DEF TypeOK, Local, Column, Onward
<1>3. Sets(r) /\ req'[r] = [req[r] EXCEPT !.pc = "remember", !.id = c]
  BY <1>1, <1>2 DEF TypeOK, Sets
<1>4. QED
  BY <1>1, <1>2, <1>3 DEF After, Mints

LEMMA LocalAfter ==
    ASSUME TypeOK, \A t \in Requests : HandlerKnows(t), RecordedFirst,
           NEW r \in Requests, Handler(r)
    PROVE  Sets(r) /\ After(r)
<1>0. req \in [Requests -> Local] /\ req[r] \in Local /\ held \subseteq Ids
  BY DEF TypeOK
<1>1. CASE authMiddleware(r)
  <2>1. PICK g \in held, blind \in {FALSE, MayFail} :
            /\ IsGrantRevoked(g) => blind
            /\ req' = [req EXCEPT ![r] =
                  [pc |-> "seen", grant |-> g, id |-> NoOne, op |-> "",
                   late |-> [op |-> "capability", id |-> g] \in acks, blind |-> blind]]
    BY <1>1 DEF authMiddleware
  <2>2. PICK late \in BOOLEAN : late = ([op |-> "capability", id |-> g] \in acks)
    <3>1. CASE [op |-> "capability", id |-> g] \in acks
      <4>1. TRUE = ([op |-> "capability", id |-> g] \in acks)
        BY <3>1
      <4>2. QED
        BY <4>1
    <3>2. CASE ~([op |-> "capability", id |-> g] \in acks)
      <4>1. FALSE = ([op |-> "capability", id |-> g] \in acks)
        BY <3>2
      <4>2. QED
        BY <4>1
    <3>3. QED
      BY <3>1, <3>2
  <2> DEFINE q == [pc |-> "seen", grant |-> g, id |-> NoOne, op |-> "",
                   late |-> late, blind |-> blind]
  <2>3. req' = [req EXCEPT ![r] = q]
    BY <2>1, <2>2
  <2>4. blind \in BOOLEAN
    BY GrantAssumption
  <2>5. q \in Local
    BY <1>0, <2>4 DEF Local, Column
  <2>6. Sets(r) /\ req'[r] = q
    BY <2>3, <2>5, SetLocal
  <2>7. q.late => [op |-> "capability", id |-> q.grant] \in acks
    BY <2>2
  <2>8. q.grant = g /\ q.pc = "seen" /\ q.blind = blind
    OBVIOUS
  <2>9. IsGrantRevoked(q.grant) => q.blind
    BY <2>1, <2>8
  <2>10. QED
    BY <1>1, <2>6, <2>7, <2>8, <2>9 DEF After
<1>2. CASE rememberAuthenticatedGrant(r)
  BY <1>2, GotoLocal DEF rememberAuthenticatedGrant, After
<1>3. CASE OtherHandler(r) \/ AnswerGrant(r) \/ AnswerRevoked(r)
  BY <1>3, DropLocal DEF OtherHandler, AnswerGrant, AnswerRevoked, After
<1>4. CASE handleGrantMint(r) \/ MintRefreshed(r)
  BY <1>4, MintLocal
<1>5. CASE handleCapabilityRefresh(r)
  <2>1. CASE Goto(r, "refresh")
    BY <1>5, <2>1, GotoLocal DEF After
  <2>2. CASE req' = [req EXCEPT ![r] = [req[r] EXCEPT !.pc = "refresh", !.blind = TRUE]]
    <3>1. /\ [req[r] EXCEPT !.pc = "refresh", !.blind = TRUE] \in Local
          /\ Onward(r, [req[r] EXCEPT !.pc = "refresh", !.blind = TRUE], "refresh")
      BY <1>0 DEF Local, Onward
    <3>2. QED
      BY <1>5, <2>2, <3>1, SetLocal DEF After
  <2>3. QED
    BY <1>5, <2>1, <2>2 DEF handleCapabilityRefresh
<1>6. CASE RememberGrant(r)
  BY <1>6, GotoLocal DEF RememberGrant, After
<1>7. CASE requireGrantOwnership(r)
  <2>1. PICK t \in Ids, op \in {"grant", "capability"} :
            /\ known[t].stored
            /\ req' = [req EXCEPT ![r] = [req[r] EXCEPT !.pc = "update", !.id = t, !.op = op]]
    BY <1>7 DEF requireGrantOwnership, GetKnownGrant
  <2> DEFINE q == [req[r] EXCEPT !.pc = "update", !.id = t, !.op = op]
  <2>2. q \in Local /\ Onward(r, q, "update") /\ q.id = t /\ q.op = op
    BY <1>0 DEF Local, Column, Onward
  <2>3. Sets(r) /\ req'[r] = q
    BY <2>1, <2>2, SetLocal
  <2>4. QED
    BY <1>7, <2>1, <2>2, <2>3 DEF After
<1>8. CASE MarkGrantRevoked(r)
  <2>1. Goto(r, "revoked") \/ Goto(r, "stub")
    BY <1>8 DEF MarkGrantRevoked
  <2>2. QED
    BY <1>8, <2>1, GotoLocal DEF After, Onward
<1>9. CASE InsertStub(r)
  BY <1>9, GotoLocal DEF InsertStub, After
<1>10. CASE MarkFails(r)
  BY <1>10, GotoLocal, DropLocal DEF MarkFails, After
<1>11. QED
  BY <1>1, <1>2, <1>3, <1>4, <1>5, <1>6, <1>7, <1>8, <1>9, <1>10 DEF Handler

-----------------------------------------------------------------------------
(* The table.                                                              *)

\* Whatever is inserted: rows that are there stay as they are, except that
\* they may become revoked, and a new row is of a grant that exists.
LEMMA TableStep ==
    ASSUME IInv, [Next]_vars
    PROVE  \A g \in Ids :
              /\ known'[g] \in Row
              /\ known[g].revoked => known'[g].revoked
              /\ known[g].stored => /\ known'[g].stored
                                    /\ known'[g].issuer = known[g].issuer
                                    /\ known'[g].recipient = known[g].recipient
              /\ known'[g].revoked => known'[g].stored
              /\ ~known[g].stored /\ known'[g].stored =>
                    \E r \in Requests :
                       \/ rememberAuthenticatedGrant(r) /\ g = req[r].grant
                       \/ /\ RememberGrant(r) /\ g = req[r].id
                          /\ known'[g].recipient = macaroon[g].to
<1>0. /\ known \in [Ids -> Row] /\ \A g \in Ids : macaroon[g] \in Macaroon
      /\ \A g \in Ids : known[g].revoked => known[g].stored
  BY DEF IInv, TypeOK, RowsGenuine
<1>1. ASSUME NEW c \in Ids, NEW issuer \in Column(Principals), NEW recipient \in Column(Principals),
             known' = Remembering(c, issuer, recipient)
      PROVE  /\ known' \in [Ids -> Row]
             /\ \A g \in Ids : known[g].stored \/ g # c => known'[g] = known[g]
             /\ ~known[c].stored => /\ ~known'[c].revoked /\ known'[c].stored
                                    /\ known'[c].recipient = recipient
  <2>1. [stored |-> TRUE, issuer |-> issuer, recipient |-> recipient, revoked |-> FALSE] \in Row
    BY DEF Row
  <2>2. QED
    BY <1>0, <1>1, <2>1 DEF Remembering
<1>2. CASE known' = known
  BY <1>0, <1>2
<1>3. ASSUME NEW r \in Requests, rememberAuthenticatedGrant(r), known' # known
      PROVE  /\ req[r].grant \in Ids
             /\ known' = Remembering(req[r].grant, macaroon[req[r].grant].issuer, NoOne)
             /\ macaroon[req[r].grant].issuer \in Column(Principals)
  BY <1>0, <1>3 DEF IInv, TypeOK, HandlerKnows, rememberAuthenticatedGrant, Macaroon
<1>4. ASSUME NEW r \in Requests, RememberGrant(r), known' # known
      PROVE  /\ req[r].id \in Ids
             /\ known' = Remembering(req[r].id, macaroon[req[r].id].issuer, macaroon[req[r].id].to)
             /\ macaroon[req[r].id].issuer \in Column(Principals)
             /\ macaroon[req[r].id].to \in Column(Principals)
  BY <1>0, <1>4 DEF IInv, TypeOK, HandlerKnows, RememberGrant, Macaroon
<1>5. ASSUME NEW r \in Requests, MarkGrantRevoked(r), known' # known
      PROVE  req[r].id \in Ids /\ known[req[r].id].stored
             /\ known' = [known EXCEPT ![req[r].id].revoked = TRUE]
  BY <1>5 DEF IInv, HandlerKnows, MarkGrantRevoked
<1>6. ASSUME NEW r \in Requests, InsertStub(r)
      PROVE  known' = known
  BY <1>6 DEF IInv, HandlerKnows, InsertStub
<1>7. \/ known' = known
      \/ \E r \in Requests : rememberAuthenticatedGrant(r) \/ RememberGrant(r) \/ MarkGrantRevoked(r)
  BY <1>6 DEF Next, Handler, vars, Crash, authMiddleware, OtherHandler, handleGrantMint,
     handleCapabilityRefresh, MintRefreshed, AnswerGrant, requireGrantOwnership, MarkFails,
     AnswerRevoked
<1>8. ASSUME NEW r \in Requests, rememberAuthenticatedGrant(r), known' # known, NEW g \in Ids
      PROVE  /\ known' \in [Ids -> Row]
             /\ known[g].stored \/ g # req[r].grant => known'[g] = known[g]
             /\ ~known[req[r].grant].stored => ~known'[req[r].grant].revoked
  <2>1. NoOne \in Column(Principals)
    BY DEF Column
  <2>2. QED
    BY <1>1, <1>3, <1>8, <2>1
<1>9. ASSUME NEW r \in Requests, RememberGrant(r), known' # known, NEW g \in Ids
      PROVE  /\ known' \in [Ids -> Row]
             /\ known[g].stored \/ g # req[r].id => known'[g] = known[g]
             /\ ~known[req[r].id].stored =>
                   /\ ~known'[req[r].id].revoked
                   /\ known'[req[r].id].recipient = macaroon[req[r].id].to
  BY <1>1, <1>4, <1>9
<1>10. ASSUME NEW r \in Requests, MarkGrantRevoked(r), known' # known, NEW g \in Ids
       PROVE  /\ known'[g] \in Row /\ known'[g].stored = known[g].stored
              /\ known'[g].issuer = known[g].issuer /\ known'[g].recipient = known[g].recipient
              /\ known[g].revoked => known'[g].revoked
              /\ known'[g].revoked => known[g].stored
  <2> DEFINE t == req[r].id
  <2>1. t \in Ids /\ known[t].stored /\ known' = [known EXCEPT ![t].revoked = TRUE]
    BY <1>5, <1>10
  <2>2. CASE g = t
    <3>1. known'[g] = [known[g] EXCEPT !.revoked = TRUE] /\ known[g] \in Row
      BY <1>0, <2>1, <2>2
    <3>2. known[g].stored
      BY <2>1, <2>2
    <3>3. TRUE \in BOOLEAN
      OBVIOUS
    <3>4. known'[g] \in Row
      BY <3>1, <3>3 DEF Row
    <3>5. /\ known'[g].stored = known[g].stored /\ known'[g].issuer = known[g].issuer
          /\ known'[g].recipient = known[g].recipient /\ known'[g].revoked
      BY <3>1 DEF Row
    <3>6. QED
      BY <3>2, <3>4, <3>5
  <2>3. CASE g # t
    <3>1. known'[g] = known[g]
      BY <1>0, <2>1, <2>3
    <3>2. QED
      BY <1>0, <3>1
  <2>4. QED
    BY <2>2, <2>3
<1> SUFFICES ASSUME NEW g \in Ids
             PROVE  /\ known'[g] \in Row
                    /\ known[g].revoked => known'[g].revoked
                    /\ known[g].stored => /\ known'[g].stored
                                          /\ known'[g].issuer = known[g].issuer
                                          /\ known'[g].recipient = known[g].recipient
                    /\ known'[g].revoked => known'[g].stored
                    /\ ~known[g].stored /\ known'[g].stored =>
                          \E r \in Requests :
                             \/ rememberAuthenticatedGrant(r) /\ g = req[r].grant
                             \/ /\ RememberGrant(r) /\ g = req[r].id
                                /\ known'[g].recipient = macaroon[g].to
  OBVIOUS
<1>11. CASE \E r \in Requests : rememberAuthenticatedGrant(r) /\ known' # known
  <2> PICK r \in Requests : rememberAuthenticatedGrant(r) /\ known' # known
    BY <1>11
  <2>1. CASE known'[g] = known[g]
    BY <1>0, <2>1
  <2>2. CASE g = req[r].grant /\ ~known[g].stored
    BY <1>0, <1>8, <2>2
  <2>3. QED
    BY <1>8, <2>1, <2>2
<1>12. CASE \E r \in Requests : RememberGrant(r) /\ known' # known
  <2> PICK r \in Requests : RememberGrant(r) /\ known' # known
    BY <1>12
  <2>1. CASE known'[g] = known[g]
    BY <1>0, <2>1
  <2>2. CASE g = req[r].id /\ ~known[g].stored
    BY <1>0, <1>9, <2>2
  <2>3. QED
    BY <1>9, <2>1, <2>2
<1>13. CASE \E r \in Requests : MarkGrantRevoked(r) /\ known' # known
  BY <1>0, <1>10, <1>13
<1>14. QED
  BY <1>0, <1>2, <1>7, <1>11, <1>12, <1>13

\* A macaroon is data: once minted it never changes.
LEMMA MacaroonStep ==
    ASSUME IInv, [Next]_vars
    PROVE  /\ \A g \in Ids : /\ macaroon'[g] \in Macaroon
                            /\ Minted(g) => macaroon'[g] = macaroon[g] /\ Minted(g)'
           /\ \/ macaroon' = macaroon
              \/ macaroon' \in [Ids -> Macaroon] /\ known' = known /\ held' = held
                 /\ unrecorded' = unrecorded /\ acks' = acks
<1>0. macaroon \in [Ids -> Macaroon]
  BY DEF IInv, TypeOK
<1>1. CASE macaroon' = macaroon
  BY <1>0, <1>1 DEF Minted
<1>2. ASSUME NEW r \in Requests, handleGrantMint(r) \/ MintRefreshed(r)
      PROVE  \E c \in Ids, m \in Macaroon :
                ~Minted(c) /\ m.via # "none" /\ macaroon' = [macaroon EXCEPT ![c] = m]
  BY <1>2, MintLocal DEF IInv, Mints
<1>3. CASE \E r \in Requests : handleGrantMint(r) \/ MintRefreshed(r)
  <2>1. PICK r \in Requests : handleGrantMint(r) \/ MintRefreshed(r)
    BY <1>3
  <2>2. PICK c \in Ids, m \in Macaroon :
           ~Minted(c) /\ m.via # "none" /\ macaroon' = [macaroon EXCEPT ![c] = m]
    BY <1>2, <2>1
  <2>3. \A g \in Ids : Minted(g) => g # c
    BY <2>2
  <2>4. known' = known /\ held' = held /\ unrecorded' = unrecorded /\ acks' = acks
    BY <2>1 DEF handleGrantMint, MintRefreshed
  <2>5. QED
    BY <1>0, <2>2, <2>3, <2>4 DEF Minted
<1>4. \/ macaroon' = macaroon
      \/ \E r \in Requests : handleGrantMint(r) \/ MintRefreshed(r)
  BY DEF Next, Handler, vars, Crash, authMiddleware, rememberAuthenticatedGrant, OtherHandler,
     handleCapabilityRefresh, RememberGrant, AnswerGrant, requireGrantOwnership, MarkGrantRevoked,
     InsertStub, MarkFails, AnswerRevoked
<1>5. QED
  BY <1>1, <1>3, <1>4

-----------------------------------------------------------------------------
(* The conjuncts of the invariant.                                         *)

\* What a step does to the handlers: one of them moves on, or all of them die.
LEMMA OneMoves ==
    ASSUME IInv, [Next]_vars
    PROVE  \/ req' = req
           \/ Crash /\ \A r \in Requests : req'[r] = Idle
           \/ \E r \in Requests : Handler(r) /\ Sets(r) /\ After(r)
<1>1. ASSUME NEW r \in Requests, Handler(r)
      PROVE  Sets(r) /\ After(r)
  BY <1>1, LocalAfter DEF IInv
<1>2. QED
  BY <1>1 DEF Next, vars, Crash

LEMMA TypeStep ==
    ASSUME IInv, [Next]_vars
    PROVE  TypeOK'
<1>0. TypeOK /\ \A r \in Requests : HandlerKnows(r)
  BY DEF IInv
<1>1. macaroon' \in [Ids -> Macaroon]
  <2>1. macaroon \in [Ids -> Macaroon]
    BY <1>0 DEF TypeOK
  <2>2. QED
    BY <2>1, MacaroonStep
<1>2. known' \in [Ids -> Row]
  <2>1. \A g \in Ids : known'[g] \in Row
    BY TableStep
  <2>2. known \in [Ids -> Row]
    BY <1>0 DEF TypeOK
  <2>3. DOMAIN known' = Ids /\ known' = [g \in Ids |-> known'[g]]
    BY <2>2 DEF Next, Handler, vars, Crash, authMiddleware, rememberAuthenticatedGrant,
       OtherHandler, handleGrantMint, handleCapabilityRefresh, MintRefreshed, RememberGrant,
       AnswerGrant, requireGrantOwnership, MarkGrantRevoked, InsertStub, MarkFails,
       AnswerRevoked, Remembering
  <2>4. QED
    BY <2>1, <2>3
<1>3. req' \in [Requests -> Local]
  <2>1. req \in [Requests -> Local]
    BY <1>0 DEF TypeOK
  <2>2. CASE Crash
    BY <2>2, IdleType DEF Crash
  <2>3. QED
    BY <2>1, <2>2, OneMoves DEF Sets
<1>4. held' \subseteq Ids /\ unrecorded' \subseteq Ids
  BY <1>0 DEF TypeOK, HandlerKnows, Next, Handler, vars, Crash, authMiddleware,
     rememberAuthenticatedGrant, OtherHandler, handleGrantMint, handleCapabilityRefresh,
     MintRefreshed, RememberGrant, AnswerGrant, requireGrantOwnership, MarkGrantRevoked,
     InsertStub, MarkFails, AnswerRevoked
<1>5. acks' \subseteq [op : {"grant", "capability"}, id : Ids]
  <2>1. ASSUME NEW r \in Requests, AnswerRevoked(r)
        PROVE  acks' \subseteq [op : {"grant", "capability"}, id : Ids]
    <3>1. req[r].id \in Ids /\ req[r].op \in {"grant", "capability"}
      BY <1>0, <2>1 DEF TypeOK, Local, HandlerKnows, AnswerRevoked
    <3>2. QED
      BY <1>0, <2>1, <3>1 DEF AnswerRevoked, TypeOK
  <2>2. acks' = acks \/ \E r \in Requests : AnswerRevoked(r)
    BY DEF Next, Handler, vars, Crash, authMiddleware, rememberAuthenticatedGrant, OtherHandler,
       handleGrantMint, handleCapabilityRefresh, MintRefreshed, RememberGrant, AnswerGrant,
       requireGrantOwnership, MarkGrantRevoked, InsertStub, MarkFails
  <2>3. QED
    BY <1>0, <2>1, <2>2 DEF TypeOK
<1>6. crashes' \in Nat
  <2>1. crashes' = crashes \/ crashes' = crashes + 1
    BY DEF Next, Handler, vars, Crash, authMiddleware, rememberAuthenticatedGrant, OtherHandler,
       handleGrantMint, handleCapabilityRefresh, MintRefreshed, RememberGrant, AnswerGrant,
       requireGrantOwnership, MarkGrantRevoked, InsertStub, MarkFails, AnswerRevoked
  <2>2. crashes \in Nat
    BY <1>0 DEF TypeOK
  <2>3. QED
    BY <2>1, <2>2
<1>7. QED
  BY <1>1, <1>2, <1>3, <1>4, <1>5, <1>6 DEF TypeOK

\* Rows stay of grants that exist: a first sight is of a grant that is held,
\* an insertion after a mint of the grant that was minted.
LEMMA RowsStep ==
    ASSUME IInv, [Next]_vars
    PROVE  RowsGenuine'
<1>0. /\ RowsGenuine /\ RecordedFirst /\ \A r \in Requests : HandlerKnows(r)
      /\ held \subseteq Ids
  BY DEF IInv, TypeOK
<1> SUFFICES ASSUME NEW g \in Ids
             PROVE  (known'[g].stored => Minted(g)') /\ (known'[g].revoked => known'[g].stored)
  BY DEF RowsGenuine
<1>1. ASSUME NEW r \in Requests, rememberAuthenticatedGrant(r)
      PROVE  Minted(req[r].grant)
  BY <1>0, <1>1 DEF HandlerKnows, RecordedFirst, rememberAuthenticatedGrant
<1>2. ASSUME NEW r \in Requests, RememberGrant(r)
      PROVE  Minted(req[r].id)
  BY <1>0, <1>2 DEF HandlerKnows, RememberGrant
<1>3. known'[g].stored => Minted(g)
  BY <1>0, <1>1, <1>2, TableStep DEF RowsGenuine
<1>4. Minted(g) => Minted(g)'
  BY MacaroonStep DEF Minted
<1>5. known'[g].revoked => known'[g].stored
  BY TableStep
<1>6. QED
  BY <1>3, <1>4, <1>5

\* A grant reaches a client after its row was inserted or failed to be.
LEMMA HeldStep ==
    ASSUME IInv, [Next]_vars
    PROVE  RecordedFirst' /\ unrecorded \subseteq unrecorded' /\ held \subseteq held'
<1>0. RecordedFirst /\ held \subseteq Ids /\ \A r \in Requests : HandlerKnows(r)
  BY DEF IInv, TypeOK
<1>1. unrecorded \subseteq unrecorded' /\ held \subseteq held'
  BY DEF Next, Handler, vars, Crash, authMiddleware, rememberAuthenticatedGrant, OtherHandler,
     handleGrantMint, handleCapabilityRefresh, MintRefreshed, RememberGrant, AnswerGrant,
     requireGrantOwnership, MarkGrantRevoked, InsertStub, MarkFails, AnswerRevoked
<1>2. \A g \in held' \ held : g \in Ids /\ Minted(g) /\ (known[g].stored \/ g \in unrecorded)
  BY <1>0 DEF HandlerKnows, Next, Handler, vars, Crash, authMiddleware,
     rememberAuthenticatedGrant, OtherHandler, handleGrantMint, handleCapabilityRefresh,
     MintRefreshed, RememberGrant, AnswerGrant, requireGrantOwnership, MarkGrantRevoked,
     InsertStub, MarkFails, AnswerRevoked
<1>3. \A g \in held' : g \in Ids /\ Minted(g)
  BY <1>0, <1>2 DEF RecordedFirst
<1>4. \A g \in held' : macaroon'[g] = macaroon[g] /\ Minted(g)'
  BY <1>3, MacaroonStep DEF Minted
<1>5. \A g \in held' \ unrecorded' :
         macaroon[g].via \in {"mint", "refresh"} => known[g].stored
  BY <1>0, <1>1, <1>2 DEF RecordedFirst
<1>6. \A g \in Ids : known[g].stored => known'[g].stored
  BY TableStep
<1>7. QED
  BY <1>1, <1>3, <1>4, <1>5, <1>6 DEF RecordedFirst, Minted

\* What was recorded, failed to be recorded or is revoked stays so: the other
\* handlers may go on relying on it.
LEMMA OthersKeep ==
    ASSUME IInv, [Next]_vars, NEW r \in Requests, req'[r] = req[r]
    PROVE  HandlerKnows(r)'
<1>1. HandlerKnows(r) /\ held \subseteq held' /\ unrecorded \subseteq unrecorded'
  BY HeldStep DEF IInv
<1>2. \A g \in Ids : /\ known[g].stored => known'[g].stored
                     /\ known[g].revoked => known'[g].revoked
  BY TableStep
<1>3. \A g \in Ids : Minted(g) => Minted(g)'
  BY MacaroonStep DEF Minted
<1>4. QED
  BY <1>1, <1>2, <1>3 DEF HandlerKnows, Minted

\* What a handler's own step makes it know.
LEMMA KnowsStep ==
    ASSUME IInv, [Next]_vars, NEW r \in Requests
    PROVE  HandlerKnows(r)'
<1>0. TypeOK /\ RecordedFirst /\ HandlerKnows(r) /\ held \subseteq Ids /\ req[r] \in Local
  BY DEF IInv, TypeOK
<1>1. held \subseteq held' /\ unrecorded \subseteq unrecorded'
  BY HeldStep
<1>2. \A g \in Ids : /\ known[g].stored => known'[g].stored
                     /\ known[g].revoked => known'[g].revoked
  BY TableStep
<1>3. \A g \in Ids : Minted(g) => Minted(g)'
  BY MacaroonStep DEF Minted
<1>4. CASE req'[r] = req[r]
  BY <1>4, OthersKeep
<1>5. CASE req'[r] = Idle
  <2>1. req'[r].pc = "idle"
    <3>1. Idle.pc = "idle"
      BY DEF Idle
    <3>2. QED
      BY <1>5, <3>1
  <2>2. QED
    BY <2>1 DEF HandlerKnows
<1>6. CASE Handler(r) /\ Sets(r) /\ After(r) /\ req'[r] # Idle
  <2> DEFINE q == req'[r]
  <2>1. CASE authMiddleware(r)
    <3>1. q.pc = "seen" /\ q.grant \in held
      BY <1>6, <2>1 DEF After, authMiddleware, rememberAuthenticatedGrant, handleGrantMint,
         handleCapabilityRefresh, MintRefreshed, RememberGrant, requireGrantOwnership,
         MarkGrantRevoked, InsertStub, MarkFails
    <3>2. QED
      BY <1>1, <3>1 DEF HandlerKnows
  <2>2. CASE ~authMiddleware(r)
    <3>1. q.grant \in held
      BY <1>0, <1>6, <2>2 DEF After, Onward, HandlerKnows, rememberAuthenticatedGrant,
         handleGrantMint, handleCapabilityRefresh, MintRefreshed, RememberGrant,
         requireGrantOwnership, MarkGrantRevoked, InsertStub, MarkFails, Mints
    <3>2. CASE q.pc \in {"handler", "refresh"}
      BY <1>1, <3>1, <3>2 DEF HandlerKnows
    <3>3. CASE Mints(r)
      <4>1. q.pc = "remember" /\ q.id \in Ids /\ macaroon'[q.id].via # "none"
        <5>1. PICK m \in Macaroon : m.via # "none" /\ macaroon' = [macaroon EXCEPT ![q.id] = m]
          BY <3>3 DEF Mints
        <5>2. q.id \in Ids /\ macaroon'[q.id] = m
          BY <1>0, <3>3, <5>1 DEF Mints, TypeOK
        <5>3. macaroon'[q.id].via # "none" /\ q.pc = "remember"
          BY <3>3, <5>1, <5>2 DEF Mints, Onward
        <5>4. QED
          BY <5>2, <5>3
      <4>2. q.pc # "hand over" /\ q.pc \notin {"update", "stub", "revoked"}
        BY <4>1
      <4>3. q.grant \in held'
        BY <1>1, <3>1
      <4>4. QED
        BY <4>1, <4>2, <4>3 DEF HandlerKnows, Minted
    <3>4. CASE RememberGrant(r) /\ Onward(r, q, "hand over") /\ q.id = req[r].id
      <4>1. req[r].id \in Ids /\ Minted(req[r].id) /\ q.pc = "hand over"
        BY <1>0, <3>4 DEF HandlerKnows, RememberGrant, Onward
      <4>2. known'[req[r].id].stored \/ req[r].id \in unrecorded'
        <5>1. CASE known' = Remembering(req[r].id, macaroon[req[r].id].issuer, macaroon[req[r].id].to)
          BY <1>0, <4>1, <5>1 DEF Remembering, TypeOK
        <5>2. QED
          BY <3>4, <5>1 DEF RememberGrant
      <4>3. QED
        BY <1>1, <1>3, <3>1, <3>4, <4>1, <4>2 DEF HandlerKnows, Minted
    <3>5. CASE /\ requireGrantOwnership(r) /\ Onward(r, q, "update")
               /\ q.id \in Ids /\ known[q.id].stored /\ q.op # ""
      BY <1>1, <1>2, <3>1, <3>5 DEF HandlerKnows, Onward
    <3>6. CASE /\ MarkGrantRevoked(r) /\ q.pc \in {"stub", "revoked"}
               /\ q.id = req[r].id /\ q.op = req[r].op
      <4>1. q.id \in Ids /\ known[q.id].stored /\ q.op # ""
        BY <1>0, <3>6 DEF HandlerKnows, MarkGrantRevoked
      <4>2. known'[q.id].revoked
        BY <1>0, <3>6, <4>1 DEF MarkGrantRevoked, TypeOK, Row
      <4>3. QED
        BY <1>1, <1>2, <3>1, <3>6, <4>1, <4>2 DEF HandlerKnows
    <3>7. CASE InsertStub(r) /\ Onward(r, q, "revoked") /\ q.id = req[r].id /\ q.op = req[r].op
      <4>1. q.id \in Ids /\ known[q.id].stored /\ known[q.id].revoked /\ q.op # ""
        BY <1>0, <3>7 DEF HandlerKnows, InsertStub
      <4>2. QED
        BY <1>1, <1>2, <3>1, <3>7, <4>1 DEF HandlerKnows, Onward
    <3>8. CASE /\ MarkFails(r) /\ Onward(r, q, "revoked") /\ q.id = req[r].id
               /\ q.op = req[r].op /\ req[r].op = "grant"
      <4>1. q.id \in Ids /\ known[q.id].stored
        BY <1>0, <3>8 DEF HandlerKnows, MarkFails
      <4>2. QED
        BY <1>1, <1>2, <3>1, <3>8, <4>1 DEF HandlerKnows, Onward
    <3>9. QED
      BY <1>6, <2>2, <3>2, <3>3, <3>4, <3>5, <3>6, <3>7, <3>8 DEF After, Onward
  <2>3. QED
    BY <2>1, <2>2
<1>7. CASE \E t \in Requests : Handler(t) /\ Sets(t) /\ t # r
  BY <1>0, <1>7, <1>4 DEF Sets, TypeOK
<1>8. QED
  BY <1>4, <1>5, <1>6, <1>7, OneMoves

\* A confirmed revocation of a capability has been stored.
LEMMA AcksStep ==
    ASSUME IInv, [Next]_vars
    PROVE  RevokeAnswerTrue'
<1>1. ASSUME NEW a \in acks', a.op = "capability"
      PROVE  a.id \in Ids /\ known[a.id].revoked
  <2>1. CASE a \in acks
    BY <1>1, <2>1 DEF IInv, RevokeAnswerTrue, TypeOK
  <2>2. CASE \E r \in Requests : AnswerRevoked(r) /\ a = [op |-> req[r].op, id |-> req[r].id]
    <3>1. PICK r \in Requests : AnswerRevoked(r) /\ a = [op |-> req[r].op, id |-> req[r].id]
      BY <2>2
    <3>2. a.id = req[r].id /\ req[r].op = "capability" /\ req[r].pc = "revoked"
      BY <1>1, <3>1 DEF AnswerRevoked
    <3>3. HandlerKnows(r)
      BY DEF IInv
    <3>4. QED
      BY <3>2, <3>3 DEF HandlerKnows
  <2>3. QED
    BY <1>1, <2>1, <2>2 DEF Next, Handler, vars, Crash, authMiddleware,
       rememberAuthenticatedGrant, OtherHandler, handleGrantMint, handleCapabilityRefresh,
       MintRefreshed, RememberGrant, AnswerGrant, requireGrantOwnership, MarkGrantRevoked,
       InsertStub, MarkFails, AnswerRevoked
<1>2. QED
  BY <1>1, TableStep DEF RevokeAnswerTrue

\* First sight never comes before the grant's own row, so a row of a grant
\* minted here that is new has its recipient.
LEMMA RecipientStep ==
    ASSUME IInv, [Next]_vars
    PROVE  RecipientRecorded'
<1>0. /\ RecordedFirst /\ RowsGenuine /\ RecipientRecorded
      /\ \A r \in Requests : HandlerKnows(r)
  BY DEF IInv
<1>1. unrecorded \subseteq unrecorded'
  BY HeldStep
<1> SUFFICES ASSUME NEW g \in Ids \ unrecorded', known'[g].stored,
                    macaroon'[g].via \in {"mint", "refresh"}
             PROVE  known'[g].recipient = macaroon'[g].to
  BY DEF RecipientRecorded
<1>2. CASE known[g].stored
  <2>1. Minted(g) /\ macaroon'[g] = macaroon[g]
    BY <1>0, <1>2, MacaroonStep DEF RowsGenuine
  <2>2. known'[g].recipient = known[g].recipient
    BY <1>2, TableStep
  <2>3. QED
    BY <1>0, <1>1, <1>2, <2>1, <2>2 DEF RecipientRecorded
<1>3. CASE ~known[g].stored
  <2>1. PICK r \in Requests :
           \/ rememberAuthenticatedGrant(r) /\ g = req[r].grant
           \/ RememberGrant(r) /\ g = req[r].id /\ known'[g].recipient = macaroon[g].to
    BY <1>3, TableStep
  <2>2. CASE rememberAuthenticatedGrant(r) /\ g = req[r].grant
    <3>1. g \in held /\ macaroon' = macaroon
      BY <1>0, <2>2 DEF HandlerKnows, rememberAuthenticatedGrant
    <3>2. QED
      BY <1>0, <1>1, <1>3, <3>1 DEF RecordedFirst
  <2>3. CASE RememberGrant(r) /\ known'[g].recipient = macaroon[g].to
    BY <2>3 DEF RememberGrant
  <2>4. QED
    BY <2>1, <2>2, <2>3
<1>4. QED
  BY <1>2, <1>3

\* A handler that came in after the answer came in blind.
LEMMA LateStep ==
    ASSUME IInv, [Next]_vars
    PROVE  NothingAfterRevocation'
<1>0. NothingAfterRevocation /\ RevokeAnswerTrue /\ TypeOK
  BY DEF IInv
<1>1. ~Idle.late
  BY DEF Idle
<1> SUFFICES ASSUME NEW r \in Requests, req'[r].late
             PROVE  req'[r].blind
  BY DEF NothingAfterRevocation
<1>2. CASE req'[r] = req[r]
  BY <1>0, <1>2 DEF NothingAfterRevocation
<1>3. CASE Handler(r) /\ Sets(r) /\ After(r)
  <2>1. CASE req'[r] = Idle
    BY <1>1, <2>1
  <2>2. CASE /\ IsGrantRevoked(req'[r].grant) => req'[r].blind
             /\ req'[r].late => [op |-> "capability", id |-> req'[r].grant] \in acks
    <3>1. req'[r].grant \in Ids /\ known[req'[r].grant].revoked
      BY <1>0, <2>2 DEF RevokeAnswerTrue, TypeOK
    <3>2. IsGrantRevoked(req'[r].grant)
      BY <1>0, <3>1 DEF IInv, RowsGenuine, IsGrantRevoked, GetKnownGrant
    <3>3. QED
      BY <2>2, <3>2
  <2>3. CASE \E pc : Onward(r, req'[r], pc)
    BY <1>0, <2>3 DEF Onward, NothingAfterRevocation
  <2>4. QED
    BY <1>3, <2>1, <2>2, <2>3 DEF After, Mints
<1>4. CASE \E t \in Requests : Sets(t) /\ t # r
  BY <1>0, <1>2, <1>4 DEF Sets, TypeOK
<1>5. QED
  BY <1>1, <1>2, <1>3, <1>4, OneMoves

-----------------------------------------------------------------------------
(* Theorems.                                                               *)

LEMMA Initially == Init => IInv
<1> SUFFICES ASSUME Init PROVE IInv
  OBVIOUS
<1>1. macaroon \in [Ids -> Macaroon]
  <2>1. Unminted \in Macaroon
    BY DEF Unminted, Macaroon, Column
  <2>2. [via : {"root"}, issuer : Principals, to : {NoOne}, parent : {NoOne}] \subseteq Macaroon
    BY DEF Macaroon, Column
  <2>3. QED
    BY <2>1, <2>2 DEF Init
<1>2. TypeOK
  <2>1. known \in [Ids -> Row] /\ req \in [Requests -> Local]
    BY IdleType DEF Init
  <2>2. held \subseteq Ids
    BY GrantAssumption DEF Init
  <2>3. QED
    BY <1>1, <2>1, <2>2 DEF Init, TypeOK
<1>3. \A g \in Ids : ~known[g].stored /\ ~known[g].revoked
  BY DEF Init, NoRow
<1>4. \A g \in held : macaroon[g].via = "root" /\ g \in Ids
  BY GrantAssumption DEF Init
<1>5. \A r \in Requests : req[r].pc = "idle" /\ ~req[r].late
  BY DEF Init, Idle
<1>6. RowsGenuine /\ RecordedFirst /\ RecipientRecorded
  BY <1>3, <1>4 DEF RowsGenuine, RecordedFirst, RecipientRecorded, Minted
<1>7. RevokeAnswerTrue
  BY DEF Init, RevokeAnswerTrue
<1>8. QED
  BY <1>2, <1>5, <1>6, <1>7 DEF IInv, HandlerKnows, NothingAfterRevocation

LEMMA Inductive == IInv /\ [Next]_vars => IInv'
<1> SUFFICES ASSUME IInv, [Next]_vars PROVE IInv'
  OBVIOUS
<1>1. \A r \in Requests : HandlerKnows(r)'
  BY KnowsStep
<1>2. QED
  BY <1>1, TypeStep, RowsStep, HeldStep, AcksStep, RecipientStep, LateStep DEF IInv

\* The inductive invariant of the grants of a hub.
THEOREM Invariance == Spec => []IInv
  BY Initially, Inductive, PTL DEF Spec

\* Type correctness.
THEOREM TypeCorrect == Spec => []TypeOK
<1>1. IInv => TypeOK
  BY DEF IInv
<1>2. QED
  BY <1>1, Invariance, PTL

\* A capability whose DELETE was answered 204 is revoked in the table.
THEOREM AnswerTrue == Spec => []RevokeAnswerTrue
<1>1. IInv => RevokeAnswerTrue
  BY DEF IInv
<1>2. QED
  BY <1>1, Invariance, PTL

\* The row of a grant minted here names its recipient.
THEOREM Recipient == Spec => []RecipientRecorded
<1>1. IInv => RecipientRecorded
  BY DEF IInv
<1>2. QED
  BY <1>1, Invariance, PTL

\* After the answer to its revocation a capability passes authentication only
\* when the read of its row fails.
THEOREM LateMeansBlind == Spec => []NothingAfterRevocation
<1>1. IInv => NothingAfterRevocation
  BY DEF IInv
<1>2. QED
  BY <1>1, Invariance, PTL

\* No insertion, mark or first sight of any handler undoes a revocation.
THEOREM Sticks == Spec => RevocationsStick
<1>1. IInv /\ [Next]_vars => \A g \in Ids : known[g].revoked => known'[g].revoked
  BY TableStep
<1>2. QED
  BY <1>1, Invariance, PTL DEF Spec, RevocationsStick

-----------------------------------------------------------------------------
(* Caveats: the inductive invariant.                                       *)

GrantOf(r) == ctx[r].call.grant
Holds(r) == ctx[r].pc \in {"clock", "take"}

\* The cache has a grant once, and has those that have a bucket.
Cached ==
    /\ Len(lru) <= LRUSize
    /\ \A k, l \in 1 .. Len(lru) : lru[k] = lru[l] => k = l
    /\ \A g \in Grants : bucketOf[g] # 0 <=> \E k \in 1 .. Len(lru) : lru[k] = g

\* A bucket is of one grant.
Apart ==
    /\ \A g, h \in Grants : bucketOf[g] # 0 /\ bucketOf[g] = bucketOf[h] => g = h
    /\ \A r \in Evaluators, h \in Grants : Holds(r) /\ bucketOf[h] = ctx[r].bucket => h = GrantOf(r)

\* A bucket that is remembered or held is in use; the one a handler holds was
\* made for the caveat it is at, also when the grant has another by now.
HeldFits ==
    /\ \A g \in Grants : bucketOf[g] # 0 => heap[bucketOf[g]] # Free
    /\ \A r \in Evaluators : Holds(r) =>
          /\ ctx[r].bucket # 0 /\ ctx[r].i \in DOMAIN Caveats(r) /\ This(r).kind = "rate"
          /\ Fits(heap[ctx[r].bucket], This(r))

\* No object is in use that nobody remembers or holds.
NoneLost ==
    \A s \in Slots : heap[s] # Free =>
        \/ \E g \in Grants : bucketOf[g] = s
        \/ \E r \in Evaluators : Holds(r) /\ ctx[r].bucket = s

\* Clocks that were read are not ahead.
ClocksPast ==
    /\ \A s \in Slots : heap[s].last <= now
    /\ \A r \in Evaluators : ctx[r].clock <= now

\* What the bucket of a grant can still give for a caveat by now, in units: a
\* new one when it has none, or one that was made for another caveat.
Current(g, c) == bucketOf[g] # 0 /\ Fits(heap[bucketOf[g]], c)
Stock(g, c) ==
    IF Current(g, c)
    THEN heap[bucketOf[g]].units + c.n * (now - heap[bucketOf[g]].last)
    ELSE c.n * c.window

\* Handlers at a place that hold a bucket which the cache has forgotten.
Strays(g, i) ==
    {r \in Evaluators : Holds(r) /\ GrantOf(r) = g /\ ctx[r].i = i /\ ctx[r].bucket # bucketOf[g]}

\* What was taken, what can be taken and what strays may still take is covered
\* by a full bucket, what it gained with time and what was forgotten.
Covered ==
    \A g \in Grants : \A i \in DOMAIN CaveatsOf[g] :
        LET c == CaveatsOf[g][i]
        IN  c.kind = "rate" =>
              passed[<<g, i>>] * c.window + Stock(g, c) + Cardinality(Strays(g, i)) * c.window
                <= (c.n + extra[g]) * c.window + c.n * now

\* A discharge that came along was minted, and young enough when the request
\* was parsed; one that is remembered is so for less than twice its life and
\* what it took to remember it.
DischargesMinted ==
    /\ \A u \in Urls : \A e \in cached[u] : \E k \in kept : k.url = u /\ e < k.at + 2 * TTL + k.lag
    /\ \A r \in Evaluators : \A d \in ctx[r].discharges :
          d \in tokens /\ ctx[r].start < d.at + TTL /\ ctx[r].start <= now
    /\ \A d \in fresh : d.at <= now

LimitsIInv ==
    /\ LimitsTypeOK
    /\ Cached
    /\ Apart
    /\ HeldFits
    /\ NoneLost
    /\ ClocksPast
    /\ Covered
    /\ DischargesMinted

-----------------------------------------------------------------------------
(* Types.                                                                  *)

\* A caveat of a grant at a place, with numbers or an URL in it.
LEMMA CaveatTypes ==
    ASSUME NEW c \in Caveat
    PROVE  /\ c.kind = "rate" => c.n \in Nat \ {0} /\ c.window \in Nat \ {0}
           /\ c.kind = "discharge-from" => c.url \in Urls
  BY DEF Caveat

LEMMA PlaceTypes ==
    /\ \A g \in Grants : \A i \in DOMAIN CaveatsOf[g] :
          /\ <<g, i>> \in Places /\ i \in 1 .. Len(CaveatsOf[g]) /\ i \in Nat \ {0}
          /\ CaveatsOf[g][i] \in Caveat
    /\ \A g \in Grants : CaveatsOf[g] \in Seq(Caveat) /\ Len(CaveatsOf[g]) \in Nat
    /\ \A p \in Places : \E g \in Grants : p[1] = g /\ p[2] \in DOMAIN CaveatsOf[g] /\ p = <<p[1], p[2]>>
  BY LimitsAssumption DEF Places

LEMMA SlotTypes == Slots \subseteq Nat \ {0} /\ Cardinality(Evaluators) \in Nat /\ IsFiniteSet(Slots)
<1>1. Cardinality(Evaluators) \in Nat
  BY LimitsAssumption, FS_CardinalityType
<1>2. IsFiniteSet(1 .. (LRUSize + Cardinality(Evaluators)))
  BY <1>1, LimitsAssumption, FS_Interval
<1> QED
  BY <1>1, <1>2, LimitsAssumption DEF Slots

\* A bucket and a context, field by field.
LEMMA LimitsFields ==
    /\ \A b \in Bucket : b.n \in Nat /\ b.window \in Nat /\ b.units \in Nat /\ b.last \in Nat
    /\ \A c \in Context :
          /\ c.pc \in {"idle", "remember", "auth", "eval", "clock", "take"} /\ c.call \in Calls /\ c.i \in Nat \ {0}
          /\ c.start \in Nat /\ c.now \in Nat /\ c.bucket \in Slots \cup {0} /\ c.clock \in Nat
          /\ c.discharges \subseteq Discharge /\ c.call.grant \in Grants
  BY LimitsAssumption DEF Bucket, Context

LEMMA RestTypes ==
    /\ Free \in Bucket /\ NotEvaluating \in Context
    /\ NotEvaluating.pc = "idle" /\ NotEvaluating.clock = 0 /\ NotEvaluating.i = 1 /\ NotEvaluating.discharges = {}
<1>1. AnyCall \in Calls
  BY LimitsAssumption DEF AnyCall
<1> QED
  BY <1>1 DEF Free, Bucket, NotEvaluating, Context

\* What a handler holds, from the invariant.
LEMMA HolderFacts ==
    ASSUME LimitsTypeOK, HeldFits, NEW r \in Evaluators
    PROVE  /\ ctx[r] \in Context /\ GrantOf(r) \in Grants /\ Caveats(r) = CaveatsOf[GrantOf(r)]
           /\ Holds(r) => /\ ctx[r].bucket \in Slots /\ <<GrantOf(r), ctx[r].i>> \in Places
                          /\ ctx[r].i \in DOMAIN CaveatsOf[GrantOf(r)] /\ This(r) = CaveatsOf[GrantOf(r)][ctx[r].i]
                          /\ This(r) \in Caveat /\ This(r).kind = "rate" /\ Fits(heap[ctx[r].bucket], This(r))
                          /\ This(r).n \in Nat \ {0} /\ This(r).window \in Nat \ {0}
                          /\ heap[ctx[r].bucket] \in Bucket
<1>1. ctx[r] \in Context /\ GrantOf(r) \in Grants /\ Caveats(r) = CaveatsOf[GrantOf(r)]
  BY LimitsFields DEF LimitsTypeOK, GrantOf, Caveats
<1>2. ASSUME Holds(r)
      PROVE  /\ ctx[r].bucket \in Slots /\ ctx[r].i \in DOMAIN CaveatsOf[GrantOf(r)] /\ This(r).kind = "rate"
             /\ Fits(heap[ctx[r].bucket], This(r)) /\ heap[ctx[r].bucket] \in Bucket
             /\ This(r) = CaveatsOf[GrantOf(r)][ctx[r].i]
  BY <1>1, <1>2, LimitsFields DEF HeldFits, LimitsTypeOK, This
<1> QED
  BY <1>1, <1>2, PlaceTypes, CaveatTypes

\* The evaluation goes on at a later caveat, or the request ends; either way no
\* bucket is held.
LEMMA EvaluateOneFacts ==
    ASSUME LimitsTypeOK, NEW r \in Evaluators, NEW i \in Nat \ {0}, NEW t \in Nat, evaluateOne(r, i, t)
    PROVE  \E c \in Context :
              /\ ctx' = [ctx EXCEPT ![r] = c]
              /\ c.pc \in {"idle", "eval"} /\ c.clock = 0
              /\ \/ c = NotEvaluating
                 \/ c.start = ctx[r].start /\ c.discharges = ctx[r].discharges /\ c.i >= i
<1> DEFINE cs == CaveatsOf[ctx[r].call.grant]
<1>1. ctx[r] \in Context /\ Len(cs) \in Nat /\ NotEvaluating \in Context
  BY RestTypes, LimitsFields, PlaceTypes DEF LimitsTypeOK
<1> HIDE DEF cs
<1>2. PICK next \in i .. Len(cs) + 1 :
          \/ ctx' = [ctx EXCEPT ![r].pc = "eval", ![r].i = next, ![r].now = t, ![r].bucket = 0, ![r].clock = 0]
          \/ ctx' = [ctx EXCEPT ![r] = NotEvaluating]
  BY DEF evaluateOne, End, cs
<1>3. next \in Nat \ {0} /\ next >= i
  BY <1>1
<1>4. CASE ctx' = [ctx EXCEPT ![r] = NotEvaluating]
  <2> USE <1>1
  <2> WITNESS NotEvaluating \in Context
  <2> QED
    BY <1>4, RestTypes
<1>5. CASE ctx' = [ctx EXCEPT ![r].pc = "eval", ![r].i = next, ![r].now = t, ![r].bucket = 0, ![r].clock = 0]
  <2> DEFINE c == [ctx[r] EXCEPT !.pc = "eval", !.i = next, !.now = t, !.bucket = 0, !.clock = 0]
  <2>1. c \in Context
    BY <1>1, <1>3 DEF Context
  <2>2. ctx' = [ctx EXCEPT ![r] = c]
    BY <1>5
  <2>3. c.pc = "eval" /\ c.clock = 0 /\ c.start = ctx[r].start /\ c.discharges = ctx[r].discharges /\ c.i = next
    BY <1>1 DEF Context
  <2> QED
    BY <1>3, <2>1, <2>2, <2>3
<1> QED
  BY <1>2, <1>4, <1>5

-----------------------------------------------------------------------------
(* The cache of buckets.                                                   *)

\* Two sequences, one after the other.
LEMMA Joined ==
    ASSUME NEW S, NEW a \in Seq(S), NEW b \in Seq(S)
    PROVE  /\ a \o b \in Seq(S) /\ Len(a \o b) = Len(a) + Len(b)
           /\ \A k \in 1 .. Len(a \o b) : (a \o b)[k] = IF k <= Len(a) THEN a[k] ELSE b[k - Len(a)]
OBVIOUS

\* The cache without a grant has the others, each once.
LEMMA ForgetFacts ==
    ASSUME NEW s \in Seq(Grants), NEW g \in Grants, \A k, l \in 1 .. Len(s) : s[k] = s[l] => k = l
    PROVE  LET t == Forget(s, g)
           IN  /\ t \in Seq(Grants)
               /\ IF \E k \in 1 .. Len(s) : s[k] = g THEN Len(t) = Len(s) - 1 ELSE t = s
               /\ \A k, l \in 1 .. Len(t) : t[k] = t[l] => k = l
               /\ \A h \in Grants : (\E k \in 1 .. Len(t) : t[k] = h) <=> h # g /\ \E k \in 1 .. Len(s) : s[k] = h
<1>1. CASE ~\E k \in 1 .. Len(s) : s[k] = g
  BY <1>1 DEF Forget
<1>2. CASE \E k \in 1 .. Len(s) : s[k] = g
  <2>1. PICK p \in 1 .. Len(s) : s[p] = g /\ Forget(s, g) = RemoveAt(s, p)
    <3> DEFINE p == CHOOSE k \in DOMAIN s : s[k] = g
    <3>1. DOMAIN s = 1 .. Len(s) /\ \E k \in DOMAIN s : s[k] = g
      BY <1>2
    <3>2. p \in 1 .. Len(s) /\ s[p] = g
      BY <3>1
    <3>3. Forget(s, g) = RemoveAt(s, p)
      BY <3>1 DEF Forget
    <3> HIDE DEF p
    <3> QED
      BY <3>2, <3>3
  <2> DEFINE a == SubSeq(s, 1, p - 1)
             b == SubSeq(s, p + 1, Len(s))
             t == a \o b
  <2>2. /\ a \in Seq(Grants) /\ Len(a) = p - 1 /\ \A k \in 1 .. p - 1 : a[k] = s[k]
        /\ b \in Seq(Grants) /\ Len(b) = Len(s) - p /\ \A k \in 1 .. Len(s) - p : b[k] = s[k + p]
    <3>1. p \in Nat /\ Len(s) \in Nat /\ 1 <= p /\ p <= Len(s)
      OBVIOUS
    <3>2. a = [k \in 1 .. p - 1 |-> s[k]] /\ b = [k \in 1 .. Len(s) - p |-> s[k + p]]
      BY <3>1
    <3> QED
      BY <3>1, <3>2
  <2> HIDE DEF a, b
  <2>3. /\ t \in Seq(Grants) /\ Len(t) = Len(s) - 1
        /\ \A k \in 1 .. Len(t) : t[k] = IF k < p THEN s[k] ELSE s[k + 1]
    <3>1. p \in Nat /\ Len(s) \in Nat /\ 1 <= p /\ p <= Len(s)
      OBVIOUS
    <3>2. /\ t \in Seq(Grants) /\ Len(t) = Len(a) + Len(b)
          /\ \A k \in 1 .. Len(t) : t[k] = IF k <= Len(a) THEN a[k] ELSE b[k - Len(a)]
      BY <2>2, Joined
    <3> HIDE DEF t
    <3>3. ASSUME NEW k \in 1 .. Len(t)
          PROVE  t[k] = IF k < p THEN s[k] ELSE s[k + 1]
      <4>1. CASE k < p
        <5>1. k \in 1 .. p - 1 /\ k <= Len(a)
          BY <2>2, <3>1, <4>1
        <5> QED
          BY <2>2, <3>2, <4>1, <5>1
      <4>2. CASE ~(k < p)
        <5>1. /\ k - Len(a) \in 1 .. Len(s) - p /\ ~(k <= Len(a)) /\ k - Len(a) + p = k + 1
              /\ t[k] = b[k - Len(a)]
          BY <2>2, <3>1, <3>2, <4>2
        <5>2. b[k - Len(a)] = s[k - Len(a) + p]
          BY <2>2, <5>1
        <5> QED
          BY <4>2, <5>1, <5>2
      <4> QED
        BY <4>1, <4>2
    <3> QED
      BY <2>2, <3>1, <3>2, <3>3
  <2>4. Forget(s, g) = t
    BY <2>1 DEF RemoveAt, a, b
  <2> HIDE DEF t
  <2>5. \A h \in Grants : (\E k \in 1 .. Len(t) : t[k] = h) <=> h # g /\ \E k \in 1 .. Len(s) : s[k] = h
    <3>1. ASSUME NEW h \in Grants, NEW k \in 1 .. Len(t), t[k] = h
          PROVE  h # g /\ \E l \in 1 .. Len(s) : s[l] = h
      BY <2>1, <2>3, <3>1
    <3>2. ASSUME NEW h \in Grants, h # g, NEW l \in 1 .. Len(s), s[l] = h
          PROVE  \E k \in 1 .. Len(t) : t[k] = h
      <4>1. CASE l < p
        BY <2>3, <3>2, <4>1
      <4>2. CASE l > p
        <5>1. l - 1 \in 1 .. Len(t) /\ t[l - 1] = h
          BY <2>3, <3>2, <4>2
        <5> QED
          BY <5>1
      <4> QED
        BY <2>1, <3>2, <4>1, <4>2
    <3> QED
      BY <3>1, <3>2
  <2>6. \A k, l \in 1 .. Len(t) : t[k] = t[l] => k = l
    <3>1. TAKE k, l \in 1 .. Len(t)
    <3>2. HAVE t[k] = t[l]
    <3> DEFINE u == IF k < p THEN k ELSE k + 1
               v == IF l < p THEN l ELSE l + 1
    <3>3. u \in 1 .. Len(s) /\ v \in 1 .. Len(s)
      BY <2>1, <2>3
    <3>4. s[u] = s[v]
      BY <2>3, <3>2
    <3>5. u = v
      BY <3>3, <3>4
    <3> QED
      BY <2>1, <2>3, <3>5
  <2>7. Len(t) = Len(s) - 1 /\ t \in Seq(Grants)
    BY <2>3
  <2> QED
    BY <1>2, <2>4, <2>5, <2>6, <2>7
<1> QED
  BY <1>1, <1>2

\* So has the cache without its first grant, and one to which a grant is added
\* that was not in it.
LEMMA TailFacts ==
    ASSUME NEW s \in Seq(Grants), s # <<>>, \A k, l \in 1 .. Len(s) : s[k] = s[l] => k = l
    PROVE  /\ Tail(s) \in Seq(Grants) /\ Len(Tail(s)) = Len(s) - 1 /\ Head(s) \in Grants /\ Head(s) = s[1]
           /\ 1 \in 1 .. Len(s)
           /\ \A k, l \in 1 .. Len(Tail(s)) : Tail(s)[k] = Tail(s)[l] => k = l
           /\ \A h \in Grants :
                 (\E k \in 1 .. Len(Tail(s)) : Tail(s)[k] = h) <=> h # Head(s) /\ \E k \in 1 .. Len(s) : s[k] = h
<1>1. /\ Tail(s) \in Seq(Grants) /\ Len(Tail(s)) = Len(s) - 1 /\ Head(s) \in Grants /\ Head(s) = s[1]
      /\ Len(s) \in Nat \ {0}
      /\ \A k \in 1 .. Len(s) - 1 : Tail(s)[k] = s[k + 1]
  OBVIOUS
<1>2. ASSUME NEW h \in Grants, h # Head(s), NEW l \in 1 .. Len(s), s[l] = h
      PROVE  \E k \in 1 .. Len(Tail(s)) : Tail(s)[k] = h
  <2>1. l - 1 \in 1 .. Len(Tail(s)) /\ Tail(s)[l - 1] = h
    BY <1>1, <1>2
  <2> QED
    BY <2>1
<1> DEFINE t == Tail(s)
<1> HIDE DEF t
<1>3. /\ \A k, l \in 1 .. Len(t) : t[k] = t[l] => k = l
      /\ \A h \in Grants : (\E k \in 1 .. Len(t) : t[k] = h) => h # Head(s) /\ \E k \in 1 .. Len(s) : s[k] = h
  BY <1>1 DEF t
<1> QED
  BY <1>1, <1>2, <1>3 DEF t

LEMMA AppendFacts ==
    ASSUME NEW s \in Seq(Grants), NEW g \in Grants, \A k, l \in 1 .. Len(s) : s[k] = s[l] => k = l,
           ~\E k \in 1 .. Len(s) : s[k] = g
    PROVE  LET t == Append(s, g)
           IN  /\ t \in Seq(Grants) /\ Len(t) = Len(s) + 1
               /\ \A k, l \in 1 .. Len(t) : t[k] = t[l] => k = l
               /\ \A h \in Grants : (\E k \in 1 .. Len(t) : t[k] = h) <=> h = g \/ \E k \in 1 .. Len(s) : s[k] = h
<1> DEFINE t == Append(s, g)
<1>1. /\ t \in Seq(Grants) /\ Len(t) = Len(s) + 1 /\ Len(s) \in Nat
      /\ \A k \in 1 .. Len(s) : t[k] = s[k]
      /\ t[Len(s) + 1] = g
  OBVIOUS
<1> HIDE DEF t
<1>2. \A k, l \in 1 .. Len(t) : t[k] = t[l] => k = l
  BY <1>1
<1>3. \A h \in Grants : (\E k \in 1 .. Len(t) : t[k] = h) <=> h = g \/ \E k \in 1 .. Len(s) : s[k] = h
  <2>1. ASSUME NEW h \in Grants, NEW k \in 1 .. Len(t), t[k] = h
        PROVE  h = g \/ \E l \in 1 .. Len(s) : s[l] = h
    BY <1>1, <2>1
  <2>2. ASSUME NEW h \in Grants, h = g \/ \E l \in 1 .. Len(s) : s[l] = h
        PROVE  \E k \in 1 .. Len(t) : t[k] = h
    BY <1>1, <2>2
  <2> QED
    BY <2>1, <2>2
<1> QED
  BY <1>1, <1>2, <1>3 DEF t

-----------------------------------------------------------------------------
(* Steps that leave the buckets and those who hold them alone.             *)

\* The same handlers hold the same buckets at the same places.
SameHolders ==
    \A q \in Evaluators :
        /\ Holds(q)' <=> Holds(q)
        /\ Holds(q) => /\ GrantOf(q)' = GrantOf(q) /\ ctx'[q].i = ctx[q].i /\ ctx'[q].bucket = ctx[q].bucket
                       /\ ctx'[q].call = ctx[q].call

\* Time distributes over what is gained with it.
LEMMA Gained ==
    ASSUME NEW a \in Nat, NEW b \in Nat, NEW n \in Nat
    PROVE  /\ n * (a + b) = n * a + n * b /\ n * a \in Nat /\ n * b \in Nat
           /\ a <= b => n * a <= n * b /\ n * (b - a) = n * b - n * a /\ b - a \in Nat
<1>1. /\ n * (a + b) = n * a + n * b /\ n * a \in Nat /\ n * b \in Nat
  OBVIOUS
<1>2. ASSUME a <= b PROVE n * a <= n * b /\ n * (b - a) = n * b - n * a /\ b - a \in Nat
  <2>1. PICK d \in Nat : b = a + d
    <3>1. b - a \in Nat /\ b = a + (b - a)
      BY <1>2
    <3> QED
      BY <3>1
  <2>2. n * b = n * a + n * d /\ n * d \in Nat
    BY <2>1
  <2> QED
    BY <1>1, <2>1, <2>2
<1> QED
  BY <1>1, <1>2

LEMMA SameStrays ==
    ASSUME SameHolders, bucketOf' = bucketOf, NEW g, NEW i
    PROVE  Strays(g, i)' = Strays(g, i)
  BY DEF SameHolders, Strays, GrantOf

\* The stock of a grant for a caveat, and what it is made of.
LEMMA StockTypes ==
    ASSUME LimitsTypeOK, ClocksPast, NEW g \in Grants, NEW c \in Caveat, c.kind = "rate"
    PROVE  /\ Stock(g, c) \in Nat /\ c.n * c.window \in Nat /\ c.n * now \in Nat
           /\ bucketOf[g] # 0 => /\ bucketOf[g] \in Slots /\ heap[bucketOf[g]] \in Bucket
                                 /\ heap[bucketOf[g]].n \in Nat /\ heap[bucketOf[g]].units \in Nat
                                 /\ heap[bucketOf[g]].last \in Nat /\ heap[bucketOf[g]].last <= now
<1>1. c.n \in Nat /\ c.window \in Nat /\ now \in Nat
  BY CaveatTypes DEF LimitsTypeOK
<1>2. ASSUME bucketOf[g] # 0
      PROVE  /\ bucketOf[g] \in Slots /\ heap[bucketOf[g]] \in Bucket
             /\ heap[bucketOf[g]].n \in Nat /\ heap[bucketOf[g]].units \in Nat
             /\ heap[bucketOf[g]].last \in Nat /\ heap[bucketOf[g]].last <= now
  BY <1>2, LimitsFields DEF LimitsTypeOK, ClocksPast
<1>3. c.n * c.window \in Nat /\ c.n * now \in Nat
  BY <1>1, Gained
<1>4. bucketOf[g] # 0 => heap[bucketOf[g]].units + c.n * (now - heap[bucketOf[g]].last) \in Nat
  <2>1. HAVE bucketOf[g] # 0
  <2>2. now - heap[bucketOf[g]].last \in Nat
    BY <1>1, <1>2, <2>1
  <2>3. c.n * (now - heap[bucketOf[g]].last) \in Nat
    BY <1>1, <2>2, Gained
  <2> QED
    BY <1>2, <2>1, <2>3
<1> QED
  BY <1>2, <1>3, <1>4 DEF Stock, Current

LEMMA StraysTypes ==
    ASSUME NEW g, NEW i
    PROVE  Strays(g, i) \subseteq Evaluators /\ IsFiniteSet(Strays(g, i)) /\ Cardinality(Strays(g, i)) \in Nat
<1>1. Strays(g, i) \in SUBSET Evaluators
  BY DEF Strays
<1> QED
  BY <1>1, LimitsAssumption, FS_Subset, FS_CardinalityType

\* The same buckets, held by the same handlers, at the same time or a tick later.
LEMMA SteadyStep ==
    ASSUME LimitsIInv, UNCHANGED bucketVars, SameHolders, now' \in {now, now + 1},
           \A q \in Evaluators : ctx'[q].clock <= now'
    PROVE  Cached' /\ Apart' /\ HeldFits' /\ NoneLost' /\ ClocksPast' /\ Covered'
<1> USE DEF LimitsIInv
<1>1. Cached'
  BY DEF Cached, bucketVars
<1>2. Apart'
  BY DEF Apart, bucketVars, SameHolders
<1>3. HeldFits'
  BY DEF HeldFits, bucketVars, SameHolders, Caveats, This
<1>4. NoneLost'
  BY DEF NoneLost, bucketVars, SameHolders
<1>5. ClocksPast'
  <2>1. \A s \in Slots : heap[s].last \in Nat /\ now \in Nat
    BY LimitsFields DEF LimitsTypeOK
  <2> QED
    BY <2>1 DEF ClocksPast, bucketVars
<1>6. Covered'
  <2>1. SUFFICES ASSUME NEW g \in Grants, NEW i \in DOMAIN CaveatsOf[g], CaveatsOf[g][i].kind = "rate"
        PROVE  passed'[<<g, i>>] * CaveatsOf[g][i].window + Stock(g, CaveatsOf[g][i])'
                   + Cardinality(Strays(g, i))' * CaveatsOf[g][i].window
                 <= (CaveatsOf[g][i].n + extra'[g]) * CaveatsOf[g][i].window + CaveatsOf[g][i].n * now'
    BY DEF Covered
  <2> DEFINE c == CaveatsOf[g][i]
             p == passed[<<g, i>>] * c.window
             k == Cardinality(Strays(g, i)) * c.window
             e == (c.n + extra[g]) * c.window
  <2>2. /\ c \in Caveat /\ c.n \in Nat /\ c.window \in Nat /\ c.kind = "rate" /\ passed[<<g, i>>] \in Nat
        /\ extra[g] \in Nat /\ now \in Nat
    BY <2>1, PlaceTypes, CaveatTypes DEF LimitsTypeOK
  <2>3. p + Stock(g, c) + k <= e + c.n * now
    BY <2>1 DEF Covered
  <2>4. Strays(g, i)' = Strays(g, i) /\ passed' = passed /\ extra' = extra
    BY SameStrays DEF bucketVars
  <2>5. p \in Nat /\ k \in Nat /\ e \in Nat
    <3>1. Cardinality(Strays(g, i)) \in Nat
      BY StraysTypes
    <3> HIDE DEF c
    <3> QED
      BY <3>1, <2>2, Gained
  <2>6. Stock(g, c)' <= Stock(g, c) + c.n * now' - c.n * now /\ Stock(g, c)' \in Nat /\ c.n * now' \in Nat
    <3> DEFINE b == heap[bucketOf[g]]
    <3>1. /\ Stock(g, c) = IF Current(g, c) THEN b.units + c.n * (now - b.last) ELSE c.n * c.window
          /\ Stock(g, c)' = IF Current(g, c) THEN b.units + c.n * (now' - b.last) ELSE c.n * c.window
      BY DEF Stock, Current, bucketVars
    <3>2. c.n * now \in Nat /\ c.n * now' \in Nat /\ c.n * now <= c.n * now' /\ Stock(g, c) \in Nat
      <4>1. Stock(g, c) \in Nat
        BY <2>2, StockTypes
      <4>2. now' \in Nat /\ now <= now'
        BY <2>2
      <4> HIDE DEF c
      <4> QED
        BY <2>2, <4>1, <4>2, Gained
    <3>3. CASE Current(g, c)
      <4>1. b.units \in Nat /\ b.last \in Nat /\ b.last <= now /\ b.last <= now'
        BY <2>2, <3>3, StockTypes DEF Current
      <4> HIDE DEF b, c
      <4>2. /\ c.n * (now - b.last) = c.n * now - c.n * b.last /\ c.n * b.last \in Nat
            /\ c.n * (now' - b.last) = c.n * now' - c.n * b.last /\ c.n * b.last <= c.n * now'
        BY <2>2, <4>1, Gained
      <4> QED
        BY <3>1, <3>2, <3>3, <4>1, <4>2
    <3>4. CASE ~Current(g, c)
      <4> HIDE DEF b, c
      <4> QED
        BY <3>1, <3>2, <3>4
    <3> QED
      BY <3>3, <3>4
  <2>7. Stock(g, c) \in Nat /\ c.n * now \in Nat
    BY <2>2, StockTypes
  <2>8. p + Stock(g, c)' + k <= e + c.n * now'
    <3> HIDE DEF c, p, k, e
    <3> QED
      BY <2>3, <2>5, <2>6, <2>7
  <2> QED
    BY <2>4, <2>8
<1> QED
  BY <1>1, <1>2, <1>3, <1>4, <1>5, <1>6

-----------------------------------------------------------------------------
(* There is room for a bucket.                                             *)

\* A handler that holds no bucket finds an object that is not in use: the
\* others hold, and the cache remembers, too few.
LEMMA FreeSlot ==
    ASSUME LimitsTypeOK, Cached, NoneLost, NEW r \in Evaluators, ~Holds(r)
    PROVE  \E s \in Slots : heap[s] = Free
<1> DEFINE K == 1 .. Len(lru)
           R == Evaluators \ {r}
           f == [k \in K |-> bucketOf[lru[k]]]
           h == [q \in R |-> ctx[q].bucket]
           A == {f[k] : k \in K}
           B == {h[q] : q \in R}
<1>1. Len(lru) \in Nat /\ Len(lru) <= LRUSize
  BY DEF LimitsTypeOK, Cached
<1>2. IsFiniteSet(K) /\ Cardinality(K) = Len(lru)
  <2> DEFINE n == Len(lru)
  <2>1. n \in Int /\ 1 \in Int /\ (IF 1 > n THEN 0 ELSE n - 1 + 1) = n
    BY <1>1
  <2> HIDE DEF n
  <2>2. IsFiniteSet(1 .. n) /\ Cardinality(1 .. n) = n
    BY <2>1, FS_Interval
  <2> QED
    BY <2>2 DEF n
<1>3. IsFiniteSet(R) /\ Cardinality(R) = Cardinality(Evaluators) - 1
  BY LimitsAssumption, FS_RemoveElement
<1>4. IsFiniteSet(A) /\ Cardinality(A) <= Len(lru) /\ Cardinality(A) \in Nat
  <2>1. f \in Surjection(K, A)
    BY DEF Surjection
  <2> HIDE DEF f, K, A
  <2> QED
    BY <1>2, <2>1, FS_Surjection, FS_CardinalityType
<1>5. IsFiniteSet(B) /\ Cardinality(B) <= Cardinality(Evaluators) - 1 /\ Cardinality(B) \in Nat
  <2>1. h \in Surjection(R, B)
    BY DEF Surjection
  <2> HIDE DEF h, R, B
  <2> QED
    BY <1>3, <2>1, FS_Surjection, FS_CardinalityType
<1>6. SUFFICES ASSUME \A s \in Slots : heap[s] # Free PROVE FALSE
  OBVIOUS
<1>7. Slots \subseteq A \cup B
  <2>1. SUFFICES ASSUME NEW s \in Slots PROVE s \in A \cup B
    OBVIOUS
  <2>2. CASE \E g \in Grants : bucketOf[g] = s
    <3>1. PICK g \in Grants : bucketOf[g] = s
      BY <2>2
    <3>2. s # 0
      BY SlotTypes
    <3>3. PICK k \in K : lru[k] = g
      BY <3>1, <3>2 DEF Cached
    <3>4. f[k] = s
      BY <3>1, <3>3
    <3> QED
      BY <3>4
  <2>3. CASE \E q \in Evaluators : Holds(q) /\ ctx[q].bucket = s
    <3>1. PICK q \in R : ctx[q].bucket = s
      BY <2>3
    <3>2. h[q] = s
      BY <3>1
    <3> QED
      BY <3>2
  <2> QED
    BY <1>6, <2>2, <2>3 DEF NoneLost
<1> HIDE DEF A, B
<1>8. IsFiniteSet(A \cup B) /\ Cardinality(A \cup B) <= Cardinality(A) + Cardinality(B)
  <2>1. /\ IsFiniteSet(A \cup B)
        /\ Cardinality(A \cup B) = Cardinality(A) + Cardinality(B) - Cardinality(A \cap B)
    BY <1>4, <1>5, FS_Union
  <2>2. Cardinality(A \cap B) \in Nat
    BY <1>4, FS_Intersection, FS_CardinalityType
  <2> QED
    BY <1>4, <1>5, <2>1, <2>2
<1>9. Cardinality(Slots) <= Cardinality(A \cup B)
  BY <1>7, <1>8, FS_Subset
<1>10. Cardinality(Slots) = LRUSize + Cardinality(Evaluators)
  <2> DEFINE n == LRUSize + Cardinality(Evaluators)
  <2>1. n \in Int /\ n >= 1 /\ 1 \in Int
    BY SlotTypes, LimitsAssumption
  <2> HIDE DEF n
  <2>2. Cardinality(1 .. n) = n
    BY <2>1, FS_Interval
  <2> QED
    BY <2>2 DEF n, Slots
<1>11. Cardinality(Evaluators) \in Nat /\ LRUSize \in Nat
  BY SlotTypes, LimitsAssumption
<1>12. Cardinality(A \cup B) \in Nat
  BY <1>8, FS_CardinalityType
<1> QED
  BY <1>1, <1>4, <1>5, <1>8, <1>9, <1>10, <1>11, <1>12

-----------------------------------------------------------------------------
(* Steps that leave the buckets alone.                                     *)

\* A handler that holds no bucket goes on, and holds none.
LEMMA GoesFree ==
    ASSUME LimitsIInv, NEW r \in Evaluators, ~Holds(r), NEW c \in Context,
           c.pc \notin {"clock", "take"}, c.clock \in {0, ctx[r].clock},
           ctx' = [ctx EXCEPT ![r] = c], UNCHANGED <<now, bucketVars>>
    PROVE  /\ Cached' /\ Apart' /\ HeldFits' /\ NoneLost' /\ ClocksPast' /\ Covered'
           /\ ctx' \in [Evaluators -> Context] /\ ctx'[r] = c /\ \A q \in Evaluators \ {r} : ctx'[q] = ctx[q]
<1>1. ctx' \in [Evaluators -> Context] /\ ctx'[r] = c /\ \A q \in Evaluators \ {r} : ctx'[q] = ctx[q]
  BY DEF LimitsIInv, LimitsTypeOK
<1>2. SameHolders
  BY <1>1 DEF SameHolders, Holds, GrantOf
<1>3. \A q \in Evaluators : ctx'[q].clock <= now'
  <2>1. now \in Nat /\ now' = now
    BY DEF LimitsIInv, LimitsTypeOK
  <2> QED
    BY <1>1, <2>1 DEF LimitsIInv, ClocksPast
<1> QED
  BY <1>1, <1>2, <1>3, SteadyStep DEF bucketVars

\* The same when no handler does anything.
LEMMA Still ==
    ASSUME LimitsIInv, UNCHANGED <<ctx, bucketVars>>, now' \in {now, now + 1}
    PROVE  Cached' /\ Apart' /\ HeldFits' /\ NoneLost' /\ ClocksPast' /\ Covered'
<1>1. SameHolders
  BY DEF SameHolders, Holds, GrantOf
<1>2. \A q \in Evaluators : ctx'[q].clock <= now'
  <2>1. now \in Nat /\ \A q \in Evaluators : ctx[q].clock \in Nat
    BY LimitsFields DEF LimitsIInv, LimitsTypeOK
  <2> QED
    BY <2>1 DEF LimitsIInv, ClocksPast
<1> QED
  BY <1>1, <1>2, SteadyStep DEF bucketVars

\* The discharges a request came with, and the time it arrived, stay.
LEMMA KeptDischarges ==
    ASSUME LimitsIInv, tokens \subseteq tokens', kept \subseteq kept', fresh' \subseteq fresh,
           now' \in {now, now + 1}, \A u \in Urls : cached'[u] \subseteq cached[u],
           \A q \in Evaluators : \/ ctx'[q].discharges = {}
                                 \/ ctx'[q].discharges = ctx[q].discharges /\ ctx'[q].start = ctx[q].start
    PROVE  DischargesMinted'
<1>1. now \in Nat /\ fresh \subseteq Discharge /\ \A q \in Evaluators : ctx[q].start \in Nat
  BY LimitsFields DEF LimitsIInv, LimitsTypeOK
<1>2. \A u \in Urls : \A e \in cached'[u] : \E k \in kept' : k.url = u /\ e < k.at + 2 * TTL + k.lag
  BY DEF LimitsIInv, DischargesMinted
<1>3. ASSUME NEW q \in Evaluators, NEW d \in ctx'[q].discharges
      PROVE  d \in tokens' /\ ctx'[q].start < d.at + TTL /\ ctx'[q].start <= now'
  <2>1. /\ d \in ctx[q].discharges /\ ctx'[q].start = ctx[q].start
        /\ d \in tokens /\ ctx[q].start < d.at + TTL /\ ctx[q].start <= now
    BY <1>3 DEF LimitsIInv, DischargesMinted
  <2>2. ctx[q].start <= now'
    BY <1>1, <2>1
  <2> QED
    BY <2>1, <2>2
<1>4. ASSUME NEW d \in fresh'
      PROVE  d.at <= now'
  <2>1. d.at \in Nat /\ d.at <= now
    BY <1>1 DEF Discharge, LimitsIInv, DischargesMinted
  <2> QED
    BY <1>1, <2>1
<1> QED
  BY <1>2, <1>3, <1>4 DEF DischargesMinted

\* What is left of the workload after a call, a discharge or a restart.
LEMMA LeftTypes ==
    ASSUME LimitsTypeOK
    PROVE  /\ left.discharges > 0 => [left EXCEPT !.discharges = @ - 1] \in Workload
           /\ left.restarts > 0 => [left EXCEPT !.restarts = @ - 1] \in Workload
           /\ \A c \in Calls : left.calls[c] > 0 => [left EXCEPT !.calls[c] = @ - 1] \in Workload
<1>1. left \in Workload
  BY DEF LimitsTypeOK
<1>2. \A n \in Nat : n > 0 => n - 1 \in Nat
  OBVIOUS
<1>3. left.discharges \in Nat /\ left.restarts \in Nat /\ left.calls \in [Calls -> Nat]
  BY <1>1 DEF Workload
<1>4. \A c \in Calls : left.calls[c] > 0 => [left.calls EXCEPT ![c] = @ - 1] \in [Calls -> Nat]
  BY <1>2, <1>3
<1> QED
  BY <1>1, <1>2, <1>3, <1>4 DEF Workload

\* A verifier's discharge is minted.
LEMMA DischargeKeeps ==
    ASSUME LimitsIInv, NEW u \in Urls, handleGrantDischarge(u)
    PROVE  LimitsIInv'
<1> DEFINE t == [url |-> u, at |-> now]
<1>1. /\ now \in Nat /\ t \in Discharge /\ t.at = now /\ fresh' = fresh \cup {t}
      /\ UNCHANGED <<now, cached, tokens, kept, ctx, pending, bucketVars>>
  BY DEF LimitsIInv, LimitsTypeOK, Discharge, handleGrantDischarge
<1> HIDE DEF t
<1>2. LimitsTypeOK'
  <2>1. left' \in Workload
    BY LeftTypes DEF LimitsIInv, handleGrantDischarge
  <2> QED
    BY <1>1, <2>1 DEF LimitsIInv, LimitsTypeOK, bucketVars
<1>3. Cached' /\ Apart' /\ HeldFits' /\ NoneLost' /\ ClocksPast' /\ Covered'
  BY <1>1, Still
<1>4. DischargesMinted'
  BY <1>1 DEF LimitsIInv, DischargesMinted
<1> QED
  BY <1>2, <1>3, <1>4 DEF LimitsIInv

\* What is remembered was minted less than two lives ago, and what the handler
\* took to remember it.
LEMMA Remembers ==
    ASSUME LimitsIInv, NEW ds \in SUBSET Discharge, NEW read \in Nat, Remember(ds, read), read <= now,
           \A d \in ds : read < d.at + TTL
    PROVE  /\ cached' \in [Urls -> SUBSET Nat]
           /\ kept' \subseteq [url : Urls, at : Nat, lag : Nat]
           /\ \A u \in Urls : \A e \in cached'[u] : \E k \in kept' : k.url = u /\ e < k.at + 2 * TTL + k.lag
<1> DEFINE Entry(d) == [url |-> d.url, at |-> d.at, lag |-> now - read]
           us == {d.url : d \in ds}
<1>1. /\ now \in Nat /\ TTL \in Nat /\ now + TTL \in Nat /\ now - read \in Nat
      /\ cached \in [Urls -> SUBSET Nat] /\ kept \subseteq [url : Urls, at : Nat, lag : Nat]
  BY LimitsAssumption DEF LimitsIInv, LimitsTypeOK
<1>2. /\ cached' = [u \in Urls |-> IF u \in us THEN {now + TTL} ELSE cached[u]]
      /\ kept' = kept \cup {Entry(d) : d \in ds}
  BY DEF Remember
<1>3. ASSUME NEW d \in ds
      PROVE  /\ Entry(d) \in [url : Urls, at : Nat, lag : Nat] /\ Entry(d).url = d.url
             /\ now + TTL < Entry(d).at + 2 * TTL + Entry(d).lag
  <2>1. d.url \in Urls /\ d.at \in Nat /\ read < d.at + TTL
    BY DEF Discharge
  <2>2. now + TTL < d.at + 2 * TTL + (now - read)
    BY <1>1, <2>1
  <2> QED
    BY <1>1, <2>1, <2>2
<1> HIDE DEF Entry
<1>4. ASSUME NEW u \in Urls, NEW e \in cached'[u]
      PROVE  \E k \in kept' : k.url = u /\ e < k.at + 2 * TTL + k.lag
  <2>1. CASE u \in us
    <3>1. PICK d \in ds : d.url = u
      BY <2>1
    <3>2. e = now + TTL /\ Entry(d) \in kept'
      BY <1>2, <1>4, <2>1
    <3> QED
      BY <1>3, <3>1, <3>2
  <2>2. CASE u \notin us
    <3>1. e \in cached[u] /\ kept \subseteq kept'
      BY <1>2, <1>4, <2>2
    <3> QED
      BY <3>1 DEF LimitsIInv, DischargesMinted
  <2> QED
    BY <2>1, <2>2
<1> HIDE DEF us
<1>5. cached' \in [Urls -> SUBSET Nat]
  BY <1>1, <1>2
<1>6. kept' \subseteq [url : Urls, at : Nat, lag : Nat]
  BY <1>1, <1>2, <1>3
<1> QED
  BY <1>4, <1>5, <1>6

\* The client is given the discharge.
LEMMA GiveKeeps ==
    ASSUME LimitsIInv, NEW d \in fresh, GiveDischarge(d)
    PROVE  LimitsIInv'
<1>1. /\ d \in Discharge /\ d.at \in Nat /\ d.at <= now /\ d.at < d.at + TTL
      /\ UNCHANGED <<now, ctx, pending, left, bucketVars>> /\ Remember({d}, d.at)
      /\ fresh' \subseteq fresh /\ tokens \subseteq tokens' /\ tokens' \subseteq tokens \cup {d}
  <2>1. d \in Discharge /\ d.at <= now
    BY DEF LimitsIInv, LimitsTypeOK, DischargesMinted
  <2>2. d.at \in Nat /\ d.at < d.at + TTL
    BY <2>1, LimitsAssumption DEF Discharge
  <2> QED
    BY <2>1, <2>2 DEF GiveDischarge
<1>2. /\ cached' \in [Urls -> SUBSET Nat]
      /\ kept' \subseteq [url : Urls, at : Nat, lag : Nat]
      /\ \A u \in Urls : \A e \in cached'[u] : \E k \in kept' : k.url = u /\ e < k.at + 2 * TTL + k.lag
  <2>1. {d} \in SUBSET Discharge /\ \A c \in {d} : d.at < c.at + TTL
    BY <1>1
  <2> QED
    BY <1>1, <2>1, Remembers
<1>3. LimitsTypeOK'
  BY <1>1, <1>2 DEF LimitsIInv, LimitsTypeOK, bucketVars
<1>4. Cached' /\ Apart' /\ HeldFits' /\ NoneLost' /\ ClocksPast' /\ Covered'
  BY <1>1, Still
<1>5. DischargesMinted'
  BY <1>1, <1>2 DEF LimitsIInv, DischargesMinted
<1> QED
  BY <1>3, <1>4, <1>5 DEF LimitsIInv

\* A request arrives.
LEMMA ReceiveKeeps ==
    ASSUME LimitsIInv, NEW r \in Evaluators, Receive(r)
    PROVE  LimitsIInv'
<1>1. PICK c \in Calls, ts \in {{}} \cup {{t} : t \in tokens} :
          /\ left.calls[c] > 0 /\ left' = [left EXCEPT !.calls[c] = @ - 1]
          /\ \A t \in ts : parseDischarges(t)
          /\ ctx' = [ctx EXCEPT ![r] = [NotEvaluating EXCEPT !.pc = IF ts = {} THEN "auth" ELSE "remember",
                                                    !.call = c, !.start = now, !.discharges = ts]]
  BY DEF Receive
<1> DEFINE pc == IF ts = {} THEN "auth" ELSE "remember"
           x  == [NotEvaluating EXCEPT !.pc = pc, !.call = c, !.start = now, !.discharges = ts]
<1>2. /\ now \in Nat /\ tokens \subseteq Discharge
      /\ UNCHANGED <<now, cached, fresh, tokens, kept, pending, bucketVars>>
  BY DEF LimitsIInv, LimitsTypeOK, Receive, dischargeVars
<1>3. ts \subseteq tokens /\ \A t \in ts : now < t.at + TTL
  BY <1>1 DEF parseDischarges
<1>4. pc \in {"auth", "remember"}
  OBVIOUS
<1> HIDE DEF pc
<1>5. x \in Context /\ x.pc = pc /\ x.clock = 0 /\ x.start = now /\ x.discharges = ts
  <2>1. ts \in SUBSET Discharge
    BY <1>2, <1>3
  <2> QED
    BY <1>2, <1>4, <2>1, RestTypes DEF Context
<1> HIDE DEF x
<1>6. ctx' = [ctx EXCEPT ![r] = x]
  BY <1>1 DEF x, pc
<1>7. /\ Cached' /\ Apart' /\ HeldFits' /\ NoneLost' /\ ClocksPast' /\ Covered'
      /\ ctx' \in [Evaluators -> Context] /\ ctx'[r] = x /\ \A q \in Evaluators \ {r} : ctx'[q] = ctx[q]
  <2>1. ~Holds(r) /\ UNCHANGED <<now, bucketVars>>
    BY DEF Holds, Receive
  <2>2. x.pc \notin {"clock", "take"}
    BY <1>4, <1>5
  <2> QED
    BY <1>5, <1>6, <2>1, <2>2, GoesFree
<1>8. LimitsTypeOK'
  <2>1. left' \in Workload
    BY <1>1, LeftTypes DEF LimitsIInv
  <2> QED
    BY <1>2, <1>7, <2>1 DEF LimitsIInv, LimitsTypeOK, bucketVars
<1>9. DischargesMinted'
  <2>1. ASSUME NEW q \in Evaluators, NEW d \in ctx'[q].discharges
        PROVE  d \in tokens /\ ctx'[q].start < d.at + TTL /\ ctx'[q].start <= now
    <3>1. CASE q = r
      <4>1. d \in ts /\ ctx'[q].start = now
        BY <1>5, <1>7, <2>1, <3>1
      <4>2. now <= now
        BY <1>2
      <4> QED
        BY <1>3, <4>1, <4>2
    <3>2. CASE q # r
      BY <1>7, <2>1, <3>2 DEF LimitsIInv, DischargesMinted
    <3> QED
      BY <3>1, <3>2
  <2> QED
    BY <1>2, <2>1 DEF LimitsIInv, DischargesMinted
<1> QED
  BY <1>7, <1>8, <1>9 DEF LimitsIInv

\* The discharge a request brought is remembered.
LEMMA dischargeRememberKeeps ==
    ASSUME LimitsIInv, NEW r \in Evaluators, dischargeRemember(r)
    PROVE  LimitsIInv'
<1> DEFINE x == [ctx[r] EXCEPT !.pc = "auth"]
<1>1. /\ ctx \in [Evaluators -> Context] /\ ctx[r] \in Context /\ ctx[r].pc = "remember"
      /\ UNCHANGED <<now, fresh, tokens, pending, left, bucketVars>>
      /\ Remember(ctx[r].discharges, ctx[r].start)
  BY DEF LimitsIInv, LimitsTypeOK, dischargeRemember
<1>2. ctx' = [ctx EXCEPT ![r] = x]
  BY <1>1 DEF dischargeRemember
<1>3. x \in Context /\ x.pc = "auth" /\ x.clock = ctx[r].clock /\ x.start = ctx[r].start /\ x.discharges = ctx[r].discharges
  BY <1>1 DEF Context
<1> HIDE DEF x
<1>4. /\ Cached' /\ Apart' /\ HeldFits' /\ NoneLost' /\ ClocksPast' /\ Covered'
      /\ ctx' \in [Evaluators -> Context] /\ ctx'[r] = x /\ \A q \in Evaluators \ {r} : ctx'[q] = ctx[q]
  <2>1. ~Holds(r)
    BY <1>1 DEF Holds
  <2>2. x.pc \notin {"clock", "take"}
    BY <1>3
  <2> QED
    BY <1>1, <1>2, <1>3, <2>1, <2>2, GoesFree
<1>5. /\ cached' \in [Urls -> SUBSET Nat]
      /\ kept' \subseteq [url : Urls, at : Nat, lag : Nat]
      /\ \A u \in Urls : \A e \in cached'[u] : \E k \in kept' : k.url = u /\ e < k.at + 2 * TTL + k.lag
  <2>1. ctx[r].discharges \in SUBSET Discharge /\ ctx[r].start \in Nat
    BY <1>1, LimitsFields
  <2>2. \A d \in ctx[r].discharges : ctx[r].start < d.at + TTL /\ ctx[r].start <= now
    BY DEF LimitsIInv, DischargesMinted
  <2>3. CASE ctx[r].discharges = {}
    <3>1. cached' = cached /\ kept' = kept
      BY <1>1, <2>3 DEF Remember, LimitsIInv, LimitsTypeOK
    <3> QED
      BY <3>1 DEF LimitsIInv, LimitsTypeOK, DischargesMinted
  <2>4. CASE ctx[r].discharges # {}
    BY <1>1, <2>1, <2>2, <2>4, Remembers
  <2> QED
    BY <2>3, <2>4
<1>6. LimitsTypeOK'
  BY <1>1, <1>4, <1>5 DEF LimitsIInv, LimitsTypeOK, bucketVars
<1>7. DischargesMinted'
  <2>1. \A q \in Evaluators : ctx'[q].discharges = ctx[q].discharges /\ ctx'[q].start = ctx[q].start
    BY <1>3, <1>4
  <2> QED
    BY <1>1, <1>5, <2>1 DEF LimitsIInv, DischargesMinted
<1> QED
  BY <1>4, <1>6, <1>7 DEF LimitsIInv

\* A handler that holds no bucket goes on at a later caveat or ends.
LEMMA GoesOn ==
    ASSUME LimitsIInv, NEW r \in Evaluators, ~Holds(r), NEW i \in Nat \ {0}, NEW t \in Nat,
           evaluateOne(r, i, t) \/ End(r), UNCHANGED <<now, fresh, tokens, kept, left, bucketVars>>,
           cached' \in [Urls -> SUBSET Nat], \A u \in Urls : cached'[u] \subseteq cached[u],
           pending' \subseteq [call : Calls, approved : BOOLEAN]
    PROVE  LimitsIInv'
<1>1. PICK c \in Context :
          /\ ctx' = [ctx EXCEPT ![r] = c]
          /\ c.pc \in {"idle", "eval"} /\ c.clock = 0
          /\ \/ c = NotEvaluating
             \/ c.start = ctx[r].start /\ c.discharges = ctx[r].discharges /\ c.i >= i
  <2>1. CASE evaluateOne(r, i, t)
    BY <2>1, EvaluateOneFacts DEF LimitsIInv
  <2>2. CASE End(r)
    <3>1. NotEvaluating \in Context /\ NotEvaluating.pc = "idle" /\ NotEvaluating.clock = 0
      BY RestTypes
    <3>2. ctx' = [ctx EXCEPT ![r] = NotEvaluating]
      BY <2>2 DEF End
    <3> QED
      BY <3>1, <3>2
  <2> QED
    BY <2>1, <2>2
<1>2. /\ Cached' /\ Apart' /\ HeldFits' /\ NoneLost' /\ ClocksPast' /\ Covered'
      /\ ctx' \in [Evaluators -> Context] /\ ctx'[r] = c /\ \A q \in Evaluators \ {r} : ctx'[q] = ctx[q]
  <2>1. c.pc \notin {"clock", "take"}
    BY <1>1
  <2> QED
    BY <1>1, <2>1, GoesFree
<1>3. LimitsTypeOK'
  BY <1>2 DEF LimitsIInv, LimitsTypeOK, bucketVars
<1>4. \A q \in Evaluators : \/ ctx'[q].discharges = {}
                            \/ ctx'[q].discharges = ctx[q].discharges /\ ctx'[q].start = ctx[q].start
  BY <1>1, <1>2, RestTypes
<1>5. DischargesMinted'
  BY <1>4, KeptDischarges
<1> QED
  BY <1>2, <1>3, <1>5 DEF LimitsIInv

\* The steps of an evaluation between those that read a rate.
LEMMA checkAuthKeeps ==
    ASSUME LimitsIInv, NEW r \in Evaluators, checkAuth(r)
    PROVE  LimitsIInv'
<1>1. ~Holds(r) /\ UNCHANGED <<now, fresh, tokens, kept, left, bucketVars, cached, pending>>
  BY DEF checkAuth, Holds, dischargeVars
<1>2. now \in Nat /\ 1 \in Nat \ {0} /\ cached' \in [Urls -> SUBSET Nat] /\ pending' \subseteq [call : Calls, approved : BOOLEAN]
  BY <1>1 DEF LimitsIInv, LimitsTypeOK
<1>3. evaluateOne(r, 1, now)
  BY DEF checkAuth
<1> QED
  BY <1>1, <1>2, <1>3, GoesOn

LEMMA NextPlace ==
    ASSUME LimitsIInv, NEW r \in Evaluators
    PROVE  ctx[r].i + 1 \in Nat \ {0} /\ ctx[r].now \in Nat /\ ctx[r].i \in Nat
<1>1. ctx[r].i \in Nat \ {0} /\ ctx[r].now \in Nat
  BY LimitsFields DEF LimitsIInv, LimitsTypeOK
<1> QED
  BY <1>1

LEMMA checkDischargeFromKeeps ==
    ASSUME LimitsIInv, NEW r \in Evaluators, checkDischargeFrom(r)
    PROVE  LimitsIInv'
<1>1. ~Holds(r) /\ UNCHANGED <<now, fresh, tokens, kept, left, bucketVars, pending>>
  BY DEF checkDischargeFrom, At, Holds
<1>2. cached' \in [Urls -> SUBSET Nat] /\ \A u \in Urls : cached'[u] \subseteq cached[u]
  <2>1. cached \in [Urls -> SUBSET Nat]
    BY DEF LimitsIInv, LimitsTypeOK
  <2>2. cached' = cached \/ cached' = [cached EXCEPT ![This(r).url] = {}]
    BY DEF checkDischargeFrom
  <2> QED
    BY <2>1, <2>2
<1>3. evaluateOne(r, ctx[r].i + 1, ctx[r].now) \/ End(r)
  BY DEF checkDischargeFrom, Met
<1>4. pending' \subseteq [call : Calls, approved : BOOLEAN]
  BY <1>1 DEF LimitsIInv, LimitsTypeOK
<1> QED
  BY <1>1, <1>2, <1>3, <1>4, NextPlace, GoesOn

LEMMA requiresHumanApprovalKeeps ==
    ASSUME LimitsIInv, NEW r \in Evaluators, requiresHumanApproval(r)
    PROVE  LimitsIInv'
<1>1. ~Holds(r) /\ UNCHANGED <<now, fresh, tokens, kept, left, bucketVars, cached>>
  BY DEF requiresHumanApproval, At, Holds, dischargeVars
<1>2. cached' \in [Urls -> SUBSET Nat] /\ \A u \in Urls : cached'[u] \subseteq cached[u]
  BY <1>1 DEF LimitsIInv, LimitsTypeOK
<1>3. evaluateOne(r, ctx[r].i + 1, ctx[r].now) \/ End(r)
  BY DEF requiresHumanApproval, Met
<1>4. pending' \subseteq [call : Calls, approved : BOOLEAN]
  <2>1. pending \subseteq [call : Calls, approved : BOOLEAN] /\ ctx[r].call \in Calls
    BY LimitsFields DEF LimitsIInv, LimitsTypeOK
  <2>2. pending' = pending \/ pending' = pending \cup {[call |-> ctx[r].call, approved |-> FALSE]}
    BY DEF requiresHumanApproval
  <2>3. [call |-> ctx[r].call, approved |-> FALSE] \in [call : Calls, approved : BOOLEAN]
    BY <2>1
  <2> QED
    BY <2>1, <2>2, <2>3, Zenon
<1> QED
  BY <1>1, <1>2, <1>3, <1>4, NextPlace, GoesOn

LEMMA GrantedKeeps ==
    ASSUME LimitsIInv, NEW r \in Evaluators, Granted(r)
    PROVE  LimitsIInv'
<1>1. ~Holds(r) /\ UNCHANGED <<now, fresh, tokens, kept, left, bucketVars, cached, pending>> /\ End(r)
  BY DEF Granted, Holds, dischargeVars
<1>2. now \in Nat /\ 1 \in Nat \ {0} /\ cached' \in [Urls -> SUBSET Nat] /\ pending' \subseteq [call : Calls, approved : BOOLEAN]
  BY <1>1 DEF LimitsIInv, LimitsTypeOK
<1> QED
  BY <1>1, <1>2, GoesOn

LEMMA readClockKeeps ==
    ASSUME LimitsIInv, NEW r \in Evaluators, readClock(r)
    PROVE  LimitsIInv'
<1> DEFINE c == [ctx[r] EXCEPT !.pc = "take", !.clock = now]
<1>1. /\ ctx[r] \in Context /\ now \in Nat /\ ctx \in [Evaluators -> Context]
      /\ UNCHANGED <<now, bucketVars, pending, left, cached, fresh, tokens, kept>>
  BY DEF LimitsIInv, LimitsTypeOK, readClock, dischargeVars
<1>2. /\ c \in Context /\ c.pc = "take" /\ c.clock = now /\ c.call = ctx[r].call /\ c.i = ctx[r].i
      /\ c.bucket = ctx[r].bucket /\ c.discharges = ctx[r].discharges /\ c.start = ctx[r].start
  BY <1>1 DEF Context
<1> HIDE DEF c
<1>3. ctx' \in [Evaluators -> Context] /\ ctx'[r] = c /\ \A q \in Evaluators \ {r} : ctx'[q] = ctx[q]
  <2>1. ctx' = [ctx EXCEPT ![r] = c]
    BY DEF readClock, c
  <2> QED
    BY <1>1, <1>2, <2>1
<1>4. SameHolders
  BY <1>2, <1>3 DEF SameHolders, Holds, GrantOf, readClock
<1>5. \A q \in Evaluators : ctx'[q].clock <= now'
  BY <1>1, <1>2, <1>3 DEF LimitsIInv, ClocksPast
<1>6. Cached' /\ Apart' /\ HeldFits' /\ NoneLost' /\ ClocksPast' /\ Covered'
  <2>1. now' \in {now, now + 1} /\ UNCHANGED bucketVars
    BY <1>1
  <2> QED
    BY <2>1, <1>4, <1>5, SteadyStep
<1>7. LimitsTypeOK'
  BY <1>1, <1>3 DEF LimitsIInv, LimitsTypeOK, bucketVars
<1>8. DischargesMinted'
  <2>1. \A q \in Evaluators : ctx'[q].discharges = ctx[q].discharges /\ ctx'[q].start = ctx[q].start
    BY <1>2, <1>3
  <2> QED
    BY <1>1, <2>1, KeptDischarges
<1> QED
  BY <1>6, <1>7, <1>8 DEF LimitsIInv

LEMMA handleBridgeApproveKeeps ==
    ASSUME LimitsIInv, handleBridgeApprove
    PROVE  LimitsIInv'
<1>1. UNCHANGED <<now, ctx, left, bucketVars, cached, fresh, tokens, kept>>
  BY DEF handleBridgeApprove, dischargeVars
<1>2. pending' \subseteq [call : Calls, approved : BOOLEAN]
  BY DEF LimitsIInv, LimitsTypeOK, handleBridgeApprove
<1>3. Cached' /\ Apart' /\ HeldFits' /\ NoneLost' /\ ClocksPast' /\ Covered'
  BY <1>1, Still
<1>4. DischargesMinted'
  BY <1>1, KeptDischarges
<1> QED
  BY <1>1, <1>2, <1>3, <1>4 DEF LimitsIInv, LimitsTypeOK, bucketVars

LEMMA TickKeeps ==
    ASSUME LimitsIInv, Tick
    PROVE  LimitsIInv'
<1>1. UNCHANGED <<ctx, left, bucketVars, cached, fresh, tokens, kept, pending>> /\ now' = now + 1
  BY DEF Tick, dischargeVars
<1>2. now' \in Nat
  BY <1>1 DEF LimitsIInv, LimitsTypeOK
<1>3. Cached' /\ Apart' /\ HeldFits' /\ NoneLost' /\ ClocksPast' /\ Covered'
  BY <1>1, Still
<1>4. DischargesMinted'
  BY <1>1, KeptDischarges
<1> QED
  BY <1>1, <1>2, <1>3, <1>4 DEF LimitsIInv, LimitsTypeOK, bucketVars

-----------------------------------------------------------------------------
(* What is taken is covered.                                               *)

\* It is enough to follow the changes at each place: if b more were taken, or may
\* be by strays, than are owed to buckets forgotten, and a fewer, the stock falls
\* and rises with them.
LEMMA CoveredStep ==
    ASSUME LimitsIInv, now' = now, passed' \in [Places -> Nat], extra' \in [Grants -> Nat],
           \A g \in Grants : \A i \in DOMAIN CaveatsOf[g] : CaveatsOf[g][i].kind = "rate" =>
               \E a \in Nat : \E b \in Nat :
                   /\ passed'[<<g, i>>] + Cardinality(Strays(g, i)') + extra[g] + a
                        <= passed[<<g, i>>] + Cardinality(Strays(g, i)) + extra'[g] + b
                   /\ Stock(g, CaveatsOf[g][i])' \in Nat
                   /\ Stock(g, CaveatsOf[g][i])' + b * CaveatsOf[g][i].window
                        <= Stock(g, CaveatsOf[g][i]) + a * CaveatsOf[g][i].window
    PROVE  Covered'
<1> SUFFICES ASSUME NEW g \in Grants, NEW i \in DOMAIN CaveatsOf[g], CaveatsOf[g][i].kind = "rate"
    PROVE  passed'[<<g, i>>] * CaveatsOf[g][i].window + Stock(g, CaveatsOf[g][i])'
               + Cardinality(Strays(g, i)') * CaveatsOf[g][i].window
             <= (CaveatsOf[g][i].n + extra'[g]) * CaveatsOf[g][i].window + CaveatsOf[g][i].n * now'
  BY DEF Covered
<1> DEFINE c == CaveatsOf[g][i]
<1>1. PICK a \in Nat, b \in Nat :
          /\ passed'[<<g, i>>] + Cardinality(Strays(g, i)') + extra[g] + a
               <= passed[<<g, i>>] + Cardinality(Strays(g, i)) + extra'[g] + b
          /\ Stock(g, c)' \in Nat
          /\ Stock(g, c)' + b * c.window <= Stock(g, c) + a * c.window
  OBVIOUS
<1>2. /\ <<g, i>> \in Places /\ c \in Caveat /\ c.n \in Nat /\ c.window \in Nat /\ passed[<<g, i>>] \in Nat
      /\ passed'[<<g, i>>] \in Nat /\ extra[g] \in Nat /\ extra'[g] \in Nat
  BY PlaceTypes, CaveatTypes DEF LimitsIInv, LimitsTypeOK
<1>3. Stock(g, c) \in Nat /\ c.n * now \in Nat
  BY <1>2, StockTypes DEF LimitsIInv
<1>4. Cardinality(Strays(g, i)) \in Nat
  BY StraysTypes
<1>5. Cardinality(Strays(g, i)') \in Nat
  <2>1. Strays(g, i)' \in SUBSET Evaluators
    BY DEF Strays
  <2> QED
    BY <2>1, LimitsAssumption, FS_Subset, FS_CardinalityType
<1>6. passed[<<g, i>>] * c.window + Stock(g, c) + Cardinality(Strays(g, i)) * c.window
        <= (c.n + extra[g]) * c.window + c.n * now
  BY DEF LimitsIInv, Covered
<1> HIDE DEF c
<1>7. passed'[<<g, i>>] * c.window + Stock(g, c)' + Cardinality(Strays(g, i)') * c.window
        <= (c.n + extra'[g]) * c.window + c.n * now
  <2> DEFINE p  == passed[<<g, i>>]
             p1 == passed'[<<g, i>>]
             k  == Cardinality(Strays(g, i))
             k1 == Cardinality(Strays(g, i)')
             S  == Stock(g, c)
             S1 == Stock(g, c)'
             x  == extra[g]
             x1 == extra'[g]
             n  == c.n
             w  == c.window
             N  == c.n * now
  <2>1. p \in Nat /\ k \in Nat /\ x \in Nat /\ p1 \in Nat /\ k1 \in Nat /\ x1 \in Nat
    BY <1>2, <1>4, <1>5
  <2>2. n \in Nat /\ w \in Nat /\ S \in Nat /\ S1 \in Nat /\ N \in Nat
    BY <1>1, <1>2, <1>3
  <2>3. /\ p * w + S + k * w <= (n + x) * w + N
        /\ p1 + k1 + x + a <= p + k + x1 + b
        /\ S1 + b * w <= S + a * w
    BY <1>1, <1>6
  <2> HIDE DEF p, p1, k, k1, S, S1, x, x1, n, w, N
  <2>4. p1 * w + S1 + k1 * w <= (n + x1) * w + N
    <3>1. /\ p * w \in Nat /\ k * w \in Nat /\ x * w \in Nat /\ p1 * w \in Nat /\ k1 * w \in Nat /\ x1 * w \in Nat
          /\ n * w \in Nat /\ a * w \in Nat /\ b * w \in Nat
      BY <2>1, <2>2, Gained
    <3>2. (n + x) * w = n * w + x * w /\ (n + x1) * w = n * w + x1 * w
      BY <2>1, <2>2
    <3>3. p1 * w + k1 * w + x * w + a * w <= p * w + k * w + x1 * w + b * w
      <4> DEFINE u == p1 + k1 + x + a
                 v == p + k + x1 + b
      <4>1. w * u <= w * v
        <5>1. u \in Nat /\ v \in Nat /\ u <= v
          BY <2>1, <2>2, <2>3
        <5> HIDE DEF u, v
        <5> QED
          BY <2>2, <5>1, Gained
      <4>2. w * u = p1 * w + k1 * w + x * w + a * w
        BY <2>1, <2>2
      <4>3. w * v = p * w + k * w + x1 * w + b * w
        BY <2>1, <2>2
      <4> QED
        BY <4>1, <4>2, <4>3
    <3> DEFINE pw == p * w
               kw == k * w
               xw == x * w
               pw1 == p1 * w
               kw1 == k1 * w
               xw1 == x1 * w
               nw == n * w
               aw == a * w
               bw == b * w
    <3>4. pw + S + kw <= nw + xw + N /\ pw1 + kw1 + xw + aw <= pw + kw + xw1 + bw /\ S1 + bw <= S + aw
      BY <2>3, <3>2, <3>3
    <3>5. /\ pw \in Nat /\ kw \in Nat /\ xw \in Nat /\ pw1 \in Nat /\ kw1 \in Nat /\ xw1 \in Nat
          /\ nw \in Nat /\ aw \in Nat /\ bw \in Nat
      BY <3>1
    <3>6. (n + x1) * w = nw + xw1
      BY <3>2
    <3> HIDE DEF pw, kw, xw, pw1, kw1, xw1, nw, aw, bw
    <3>7. pw1 + S1 + kw1 <= nw + xw1 + N
      BY <2>1, <2>2, <3>4, <3>5
    <3> QED
      BY <3>6, <3>7 DEF pw1, kw1
  <2> QED
    BY <2>4 DEF p1, k1, S1, x1, n, w, N
<1> QED
  BY <1>7 DEF c

-----------------------------------------------------------------------------
(* Taking from a bucket.                                                   *)

\* A refill gains no more than the time since the last one gives.
LEMMA RefilledFacts ==
    ASSUME NEW b \in Bucket, NEW t \in Nat, now \in Nat, t <= now, b.last <= now
    PROVE  /\ Refilled(b, t) \in Bucket /\ Refilled(b, t).n = b.n /\ Refilled(b, t).window = b.window
           /\ Refilled(b, t).last <= now
           /\ Refilled(b, t).units + b.n * (now - Refilled(b, t).last) <= b.units + b.n * (now - b.last)
<1> DEFINE n == b.n
           u == b.units
           l == b.last
           f == n * b.window
<1>1. n \in Nat /\ u \in Nat /\ l \in Nat /\ b.window \in Nat /\ f \in Nat
  BY LimitsFields, Gained
<1>2. CASE t <= l
  BY <1>1, <1>2, Gained DEF Refilled
<1>3. CASE t > l
  <2> DEFINE v == Lesser(u + n * (t - l), f)
             x == [b EXCEPT !.units = v, !.last = t]
  <2>1. /\ n * (t - l) = n * t - n * l /\ n * (now - l) = n * now - n * l /\ n * (now - t) = n * now - n * t
        /\ n * t \in Nat /\ n * l \in Nat /\ n * now \in Nat /\ n * (t - l) \in Nat
    <3>1. t - l \in Nat /\ l <= t
      BY <1>1, <1>3
    <3> QED
      BY <1>1, <3>1, Gained
  <2>2. v \in Nat /\ v <= u + n * (t - l)
    <3> HIDE DEF u, n, l, f
    <3> QED
      BY <1>1, <2>1 DEF Lesser
  <2>3. Refilled(b, t) = x
    <3>1. ~(t <= b.last)
      BY <1>1, <1>3
    <3> QED
      BY <3>1 DEF Refilled
  <2> HIDE DEF v
  <2>4. x \in Bucket /\ x.n = b.n /\ x.window = b.window /\ x.units = v /\ x.last = t
    BY <1>1, <2>2 DEF Bucket
  <2>5. v + n * (now - t) <= u + n * (now - l)
    <3> HIDE DEF u, n, l
    <3> QED
      BY <1>1, <2>1, <2>2
  <2> QED
    BY <2>3, <2>4, <2>5
<1> QED
  BY <1>1, <1>2, <1>3

\* The bucket that is left holds what it did less what was taken, and is still
\* that of its caveat; d is 1 when the request was let through.
LEMMA TakeFacts ==
    ASSUME LimitsIInv, NEW r \in Evaluators, take(r)
    PROVE  \E c \in Context : \E d \in {0, 1} : \E rest \in Bucket :
              LET slot == ctx[r].bucket
                  last == bucketOf[GrantOf(r)] # slot /\ Holders(slot) = {r}
              IN  /\ ctx' = [ctx EXCEPT ![r] = c] /\ c.pc \notin {"clock", "take"} /\ c.clock = 0
                  /\ c.discharges = {} \/ (c.discharges = ctx[r].discharges /\ c.start = ctx[r].start)
                  /\ rest.n = This(r).n /\ rest.window = This(r).window /\ rest.last <= now
                  /\ rest.units + This(r).n * (now - rest.last) + d * This(r).window
                       <= heap[slot].units + This(r).n * (now - heap[slot].last)
                  /\ heap' = [heap EXCEPT ![slot] = IF last THEN Free ELSE rest]
                  /\ passed' = [passed EXCEPT ![<<GrantOf(r), ctx[r].i>>] = @ + d]
<1> DEFINE g == GrantOf(r)
           slot == ctx[r].bucket
           n == This(r).n
           w == This(r).window
           b == Refilled(heap[slot], ctx[r].clock)
           ok == b.units >= b.window
           rest == IF ok THEN [b EXCEPT !.units = @ - b.window] ELSE b
           last == bucketOf[g] # slot /\ Holders(slot) = {r}
<1>1. /\ slot \in Slots /\ heap[slot] \in Bucket /\ heap[slot].n = n /\ heap[slot].window = w /\ n \in Nat /\ w \in Nat
      /\ now \in Nat /\ ctx[r].clock \in Nat /\ ctx[r].clock <= now /\ heap[slot].last <= now
      /\ heap[slot].last \in Nat /\ heap[slot].units \in Nat
      /\ passed \in [Places -> Nat]
  <2>1. Holds(r)
    BY DEF take, Holds
  <2>2. slot \in Slots /\ heap[slot] \in Bucket /\ heap[slot].n = n /\ heap[slot].window = w /\ n \in Nat /\ w \in Nat
    BY <2>1, HolderFacts DEF LimitsIInv, Fits
  <2>3. now \in Nat /\ ctx[r].clock \in Nat /\ ctx[r].clock <= now /\ heap[slot].last <= now /\ passed \in [Places -> Nat]
    BY <2>2, LimitsFields DEF LimitsIInv, LimitsTypeOK, ClocksPast
  <2> QED
    BY <2>2, <2>3, LimitsFields
<1>2. /\ heap' = [heap EXCEPT ![slot] = IF last THEN Free ELSE rest]
      /\ IF ok THEN Met(r) ELSE End(r)
      /\ passed' = IF ok THEN [passed EXCEPT ![<<g, ctx[r].i>>] = @ + 1] ELSE passed
  BY DEF take, GrantOf
<1>3. /\ b \in Bucket /\ b.n = n /\ b.window = w /\ b.last <= now /\ b.units \in Nat /\ b.last \in Nat
      /\ b.units + n * (now - b.last) <= heap[slot].units + n * (now - heap[slot].last)
  <2> HIDE DEF slot, n, w
  <2>1. /\ b \in Bucket /\ b.n = heap[slot].n /\ b.window = heap[slot].window /\ b.last <= now
        /\ b.units + heap[slot].n * (now - b.last) <= heap[slot].units + heap[slot].n * (now - heap[slot].last)
    BY <1>1, RefilledFacts
  <2> QED
    BY <1>1, <2>1, LimitsFields
<1>4. PICK c \in Context :
          /\ ctx' = [ctx EXCEPT ![r] = c] /\ c.pc \notin {"clock", "take"} /\ c.clock = 0
          /\ c.discharges = {} \/ (c.discharges = ctx[r].discharges /\ c.start = ctx[r].start)
  <2>1. CASE ok
    <3>1. evaluateOne(r, ctx[r].i + 1, ctx[r].now)
      BY <1>2, <2>1 DEF Met
    <3> QED
      BY <3>1, NextPlace, EvaluateOneFacts, RestTypes DEF LimitsIInv
  <2>2. CASE ~ok
    <3>1. ctx' = [ctx EXCEPT ![r] = NotEvaluating]
      BY <1>2, <2>2 DEF End
    <3> QED
      BY <3>1, RestTypes
  <2> QED
    BY <2>1, <2>2
<1>5. PICK d \in {0, 1} :
          /\ rest \in Bucket /\ rest.n = n /\ rest.window = w /\ rest.last <= now
          /\ rest.units + n * (now - rest.last) + d * w <= heap[slot].units + n * (now - heap[slot].last)
          /\ passed' = [passed EXCEPT ![<<g, ctx[r].i>>] = @ + d]
  <2> DEFINE m == heap[slot].units + n * (now - heap[slot].last)
             k == n * (now - b.last)
  <2>1. m \in Nat /\ k \in Nat /\ b.units + k <= m
    <3>1. now - b.last \in Nat /\ now - heap[slot].last \in Nat
      BY <1>1, <1>3
    <3>2. n * (now - b.last) \in Nat /\ n * (now - heap[slot].last) \in Nat
      BY <1>1, <3>1, Gained
    <3> QED
      BY <1>1, <1>3, <3>2
  <2>2. CASE ok
    <3>1. rest = [b EXCEPT !.units = @ - b.window]
      BY <2>2
    <3>2. b.units - w \in Nat
      BY <1>1, <1>3, <2>2
    <3> HIDE DEF b, m, k, w, n, ok
    <3>3. rest \in Bucket /\ rest.n = n /\ rest.window = w /\ rest.last = b.last /\ rest.units = b.units - w
      BY <1>3, <3>1, <3>2 DEF Bucket
    <3>4. rest.units + k + 1 * w <= m
      BY <1>1, <1>3, <2>1, <3>3
    <3> HIDE DEF rest
    <3>5. /\ rest \in Bucket /\ rest.n = n /\ rest.window = w /\ rest.last <= now
          /\ rest.units + n * (now - rest.last) + 1 * w <= m
      BY <1>3, <3>3, <3>4 DEF k
    <3>6. passed' = [passed EXCEPT ![<<g, ctx[r].i>>] = @ + 1]
      BY <1>2, <2>2
    <3> QED
      BY <3>5, <3>6 DEF m
  <2>3. CASE ~ok
    <3>1. rest = b
      BY <2>3
    <3>2. passed' = [passed EXCEPT ![<<g, ctx[r].i>>] = @ + 0]
      <4>1. passed' = passed /\ \A p \in Places : passed[p] + 0 = passed[p]
        BY <1>1, <1>2, <2>3
      <4> QED
        BY <1>1, <4>1
    <3> HIDE DEF rest, b, m, k, n, w
    <3>3. rest.units + k + 0 * w <= m
      BY <1>1, <1>3, <2>1, <3>1
    <3> QED
      BY <1>3, <3>1, <3>2, <3>3 DEF k, m
  <2> QED
    BY <2>2, <2>3
<1> HIDE DEF rest
<1> QED
  BY <1>2, <1>4, <1>5

LEMMA takeKeeps ==
    ASSUME LimitsIInv, NEW r \in Evaluators, take(r)
    PROVE  LimitsIInv'
<1> DEFINE g == GrantOf(r)
           s == ctx[r].bucket
           i == ctx[r].i
           w == This(r).window
           n == This(r).n
           last == bucketOf[g] # s /\ Holders(s) = {r}
<1>1. PICK c \in Context, d \in {0, 1}, rest \in Bucket :
          /\ ctx' = [ctx EXCEPT ![r] = c] /\ c.pc \notin {"clock", "take"} /\ c.clock = 0
          /\ c.discharges = {} \/ (c.discharges = ctx[r].discharges /\ c.start = ctx[r].start)
          /\ rest.n = n /\ rest.window = w /\ rest.last <= now
          /\ rest.units + n * (now - rest.last) + d * w <= heap[s].units + n * (now - heap[s].last)
          /\ heap' = [heap EXCEPT ![s] = IF last THEN Free ELSE rest]
          /\ passed' = [passed EXCEPT ![<<g, i>>] = @ + d]
  BY TakeFacts
<1>2. /\ Holds(r) /\ g \in Grants /\ s \in Slots /\ <<g, i>> \in Places /\ i \in DOMAIN CaveatsOf[g]
      /\ This(r) = CaveatsOf[g][i] /\ This(r).kind = "rate" /\ n \in Nat \ {0} /\ w \in Nat \ {0}
      /\ heap[s] \in Bucket /\ heap[s].n = n /\ heap[s].window = w
  <2>1. Holds(r)
    BY DEF take, Holds
  <2> QED
    BY <2>1, HolderFacts DEF LimitsIInv, Fits
<1>3. UNCHANGED <<now, lru, bucketOf, extra, pending, left, cached, fresh, tokens, kept>>
  BY DEF take, dischargeVars
<1>4. /\ heap \in [Slots -> Bucket] /\ ctx \in [Evaluators -> Context] /\ passed \in [Places -> Nat] /\ now \in Nat
      /\ bucketOf \in [Grants -> Slots \cup {0}] /\ 0 \notin Slots
  BY SlotTypes DEF LimitsIInv, LimitsTypeOK
<1> HIDE DEF g, s, i, w, n
<1>5. rest # Free /\ rest.units \in Nat /\ rest.last \in Nat /\ heap[s].units \in Nat /\ heap[s].last \in Nat
  <2>1. rest # Free
    BY <1>1, <1>2 DEF Free
  <2> QED
    BY <1>2, <2>1, LimitsFields
<1>6. /\ ctx' \in [Evaluators -> Context] /\ ctx'[r] = c /\ ~Holds(r)'
      /\ \A q \in Evaluators \ {r} : ctx'[q] = ctx[q] /\ (Holds(q)' <=> Holds(q)) /\ GrantOf(q)' = GrantOf(q)
                                     /\ This(q)' = This(q) /\ Caveats(q)' = Caveats(q)
  <2>1. ctx' \in [Evaluators -> Context] /\ ctx'[r] = c /\ \A q \in Evaluators \ {r} : ctx'[q] = ctx[q]
    BY <1>1, <1>4
  <2> QED
    BY <1>1, <2>1 DEF Holds, GrantOf, This, Caveats
<1>7. \A h \in Grants : bucketOf[h] = s => h = g
  <2>1. \A h \in Grants : bucketOf[h] = ctx[r].bucket => h = GrantOf(r)
    BY <1>2 DEF LimitsIInv, Apart
  <2> QED
    BY <2>1 DEF s, g
<1>8. /\ heap' \in [Slots -> Bucket] /\ heap'[s] = IF last THEN Free ELSE rest
      /\ \A t \in Slots \ {s} : heap'[t] = heap[t]
      /\ \A h \in Grants : bucketOf[h] # 0 => heap'[bucketOf[h]] = IF bucketOf[h] = s THEN rest ELSE heap[bucketOf[h]]
  <2> HIDE DEF last
  <2>1. /\ heap' \in [Slots -> Bucket] /\ heap'[s] = IF last THEN Free ELSE rest
        /\ \A t \in Slots \ {s} : heap'[t] = heap[t]
    BY <1>1, <1>2, <1>4, RestTypes
  <2>2. \A h \in Grants : bucketOf[h] = s => ~last
    BY <1>7 DEF last
  <2> QED
    BY <1>4, <2>1, <2>2
<1>9. LimitsTypeOK'
  <2>1. passed' \in [Places -> Nat]
    <3>1. passed[<<g, i>>] + d \in Nat
      BY <1>2, <1>4
    <3> QED
      BY <1>1, <1>4, <3>1
  <2> QED
    BY <1>3, <1>6, <1>8, <2>1 DEF LimitsIInv, LimitsTypeOK
<1>10. Cached'
  BY <1>3 DEF LimitsIInv, Cached
<1>11. Apart'
  BY <1>3, <1>6 DEF LimitsIInv, Apart
<1>12. HeldFits'
  <2>1. \A h \in Grants : bucketOf'[h] # 0 => heap'[bucketOf'[h]] # Free
    BY <1>3, <1>5, <1>8 DEF LimitsIInv, HeldFits
  <2>2. ASSUME NEW q \in Evaluators, Holds(q)'
        PROVE  /\ ctx'[q].bucket # 0 /\ ctx'[q].i \in DOMAIN Caveats(q)' /\ This(q)'.kind = "rate"
               /\ Fits(heap'[ctx'[q].bucket], This(q)')
    <3>1. q # r /\ Holds(q) /\ ctx'[q] = ctx[q] /\ This(q)' = This(q) /\ Caveats(q)' = Caveats(q)
      BY <1>6, <2>2
    <3>2. /\ ctx[q].bucket # 0 /\ ctx[q].i \in DOMAIN Caveats(q) /\ This(q).kind = "rate"
          /\ Fits(heap[ctx[q].bucket], This(q)) /\ ctx[q].bucket \in Slots
      BY <3>1, HolderFacts DEF LimitsIInv, HeldFits
    <3>3. CASE ctx[q].bucket = s
      <4>1. q \in Holders(s)
        BY <3>1, <3>3 DEF Holders, Holds
      <4>2. heap'[s] = rest
        BY <1>8, <3>1, <4>1
      <4>3. Fits(rest, This(q))
        BY <1>1, <1>2, <3>2, <3>3 DEF Fits
      <4> QED
        BY <3>1, <3>2, <3>3, <4>2, <4>3
    <3>4. CASE ctx[q].bucket # s
      BY <1>8, <3>1, <3>2, <3>4
    <3> QED
      BY <3>3, <3>4
  <2> QED
    BY <2>1, <2>2 DEF HeldFits
<1>13. NoneLost'
  <2>1. SUFFICES ASSUME NEW t \in Slots, heap'[t] # Free
        PROVE  \/ \E h \in Grants : bucketOf[h] = t
               \/ \E q \in Evaluators : Holds(q)' /\ ctx'[q].bucket = t
    BY <1>3 DEF NoneLost
  <2>2. CASE t = s
    <3>1. ~last
      BY <1>8, <2>1, <2>2
    <3>2. r \in Holders(s)
      BY <1>2 DEF Holders, Holds, s
    <3>3. CASE bucketOf[g] = s
      BY <1>2, <2>2, <3>3
    <3>4. CASE bucketOf[g] # s
      <4>1. PICK q \in Holders(s) : q # r
        BY <3>1, <3>2, <3>4
      <4>2. q \in Evaluators /\ Holds(q) /\ ctx[q].bucket = s
        BY DEF Holders, Holds
      <4> QED
        BY <1>6, <2>2, <4>1, <4>2
    <3> QED
      BY <3>3, <3>4
  <2>3. CASE t # s
    <3>1. heap[t] # Free
      BY <1>8, <2>1, <2>3
    <3>2. CASE \E h \in Grants : bucketOf[h] = t
      BY <3>2
    <3>3. CASE \E q \in Evaluators : Holds(q) /\ ctx[q].bucket = t
      <4>1. PICK q \in Evaluators : Holds(q) /\ ctx[q].bucket = t
        BY <3>3
      <4>2. q # r
        BY <2>3, <4>1 DEF s
      <4> QED
        BY <1>6, <4>1, <4>2
    <3> QED
      BY <3>1, <3>2, <3>3 DEF LimitsIInv, NoneLost
  <2> QED
    BY <2>2, <2>3
<1>14. ClocksPast'
  <2>1. \A t \in Slots : heap'[t].last <= now
    <3>1. Free.last = 0
      BY DEF Free
    <3>2. rest.last <= now /\ \A t \in Slots : heap[t].last <= now
      BY <1>1 DEF LimitsIInv, ClocksPast
    <3> QED
      BY <1>4, <1>8, <3>1, <3>2
  <2>2. \A q \in Evaluators : ctx'[q].clock <= now
    <3>1. \A q \in Evaluators : ctx[q].clock <= now
      BY DEF LimitsIInv, ClocksPast
    <3> QED
      BY <1>1, <1>4, <1>6, <3>1
  <2> QED
    BY <1>3, <2>1, <2>2 DEF ClocksPast
<1>15. DischargesMinted'
  <2>1. \A q \in Evaluators : \/ ctx'[q].discharges = {}
                              \/ ctx'[q].discharges = ctx[q].discharges /\ ctx'[q].start = ctx[q].start
    BY <1>1, <1>6
  <2> QED
    BY <1>3, <2>1, KeptDischarges
<1>16. ASSUME NEW h \in Grants, NEW j \in DOMAIN CaveatsOf[h], CaveatsOf[h][j].kind = "rate"
       PROVE  \E a \in Nat : \E b \in Nat :
                   /\ passed'[<<h, j>>] + Cardinality(Strays(h, j)') + extra[h] + a
                        <= passed[<<h, j>>] + Cardinality(Strays(h, j)) + extra'[h] + b
                   /\ Stock(h, CaveatsOf[h][j])' \in Nat
                   /\ Stock(h, CaveatsOf[h][j])' + b * CaveatsOf[h][j].window
                        <= Stock(h, CaveatsOf[h][j]) + a * CaveatsOf[h][j].window
  <2> DEFINE e == CaveatsOf[h][j]
             k == Cardinality(Strays(h, j))
             k1 == Cardinality(Strays(h, j)')
  <2>1. /\ <<h, j>> \in Places /\ e \in Caveat /\ e.n \in Nat /\ e.window \in Nat /\ Stock(h, e) \in Nat
        /\ passed[<<h, j>>] \in Nat /\ extra[h] \in Nat
        /\ passed'[<<h, j>>] = IF <<h, j>> = <<g, i>> THEN passed[<<h, j>>] + d ELSE passed[<<h, j>>]
    <3>1. <<h, j>> \in Places /\ e \in Caveat /\ e.n \in Nat /\ e.window \in Nat
      BY <1>16, PlaceTypes, CaveatTypes
    <3>2. Stock(h, e) \in Nat
      BY <1>16, <3>1, StockTypes DEF LimitsIInv
    <3>3. extra[h] \in Nat
      BY DEF LimitsIInv, LimitsTypeOK
    <3> QED
      BY <1>1, <1>4, <3>1, <3>2, <3>3
  <2>2. Strays(h, j)' = Strays(h, j) \ {r}
    BY <1>3, <1>6 DEF Strays
  <2>3. k \in Nat /\ k1 = IF r \in Strays(h, j) THEN k - 1 ELSE k
    <3>1. IsFiniteSet(Strays(h, j)) /\ k \in Nat
      BY StraysTypes
    <3> QED
      BY <2>2, <3>1, FS_RemoveElement
  <2>4. r \in Strays(h, j) <=> <<h, j>> = <<g, i>> /\ bucketOf[g] # s
    BY <1>2 DEF Strays, g, s, i
  <2>5. CASE bucketOf[h] = s
    <3>1. h = g /\ bucketOf[g] = s /\ bucketOf[h] # 0
      BY <1>2, <1>4, <1>7, <2>5
    <3>2. heap'[bucketOf[h]] = rest /\ bucketOf' = bucketOf /\ now' = now
      BY <1>3, <1>8, <2>5, <3>1
    <3>3. Current(h, e)' <=> Current(h, e)
      BY <1>1, <1>2, <2>5, <3>2 DEF Current, Fits
    <3>4. CASE Current(h, e)
      <4>1. e.n = n /\ e.window = w
        BY <1>2, <2>5, <3>4 DEF Current, Fits
      <4>2. Stock(h, e) = heap[s].units + n * (now - heap[s].last) /\ Stock(h, e)' = rest.units + n * (now - rest.last)
        BY <2>5, <3>2, <3>3, <3>4, <4>1 DEF Stock
      <4>3. Stock(h, e)' \in Nat
        <5>1. n \in Nat /\ now - rest.last \in Nat
          BY <1>1, <1>2, <1>4, <1>5
        <5>2. n * (now - rest.last) \in Nat
          BY <5>1, Gained
        <5> QED
          BY <1>5, <4>2, <5>2
      <4>4. Stock(h, e)' + d * e.window <= Stock(h, e) + 0 * e.window
        <5>1. 0 * e.window = 0
          BY <2>1
        <5>2. Stock(h, e)' + d * e.window <= Stock(h, e)
          BY <1>1, <4>1, <4>2
        <5> HIDE DEF e
        <5> QED
          BY <2>1, <5>1, <5>2
      <4>5. passed'[<<h, j>>] + k1 + extra[h] + 0 <= passed[<<h, j>>] + k + extra'[h] + d
        <5>1. k1 = k
          BY <2>3, <2>4, <3>1
        <5> HIDE DEF k, k1
        <5> QED
          BY <1>3, <2>1, <2>3, <5>1
      <4> HIDE DEF e, k, k1
      <4>6. 0 \in Nat /\ d \in Nat
        OBVIOUS
      <4> QED
        BY <4>3, <4>4, <4>5, <4>6 DEF e, k, k1
    <3>5. CASE ~Current(h, e)
      <4>1. <<h, j>> # <<g, i>>
        <5>1. e = This(r) => Current(h, e)
          BY <1>2, <2>5, <3>1 DEF Current, Fits, n, w
        <5> QED
          BY <1>2, <3>5, <5>1
      <4>2. Stock(h, e)' = Stock(h, e)
        BY <3>3, <3>5 DEF Stock
      <4>3. k1 = k /\ passed'[<<h, j>>] = passed[<<h, j>>] /\ extra' = extra
        BY <1>3, <2>1, <2>3, <2>4, <4>1
      <4> HIDE DEF e, k, k1
      <4>4. /\ passed'[<<h, j>>] + k1 + extra[h] + 0 <= passed[<<h, j>>] + k + extra'[h] + 0
            /\ Stock(h, e)' \in Nat /\ Stock(h, e)' + 0 * e.window <= Stock(h, e) + 0 * e.window /\ 0 \in Nat
        BY <2>1, <2>3, <4>2, <4>3
      <4> QED
        BY <4>4 DEF e, k, k1
    <3> QED
      BY <3>4, <3>5
  <2>6. CASE bucketOf[h] # s
    <3>1. Stock(h, e)' = Stock(h, e)
      <4>1. bucketOf[h] # 0 => heap'[bucketOf[h]] = heap[bucketOf[h]]
        BY <1>8, <2>6
      <4> QED
        BY <1>3, <4>1 DEF Stock, Current
    <3>2. passed'[<<h, j>>] + k1 <= passed[<<h, j>>] + k /\ passed'[<<h, j>>] \in Nat /\ k1 \in Int
      <4>1. CASE <<h, j>> = <<g, i>>
        <5>1. k1 = k - 1 /\ passed'[<<h, j>>] = passed[<<h, j>>] + d
          BY <2>1, <2>3, <2>4, <2>6, <4>1
        <5> HIDE DEF k, k1
        <5> QED
          BY <2>1, <2>3, <5>1
      <4>2. CASE <<h, j>> # <<g, i>>
        <5>1. k1 = k /\ passed'[<<h, j>>] = passed[<<h, j>>]
          BY <2>1, <2>3, <2>4, <4>2
        <5> HIDE DEF k, k1
        <5> QED
          BY <2>1, <2>3, <5>1
      <4> QED
        BY <4>1, <4>2
    <3> HIDE DEF e, k, k1
    <3>3. /\ passed'[<<h, j>>] + k1 + extra[h] + 0 <= passed[<<h, j>>] + k + extra'[h] + 0
          /\ Stock(h, e)' \in Nat /\ Stock(h, e)' + 0 * e.window <= Stock(h, e) + 0 * e.window /\ 0 \in Nat
      BY <1>3, <2>1, <2>3, <3>1, <3>2
    <3> QED
      BY <3>3 DEF e, k, k1
  <2> QED
    BY <2>5, <2>6
<1>17. Covered'
  <2>1. passed' \in [Places -> Nat] /\ extra' \in [Grants -> Nat] /\ now' = now
    BY <1>3, <1>9 DEF LimitsTypeOK
  <2> QED
    BY <1>16, <2>1, CoveredStep
<1> QED
  BY <1>9, <1>10, <1>11, <1>12, <1>13, <1>14, <1>15, <1>17 DEF LimitsIInv

-----------------------------------------------------------------------------
(* A restart, and the cache of buckets.                                    *)

LEMMA RestartKeeps ==
    ASSUME LimitsIInv, Restart
    PROVE  LimitsIInv'
<1>1. /\ ctx' = [r \in Evaluators |-> NotEvaluating]
      /\ heap' = [s \in Slots |-> Free] /\ lru' = <<>> /\ bucketOf' = [g \in Grants |-> 0]
      /\ extra' = [g \in Grants |-> extra[g] + IF bucketOf[g] # 0 THEN heap[bucketOf[g]].n ELSE 0]
      /\ cached' = [u \in Urls |-> {}] /\ fresh' = {}
      /\ UNCHANGED <<now, tokens, kept, pending, passed>>
  BY DEF Restart
<1>2. /\ now \in Nat /\ LRUSize \in Nat /\ Free.last = 0 /\ 0 \notin Slots
      /\ NotEvaluating \in Context /\ NotEvaluating.pc = "idle" /\ NotEvaluating.clock = 0 /\ NotEvaluating.discharges = {}
  BY SlotTypes, RestTypes, LimitsAssumption DEF LimitsIInv, LimitsTypeOK, Free
<1>3. /\ ctx' \in [Evaluators -> Context]
      /\ \A q \in Evaluators : ctx'[q] = NotEvaluating /\ ~Holds(q)'
  BY <1>1, <1>2 DEF Holds
<1>4. extra' \in [Grants -> Nat]
  <2>1. \A g \in Grants : extra[g] + (IF bucketOf[g] # 0 THEN heap[bucketOf[g]].n ELSE 0) \in Nat
    <3>1. TAKE g \in Grants
    <3>2. extra[g] \in Nat /\ (bucketOf[g] # 0 => heap[bucketOf[g]].n \in Nat)
      BY LimitsFields DEF LimitsIInv, LimitsTypeOK
    <3> QED
      BY <3>2
  <2> QED
    BY <1>1, <2>1
<1>5. LimitsTypeOK'
  <2>1. left' \in Workload
    BY LeftTypes DEF LimitsIInv, Restart
  <2>2. heap' \in [Slots -> Bucket] /\ lru' \in Seq(Grants) /\ bucketOf' \in [Grants -> Slots \cup {0}]
        /\ cached' \in [Urls -> SUBSET Nat]
    BY <1>1, RestTypes
  <2> QED
    BY <1>1, <1>3, <1>4, <2>1, <2>2 DEF LimitsIInv, LimitsTypeOK
<1>6. Cached'
  <2>1. Len(lru') = 0
    BY <1>1
  <2> QED
    BY <1>1, <1>2, <2>1 DEF Cached
<1>7. Apart' /\ HeldFits' /\ NoneLost'
  BY <1>1, <1>3 DEF Apart, HeldFits, NoneLost
<1>8. ClocksPast'
  BY <1>1, <1>2, <1>3 DEF ClocksPast
<1>9. DischargesMinted'
  BY <1>1, <1>2, <1>3 DEF DischargesMinted
<1>10. ASSUME NEW h \in Grants, NEW j \in DOMAIN CaveatsOf[h], CaveatsOf[h][j].kind = "rate"
       PROVE  \E a \in Nat : \E b \in Nat :
                   /\ passed'[<<h, j>>] + Cardinality(Strays(h, j)') + extra[h] + a
                        <= passed[<<h, j>>] + Cardinality(Strays(h, j)) + extra'[h] + b
                   /\ Stock(h, CaveatsOf[h][j])' \in Nat
                   /\ Stock(h, CaveatsOf[h][j])' + b * CaveatsOf[h][j].window
                        <= Stock(h, CaveatsOf[h][j]) + a * CaveatsOf[h][j].window
  <2> DEFINE e == CaveatsOf[h][j]
             k == Cardinality(Strays(h, j))
             k1 == Cardinality(Strays(h, j)')
  <2>1. /\ <<h, j>> \in Places /\ e \in Caveat /\ e.n \in Nat /\ e.window \in Nat /\ Stock(h, e) \in Nat
        /\ e.n * e.window \in Nat /\ passed[<<h, j>>] \in Nat /\ extra[h] \in Nat /\ k \in Nat
    <3>1. <<h, j>> \in Places /\ e \in Caveat /\ e.n \in Nat /\ e.window \in Nat
      BY <1>10, PlaceTypes, CaveatTypes
    <3>2. Stock(h, e) \in Nat /\ e.n * e.window \in Nat
      BY <1>10, <3>1, StockTypes DEF LimitsIInv
    <3>3. extra[h] \in Nat /\ passed[<<h, j>>] \in Nat
      BY <3>1 DEF LimitsIInv, LimitsTypeOK
    <3> QED
      BY <3>1, <3>2, <3>3, StraysTypes
  <2>2. k1 = 0
    <3>1. Strays(h, j)' = {}
      BY <1>3 DEF Strays
    <3> QED
      BY <3>1, FS_EmptySet
  <2>3. Stock(h, e)' = e.n * e.window /\ passed' = passed
    BY <1>1 DEF Stock, Current
  <2>4. CASE Current(h, e)
    <3>1. extra'[h] = extra[h] + e.n
      BY <1>1, <2>4 DEF Current, Fits
    <3> HIDE DEF e, k, k1
    <3>2. /\ passed'[<<h, j>>] + k1 + extra[h] + e.n <= passed[<<h, j>>] + k + extra'[h] + 0
          /\ Stock(h, e)' \in Nat /\ Stock(h, e)' + 0 * e.window <= Stock(h, e) + e.n * e.window /\ 0 \in Nat
      BY <2>1, <2>2, <2>3, <3>1
    <3> QED
      BY <2>1, <3>2 DEF e, k, k1
  <2>5. CASE ~Current(h, e)
    <3>1. extra'[h] \in Nat /\ extra[h] <= extra'[h]
      <4>1. bucketOf[h] # 0 => heap[bucketOf[h]].n \in Nat
        BY LimitsFields DEF LimitsIInv, LimitsTypeOK
      <4> QED
        BY <1>1, <2>1, <4>1
    <3>2. Stock(h, e) = e.n * e.window
      BY <2>5 DEF Stock
    <3> HIDE DEF e, k, k1
    <3>3. /\ passed'[<<h, j>>] + k1 + extra[h] + 0 <= passed[<<h, j>>] + k + extra'[h] + 0
          /\ Stock(h, e)' \in Nat /\ Stock(h, e)' + 0 * e.window <= Stock(h, e) + 0 * e.window /\ 0 \in Nat
      BY <2>1, <2>2, <2>3, <3>1, <3>2
    <3> QED
      BY <3>3 DEF e, k, k1
  <2> QED
    BY <2>4, <2>5
<1>11. Covered'
  <2>1. passed' \in [Places -> Nat] /\ extra' \in [Grants -> Nat] /\ now' = now
    BY <1>1, <1>5 DEF LimitsTypeOK
  <2> QED
    BY <1>10, <2>1, CoveredStep
<1> QED
  BY <1>5, <1>6, <1>7, <1>8, <1>9, <1>11 DEF LimitsIInv

\* The handler that looked its bucket up holds it, for its caveat.
LEMMA HoldsNow ==
    ASSUME LimitsIInv, NEW r \in Evaluators, NEW x \in Slots,
           ctx' = [ctx EXCEPT ![r].pc = "clock", ![r].bucket = x]
    PROVE  /\ ctx' \in [Evaluators -> Context] /\ Holds(r)' /\ ctx'[r].bucket = x
           /\ GrantOf(r)' = GrantOf(r) /\ ctx'[r].i = ctx[r].i /\ Caveats(r)' = Caveats(r) /\ This(r)' = This(r)
           /\ ctx'[r].clock = ctx[r].clock /\ ctx'[r].discharges = ctx[r].discharges /\ ctx'[r].start = ctx[r].start
           /\ \A q \in Evaluators \ {r} : ctx'[q] = ctx[q] /\ (Holds(q)' <=> Holds(q)) /\ GrantOf(q)' = GrantOf(q)
                                          /\ This(q)' = This(q) /\ Caveats(q)' = Caveats(q)
<1> DEFINE c == [ctx[r] EXCEPT !.pc = "clock", !.bucket = x]
<1>1. ctx[r] \in Context /\ ctx \in [Evaluators -> Context]
  BY DEF LimitsIInv, LimitsTypeOK
<1>2. /\ c \in Context /\ c.pc = "clock" /\ c.bucket = x /\ c.call = ctx[r].call /\ c.i = ctx[r].i
      /\ c.clock = ctx[r].clock /\ c.discharges = ctx[r].discharges /\ c.start = ctx[r].start
  BY <1>1 DEF Context
<1>3. ctx' = [ctx EXCEPT ![r] = c]
  OBVIOUS
<1> HIDE DEF c
<1>4. ctx' \in [Evaluators -> Context] /\ ctx'[r] = c /\ \A q \in Evaluators \ {r} : ctx'[q] = ctx[q]
  BY <1>1, <1>2, <1>3
<1> QED
  BY <1>2, <1>4 DEF Holds, GrantOf, Caveats, This

\* A bucket that fits is used again.
LEMMA ReuseKeeps ==
    ASSUME LimitsIInv, NEW r \in Evaluators, At(r, "rate"),
           bucketOf[GrantOf(r)] # 0, Fits(heap[bucketOf[GrantOf(r)]], This(r)),
           lru' = Append(Forget(lru, GrantOf(r)), GrantOf(r)),
           ctx' = [ctx EXCEPT ![r].pc = "clock", ![r].bucket = bucketOf[GrantOf(r)]],
           UNCHANGED <<now, heap, bucketOf, extra, passed, pending, left, cached, fresh, tokens, kept>>
    PROVE  LimitsIInv'
<1> DEFINE g == GrantOf(r)
           x == bucketOf[g]
           t == Forget(lru, g)
<1>1. /\ g \in Grants /\ x \in Slots /\ lru \in Seq(Grants) /\ Len(lru) \in Nat /\ LRUSize \in Nat /\ 0 \notin Slots
      /\ ~Holds(r) /\ ctx[r].i \in DOMAIN Caveats(r) /\ This(r).kind = "rate"
      /\ Caveats(r) = CaveatsOf[g]
  <2>1. g \in Grants /\ Caveats(r) = CaveatsOf[g] /\ ctx[r] \in Context
    BY HolderFacts DEF LimitsIInv
  <2>2. ctx[r].i \in DOMAIN Caveats(r)
    <3>1. Caveats(r) \in Seq(Caveat) /\ ctx[r].i \in Nat \ {0} /\ ctx[r].i <= Len(Caveats(r))
      BY <2>1, PlaceTypes, LimitsFields DEF At
    <3> QED
      BY <3>1
  <2> QED
    BY <2>1, <2>2, SlotTypes, LimitsAssumption DEF LimitsIInv, LimitsTypeOK, At, Holds, This
<1>2. /\ ctx' \in [Evaluators -> Context] /\ Holds(r)' /\ ctx'[r].bucket = x
      /\ GrantOf(r)' = g /\ ctx'[r].i = ctx[r].i /\ Caveats(r)' = Caveats(r) /\ This(r)' = This(r)
      /\ ctx'[r].clock = ctx[r].clock /\ ctx'[r].discharges = ctx[r].discharges /\ ctx'[r].start = ctx[r].start
      /\ \A q \in Evaluators \ {r} : ctx'[q] = ctx[q] /\ (Holds(q)' <=> Holds(q)) /\ GrantOf(q)' = GrantOf(q)
                                     /\ This(q)' = This(q) /\ Caveats(q)' = Caveats(q)
  BY <1>1, HoldsNow
<1>3. /\ \A k, l \in 1 .. Len(lru) : lru[k] = lru[l] => k = l
      /\ \A h \in Grants : bucketOf[h] # 0 <=> \E k \in 1 .. Len(lru) : lru[k] = h
      /\ Len(lru) <= LRUSize
  BY DEF LimitsIInv, Cached
<1> HIDE DEF x, t, g
<1>4. /\ t \in Seq(Grants) /\ Len(t) = Len(lru) - 1
      /\ \A k, l \in 1 .. Len(t) : t[k] = t[l] => k = l
      /\ \A h \in Grants : (\E k \in 1 .. Len(t) : t[k] = h) <=> h # g /\ \E k \in 1 .. Len(lru) : lru[k] = h
  <2>1. \E k \in 1 .. Len(lru) : lru[k] = g
    BY <1>1, <1>3 DEF x, g
  <2> QED
    BY <1>1, <1>3, <2>1, ForgetFacts DEF t
<1>5. /\ lru' \in Seq(Grants) /\ Len(lru') = Len(t) + 1
      /\ \A k, l \in 1 .. Len(lru') : lru'[k] = lru'[l] => k = l
      /\ \A h \in Grants : (\E k \in 1 .. Len(lru') : lru'[k] = h) <=> h = g \/ \E k \in 1 .. Len(t) : t[k] = h
  <2>1. lru' = Append(t, g)
    BY DEF t, g
  <2> QED
    <3>1. ~\E k \in 1 .. Len(t) : t[k] = g
      BY <1>1, <1>4
    <3> DEFINE u == Append(t, g)
    <3>2. /\ u \in Seq(Grants) /\ Len(u) = Len(t) + 1
          /\ \A k, l \in 1 .. Len(u) : u[k] = u[l] => k = l
          /\ \A h \in Grants : (\E k \in 1 .. Len(u) : u[k] = h) <=> h = g \/ \E k \in 1 .. Len(t) : t[k] = h
      BY <1>1, <1>4, <3>1, AppendFacts
    <3>3. lru' = u
      BY <2>1
    <3> HIDE DEF u
    <3> QED
      BY <3>2, <3>3
<1>6. LimitsTypeOK'
  BY <1>2, <1>5 DEF LimitsIInv, LimitsTypeOK
<1>7. Cached'
  <2>1. Len(lru') <= LRUSize
    BY <1>1, <1>3, <1>4, <1>5
  <2>2. \A h \in Grants : bucketOf'[h] # 0 <=> \E k \in 1 .. Len(lru') : lru'[k] = h
    <3>1. TAKE h \in Grants
    <3>2. bucketOf' = bucketOf /\ bucketOf[g] # 0
      BY DEF g
    <3>3. (\E k \in 1 .. Len(lru') : lru'[k] = h) <=> h = g \/ \E k \in 1 .. Len(t) : t[k] = h
      BY <1>5
    <3>4. (\E k \in 1 .. Len(t) : t[k] = h) <=> h # g /\ bucketOf[h] # 0
      BY <1>3, <1>4
    <3> QED
      BY <3>2, <3>3, <3>4
  <2> QED
    BY <1>5, <2>1, <2>2 DEF Cached
<1>8. Apart'
  <2>1. \A h \in Grants : bucketOf[h] = x => h = g
    BY <1>1 DEF LimitsIInv, Apart, x
  <2>2. \A q \in Evaluators, h \in Grants : Holds(q)' /\ bucketOf[h] = ctx'[q].bucket => h = GrantOf(q)'
    BY <1>2, <2>1 DEF LimitsIInv, Apart
  <2> QED
    BY <2>2 DEF LimitsIInv, Apart
<1>9. HeldFits'
  <2>1. ASSUME NEW q \in Evaluators, Holds(q)'
        PROVE  /\ ctx'[q].bucket # 0 /\ ctx'[q].i \in DOMAIN Caveats(q)' /\ This(q)'.kind = "rate"
               /\ Fits(heap[ctx'[q].bucket], This(q)')
    <3>1. CASE q = r
      BY <1>1, <1>2, <3>1 DEF x, g
    <3>2. CASE q # r
      BY <1>2, <2>1, <3>2 DEF LimitsIInv, HeldFits
    <3> QED
      BY <3>1, <3>2
  <2> QED
    BY <2>1 DEF LimitsIInv, HeldFits
<1>10. NoneLost'
  <2>1. \A q \in Evaluators : Holds(q) => Holds(q)' /\ ctx'[q].bucket = ctx[q].bucket
    BY <1>1, <1>2
  <2> QED
    BY <2>1 DEF LimitsIInv, NoneLost
<1>11. ClocksPast'
  BY <1>2 DEF LimitsIInv, ClocksPast
<1>12. DischargesMinted'
  <2>1. \A q \in Evaluators : ctx'[q].discharges = ctx[q].discharges /\ ctx'[q].start = ctx[q].start
    BY <1>2
  <2> QED
    BY <2>1, KeptDischarges
<1>13. Covered'
  <2>1. \A h \in Grants : \A j \in DOMAIN CaveatsOf[h] : Strays(h, j)' = Strays(h, j)
    <3>1. TAKE h \in Grants
    <3>2. TAKE j \in DOMAIN CaveatsOf[h]
    <3>3. ASSUME NEW q \in Evaluators
          PROVE  (Holds(q) /\ GrantOf(q) = h /\ ctx[q].i = j /\ ctx[q].bucket # bucketOf[h])
                   <=> (Holds(q)' /\ GrantOf(q)' = h /\ ctx'[q].i = j /\ ctx'[q].bucket # bucketOf'[h])
      BY <1>1, <1>2 DEF x
    <3> QED
      BY <3>3 DEF Strays
  <2>2. \A h \in Grants : \A e : Stock(h, e)' = Stock(h, e)
    BY DEF Stock, Current
  <2> QED
    BY <2>1, <2>2 DEF LimitsIInv, Covered
<1> QED
  BY <1>6, <1>7, <1>8, <1>9, <1>10, <1>11, <1>12, <1>13 DEF LimitsIInv

\* A new bucket is made; the one it replaces and the one that is evicted are
\* forgotten, and freed unless a handler holds them.
LEMMA RenewKeeps ==
    ASSUME LimitsIInv, NEW r \in Evaluators, rateConsume(r),
           ~(bucketOf[GrantOf(r)] # 0 /\ Fits(heap[bucketOf[GrantOf(r)]], This(r)))
    PROVE  LimitsIInv'
<1> DEFINE g == GrantOf(r)
           c == This(r)
           t == Forget(lru, g)
           evict == IF Len(t) >= LRUSize THEN {Head(t)} ELSE {}
           lost == evict \cup (IF bucketOf[g] # 0 THEN {g} ELSE {})
           unused == {bucketOf[h] : h \in {h \in lost : Holders(bucketOf[h]) = {}}}
           new == CHOOSE s \in Slots : heap[s] = Free
           rest == IF evict = {} THEN t ELSE Tail(t)
<1>1. /\ heap' = [s \in Slots |-> IF s = new THEN Full(c) ELSE IF s \in unused THEN Free ELSE heap[s]]
      /\ lru' = Append(rest, g)
      /\ bucketOf' = [h \in Grants |-> IF h = g THEN new ELSE IF h \in evict THEN 0 ELSE bucketOf[h]]
      /\ extra' = [h \in Grants |-> extra[h] + IF h \in lost THEN Owed(h) ELSE 0]
      /\ ctx' = [ctx EXCEPT ![r].pc = "clock", ![r].bucket = new]
      /\ UNCHANGED <<now, passed, pending, left, cached, fresh, tokens, kept>>
  BY DEF rateConsume, GrantOf, dischargeVars
<1>2. /\ g \in Grants /\ lru \in Seq(Grants) /\ Len(lru) \in Nat /\ Len(lru) <= LRUSize /\ LRUSize \in Nat \ {0}
      /\ 0 \notin Slots /\ now \in Nat /\ heap \in [Slots -> Bucket] /\ bucketOf \in [Grants -> Slots \cup {0}]
      /\ extra \in [Grants -> Nat]
      /\ ~Holds(r) /\ ctx[r].i \in DOMAIN Caveats(r) /\ c.kind = "rate" /\ c \in Caveat
      /\ c.n \in Nat \ {0} /\ c.window \in Nat \ {0}
  <2>1. At(r, "rate") /\ ~Holds(r)
    BY DEF rateConsume, At, Holds
  <2>2. g \in Grants /\ Caveats(r) = CaveatsOf[g] /\ ctx[r] \in Context
    BY HolderFacts DEF LimitsIInv
  <2>3. ctx[r].i \in DOMAIN Caveats(r)
    <3>1. Caveats(r) \in Seq(Caveat) /\ ctx[r].i \in Nat \ {0} /\ ctx[r].i <= Len(Caveats(r))
      BY <2>1, <2>2, PlaceTypes, LimitsFields DEF At
    <3> QED
      BY <3>1
  <2>4. c \in Caveat /\ c.kind = "rate"
    BY <2>1, <2>2, <2>3, PlaceTypes DEF At, This
  <2>5. Len(lru) <= LRUSize /\ lru \in Seq(Grants) /\ now \in Nat /\ heap \in [Slots -> Bucket]
        /\ bucketOf \in [Grants -> Slots \cup {0}] /\ extra \in [Grants -> Nat]
    BY DEF LimitsIInv, LimitsTypeOK, Cached
  <2> QED
    BY <2>1, <2>2, <2>3, <2>4, <2>5, CaveatTypes, SlotTypes, LimitsAssumption
<1>3. new \in Slots /\ heap[new] = Free
  <2>1. \E s \in Slots : heap[s] = Free
    BY <1>2, FreeSlot DEF LimitsIInv
  <2> QED
    BY <2>1
<1>4. ~(bucketOf[g] # 0 /\ Fits(heap[bucketOf[g]], c))
  OBVIOUS
<1>5. /\ \A s : s \in unused <=> \E h \in lost : bucketOf[h] = s /\ Holders(s) = {}
      /\ \A h : h \in lost <=> h \in evict \/ (h = g /\ bucketOf[g] # 0)
  OBVIOUS
<1> HIDE DEF new, unused, lost, c
<1>6. /\ \A k, l \in 1 .. Len(lru) : lru[k] = lru[l] => k = l
      /\ \A h \in Grants : bucketOf[h] # 0 <=> \E k \in 1 .. Len(lru) : lru[k] = h
  BY DEF LimitsIInv, Cached
<1> HIDE DEF g
<1>7. /\ t \in Seq(Grants) /\ Len(t) \in Nat /\ Len(t) <= LRUSize
      /\ \A k, l \in 1 .. Len(t) : t[k] = t[l] => k = l
      /\ \A h \in Grants : (\E k \in 1 .. Len(t) : t[k] = h) <=> h # g /\ bucketOf[h] # 0
  <2>1. /\ t \in Seq(Grants)
        /\ IF \E k \in 1 .. Len(lru) : lru[k] = g THEN Len(t) = Len(lru) - 1 ELSE t = lru
        /\ \A k, l \in 1 .. Len(t) : t[k] = t[l] => k = l
        /\ \A h \in Grants : (\E k \in 1 .. Len(t) : t[k] = h) <=> h # g /\ \E k \in 1 .. Len(lru) : lru[k] = h
    BY <1>2, <1>6, ForgetFacts
  <2> HIDE DEF t
  <2>2. Len(t) \in Nat /\ Len(t) <= LRUSize
    BY <1>2, <2>1
  <2>3. ASSUME NEW h \in Grants PROVE (\E k \in 1 .. Len(t) : t[k] = h) <=> h # g /\ bucketOf[h] # 0
    BY <1>6, <2>1
  <2> QED
    BY <2>1, <2>2, <2>3
<1> HIDE DEF t
<1>8. /\ evict \subseteq Grants /\ \A h \in evict : h # g /\ bucketOf[h] # 0
      /\ rest \in Seq(Grants) /\ Len(rest) \in Nat /\ Len(rest) + 1 <= LRUSize
      /\ \A k, l \in 1 .. Len(rest) : rest[k] = rest[l] => k = l
      /\ \A h \in Grants : (\E k \in 1 .. Len(rest) : rest[k] = h) <=> h # g /\ h \notin evict /\ bucketOf[h] # 0
  <2>1. CASE Len(t) >= LRUSize
    <3>1. evict = {Head(t)} /\ rest = Tail(t) /\ t # <<>>
      <4>1. evict = {Head(t)}
        BY <2>1
      <4>2. Len(t) # 0
        BY <1>2, <1>7, <2>1
      <4>3. t # <<>>
        BY <4>2
      <4>4. rest = Tail(t)
        <5>1. evict # {}
          BY <4>1
        <5> HIDE DEF evict
        <5> QED
          BY <5>1
      <4> QED
        BY <4>1, <4>3, <4>4
    <3> HIDE DEF evict, rest
    <3>2. /\ Tail(t) \in Seq(Grants) /\ Len(Tail(t)) = Len(t) - 1 /\ Head(t) \in Grants /\ Head(t) = t[1]
          /\ 1 \in 1 .. Len(t)
          /\ \A k, l \in 1 .. Len(Tail(t)) : Tail(t)[k] = Tail(t)[l] => k = l
          /\ \A h \in Grants :
                (\E k \in 1 .. Len(Tail(t)) : Tail(t)[k] = h) <=> h # Head(t) /\ \E k \in 1 .. Len(t) : t[k] = h
      BY <1>7, <3>1, TailFacts
    <3>3. Head(t) # g /\ bucketOf[Head(t)] # 0
      BY <1>7, <3>2
    <3>4. Len(rest) \in Nat /\ Len(rest) + 1 <= LRUSize
      BY <1>2, <1>7, <2>1, <3>1, <3>2
    <3>5. ASSUME NEW h \in Grants
          PROVE  (\E k \in 1 .. Len(rest) : rest[k] = h) <=> h # g /\ h \notin evict /\ bucketOf[h] # 0
      <4>1. (\E k \in 1 .. Len(rest) : rest[k] = h) <=> h # Head(t) /\ \E k \in 1 .. Len(t) : t[k] = h
        BY <3>1, <3>2
      <4>2. (\E k \in 1 .. Len(t) : t[k] = h) <=> h # g /\ bucketOf[h] # 0
        BY <1>7
      <4> QED
        BY <3>1, <4>1, <4>2
    <3> QED
      BY <3>1, <3>2, <3>3, <3>4, <3>5
  <2>2. CASE ~(Len(t) >= LRUSize)
    <3>1. evict = {} /\ rest = t
      BY <2>2
    <3> HIDE DEF evict, rest
    <3>2. Len(t) + 1 <= LRUSize
      BY <1>2, <1>7, <2>2
    <3> QED
      BY <1>7, <3>1, <3>2
  <2> QED
    BY <2>1, <2>2
<1> HIDE DEF evict, rest
<1>9. /\ lru' \in Seq(Grants) /\ Len(lru') <= LRUSize
      /\ \A k, l \in 1 .. Len(lru') : lru'[k] = lru'[l] => k = l
      /\ \A h \in Grants : (\E k \in 1 .. Len(lru') : lru'[k] = h) <=> h = g \/ (h \notin evict /\ bucketOf[h] # 0)
  <2> DEFINE u == Append(rest, g)
  <2>1. ~\E k \in 1 .. Len(rest) : rest[k] = g
    BY <1>2, <1>8
  <2>2. /\ u \in Seq(Grants) /\ Len(u) = Len(rest) + 1
        /\ \A k, l \in 1 .. Len(u) : u[k] = u[l] => k = l
        /\ \A h \in Grants : (\E k \in 1 .. Len(u) : u[k] = h) <=> h = g \/ \E k \in 1 .. Len(rest) : rest[k] = h
    BY <1>2, <1>8, <2>1, AppendFacts
  <2>3. lru' = u
    BY <1>1
  <2> HIDE DEF u
  <2>4. ASSUME NEW h \in Grants
        PROVE  (\E k \in 1 .. Len(u) : u[k] = h) <=> h = g \/ (h \notin evict /\ bucketOf[h] # 0)
    <3>1. (\E k \in 1 .. Len(u) : u[k] = h) <=> h = g \/ \E k \in 1 .. Len(rest) : rest[k] = h
      BY <2>2
    <3>2. (\E k \in 1 .. Len(rest) : rest[k] = h) <=> h # g /\ h \notin evict /\ bucketOf[h] # 0
      BY <1>8
    <3> QED
      BY <3>1, <3>2
  <2>5. Len(u) <= LRUSize
    BY <1>8, <2>2
  <2> QED
    BY <2>2, <2>3, <2>4, <2>5
<1>10. /\ ctx' \in [Evaluators -> Context] /\ Holds(r)' /\ ctx'[r].bucket = new
       /\ GrantOf(r)' = g /\ ctx'[r].i = ctx[r].i /\ Caveats(r)' = Caveats(r) /\ This(r)' = c
       /\ ctx'[r].clock = ctx[r].clock /\ ctx'[r].discharges = ctx[r].discharges /\ ctx'[r].start = ctx[r].start
       /\ \A q \in Evaluators \ {r} : ctx'[q] = ctx[q] /\ (Holds(q)' <=> Holds(q)) /\ GrantOf(q)' = GrantOf(q)
                                      /\ This(q)' = This(q) /\ Caveats(q)' = Caveats(q)
  BY <1>1, <1>3, HoldsNow DEF g, c
<1>11. \A q \in Evaluators : ctx'[q].discharges = ctx[q].discharges /\ ctx'[q].start = ctx[q].start /\ ctx'[q].clock = ctx[q].clock
  BY <1>10
<1>12. bucketOf' \in [Grants -> Slots \cup {0}] /\ bucketOf'[g] = new
       /\ \A h \in Grants \ {g} : bucketOf'[h] = IF h \in evict THEN 0 ELSE bucketOf[h]
  BY <1>1, <1>2, <1>3
<1>13. /\ Full(c) \in Bucket /\ Full(c).n = c.n /\ Full(c).window = c.window /\ Full(c).last = now
       /\ Full(c).units = c.n * c.window /\ Full(c) # Free
  <2>1. c.n * c.window \in Nat
    BY <1>2, Gained
  <2>2. Full(c).n # Free.n
    BY <1>2 DEF Full, Free
  <2> QED
    BY <1>2, <2>1, <2>2 DEF Full, Bucket
<1>14. /\ heap' \in [Slots -> Bucket] /\ heap'[new] = Full(c)
       /\ \A s \in Slots \ {new} : heap'[s] = IF s \in unused THEN Free ELSE heap[s]
  BY <1>1, <1>2, <1>3, <1>13, RestTypes
<1>15. \A h \in Grants : bucketOf[h] # 0 => bucketOf[h] # new /\ bucketOf[h] \in Slots
  BY <1>2, <1>3 DEF LimitsIInv, HeldFits
<1>16. \A q \in Evaluators : Holds(q) =>
           /\ q # r /\ q \in Holders(ctx[q].bucket) /\ ctx[q].bucket \in Slots /\ ctx[q].bucket # new
           /\ ctx[q].bucket # 0 /\ heap'[ctx[q].bucket] = heap[ctx[q].bucket]
  <2>1. SUFFICES ASSUME NEW q \in Evaluators, Holds(q)
        PROVE  /\ q # r /\ q \in Holders(ctx[q].bucket) /\ ctx[q].bucket \in Slots /\ ctx[q].bucket # new
               /\ ctx[q].bucket # 0 /\ heap'[ctx[q].bucket] = heap[ctx[q].bucket]
    OBVIOUS
  <2>2. /\ ctx[q].bucket \in Slots /\ Fits(heap[ctx[q].bucket], This(q)) /\ This(q).n \in Nat \ {0}
    BY <2>1, HolderFacts DEF LimitsIInv
  <2>3. heap[ctx[q].bucket] # Free
    BY <2>2 DEF Fits, Free
  <2>4. q \in Holders(ctx[q].bucket) /\ q # r
    BY <1>2, <2>1 DEF Holders, Holds
  <2>5. ctx[q].bucket \notin unused
    BY <1>5, <2>4
  <2> QED
    BY <1>2, <1>3, <1>14, <2>2, <2>3, <2>4, <2>5
<1>17. \A h \in Grants : h # g /\ h \notin evict /\ bucketOf[h] # 0 => heap'[bucketOf[h]] = heap[bucketOf[h]]
  <2>1. SUFFICES ASSUME NEW h \in Grants, h # g, h \notin evict, bucketOf[h] # 0
        PROVE  heap'[bucketOf[h]] = heap[bucketOf[h]]
    OBVIOUS
  <2>2. bucketOf[h] \notin unused
    <3>1. SUFFICES ASSUME NEW f \in lost, bucketOf[f] = bucketOf[h] PROVE FALSE
      BY <1>5
    <3>2. f \in Grants /\ f # h
      BY <1>2, <1>5, <1>8, <2>1
    <3> QED
      BY <2>1, <3>1, <3>2 DEF LimitsIInv, Apart
  <2> QED
    BY <1>14, <1>15, <2>1, <2>2
<1>18. /\ extra' \in [Grants -> Nat]
       /\ \A h \in Grants : IF h \in lost
             THEN extra'[h] = extra[h] + heap[bucketOf[h]].n + Cardinality(Holders(bucketOf[h]))
             ELSE extra'[h] = extra[h]
       /\ \A h \in Grants : Cardinality(Holders(bucketOf[h])) \in Nat /\ IsFiniteSet(Holders(bucketOf[h]))
       /\ \A h \in lost : h \in Grants /\ bucketOf[h] # 0 /\ heap[bucketOf[h]].n \in Nat
  <2>1. \A h \in Grants : Cardinality(Holders(bucketOf[h])) \in Nat /\ IsFiniteSet(Holders(bucketOf[h]))
    <3>1. \A s : Holders(s) \in SUBSET Evaluators
      BY DEF Holders
    <3> QED
      BY <3>1, LimitsAssumption, FS_Subset, FS_CardinalityType
  <2>2. \A h \in lost : h \in Grants /\ bucketOf[h] # 0 /\ heap[bucketOf[h]].n \in Nat
    BY <1>2, <1>5, <1>8, <1>15, LimitsFields
  <2>3. \A h \in Grants : extra'[h] = extra[h] + IF h \in lost THEN Owed(h) ELSE 0
    BY <1>1
  <2>4. \A h \in Grants : IF h \in lost
             THEN extra'[h] = extra[h] + heap[bucketOf[h]].n + Cardinality(Holders(bucketOf[h])) /\ extra'[h] \in Nat
             ELSE extra'[h] = extra[h] /\ extra'[h] \in Nat
    BY <1>2, <2>1, <2>2, <2>3 DEF Owed
  <2>5. \A h \in Grants : extra'[h] \in Nat
    BY <2>4
  <2>6. extra' = [h \in Grants |-> extra'[h]]
    BY <1>1
  <2> QED
    BY <2>1, <2>2, <2>4, <2>5, <2>6
<1>19. LimitsTypeOK'
  BY <1>1, <1>9, <1>10, <1>12, <1>14, <1>18 DEF LimitsIInv, LimitsTypeOK
<1>20. Cached'
  <2>1. ASSUME NEW h \in Grants PROVE bucketOf'[h] # 0 <=> \E k \in 1 .. Len(lru') : lru'[k] = h
    <3>1. (\E k \in 1 .. Len(lru') : lru'[k] = h) <=> h = g \/ (h \notin evict /\ bucketOf[h] # 0)
      BY <1>9
    <3>2. bucketOf'[h] # 0 <=> h = g \/ (h \notin evict /\ bucketOf[h] # 0)
      BY <1>2, <1>3, <1>12
    <3> QED
      BY <3>1, <3>2
  <2> QED
    BY <1>9, <2>1 DEF Cached
<1>21. Apart'
  <2>1. \A f, h \in Grants : bucketOf'[f] # 0 /\ bucketOf'[f] = bucketOf'[h] => f = h
    BY <1>2, <1>12, <1>15 DEF LimitsIInv, Apart
  <2>2. ASSUME NEW q \in Evaluators, NEW h \in Grants, Holds(q)', bucketOf'[h] = ctx'[q].bucket
        PROVE  h = GrantOf(q)'
    <3>1. CASE q = r
      <4>1. bucketOf'[h] = new /\ GrantOf(q)' = g
        BY <1>10, <2>2, <3>1
      <4> QED
        BY <1>2, <1>3, <1>12, <1>15, <4>1
    <3>2. CASE q # r
      <4>1. Holds(q) /\ ctx'[q] = ctx[q] /\ GrantOf(q)' = GrantOf(q)
        BY <1>10, <2>2, <3>2
      <4>2. ctx[q].bucket # new /\ ctx[q].bucket # 0
        BY <1>16, <4>1
      <4>3. bucketOf[h] = ctx[q].bucket
        BY <1>12, <2>2, <4>1, <4>2
      <4> QED
        BY <4>1, <4>3 DEF LimitsIInv, Apart
    <3> QED
      BY <3>1, <3>2
  <2> QED
    BY <2>1, <2>2 DEF Apart
<1>22. HeldFits'
  <2>1. \A h \in Grants : bucketOf'[h] # 0 => heap'[bucketOf'[h]] # Free
    <3>1. TAKE h \in Grants
    <3>2. HAVE bucketOf'[h] # 0
    <3>3. CASE h = g
      BY <1>12, <1>13, <1>14, <3>3
    <3>4. CASE h # g
      <4>1. h \notin evict /\ bucketOf'[h] = bucketOf[h] /\ bucketOf[h] # 0
        BY <1>12, <3>2, <3>4
      <4> QED
        BY <1>17, <3>4, <4>1 DEF LimitsIInv, HeldFits
    <3> QED
      BY <3>3, <3>4
  <2>2. ASSUME NEW q \in Evaluators, Holds(q)'
        PROVE  /\ ctx'[q].bucket # 0 /\ ctx'[q].i \in DOMAIN Caveats(q)' /\ This(q)'.kind = "rate"
               /\ Fits(heap'[ctx'[q].bucket], This(q)')
    <3>1. CASE q = r
      <4>1. Fits(Full(c), c)
        BY <1>13 DEF Fits
      <4> QED
        BY <1>2, <1>3, <1>10, <1>14, <3>1, <4>1
    <3>2. CASE q # r
      <4>1. Holds(q) /\ ctx'[q] = ctx[q] /\ This(q)' = This(q) /\ Caveats(q)' = Caveats(q)
        BY <1>10, <2>2, <3>2
      <4>2. heap'[ctx[q].bucket] = heap[ctx[q].bucket]
        BY <1>16, <4>1
      <4> QED
        BY <4>1, <4>2 DEF LimitsIInv, HeldFits
    <3> QED
      BY <3>1, <3>2
  <2> QED
    BY <2>1, <2>2 DEF HeldFits
<1>23. NoneLost'
  <2>1. SUFFICES ASSUME NEW s \in Slots, heap'[s] # Free
        PROVE  \/ \E h \in Grants : bucketOf'[h] = s
               \/ \E q \in Evaluators : Holds(q)' /\ ctx'[q].bucket = s
    BY DEF NoneLost
  <2>2. CASE s = new
    BY <1>2, <1>12, <2>2
  <2>3. CASE s # new
    <3>1. s \notin unused /\ heap[s] # Free
      BY <1>14, <2>1, <2>3
    <3>2. ASSUME NEW q \in Evaluators, Holds(q), ctx[q].bucket = s
          PROVE  \E p \in Evaluators : Holds(p)' /\ ctx'[p].bucket = s
      BY <1>10, <1>16, <3>2
    <3>3. ASSUME NEW h \in Grants, bucketOf[h] = s
          PROVE  \/ \E f \in Grants : bucketOf'[f] = s
                 \/ \E q \in Evaluators : Holds(q)' /\ ctx'[q].bucket = s
      <4>1. CASE h \in lost
        <5>1. PICK q \in Holders(s) : TRUE
          BY <1>5, <3>1, <3>3, <4>1
        <5>2. q \in Evaluators /\ Holds(q) /\ ctx[q].bucket = s
          BY DEF Holders, Holds
        <5> QED
          BY <3>2, <5>2
      <4>2. CASE h \notin lost
        <5>1. s # 0
          BY <1>2
        <5>2. h # g /\ h \notin evict
          BY <1>5, <3>3, <4>2, <5>1
        <5> QED
          BY <1>12, <3>3, <5>2
      <4> QED
        BY <4>1, <4>2
    <3> QED
      BY <3>1, <3>2, <3>3 DEF LimitsIInv, NoneLost
  <2> QED
    BY <2>2, <2>3
<1>24. ClocksPast'
  <2>1. \A s \in Slots : heap'[s].last <= now
    <3>1. Free.last = 0 /\ \A s \in Slots : heap[s].last <= now
      BY DEF Free, LimitsIInv, ClocksPast
    <3> QED
      BY <1>2, <1>13, <1>14, <3>1
  <2>2. \A q \in Evaluators : ctx'[q].clock <= now
    BY <1>11 DEF LimitsIInv, ClocksPast
  <2> QED
    BY <1>1, <2>1, <2>2 DEF ClocksPast
<1>25. DischargesMinted'
  BY <1>1, <1>11, KeptDischarges
<1>26. ASSUME NEW h \in Grants, NEW j \in DOMAIN CaveatsOf[h], CaveatsOf[h][j].kind = "rate"
       PROVE  \E a \in Nat : \E b \in Nat :
                   /\ passed'[<<h, j>>] + Cardinality(Strays(h, j)') + extra[h] + a
                        <= passed[<<h, j>>] + Cardinality(Strays(h, j)) + extra'[h] + b
                   /\ Stock(h, CaveatsOf[h][j])' \in Nat
                   /\ Stock(h, CaveatsOf[h][j])' + b * CaveatsOf[h][j].window
                        <= Stock(h, CaveatsOf[h][j]) + a * CaveatsOf[h][j].window
  <2> DEFINE e == CaveatsOf[h][j]
             k == Cardinality(Strays(h, j))
             k1 == Cardinality(Strays(h, j)')
             m == Cardinality(Holders(bucketOf[h]))
             o == heap[bucketOf[h]].n
  <2>1. /\ <<h, j>> \in Places /\ e \in Caveat /\ e.n \in Nat /\ e.window \in Nat /\ Stock(h, e) \in Nat
        /\ e.n * e.window \in Nat /\ passed[<<h, j>>] \in Nat /\ extra[h] \in Nat /\ k \in Nat /\ m \in Nat
    <3>1. <<h, j>> \in Places /\ e \in Caveat /\ e.n \in Nat /\ e.window \in Nat
      BY <1>26, PlaceTypes, CaveatTypes
    <3>2. Stock(h, e) \in Nat /\ e.n * e.window \in Nat
      BY <1>26, <3>1, StockTypes DEF LimitsIInv
    <3>3. extra[h] \in Nat /\ passed[<<h, j>>] \in Nat
      BY <3>1 DEF LimitsIInv, LimitsTypeOK
    <3> QED
      BY <1>18, <3>1, <3>2, <3>3, StraysTypes
  \* Who is a stray now was one, or holds the bucket that was forgotten.
  <2>2. \A q \in Strays(h, j)' :
            /\ q \in Evaluators /\ q # r /\ Holds(q) /\ GrantOf(q) = h /\ ctx[q].i = j
            /\ ctx[q].bucket # 0 /\ ctx[q].bucket # bucketOf'[h]
    <3>1. SUFFICES ASSUME NEW q \in Evaluators, Holds(q)', GrantOf(q)' = h, ctx'[q].i = j, ctx'[q].bucket # bucketOf'[h]
          PROVE  /\ q # r /\ Holds(q) /\ GrantOf(q) = h /\ ctx[q].i = j
                 /\ ctx[q].bucket # 0 /\ ctx[q].bucket # bucketOf'[h]
      BY DEF Strays
    <3>2. q # r
      BY <1>10, <1>12, <3>1
    <3> QED
      BY <1>10, <1>16, <3>1, <3>2
  <2>3. Stock(h, e)' = IF h # g /\ h \notin evict THEN Stock(h, e) ELSE e.n * e.window
    <3>1. CASE h = g
      <4>1. bucketOf'[h] = new /\ heap'[new] = Full(c) /\ now' = now
        BY <1>1, <1>12, <1>14, <3>1
      <4>2. CASE Fits(Full(c), e)
        <5>1. e.n = c.n /\ e.window = c.window
          BY <1>13, <4>2 DEF Fits
        <5>2. Current(h, e)'
          BY <1>2, <1>3, <4>1, <4>2 DEF Current
        <5>3. Stock(h, e)' = Full(c).units + e.n * (now - now)
          BY <1>13, <4>1, <5>2 DEF Stock
        <5> HIDE DEF e
        <5>4. now - now = 0 /\ e.n * 0 = 0
          <6>1. \A n \in Nat : n - n = 0 /\ n * 0 = 0
            OBVIOUS
          <6> QED
            BY <1>2, <2>1, <6>1
        <5>5. Full(c).units = e.n * e.window /\ Full(c).units \in Nat
          <6>1. Full(c).units = e.n * e.window
            BY <1>13, <5>1
          <6> QED
            BY <2>1, <6>1
        <5>6. Stock(h, e)' = Full(c).units
          BY <5>3, <5>4, <5>5
        <5> QED
          BY <3>1, <5>5, <5>6
      <4>3. CASE ~Fits(Full(c), e)
        <5>1. ~Current(h, e)'
          BY <4>1, <4>3 DEF Current
        <5> QED
          BY <3>1, <5>1 DEF Stock
      <4> QED
        BY <4>2, <4>3
    <3>2. CASE h # g /\ h \in evict
      <4>1. bucketOf'[h] = 0
        BY <1>12, <3>2
      <4> QED
        BY <3>2, <4>1 DEF Stock, Current
    <3>3. CASE h # g /\ h \notin evict
      <4>1. bucketOf'[h] = bucketOf[h] /\ now' = now
        BY <1>1, <1>12, <3>3
      <4>2. bucketOf[h] # 0 => heap'[bucketOf[h]] = heap[bucketOf[h]]
        BY <1>17, <3>3
      <4> QED
        BY <3>3, <4>1, <4>2 DEF Stock, Current
    <3> QED
      BY <3>1, <3>2, <3>3
  <2>4. Strays(h, j)' \subseteq Strays(h, j) \cup Holders(bucketOf[h])
    <3>1. SUFFICES ASSUME NEW q \in Strays(h, j)', ctx[q].bucket # bucketOf[h] PROVE q \in Strays(h, j)
      BY <2>2 DEF Holders, Holds
    <3> QED
      BY <2>2, <3>1 DEF Strays
  <2>5. k1 <= k + m /\ k1 \in Nat
    <3> DEFINE U == Strays(h, j) \cup Holders(bucketOf[h])
    <3>1. IsFiniteSet(Strays(h, j)) /\ IsFiniteSet(Holders(bucketOf[h]))
      BY <1>18, StraysTypes
    <3>2. IsFiniteSet(U) /\ Cardinality(U) = k + m - Cardinality(Strays(h, j) \cap Holders(bucketOf[h]))
      BY <3>1, FS_Union
    <3>3. Cardinality(Strays(h, j) \cap Holders(bucketOf[h])) \in Nat
      BY <3>1, FS_Intersection, FS_CardinalityType
    <3> HIDE DEF U
    <3>4. Strays(h, j)' \in SUBSET U
      BY <2>4 DEF U
    <3>5. k1 <= Cardinality(U) /\ k1 \in Nat
      BY <3>2, <3>4, FS_Subset, FS_CardinalityType
    <3> HIDE DEF k, k1, m
    <3>6. Cardinality(U) <= k + m /\ Cardinality(U) \in Int
      BY <2>1, <3>2, <3>3
    <3> QED
      BY <2>1, <3>5, <3>6
  <2>6. passed' = passed
    BY <1>1
  <2>7. CASE h \in lost
    <3>1. /\ extra'[h] = extra[h] + o + m /\ o \in Nat /\ bucketOf[h] # 0
          /\ Stock(h, e)' = e.n * e.window
      BY <1>5, <1>18, <2>3, <2>7
    <3>2. CASE Current(h, e)
      <4>1. o = e.n
        BY <3>2 DEF Current, Fits
      <4> HIDE DEF e, k, k1, m, o
      <4>2. /\ passed'[<<h, j>>] + k1 + extra[h] + e.n <= passed[<<h, j>>] + k + extra'[h] + 0
            /\ Stock(h, e)' \in Nat /\ Stock(h, e)' + 0 * e.window <= Stock(h, e) + e.n * e.window /\ 0 \in Nat
        BY <2>1, <2>5, <2>6, <3>1, <4>1
      <4> QED
        BY <2>1, <4>2 DEF e, k, k1
    <3>3. CASE ~Current(h, e)
      <4>1. Stock(h, e) = e.n * e.window
        BY <3>3 DEF Stock
      <4> HIDE DEF e, k, k1, m, o
      <4>2. /\ passed'[<<h, j>>] + k1 + extra[h] + 0 <= passed[<<h, j>>] + k + extra'[h] + 0
            /\ Stock(h, e)' \in Nat /\ Stock(h, e)' + 0 * e.window <= Stock(h, e) + 0 * e.window /\ 0 \in Nat
        BY <2>1, <2>5, <2>6, <3>1, <4>1
      <4> QED
        BY <4>2 DEF e, k, k1
    <3> QED
      BY <3>2, <3>3
  <2>8. CASE h \notin lost
    <3>1. extra'[h] = extra[h]
      BY <1>18, <2>8
    <3>2. h \notin evict /\ (h = g => bucketOf[h] = 0)
      BY <1>5, <2>8
    <3>3. Stock(h, e)' = Stock(h, e)
      <4>1. CASE h = g
        BY <2>3, <3>2, <4>1 DEF Stock, Current
      <4>2. CASE h # g
        BY <2>3, <3>2, <4>2
      <4> QED
        BY <4>1, <4>2
    <3>4. k1 <= k
      <4>1. Strays(h, j)' \in SUBSET Strays(h, j)
        <5>1. SUFFICES ASSUME NEW q \in Strays(h, j)' PROVE q \in Strays(h, j)
          OBVIOUS
        <5>2. ctx[q].bucket # bucketOf[h]
          BY <1>12, <2>2, <3>2
        <5> QED
          BY <2>2, <5>2 DEF Strays
      <4> QED
        BY <4>1, StraysTypes, FS_Subset
    <3> HIDE DEF e, k, k1, m, o
    <3>5. /\ passed'[<<h, j>>] + k1 + extra[h] + 0 <= passed[<<h, j>>] + k + extra'[h] + 0
          /\ Stock(h, e)' \in Nat /\ Stock(h, e)' + 0 * e.window <= Stock(h, e) + 0 * e.window /\ 0 \in Nat
      BY <2>1, <2>5, <2>6, <3>1, <3>3, <3>4
    <3> QED
      BY <3>5 DEF e, k, k1
  <2> QED
    BY <2>7, <2>8
<1>27. Covered'
  <2>1. passed' \in [Places -> Nat] /\ extra' \in [Grants -> Nat] /\ now' = now
    BY <1>1, <1>19 DEF LimitsTypeOK
  <2> QED
    BY <1>26, <2>1, CoveredStep
<1> QED
  BY <1>19, <1>20, <1>21, <1>22, <1>23, <1>24, <1>25, <1>27 DEF LimitsIInv

LEMMA rateConsumeKeeps ==
    ASSUME LimitsIInv, NEW r \in Evaluators, rateConsume(r)
    PROVE  LimitsIInv'
<1>1. CASE bucketOf[GrantOf(r)] # 0 /\ Fits(heap[bucketOf[GrantOf(r)]], This(r))
  <2>1. /\ At(r, "rate")
        /\ lru' = Append(Forget(lru, GrantOf(r)), GrantOf(r))
        /\ ctx' = [ctx EXCEPT ![r].pc = "clock", ![r].bucket = bucketOf[GrantOf(r)]]
        /\ UNCHANGED <<now, heap, bucketOf, extra, passed, pending, left, cached, fresh, tokens, kept>>
    BY <1>1 DEF rateConsume, GrantOf, dischargeVars
  <2> QED
    BY <1>1, <2>1, ReuseKeeps
<1>2. CASE ~(bucketOf[GrantOf(r)] # 0 /\ Fits(heap[bucketOf[GrantOf(r)]], This(r)))
  BY <1>2, RenewKeeps
<1> QED
  BY <1>1, <1>2

-----------------------------------------------------------------------------
(* The theorems.                                                           *)

LEMMA LimitsInitially == LimitsInit => LimitsIInv
<1> SUFFICES ASSUME LimitsInit PROVE LimitsIInv
  OBVIOUS
<1> USE DEF LimitsInit
<1>1. /\ Free.last = 0 /\ Free \in Bucket /\ NotEvaluating \in Context /\ NotEvaluating.pc = "idle"
      /\ NotEvaluating.clock = 0 /\ NotEvaluating.discharges = {} /\ LRUSize \in Nat /\ Len(lru) = 0 /\ 0 \notin Slots
  BY RestTypes, SlotTypes, LimitsAssumption DEF Free
<1>2. LimitsTypeOK
  BY <1>1, LimitsAssumption DEF LimitsTypeOK
<1>3. \A r \in Evaluators : ~Holds(r)
  BY <1>1 DEF Holds
<1>4. Cached /\ Apart /\ HeldFits /\ NoneLost /\ ClocksPast /\ DischargesMinted
  BY <1>1, <1>3 DEF Cached, Apart, HeldFits, NoneLost, ClocksPast, DischargesMinted
<1>5. Covered
  <2>1. SUFFICES ASSUME NEW g \in Grants, NEW i \in DOMAIN CaveatsOf[g], CaveatsOf[g][i].kind = "rate"
        PROVE  passed[<<g, i>>] * CaveatsOf[g][i].window + Stock(g, CaveatsOf[g][i])
                   + Cardinality(Strays(g, i)) * CaveatsOf[g][i].window
                 <= (CaveatsOf[g][i].n + extra[g]) * CaveatsOf[g][i].window + CaveatsOf[g][i].n * now
    BY DEF Covered
  <2> DEFINE c == CaveatsOf[g][i]
  <2>2. c \in Caveat /\ c.n \in Nat /\ c.window \in Nat /\ <<g, i>> \in Places
    BY <2>1, PlaceTypes, CaveatTypes
  <2>3. Strays(g, i) = {}
    BY <1>3 DEF Strays
  <2>4. Cardinality(Strays(g, i)) = 0
    BY <2>3, FS_EmptySet
  <2>5. Stock(g, c) = c.n * c.window /\ passed[<<g, i>>] = 0 /\ extra[g] = 0 /\ now = 0
    BY <2>2 DEF Stock, Current
  <2> HIDE DEF c
  <2>6. 0 * c.window + c.n * c.window + 0 * c.window <= (c.n + 0) * c.window + c.n * 0
    <3>1. c.n * c.window \in Nat /\ 0 * c.window = 0 /\ c.n * 0 = 0 /\ c.n + 0 = c.n
      BY <2>2, Gained
    <3> QED
      BY <3>1
  <2> QED
    BY <2>4, <2>5, <2>6 DEF c
<1> QED
  BY <1>2, <1>4, <1>5 DEF LimitsIInv

LEMMA LimitsStep == LimitsIInv /\ [LimitsNext]_limitsVars => LimitsIInv'
<1> SUFFICES ASSUME LimitsIInv, [LimitsNext]_limitsVars PROVE LimitsIInv'
  OBVIOUS
<1>1. ASSUME NEW r \in Evaluators, Evaluation(r) PROVE LimitsIInv'
  BY <1>1, ReceiveKeeps, dischargeRememberKeeps, checkAuthKeeps, checkDischargeFromKeeps, rateConsumeKeeps, readClockKeeps, takeKeeps,
     requiresHumanApprovalKeeps, GrantedKeeps DEF Evaluation
<1>2. CASE UNCHANGED limitsVars
  <2>1. UNCHANGED <<ctx, bucketVars, now, cached, fresh, tokens, kept, pending, left>>
    BY <1>2 DEF limitsVars, bucketVars
  <2>2. Cached' /\ Apart' /\ HeldFits' /\ NoneLost' /\ ClocksPast' /\ Covered'
    BY <2>1, Still
  <2>3. DischargesMinted'
    BY <2>1, KeptDischarges
  <2> QED
    BY <2>1, <2>2, <2>3 DEF LimitsIInv, LimitsTypeOK, bucketVars
<1>3. CASE LimitsNext
  BY <1>1, <1>3, DischargeKeeps, GiveKeeps, handleBridgeApproveKeeps, TickKeeps, RestartKeeps DEF LimitsNext
<1> QED
  BY <1>2, <1>3

\* The invariant from which what rate limits and discharges promise follows.
THEOREM LimitsInvariance == LimitsSpec => []LimitsIInv
  BY LimitsInitially, LimitsStep, PTL DEF LimitsSpec

\* Buckets, contexts and what is left of the workload keep their types.
THEOREM LimitsTypeCorrect == LimitsSpec => []LimitsTypeOK
<1>1. LimitsIInv => LimitsTypeOK
  BY DEF LimitsIInv
<1> QED
  BY <1>1, LimitsInvariance, PTL

\* evaluateRate lets no more requests through than the capacity, what is gained
\* with time, and what was owed to buckets that were forgotten.
THEOREM RateIsHeld == LimitsSpec => []RateHolds
<1>1. LimitsIInv => RateHolds
  <2>1. SUFFICES ASSUME LimitsIInv, NEW g \in Grants, NEW i \in DOMAIN CaveatsOf[g], CaveatsOf[g][i].kind = "rate"
        PROVE  passed[<<g, i>>] * CaveatsOf[g][i].window
                 <= (CaveatsOf[g][i].n + extra[g]) * CaveatsOf[g][i].window + CaveatsOf[g][i].n * now
    BY DEF RateHolds
  <2> DEFINE c == CaveatsOf[g][i]
             p == passed[<<g, i>>] * c.window
             k == Cardinality(Strays(g, i)) * c.window
             b == (c.n + extra[g]) * c.window + c.n * now
  <2>2. /\ c \in Caveat /\ c.n \in Nat /\ c.window \in Nat /\ passed[<<g, i>>] \in Nat /\ extra[g] \in Nat
        /\ now \in Nat /\ c.kind = "rate"
    BY <2>1, PlaceTypes, CaveatTypes DEF LimitsIInv, LimitsTypeOK
  <2>3. Stock(g, c) \in Nat /\ Cardinality(Strays(g, i)) \in Nat
    BY <2>1, <2>2, StockTypes, StraysTypes DEF LimitsIInv
  <2>4. p + Stock(g, c) + k <= b
    BY <2>1 DEF LimitsIInv, Covered
  <2>5. p \in Nat /\ k \in Nat /\ b \in Nat
    <3> HIDE DEF c
    <3>1. p \in Nat /\ k \in Nat /\ (c.n + extra[g]) * c.window \in Nat /\ c.n * now \in Nat
      BY <2>2, <2>3, Gained
    <3> QED
      BY <3>1
  <2> HIDE DEF p, k, b
  <2>6. p <= b
    BY <2>3, <2>4, <2>5
  <2> QED
    BY <2>6 DEF p, b
<1> QED
  BY <1>1, LimitsInvariance, PTL

\* What another handler does leaves the place of this one alone.
LEMMA OtherPlaces ==
    ASSUME LimitsIInv, NEW q \in Evaluators, Evaluation(q), NEW r \in Evaluators, q # r
    PROVE  ctx'[r] = ctx[r]
<1>1. ctx \in [Evaluators -> Context]
  BY DEF LimitsIInv, LimitsTypeOK
<1>2. ASSUME NEW c, ctx' = [ctx EXCEPT ![q] = c] PROVE ctx'[r] = ctx[r]
  BY <1>1, <1>2
<1>3. ASSUME NEW i \in Nat \ {0}, NEW t \in Nat, evaluateOne(q, i, t) PROVE ctx'[r] = ctx[r]
  BY <1>2, <1>3, EvaluateOneFacts DEF LimitsIInv
<1>4. End(q) => ctx'[r] = ctx[r]
  BY <1>2 DEF End
<1>5. Met(q) => ctx'[r] = ctx[r]
  BY <1>3, NextPlace DEF Met
<1>6. CASE Receive(q)
  BY <1>2, <1>6 DEF Receive
<1>14. CASE dischargeRemember(q)
  BY <1>1, <1>14 DEF dischargeRemember
<1>7. CASE checkAuth(q)
  <2>1. now \in Nat /\ 1 \in Nat \ {0}
    BY DEF LimitsIInv, LimitsTypeOK
  <2> QED
    BY <1>3, <1>7, <2>1 DEF checkAuth
<1>8. CASE checkDischargeFrom(q)
  BY <1>4, <1>5, <1>8 DEF checkDischargeFrom
<1>9. CASE rateConsume(q)
  BY <1>1, <1>9 DEF rateConsume
<1>10. CASE readClock(q)
  BY <1>1, <1>10 DEF readClock
<1>11. CASE take(q)
  BY <1>4, <1>5, <1>11 DEF take
<1>12. CASE requiresHumanApproval(q)
  BY <1>4, <1>5, <1>12 DEF requiresHumanApproval
<1>13. CASE Granted(q)
  BY <1>4, <1>13 DEF Granted
<1> QED
  BY <1>6, <1>14, <1>7, <1>8, <1>9, <1>10, <1>11, <1>12, <1>13 DEF Evaluation

\* checkDischargeFrom passes only on a discharge that was minted: less than a
\* life before the request that brought it was parsed, or less than two before
\* it is looked at, and what the handler took that remembered it.
THEOREM DischargesAreBounded == LimitsSpec => DischargeBound
<1> DEFINE Passes(r) ==
              IF \E d \in ctx[r].discharges : d.url = This(r).url
              THEN \E d \in ctx[r].discharges \cap tokens :
                      d.url = This(r).url /\ ctx[r].start < d.at + TTL
              ELSE \E k \in kept :
                      k.url = This(r).url /\ now < k.at + 2 * TTL + k.lag
           A == \A r \in Evaluators : At(r, "discharge-from") /\ ctx'[r].i > ctx[r].i => Passes(r)
<1>1. LimitsIInv /\ [LimitsNext]_limitsVars => [A]_limitsVars
  <2>1. SUFFICES ASSUME LimitsIInv, LimitsNext, NEW r \in Evaluators, At(r, "discharge-from"), ctx'[r].i > ctx[r].i
        PROVE  Passes(r)
    OBVIOUS
  <2>2. /\ ctx[r].pc = "eval" /\ ctx[r].i \in Nat \ {0} /\ ctx[r].i <= Len(Caveats(r))
        /\ This(r).kind = "discharge-from" /\ Len(Caveats(r)) \in Nat /\ This(r).url \in Urls
    <3>1. ctx[r].pc = "eval" /\ ctx[r].i <= Len(Caveats(r)) /\ This(r).kind = "discharge-from"
      BY <2>1 DEF At, This
    <3>2. ctx[r].i \in Nat \ {0} /\ GrantOf(r) \in Grants /\ Caveats(r) = CaveatsOf[GrantOf(r)]
      BY <2>1, HolderFacts, LimitsFields DEF LimitsIInv
    <3>3. Caveats(r) \in Seq(Caveat) /\ Len(Caveats(r)) \in Nat
      BY <3>2, PlaceTypes
    <3>4. This(r) \in Caveat
      BY <3>1, <3>2, <3>3 DEF This
    <3> QED
      BY <3>1, <3>2, <3>3, <3>4, CaveatTypes
  <2>3. ctx'[r] # ctx[r] /\ ~(ctx' = [q \in Evaluators |-> NotEvaluating]) /\ ~End(r)
    <3>1. ctx'[r].i # 1 /\ ctx'[r].i # ctx[r].i
      BY <2>1, <2>2
    <3>2. NotEvaluating.i = 1 /\ ctx \in [Evaluators -> Context]
      BY <2>1, RestTypes DEF LimitsIInv, LimitsTypeOK
    <3> QED
      BY <3>1, <3>2 DEF End
  <2>4. checkDischargeFrom(r)
    <3>1. PICK q \in Evaluators : Evaluation(q)
      BY <2>1, <2>3 DEF LimitsNext, handleGrantDischarge, GiveDischarge, handleBridgeApprove, Tick, Restart
    <3>2. q = r
      BY <2>1, <2>3, <3>1, OtherPlaces
    <3>3. ~Receive(r) /\ ~dischargeRemember(r) /\ ~checkAuth(r) /\ ~readClock(r) /\ ~take(r)
      BY <2>2 DEF Receive, dischargeRemember, checkAuth, readClock, take
    <3>4. ~rateConsume(r) /\ ~requiresHumanApproval(r)
      BY <2>2 DEF rateConsume, requiresHumanApproval, At, This
    <3>5. ~Granted(r)
      BY <2>2 DEF Granted
    <3> QED
      BY <3>1, <3>2, <3>3, <3>4, <3>5 DEF Evaluation
  <2>5. (\E d \in ctx[r].discharges : d.url = This(r).url) \/ dischargeLookup(This(r).url)
    BY <2>3, <2>4 DEF checkDischargeFrom
  <2>6. CASE \E d \in ctx[r].discharges : d.url = This(r).url
    BY <2>1, <2>6 DEF LimitsIInv, DischargesMinted
  <2>7. CASE ~(\E d \in ctx[r].discharges : d.url = This(r).url)
    <3>1. PICK e \in cached[This(r).url] : now <= e
      BY <2>5, <2>7 DEF dischargeLookup
    <3>2. PICK k \in kept : k.url = This(r).url /\ e < k.at + 2 * TTL + k.lag
      BY <2>1, <2>2, <3>1 DEF LimitsIInv, DischargesMinted
    <3>3. now \in Nat /\ e \in Nat /\ k.at \in Nat /\ k.lag \in Nat /\ TTL \in Nat
      BY <2>1, <2>2, LimitsAssumption DEF LimitsIInv, LimitsTypeOK
    <3>4. now < k.at + 2 * TTL + k.lag
      BY <3>1, <3>2, <3>3
    <3> QED
      BY <2>7, <3>2, <3>4
  <2> QED
    BY <2>6, <2>7
<1> QED
  BY <1>1, LimitsInvariance, PTL DEF LimitsSpec, DischargeBound

=============================================================================
