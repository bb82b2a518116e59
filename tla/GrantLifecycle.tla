---------------------------- MODULE GrantLifecycle ----------------------------
(***************************************************************************)
(* Grants at a nakli-hub and what it knows of them.  A grant is a macaroon *)
(* that carries its own data; the table grants_known holds a row for the   *)
(* grants the hub minted or has seen, and says which are revoked.          *)
(* Authentication reads that row and inserts it when it is missing; mint,  *)
(* refresh and revoke run after it, each statement a step of its own.      *)
(*                                                                         *)
(* Scopes and caveats are abstracted: any grant may be used for any of the *)
(* operations.  Grants of nakli-cli and of crate pairing are there from    *)
(* the start, unknown to the table.                                        *)
(***************************************************************************)
EXTENDS Naturals, FiniteSets

CONSTANTS
    Ids,          \* ULIDs of grants
    Roots,        \* grants minted out of band
    Principals,   \* issuers and recipients
    Hub,          \* the hub's own principal, issuer of refreshed grants
    Requests,     \* handler goroutines
    NoOne,        \* an empty column
    MayFail,      \* TRUE: statements on grants_known fail
    MaxCrashes

ASSUME GrantAssumption ==
    /\ Roots \subseteq Ids
    /\ Hub \in Principals
    /\ NoOne \notin Principals \cup Ids
    /\ MayFail \in BOOLEAN
    /\ MaxCrashes \in Nat

VARIABLES
    macaroon,    \* [Ids -> data of the macaroon]
    known,       \* [Ids -> row of grants_known]
    held,        \* grants that reached a client
    req,         \* [Requests -> local state]
    acks,        \* revocations answered with success
    crashes,
    unrecorded   \* history: grants whose own RememberGrant failed

vars == <<macaroon, known, held, req, acks, crashes, unrecorded>>

Column(S) == S \cup {NoOne}

Macaroon == [via : {"none", "root", "mint", "refresh"}, issuer : Column(Principals),
             to : Column(Principals), parent : Column(Ids)]

Row == [stored : BOOLEAN, issuer : Column(Principals), recipient : Column(Principals),
        revoked : BOOLEAN]

\* What a handler keeps in its variables.
Local == [pc : {"idle", "seen", "handler", "refresh", "remember", "hand over",
                "update", "stub", "revoked"},
          grant : Column(Ids), id : Column(Ids), op : {"", "grant", "capability"},
          late : BOOLEAN, blind : BOOLEAN]

TypeOK ==
    /\ macaroon \in [Ids -> Macaroon]
    /\ known \in [Ids -> Row]
    /\ held \subseteq Ids
    /\ req \in [Requests -> Local]
    /\ acks \subseteq [op : {"grant", "capability"}, id : Ids]
    /\ crashes \in Nat
    /\ unrecorded \subseteq Ids

Idle == [pc |-> "idle", grant |-> NoOne, id |-> NoOne, op |-> "",
         late |-> FALSE, blind |-> FALSE]

Unminted == [via |-> "none", issuer |-> NoOne, to |-> NoOne, parent |-> NoOne]
NoRow    == [stored |-> FALSE, issuer |-> NoOne, recipient |-> NoOne, revoked |-> FALSE]

\* Out of band grants: any issuer, recorded nowhere.
Init ==
    /\ macaroon \in [Ids -> {Unminted} \cup
                        [via : {"root"}, issuer : Principals, to : {NoOne}, parent : {NoOne}]]
    /\ \A g \in Ids : macaroon[g].via = "root" <=> g \in Roots
    /\ known = [g \in Ids |-> NoRow]
    /\ held = Roots
    /\ req = [r \in Requests |-> Idle]
    /\ acks = {}
    /\ crashes = 0
    /\ unrecorded = {}

Minted(g) == macaroon[g].via # "none"
Drop(r)   == req' = [req EXCEPT ![r] = Idle]

Goto(r, label) == req' = [req EXCEPT ![r].pc = label]

-----------------------------------------------------------------------------
(* Storage: RememberGrant and its ON CONFLICT DO NOTHING.                  *)

\* Mutant: INSERT OR REPLACE.
Overwriting(g, issuer, recipient) ==
    [known EXCEPT ![g] = [stored |-> TRUE, issuer |-> issuer, recipient |-> recipient,
                          revoked |-> FALSE]]

Remembering(g, issuer, recipient) ==
    IF known[g].stored THEN known
    ELSE [known EXCEPT ![g] = [stored |-> TRUE, issuer |-> issuer, recipient |-> recipient,
                               revoked |-> FALSE]]

\* The row of a grant, if it has one.
GetKnownGrant(g) == {row \in {known[g]} : row.stored}

IsGrantRevoked(g) == \E row \in GetKnownGrant(g) : row.revoked

-----------------------------------------------------------------------------
(* authMiddleware.                                                         *)

\* The row is read: a revoked grant is turned away with 401, unless the read
\* itself fails, which is not looked at (`blind`).
authMiddleware(r) ==
    /\ req[r].pc = "idle"
    /\ \E g \in held, blind \in {FALSE, MayFail} :
          /\ IsGrantRevoked(g) => blind
          /\ req' = [req EXCEPT ![r] = [pc |-> "seen", grant |-> g, id |-> NoOne, op |-> "",
                        late |-> [op |-> "capability", id |-> g] \in acks, blind |-> blind]]
    /\ UNCHANGED <<macaroon, known, held, acks, crashes, unrecorded>>

\* Mutant: the columns of the parent and the recipient change places.
RememberParent(r) ==
    LET g == req[r].grant IN
    /\ req[r].pc = "seen"
    /\ known' = Remembering(g, macaroon[g].issuer, macaroon[g].parent)
    /\ Goto(r, "handler")
    /\ UNCHANGED <<macaroon, held, acks, crashes, unrecorded>>

\* First sight: a row without a recipient; its error is dropped.
rememberAuthenticatedGrant(r) ==
    LET g == req[r].grant IN
    /\ req[r].pc = "seen"
    /\ \/ known' = Remembering(g, macaroon[g].issuer, NoOne)
       \/ MayFail /\ UNCHANGED known
    /\ Goto(r, "handler")
    /\ UNCHANGED <<macaroon, held, acks, crashes, unrecorded>>

\* Any other handler, or one that turns the request away.
OtherHandler(r) ==
    /\ req[r].pc = "handler"
    /\ Drop(r)
    /\ UNCHANGED <<macaroon, known, held, acks, crashes, unrecorded>>

-----------------------------------------------------------------------------
(* handleGrantMint and handleCapabilityRefresh.                            *)

\* Mutant: the macaroon is sent before it is recorded.
MintAndSend(r) ==
    /\ req[r].pc = "handler"
    /\ \E c \in Ids, p \in Principals :
          /\ ~Minted(c)
          /\ macaroon' = [macaroon EXCEPT ![c] = [via |-> "mint", to |-> p,
                             issuer |-> macaroon[req[r].grant].issuer, parent |-> req[r].grant]]
          /\ held' = held \cup {c}
          /\ req' = [req EXCEPT ![r] = [@ EXCEPT !.pc = "remember", !.id = c]]
    /\ UNCHANGED <<known, acks, crashes, unrecorded>>

\* A child has the issuer of the grant it was minted with.
handleGrantMint(r) ==
    /\ req[r].pc = "handler"
    /\ \E c \in Ids, p \in Principals :
          /\ ~Minted(c)
          /\ macaroon' = [macaroon EXCEPT ![c] = [via |-> "mint", to |-> p,
                             issuer |-> macaroon[req[r].grant].issuer, parent |-> req[r].grant]]
          /\ req' = [req EXCEPT ![r] = [@ EXCEPT !.pc = "remember", !.id = c]]
    /\ UNCHANGED <<known, held, acks, crashes, unrecorded>>

\* IsGrantRevoked once more; its error is dropped as well.
handleCapabilityRefresh(r) ==
    /\ req[r].pc = "handler"
    /\ \/ ~IsGrantRevoked(req[r].grant) /\ Goto(r, "refresh")
       \/ MayFail /\ req' = [req EXCEPT ![r] = [@ EXCEPT !.pc = "refresh", !.blind = TRUE]]
    /\ UNCHANGED <<macaroon, known, held, acks, crashes, unrecorded>>

MintRefreshed(r) ==
    LET g == req[r].grant IN
    /\ req[r].pc = "refresh"
    /\ \E c \in Ids :
          /\ ~Minted(c)
          /\ macaroon' = [macaroon EXCEPT ![c] = [via |-> "refresh", to |-> macaroon[g].issuer,
                                                  issuer |-> Hub, parent |-> g]]
          /\ req' = [req EXCEPT ![r] = [@ EXCEPT !.pc = "remember", !.id = c]]
    /\ UNCHANGED <<known, held, acks, crashes, unrecorded>>

\* The new grant's own row, with its recipient; its error is dropped.
RememberGrant(r) ==
    LET c == req[r].id IN
    /\ req[r].pc = "remember"
    /\ \/ /\ known' = Remembering(c, macaroon[c].issuer, macaroon[c].to)
          /\ UNCHANGED unrecorded
       \/ /\ MayFail
          /\ unrecorded' = unrecorded \cup {c}
          /\ UNCHANGED known
    /\ Goto(r, "hand over")
    /\ UNCHANGED <<macaroon, held, acks, crashes>>

AnswerGrant(r) ==
    /\ req[r].pc = "hand over"
    /\ held' = held \cup {req[r].id}
    /\ Drop(r)
    /\ UNCHANGED <<macaroon, known, acks, crashes, unrecorded>>

-----------------------------------------------------------------------------
(* handleGrantRevoke, handleCapabilityRevoke and MarkGrantRevoked.         *)

Owns(principal, row) == principal \in {row.issuer, row.recipient}

\* Mutant: a revocation needs no row of its target.
RevokeUnowned(r) ==
    /\ req[r].pc = "handler"
    /\ \E t \in Ids, op \in {"grant", "capability"} :
          /\ Minted(t)
          /\ req' = [req EXCEPT ![r] = [@ EXCEPT !.pc = "update", !.id = t, !.op = op]]
    /\ UNCHANGED <<macaroon, known, held, acks, crashes, unrecorded>>

\* The target has a row, and the requester is its issuer or recipient (404 or
\* 403 otherwise); grant/revoke then writes its history event (EventStore).
requireGrantOwnership(r) ==
    /\ req[r].pc = "handler"
    /\ \E t \in Ids, op \in {"grant", "capability"} :
          /\ Minted(t)
          /\ \E row \in GetKnownGrant(t) : Owns(macaroon[req[r].grant].issuer, row)
          /\ req' = [req EXCEPT ![r] = [@ EXCEPT !.pc = "update", !.id = t, !.op = op]]
    /\ UNCHANGED <<macaroon, known, held, acks, crashes, unrecorded>>

\* Mutant: the answer does not wait for the statements.
AnswerBeforeMark(r) ==
    LET t == req[r].id IN
    /\ req[r].pc = "update"
    /\ ~known[t].revoked
    /\ acks' = acks \cup {[op |-> req[r].op, id |-> t]}
    /\ Goto(r, "stub")
    /\ UNCHANGED <<macaroon, known, held, crashes, unrecorded>>

\* UPDATE ... WHERE grant_id = ? AND revoked_at IS NULL; without a row to
\* change, the stub is tried next.
MarkGrantRevoked(r) ==
    LET t == req[r].id IN
    /\ req[r].pc = "update"
    /\ IF known[t].stored /\ ~known[t].revoked
       THEN known' = [known EXCEPT ![t].revoked = TRUE] /\ Goto(r, "revoked")
       ELSE Goto(r, "stub") /\ UNCHANGED known
    /\ UNCHANGED <<macaroon, held, acks, crashes, unrecorded>>

\* INSERT of a revoked row ON CONFLICT DO NOTHING.
InsertStub(r) ==
    LET t == req[r].id IN
    /\ req[r].pc = "stub"
    /\ known' = IF known[t].stored THEN known
                ELSE [known EXCEPT ![t] = [NoRow EXCEPT !.stored = TRUE, !.revoked = TRUE]]
    /\ Goto(r, "revoked")
    /\ UNCHANGED <<macaroon, held, acks, crashes, unrecorded>>

\* grant/revoke drops the error and answers success; DELETE capability
\* answers 500.
MarkFails(r) ==
    /\ MayFail
    /\ req[r].pc \in {"update", "stub"}
    /\ IF req[r].op = "grant" THEN Goto(r, "revoked") ELSE Drop(r)
    /\ UNCHANGED <<macaroon, known, held, acks, crashes, unrecorded>>

AnswerRevoked(r) ==
    /\ req[r].pc = "revoked"
    /\ acks' = acks \cup {[op |-> req[r].op, id |-> req[r].id]}
    /\ Drop(r)
    /\ UNCHANGED <<macaroon, known, held, crashes, unrecorded>>

Crash ==
    /\ crashes < MaxCrashes
    /\ \E r \in Requests : req[r].pc # "idle"
    /\ req' = [r \in Requests |-> Idle]
    /\ crashes' = crashes + 1
    /\ UNCHANGED <<macaroon, known, held, acks, unrecorded>>

Handler(r) ==
    \/ authMiddleware(r)
    \/ rememberAuthenticatedGrant(r)
    \/ OtherHandler(r)
    \/ handleGrantMint(r)
    \/ handleCapabilityRefresh(r)
    \/ MintRefreshed(r)
    \/ RememberGrant(r)
    \/ AnswerGrant(r)
    \/ requireGrantOwnership(r)
    \/ MarkGrantRevoked(r)
    \/ InsertStub(r)
    \/ MarkFails(r)
    \/ AnswerRevoked(r)

Next == Crash \/ \E r \in Requests : Handler(r)

Spec == Init /\ [][Next]_vars

-----------------------------------------------------------------------------
(* What the table promises.                                                *)

\* A revocation is for good: no first sight, mint or second revocation that
\* was under way writes over it (ON CONFLICT DO NOTHING of RememberGrant).
RevocationsStick ==
    [][\A g \in Ids : known[g].revoked => known'[g].revoked]_vars

\* DELETE /v1/capability answers 204 only for a capability that is revoked,
\* although MarkGrantRevoked is two statements and its INSERT gives way to a
\* row another request has inserted in between: the ownership check has seen
\* a row, and rows are never deleted.
RevokeAnswerTrue ==
    \A a \in acks : a.op = "capability" => known[a.id].revoked

\* The row of a grant minted here names its recipient, who may then revoke it,
\* unless its own insertion failed: the row without a recipient that the first
\* use inserts never comes first.
RecipientRecorded ==
    \A g \in Ids \ unrecorded :
        known[g].stored /\ macaroon[g].via \in {"mint", "refresh"} =>
            known[g].recipient = macaroon[g].to

\* A request with a capability whose revocation was already answered passes
\* authentication, and is refreshed, only when the read of its row failed.
NothingAfterRevocation ==
    \A r \in Requests : req[r].late => req[r].blind

=============================================================================
