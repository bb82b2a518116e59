---------------------------- MODULE WorkerPairing ----------------------------
(***************************************************************************)
(* Crate pairing at the Cloudflare Worker hub.  The token's record lives   *)
(* in the key-value store, which edges read through caches and write whole;*)
(* that a token is redeemed at all is decided by a Durable Object, one per *)
(* secret and one request at a time, before the capability is minted.      *)
(***************************************************************************)
EXTENDS Naturals, FiniteSets

CONSTANTS
    EdgeDaemons,
    Edges,
    Fetches,      \* handlers
    EdgeOf,       \* [Fetches -> Edges], where a handler runs
    MaxCaps,      \* bound on capabilities
    MaxDiscards   \* bound on handlers that die

ASSUME WorkerPairingAssumption ==
    /\ EdgeOf \in [Fetches -> Edges]
    /\ MaxCaps \in Nat /\ MaxDiscards \in Nat

VARIABLES
    record,     \* KV crate-pairing:<secret>: none or one record
    view,       \* [Edges -> the record as the edge's cache has it]
    redemption, \* storage of the Durable Object: none or one daemon
    overdue,    \* the token's expires_at has passed
    fetch,      \* [Fetches -> local state]
    mintedCaps, \* capabilities minted: [cap, to]
    caps,       \* number of capabilities minted
    held,       \* capabilities that reached their daemon
    cancelled,  \* a client was told of a cancellation (204)
    overlapped, \* history: handlers of the token overlapped, or one of them
                \* read an old record
    discards

workerVars == <<record, view, redemption, overdue, fetch, mintedCaps, caps, held, cancelled, overlapped, discards>>
kvVars == <<record, view>>
capVars == <<mintedCaps, caps, held>>

\* The record of a token; by holds the daemon it was redeemed by, if any.
Record == [by : SUBSET EdgeDaemons, cap : 0..MaxCaps, cancelled : BOOLEAN]
Fresh  == [by |-> {}, cap |-> 0, cancelled |-> FALSE]

\* What a handler keeps in its variables.
Fetch == [pc : {"idle", "read", "claim", "mint", "write", "answer"},
          op : {"intent", "cancel", "redeem"}, by : SUBSET EdgeDaemons, rec : Record, cap : 0..MaxCaps]

NoFetch == [pc |-> "idle", op |-> "intent", by |-> {}, rec |-> Fresh, cap |-> 0]

WorkerTypeOK ==
    /\ record \subseteq Record /\ Cardinality(record) <= 1
    /\ view \in [Edges -> SUBSET Record]
    /\ redemption \subseteq EdgeDaemons /\ Cardinality(redemption) <= 1
    /\ overdue \in BOOLEAN /\ cancelled \in BOOLEAN /\ overlapped \in BOOLEAN
    /\ fetch \in [Fetches -> Fetch]
    /\ mintedCaps \subseteq [cap : 1..MaxCaps, to : SUBSET EdgeDaemons] /\ held \subseteq mintedCaps
    /\ caps \in 0..MaxCaps /\ discards \in Nat

WorkerInit ==
    /\ record = {} /\ view = [e \in Edges |-> {}]
    /\ redemption = {} /\ overdue = FALSE
    /\ fetch = [r \in Fetches |-> NoFetch]
    /\ mintedCaps = {} /\ caps = 0 /\ held = {}
    /\ cancelled = FALSE /\ overlapped = FALSE /\ discards = 0

At(r, op, pc) == fetch[r].pc = pc /\ fetch[r].op = op
Done(r) == fetch' = [fetch EXCEPT ![r] = NoFetch]
View(r) == view[EdgeOf[r]]

\* Any read is a race when the cache is behind or another handler is at work.
Read(r) ==
    overlapped' = (overlapped \/ View(r) # record \/ \E t \in Fetches \ {r} : fetch[t].pc \notin {"idle", "read"})

Put(r, rec) ==
    /\ record' = {rec}
    /\ view' = [view EXCEPT ![EdgeOf[r]] = {rec}]

Receive(r) ==
    /\ fetch[r].pc = "idle"
    /\ \/ \E op \in {"intent", "cancel"} : fetch' = [fetch EXCEPT ![r] = [NoFetch EXCEPT !.pc = "read", !.op = op]]
       \/ \E d \in EdgeDaemons :
             fetch' = [fetch EXCEPT ![r] = [NoFetch EXCEPT !.pc = "read", !.op = "redeem", !.by = {d}]]
    /\ UNCHANGED <<kvVars, redemption, overdue, capVars, cancelled, overlapped, discards>>

-----------------------------------------------------------------------------
\* handleCratePairingIntent: a secret that is known is success; an intent
\* whose expires_at has passed is refused, so the payload is a new one.
IntentReads(r) ==
    /\ At(r, "intent", "read")
    /\ Read(r)
    /\ IF View(r) # {} THEN Done(r) ELSE fetch' = [fetch EXCEPT ![r].pc = "write"]
    /\ UNCHANGED <<kvVars, redemption, overdue, capVars, cancelled, discards>>

IntentWrites(r) ==
    /\ At(r, "intent", "write")
    /\ Put(r, Fresh)
    /\ overdue' = FALSE
    /\ cancelled' = FALSE
    /\ Done(r)
    /\ UNCHANGED <<redemption, capVars, overlapped, discards>>

\* handleCratePairingCancel: 404 without a record, 409 when redeemed, 204
\* when already cancelled; otherwise the record as read is written back.
CancelReads(r) ==
    /\ At(r, "cancel", "read")
    /\ Read(r)
    /\ IF \E rec \in View(r) : rec.by = {} /\ ~rec.cancelled
       THEN /\ \E rec \in View(r) : fetch' = [fetch EXCEPT ![r].pc = "write", ![r].rec = rec]
            /\ UNCHANGED cancelled
       ELSE /\ Done(r)
            /\ cancelled' = (cancelled \/ \E rec \in View(r) : rec.by = {} /\ rec.cancelled)
    /\ UNCHANGED <<kvVars, redemption, overdue, capVars, discards>>

CancelWrites(r) ==
    /\ At(r, "cancel", "write")
    /\ Put(r, [fetch[r].rec EXCEPT !.cancelled = TRUE])
    /\ cancelled' = TRUE
    /\ Done(r)
    /\ UNCHANGED <<redemption, overdue, capVars, overlapped, discards>>

-----------------------------------------------------------------------------
\* Mutant: whether the token was cancelled is not asked.
RedeemReadsAny(r) ==
    /\ At(r, "redeem", "read")
    /\ Read(r)
    /\ IF \E rec \in View(r) : rec.by = {} /\ ~overdue
       THEN \E rec \in View(r) : fetch' = [fetch EXCEPT ![r].pc = "claim", ![r].rec = rec]
       ELSE Done(r)
    /\ UNCHANGED <<kvVars, redemption, overdue, capVars, cancelled, discards>>

\* handleCratePairingRedeem: the record must exist and be neither cancelled
\* nor redeemed nor expired.
RedeemReads(r) ==
    /\ At(r, "redeem", "read")
    /\ Read(r)
    /\ IF \E rec \in View(r) : rec.by = {} /\ ~rec.cancelled /\ ~overdue
       THEN \E rec \in View(r) : fetch' = [fetch EXCEPT ![r].pc = "claim", ![r].rec = rec]
       ELSE Done(r)
    /\ UNCHANGED <<kvVars, redemption, overdue, capVars, cancelled, discards>>

\* Mutant: the Durable Object lets a daemon that won claim again.
ClaimAgain(r) ==
    /\ At(r, "redeem", "claim")
    /\ IF redemption \subseteq fetch[r].by
       THEN redemption' = fetch[r].by /\ fetch' = [fetch EXCEPT ![r].pc = "mint"]
       ELSE Done(r) /\ UNCHANGED redemption
    /\ UNCHANGED <<kvVars, overdue, capVars, cancelled, overlapped, discards>>

\* tryRedeemViaDO and PairRedemption.fetch: the first call wins for good,
\* every later one is told 409.
Claim(r) ==
    /\ At(r, "redeem", "claim")
    /\ IF redemption = {}
       THEN redemption' = fetch[r].by /\ fetch' = [fetch EXCEPT ![r].pc = "mint"]
       ELSE Done(r) /\ UNCHANGED redemption
    /\ UNCHANGED <<kvVars, overdue, capVars, cancelled, overlapped, discards>>

Mint(r) ==
    /\ At(r, "redeem", "mint") /\ caps < MaxCaps
    /\ caps' = caps + 1
    /\ mintedCaps' = mintedCaps \cup {[cap |-> caps + 1, to |-> fetch[r].by]}
    /\ fetch' = [fetch EXCEPT ![r].pc = "write", ![r].cap = caps + 1]
    /\ UNCHANGED <<kvVars, redemption, overdue, held, cancelled, overlapped, discards>>

\* The record as it was read, with the redemption, is written back.
RedeemWrites(r) ==
    /\ At(r, "redeem", "write")
    /\ Put(r, [fetch[r].rec EXCEPT !.by = fetch[r].by, !.cap = fetch[r].cap])
    /\ fetch' = [fetch EXCEPT ![r].pc = "answer"]
    /\ UNCHANGED <<redemption, overdue, capVars, cancelled, overlapped, discards>>

RedeemAnswers(r) ==
    /\ At(r, "redeem", "answer")
    /\ held' = held \cup {m \in mintedCaps : m.cap = fetch[r].cap}
    /\ Done(r)
    /\ UNCHANGED <<kvVars, redemption, overdue, mintedCaps, caps, cancelled, overlapped, discards>>

-----------------------------------------------------------------------------
RunOut ==
    /\ ~overdue
    /\ overdue' = TRUE
    /\ UNCHANGED <<kvVars, redemption, fetch, capVars, cancelled, overlapped, discards>>

\* The time to live of the record ends, not before the token has expired.
Evict ==
    /\ overdue /\ record # {}
    /\ record' = {}
    /\ UNCHANGED <<view, redemption, overdue, fetch, capVars, cancelled, overlapped, discards>>

Propagate(e) ==
    /\ view[e] # record
    /\ view' = [view EXCEPT ![e] = record]
    /\ UNCHANGED <<record, redemption, overdue, fetch, capVars, cancelled, overlapped, discards>>

\* The isolate is discarded or the answer is lost.
Discard(r) ==
    /\ fetch[r].pc # "idle" /\ discards < MaxDiscards
    /\ discards' = discards + 1
    /\ Done(r)
    /\ UNCHANGED <<kvVars, redemption, overdue, capVars, cancelled, overlapped>>

WorkerHandler(r) ==
    \/ Receive(r)
    \/ IntentReads(r)
    \/ IntentWrites(r)
    \/ CancelReads(r)
    \/ CancelWrites(r)
    \/ RedeemReads(r)
    \/ Claim(r)
    \/ Mint(r)
    \/ RedeemWrites(r)
    \/ RedeemAnswers(r)
    \/ Discard(r)

WorkerNext ==
    \/ \E r \in Fetches : WorkerHandler(r)
    \/ RunOut
    \/ Evict
    \/ \E e \in Edges : Propagate(e)

WorkerSpec == WorkerInit /\ [][WorkerNext]_workerVars

-----------------------------------------------------------------------------
\* One capability per token, for the daemon the Durable Object recorded, and
\* every record that names a redemption names that daemon and capability:
\* whatever old records handlers read, overwrite or post anew.
OneCapabilityPerToken ==
    /\ Cardinality(mintedCaps) <= 1
    /\ \A m \in mintedCaps : redemption = m.to
    /\ \A rec \in record : rec.by # {} => [cap |-> rec.cap, to |-> rec.by] \in mintedCaps

\* After a cancellation that was confirmed no daemon gets in, unless it raced:
\* records are written whole, without looking again.
CancelHoldsUnlessRaced ==
    [][cancelled /\ ~overlapped' => mintedCaps' = mintedCaps /\ held' = held]_workerVars
=============================================================================
