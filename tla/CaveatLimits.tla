----------------------------- MODULE CaveatLimits -----------------------------
(***************************************************************************)
(* Caveats whose outcome depends on what happened before: the token bucket *)
(* of `rate <= N per <window>`, the discharges of `discharge-from <url>`,  *)
(* and the queue of `requires-human-approval`.  Handlers run at once; a    *)
(* bucket is looked up under one lock and taken from under its own, with   *)
(* the clock read in between, so takes may arrive with old clocks.  Buckets*)
(* and discharges live in bounded memory of one process.                   *)
(*                                                                         *)
(* A bucket of capacity n and window w holds up to n * w units, gains n    *)
(* units per tick and pays w units per request, which keeps the code's     *)
(* fractions of tokens whole numbers.  Authentication and revocation are   *)
(* in GrantLifecycle.                                                      *)
(***************************************************************************)
EXTENDS Naturals, Sequences, SequencesExt

CONSTANTS
    Grants,
    CaveatsOf,     \* [Grants -> Seq(Caveat)], in the order of the macaroon
    Calls,         \* what clients ask for: [grant, bridge, amount, domain]
    Urls,          \* verifiers
    Evaluators,    \* handlers
    LRUSize,       \* buckets the process remembers
    TTL,           \* life of a discharge, and of a cached one, in ticks
    MaxTime,       \* bound on the clock
    Workloads      \* bounds: [calls : [Calls -> Nat], discharges, restarts : Nat]

Caveat == [kind : {"rate"}, n : Nat \ {0}, window : Nat \ {0}]
     \cup [kind : {"discharge-from"}, url : Urls]
     \cup [kind : {"time <"}, at : Nat]
     \cup [kind : {"request"}, met : SUBSET Calls]   \* operation, namespace, type, device, key
     \cup [kind : {"max-amount"}, n : Nat]
     \cup [kind : {"only-domain"}, allowed : SUBSET {c.domain : c \in Calls}]
     \cup [kind : {"requires-human-approval"}]

Workload == [calls : [Calls -> Nat], discharges : Nat, restarts : Nat]

ASSUME LimitsAssumption ==
    /\ CaveatsOf \in [Grants -> Seq(Caveat)] /\ IsFiniteSet(Evaluators)
    /\ Calls # {} /\ \A c \in Calls : c.grant \in Grants /\ c.bridge \in BOOLEAN /\ c.amount \in Nat
    /\ LRUSize \in Nat \ {0} /\ TTL \in Nat \ {0}
    /\ MaxTime \in Nat /\ Workloads \subseteq Workload

VARIABLES
    now,
    heap,      \* bucket objects in use: [Slots -> bucket, or Free]
    lru,       \* grants that have a bucket, least recently used first
    bucketOf,  \* [Grants -> slot in heap, 0: none]
    cached,    \* [Urls -> set of at most one expiry]: dischargeCache, whose cap
               \* only makes it forget sooner and is left out
    fresh,     \* discharges minted by handlers that have not remembered them
    tokens,    \* discharges that clients were given
    kept,      \* history: discharges remembered, with the time that took
    ctx,       \* [Evaluators -> the context of an evaluation]
    pending,   \* table pending_bridge: [call, approved]
    passed,    \* history: [Places -> tokens taken for the caveat at a place]
    extra,     \* history: [Grants -> tokens owed to forgotten buckets]
    left       \* what is left of the workload

limitsVars == <<now, heap, lru, bucketOf, cached, fresh, tokens, kept, ctx, pending, passed, extra, left>>
bucketVars    == <<heap, lru, bucketOf, passed, extra>>
dischargeVars == <<cached, fresh, tokens, kept>>

\* One slot per remembered bucket and one per handler that holds another.
Slots == 1 .. (LRUSize + Cardinality(Evaluators))
Free  == [n |-> 0, window |-> 0, units |-> 0, last |-> 0]

\* Where a grant has a caveat: [1] is the grant, [2] the position.
Places == UNION {{g} \X DOMAIN CaveatsOf[g] : g \in Grants}

\* A discharge macaroon: who gives it, and the time it was minted.
Discharge == [url : Urls, at : Nat]

\* A rateBucket, and a handler with the call it evaluates.
Bucket  == [n : Nat, window : Nat, units : Nat, last : Nat]
Context == [pc : {"idle", "remember", "auth", "eval", "clock", "take"}, call : Calls, i : Nat \ {0}, start : Nat, now : Nat,
            bucket : Slots \cup {0}, clock : Nat, discharges : SUBSET Discharge]

LimitsTypeOK ==
    /\ now \in Nat
    /\ heap \in [Slots -> Bucket] /\ lru \in Seq(Grants) /\ bucketOf \in [Grants -> Slots \cup {0}]
    /\ cached \in [Urls -> SUBSET Nat] /\ fresh \subseteq Discharge /\ tokens \subseteq Discharge
    /\ kept \subseteq [url : Urls, at : Nat, lag : Nat]
    /\ ctx \in [Evaluators -> Context]
    /\ pending \subseteq [call : Calls, approved : BOOLEAN]
    /\ passed \in [Places -> Nat] /\ extra \in [Grants -> Nat]
    /\ left \in Workload

AnyCall == CHOOSE c \in Calls : TRUE
NotEvaluating == [pc |-> "idle", call |-> AnyCall, i |-> 1, start |-> 0, now |-> 0,
                  bucket |-> 0, clock |-> 0, discharges |-> {}]

LimitsInit ==
    /\ now = 0
    /\ heap = [s \in Slots |-> Free] /\ lru = <<>> /\ bucketOf = [g \in Grants |-> 0]
    /\ cached = [u \in Urls |-> {}] /\ fresh = {} /\ tokens = {} /\ kept = {}
    /\ ctx = [r \in Evaluators |-> NotEvaluating]
    /\ pending = {}
    /\ passed = [p \in Places |-> 0]
    /\ extra = [g \in Grants |-> 0]
    /\ left \in Workloads

Tick ==
    /\ now < MaxTime
    /\ now' = now + 1
    /\ UNCHANGED <<ctx, pending, left, bucketVars, dischargeVars>>

-----------------------------------------------------------------------------
(* Discharges.                                                             *)

\* dischargeRemember, by a handler that read the clock at `read` when it minted
\* or verified the discharges ds, and reads it again: they are good for a TTL
\* from now.
Remember(ds, read) ==
    /\ cached' = [u \in Urls |-> IF u \in {d.url : d \in ds} THEN {now + TTL} ELSE cached[u]]
    /\ kept' = kept \cup {[url |-> d.url, at |-> d.at, lag |-> now - read] : d \in ds}

\* POST /grant/discharge for a grant that is not revoked.
handleGrantDischarge(u) ==
    /\ left.discharges > 0 /\ left' = [left EXCEPT !.discharges = @ - 1]
    /\ fresh' = fresh \cup {[url |-> u, at |-> now]}
    /\ fresh' # fresh
    /\ UNCHANGED <<now, cached, tokens, kept, ctx, pending, bucketVars>>

\* The handler remembers what it has minted and answers.
GiveDischarge(d) ==
    /\ Remember({d}, d.at)
    /\ fresh' = fresh \ {d}
    /\ tokens' = tokens \cup {d}
    /\ UNCHANGED <<now, ctx, pending, left, bucketVars>>

\* Mutant: the expiry of a discharge that comes along is not evaluated.
ParseAny(t) == TRUE

\* time < expires, evaluated when the header is parsed.
parseDischarges(t) == now < t.at + TTL

\* A request arrives with at most one discharge; one that is not valid ends it
\* (401).
Receive(r) ==
    /\ ctx[r].pc = "idle"
    /\ \E c \in Calls : \E ts \in {{}} \cup {{t} : t \in tokens} :
          /\ left.calls[c] > 0 /\ left' = [left EXCEPT !.calls[c] = @ - 1]
          /\ \A t \in ts : parseDischarges(t)
          /\ ctx' = [ctx EXCEPT ![r] = [NotEvaluating EXCEPT !.pc = IF ts = {} THEN "auth" ELSE "remember",
                                                    !.call = c, !.start = now, !.discharges = ts]]
    /\ UNCHANGED <<now, pending, bucketVars, dischargeVars>>

\* A valid discharge is remembered once its signature is verified.
dischargeRemember(r) ==
    /\ ctx[r].pc = "remember"
    /\ Remember(ctx[r].discharges, ctx[r].start)
    /\ ctx' = [ctx EXCEPT ![r].pc = "auth"]
    /\ UNCHANGED <<now, fresh, tokens, pending, left, bucketVars>>

-----------------------------------------------------------------------------
(* checkAuth and EvaluateCaveats: one caveat after the other, the first    *)
(* that is not met ends the request.                                       *)

Caveats(r) == CaveatsOf[ctx[r].call.grant]
At(r, kind) ==
    /\ ctx[r].pc = "eval" /\ ctx[r].i <= Len(Caveats(r))
    /\ Caveats(r)[ctx[r].i].kind = kind
This(r)    == Caveats(r)[ctx[r].i]
End(r)     == ctx' = [ctx EXCEPT ![r] = NotEvaluating]

\* The caveats that depend on the request and on one reading of the clock.
Stateless == {"time <", "request", "max-amount", "only-domain"}
Satisfied(c, call, t) ==
    CASE c.kind = "time <"      -> t < c.at
      [] c.kind = "request"     -> call \in c.met
      [] c.kind = "max-amount"  -> call.bridge => call.amount <= c.n
      [] c.kind = "only-domain" -> call.bridge => call.domain \in c.allowed

\* evaluateOne for the caveats from i to the next one that is not local, which
\* read nothing that another handler writes.
evaluateOne(r, i, t) ==
    LET cs == CaveatsOf[ctx[r].call.grant]
    IN  \E next \in i .. Len(cs) + 1 :
           /\ \A k \in i .. next - 1 : cs[k].kind \in Stateless
           /\ next <= Len(cs) => cs[next].kind \notin Stateless
           /\ IF \A k \in i .. next - 1 : Satisfied(cs[k], ctx[r].call, t)
              THEN ctx' = [ctx EXCEPT ![r].pc = "eval", ![r].i = next, ![r].now = t, ![r].bucket = 0, ![r].clock = 0]
              ELSE End(r)

Met(r) == evaluateOne(r, ctx[r].i + 1, ctx[r].now)

\* The context of the evaluation is built, with one reading of the clock.
checkAuth(r) ==
    /\ ctx[r].pc = "auth"
    /\ evaluateOne(r, 1, now)
    /\ UNCHANGED <<now, pending, left, bucketVars, dischargeVars>>

\* checkDischargeFrom: the discharge came along, or is remembered and has not
\* expired; an expired one is forgotten.
dischargeLookup(u) == \E e \in cached[u] : now <= e

checkDischargeFrom(r) ==
    /\ At(r, "discharge-from")
    /\ LET u == This(r).url
       IN  IF (\E d \in ctx[r].discharges : d.url = u) \/ dischargeLookup(u)
           THEN Met(r) /\ UNCHANGED cached
           ELSE End(r) /\ cached' = [cached EXCEPT ![u] = {}]
    /\ UNCHANGED <<now, fresh, tokens, kept, pending, left, bucketVars>>

-----------------------------------------------------------------------------
(* The rate limiter.                                                       *)

Full(c) == [n |-> c.n, window |-> c.window, units |-> c.n * c.window, last |-> now]
Fits(b, c) == b.n = c.n /\ b.window = c.window
Holders(s) == {r \in Evaluators : ctx[r].pc \in {"clock", "take"} /\ ctx[r].bucket = s}

\* A bucket that is forgotten may have given all it held, and gives one more
\* to each handler that holds it.
Owed(g) == heap[bucketOf[g]].n + Cardinality(Holders(bucketOf[g]))

\* The cache without a grant; a grant is in it at most once.
Forget(s, g) ==
    IF \E k \in DOMAIN s : s[k] = g THEN RemoveAt(s, CHOOSE k \in DOMAIN s : s[k] = g) ELSE s

\* rateConsume under rateMu: the bucket of the grant, made anew when there is
\* none or when it was made for another caveat; an insertion into a full
\* cache evicts the grant used least recently.
rateConsume(r) ==
    /\ At(r, "rate")
    /\ LET g      == ctx[r].call.grant
           fits   == bucketOf[g] # 0 /\ Fits(heap[bucketOf[g]], This(r))
           others == Forget(lru, g)
           evict  == IF Len(others) >= LRUSize THEN {Head(others)} ELSE {}
           lost   == evict \cup (IF bucketOf[g] # 0 THEN {g} ELSE {})
           unused == {bucketOf[h] : h \in {h \in lost : Holders(bucketOf[h]) = {}}}
           new    == CHOOSE s \in Slots : heap[s] = Free
       IN  IF fits
           THEN /\ lru' = Append(others, g)
                /\ ctx' = [ctx EXCEPT ![r].pc = "clock", ![r].bucket = bucketOf[g]]
                /\ UNCHANGED <<heap, bucketOf, extra>>
           ELSE /\ heap' = [s \in Slots |-> IF s = new THEN Full(This(r)) ELSE IF s \in unused THEN Free ELSE heap[s]]
                /\ lru' = Append(IF evict = {} THEN others ELSE Tail(others), g)
                /\ bucketOf' = [h \in Grants |-> IF h = g THEN new ELSE IF h \in evict THEN 0 ELSE bucketOf[h]]
                /\ extra' = [h \in Grants |-> extra[h] + IF h \in lost THEN Owed(h) ELSE 0]
                /\ ctx' = [ctx EXCEPT ![r].pc = "clock", ![r].bucket = new]
    /\ UNCHANGED <<now, passed, pending, left, dischargeVars>>

\* The argument of take is evaluated before its lock is taken.
readClock(r) ==
    /\ ctx[r].pc = "clock"
    /\ ctx' = [ctx EXCEPT ![r].pc = "take", ![r].clock = now]
    /\ UNCHANGED <<now, pending, left, bucketVars, dischargeVars>>

Lesser(a, b) == IF a < b THEN a ELSE b

\* Mutant: the time of the last refill follows the caller's clock, also back.
RefilledBack(b, t) ==
    [b EXCEPT !.units = IF t > b.last THEN Lesser(@ + b.n * (t - b.last), b.n * b.window) ELSE @, !.last = t]

Refilled(b, t) ==
    IF t <= b.last THEN b
    ELSE [b EXCEPT !.units = Lesser(@ + b.n * (t - b.last), b.n * b.window), !.last = t]

take(r) ==
    /\ ctx[r].pc = "take"
    /\ LET g    == ctx[r].call.grant
           slot == ctx[r].bucket
           b    == Refilled(heap[slot], ctx[r].clock)
           ok   == b.units >= b.window
           rest == IF ok THEN [b EXCEPT !.units = @ - b.window] ELSE b
           last == bucketOf[g] # slot /\ Holders(slot) = {r}
       IN  /\ heap' = [heap EXCEPT ![slot] = IF last THEN Free ELSE rest]
           /\ IF ok THEN Met(r) ELSE End(r)
           /\ passed' = IF ok THEN [passed EXCEPT ![<<g, ctx[r].i>>] = @ + 1] ELSE passed
    /\ UNCHANGED <<now, lru, bucketOf, extra, pending, left, dischargeVars>>

-----------------------------------------------------------------------------
(* What follows.                                                           *)

\* handleBridgeCall: a call that needs approval is queued (202); any other
\* operation does not know the caveat.
requiresHumanApproval(r) ==
    /\ At(r, "requires-human-approval")
    /\ IF ctx[r].call.bridge
       THEN /\ pending' = pending \cup {[call |-> ctx[r].call, approved |-> FALSE]}
            /\ End(r)
       ELSE Met(r) /\ UNCHANGED pending
    /\ UNCHANGED <<now, left, bucketVars, dischargeVars>>

\* handleBridgeApprove marks the row; nothing reads the mark but pending.
handleBridgeApprove ==
    /\ \E p \in pending : ~p.approved /\ pending' = (pending \ {p}) \cup {[p EXCEPT !.approved = TRUE]}
    /\ UNCHANGED <<now, ctx, left, bucketVars, dischargeVars>>

\* Every caveat is met: the adapter is called, or the operation carried out.
Granted(r) ==
    /\ ctx[r].pc = "eval" /\ ctx[r].i > Len(Caveats(r))
    /\ End(r)
    /\ UNCHANGED <<now, pending, left, bucketVars, dischargeVars>>

\* Buckets and discharges are forgotten with the process; rows are not.
Restart ==
    /\ left.restarts > 0 /\ left' = [left EXCEPT !.restarts = @ - 1]
    /\ ctx' = [r \in Evaluators |-> NotEvaluating]
    /\ heap' = [s \in Slots |-> Free] /\ lru' = <<>> /\ bucketOf' = [g \in Grants |-> 0]
    /\ extra' = [g \in Grants |-> extra[g] + IF bucketOf[g] # 0 THEN heap[bucketOf[g]].n ELSE 0]
    /\ cached' = [u \in Urls |-> {}] /\ fresh' = {}
    /\ UNCHANGED <<now, tokens, kept, pending, passed>>

Evaluation(r) ==
    \/ Receive(r)
    \/ dischargeRemember(r)
    \/ checkAuth(r)
    \/ checkDischargeFrom(r)
    \/ rateConsume(r)
    \/ readClock(r)
    \/ take(r)
    \/ requiresHumanApproval(r)
    \/ Granted(r)

LimitsNext ==
    \/ \E r \in Evaluators : Evaluation(r)
    \/ \E u \in Urls : handleGrantDischarge(u)
    \/ \E d \in fresh : GiveDischarge(d)
    \/ handleBridgeApprove
    \/ Tick
    \/ Restart

LimitsSpec == LimitsInit /\ [][LimitsNext]_limitsVars

-----------------------------------------------------------------------------
\* A rate caveat lets through what its bucket holds plus what it gains with
\* time, whatever the order in which handlers read clocks and take.  Each
\* bucket that was forgotten (evicted, lost with the process, or replaced by
\* that of a second rate caveat of the grant) adds what it held and one for
\* each handler that held it.
RateHolds ==
    \A g \in Grants : \A i \in DOMAIN CaveatsOf[g] :
        LET c == CaveatsOf[g][i]
        IN  c.kind = "rate" => passed[<<g, i>>] * c.window <= (c.n + extra[g]) * c.window + c.n * now

\* discharge-from is met by the discharge the request brought, which was less
\* than a life old when it was parsed, or else by one that is remembered and
\* was minted less than two lives ago, to which the handler that remembered it
\* adds the time between its two readings of the clock: a discharge renews its
\* place in the cache whenever it is presented.
DischargeBound ==
    [][\A r \in Evaluators :
          At(r, "discharge-from") /\ ctx'[r].i > ctx[r].i =>
              IF \E d \in ctx[r].discharges : d.url = This(r).url
              THEN \E d \in ctx[r].discharges \cap tokens :
                      d.url = This(r).url /\ ctx[r].start < d.at + TTL
              ELSE \E k \in kept :
                      k.url = This(r).url /\ now < k.at + 2 * TTL + k.lag]_limitsVars
=============================================================================
