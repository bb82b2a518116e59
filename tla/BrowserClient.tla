---------------------------- MODULE BrowserClient ----------------------------
(***************************************************************************)
(* The browser SDK (fabric-sdk-js): what one page remembers between its    *)
(* asynchronous calls - the unlocked identity, the cached vault key, the   *)
(* grant, the current transport and the head of a history stream - and     *)
(* what becomes of it when calls overlap, the user locks the page, or a    *)
(* request times out.  JavaScript runs one task at a time: an action is a  *)
(* stretch of code between two awaits.                                     *)
(*                                                                         *)
(* One namespace and one history stream; an event hash is injective, so    *)
(* the identifier of an event stands for its hash and 0 for none.          *)
(***************************************************************************)
EXTENDS Naturals, Sequences, SequencesExt, FiniteSets

CONSTANTS
    Identities,
    Hubs,
    Calls,        \* calls of the page that may be under way at once
    None,
    Workloads     \* bounds of a behaviour

Bounds == [vault : Nat, history : Nat, others : Nat, lost : Nat, turns : Nat]

ASSUME ClientAssumption ==
    /\ None \notin Identities /\ Hubs # {} /\ Hubs \cap Identities = {}
    /\ Workloads \subseteq Bounds

VARIABLES
    fif,        \* the unlocked identity, or None
    keys,       \* the identity the cached vault key was derived from, or None
    grant,      \* the identity the current grant belongs to, or None
    current,    \* the current transport
    head,       \* cached head of the history stream
    call,       \* [Calls -> local state]
    net,        \* requests on their way to a hub
    logs,       \* [Hubs -> events of the history stream]
    vault,      \* [Hubs -> vault events stored]
    acked,      \* history: the history events acknowledged to the page: [id, explicit]
    overtaken,  \* history: the cache was filled or kept past a change of identity
    used,       \* keys and event identifiers handed out
    left        \* what is left of the workload

vars == <<fif, keys, grant, current, head, call, net, logs, vault, acked, overtaken, used, left>>
pageVars == <<fif, keys, grant, current, overtaken>>
hubVars  == <<logs, vault>>

\* A vault clock as its caller wrote it; Sorted is how every hub returns it.
Clocks == {"sorted", "unsorted"}
Sorted == "sorted"

\* What a call keeps across its awaits and its request carries, a request on its
\* way, an event of the history stream, and one of the vault.
Someone == Identities \cup {None}
Local   == [pc : {"idle", "deriving", "keyed", "waiting", "lost", "answered"},
            kind : {"none", "vault", "history"}, asked : Someone, key : Someone, excused : BOOLEAN,
            clock : Clocks, n : Nat, prev : Nat, explicit : BOOLEAN, escaped : BOOLEAN, id : Nat]
Message == [call : Calls, hub : Hubs, grant : Someone, r : Local]
Entry   == [id : Nat, n : Nat, prev : Nat]
Sealed  == [asked : Someone, key : Someone, clock : Clocks, excused : BOOLEAN]

TypeOK ==
    /\ fif \in Someone /\ keys \in Someone /\ grant \in Someone
    /\ current \in Hubs /\ head \in Nat
    /\ call \in [Calls -> Local] /\ net \subseteq Message
    /\ logs \in [Hubs -> Seq(Entry)] /\ vault \in [Hubs -> SUBSET Sealed]
    /\ acked \subseteq [id : Nat, explicit : BOOLEAN]
    /\ overtaken \in BOOLEAN /\ used \in Nat /\ left \in Bounds

Idle == [pc |-> "idle", kind |-> "none", asked |-> None, key |-> None, excused |-> FALSE, clock |-> Sorted,
         n |-> 0, prev |-> 0, explicit |-> FALSE, escaped |-> FALSE, id |-> 0]

Spend(f) == left[f] > 0 /\ left' = [left EXCEPT ![f] = @ - 1]
LastId(log) == IF log = <<>> THEN 0 ELSE Last(log).id

Init ==
    /\ fif = None /\ keys = None /\ grant = None
    /\ current \in Hubs /\ head = 0
    /\ call = [c \in Calls |-> Idle] /\ net = {}
    /\ logs = [h \in Hubs |-> <<>>] /\ vault = [h \in Hubs |-> {}]
    /\ acked = {}
    /\ overtaken = FALSE /\ used = 0
    /\ left \in Workloads

-----------------------------------------------------------------------------
(* The page.                                                               *)

\* unlockFIF and createFIF replace the identity; cached keys stay.
unlockFIF(i) ==
    /\ Spend("turns")
    /\ fif' = i
    /\ overtaken' = (overtaken \/ (fif # None /\ keys # None))
    /\ UNCHANGED <<keys, grant, current, head, call, net, hubVars, acked, used>>

\* Mutant: lock forgets the identity and not its keys.
KeptKeys(k) == k

flushKeys(k) == None

lock ==
    /\ fif # None
    /\ Spend("turns")
    /\ fif' = None /\ grant' = None
    /\ keys' = flushKeys(keys)
    /\ overtaken' = FALSE
    /\ UNCHANGED <<current, head, call, net, hubVars, acked, used>>

useGrant(i) ==
    /\ grant # i /\ grant' = i
    /\ Spend("turns")
    /\ UNCHANGED <<fif, keys, current, overtaken, head, call, net, hubVars, acked, used>>

\* TransportManager.switch: the cached head is not one per transport.
switch(h) ==
    /\ current # h /\ current' = h
    /\ Spend("turns")
    /\ UNCHANGED <<fif, keys, grant, overtaken, head, call, net, hubVars, acked, used>>

-----------------------------------------------------------------------------
(* vault.append.                                                           *)

\* Up to the first await: the key is cached, or its derivation begins.
VaultAppend(c) ==
    /\ call[c].pc = "idle" /\ fif # None
    /\ Spend("vault")
    /\ \E clock \in Clocks :
          call' = [call EXCEPT ![c] =
              [Idle EXCEPT !.pc = IF keys # None THEN "keyed" ELSE "deriving", !.kind = "vault", !.clock = clock,
                           !.asked = fif, !.key = IF keys # None THEN keys ELSE fif, !.excused = overtaken]]
    /\ UNCHANGED <<pageVars, head, net, hubVars, acked, used>>

\* _getKey after the derivation: the key is cached, whoever is unlocked now.
getKey(c) ==
    /\ call[c].pc = "deriving"
    /\ keys' = call[c].key
    /\ overtaken' = (overtaken \/ call[c].key # fif)
    /\ call' = [call EXCEPT ![c].pc = "keyed"]
    /\ UNCHANGED <<fif, grant, current, head, net, hubVars, acked, used, left>>

\* HubTransport.do, with the transport and the grant of that moment.
do(c, r) == net' = net \cup {[call |-> c, hub |-> current, grant |-> grant, r |-> r]}

\* After the digest of the AAD: seal and send.
VaultSend(c) ==
    /\ call[c].pc = "keyed"
    /\ used' = used + 1
    /\ call' = [call EXCEPT ![c].pc = "waiting", ![c].n = used + 1]
    /\ do(c, [call[c] EXCEPT !.pc = "waiting", !.n = used + 1])
    /\ UNCHANGED <<pageVars, head, hubVars, acked, left>>

\* vault.read opens an event with the key of an identity and the AAD of the
\* clock as the hub returns it.
Opens(e, i) == e.key = i /\ e.clock = Sorted

-----------------------------------------------------------------------------
(* history.append.                                                         *)

\* Up to the first await; the caller may give the head that verify reported.
HistoryAppend(c) ==
    /\ call[c].pc = "idle"
    /\ Spend("history")
    /\ used' = used + 1
    /\ \E explicit, escaped \in BOOLEAN :
          LET r == [Idle EXCEPT !.pc = "waiting", !.kind = "history", !.n = used + 1, !.explicit = explicit,
                                !.prev = IF explicit THEN LastId(logs[current]) ELSE head, !.escaped = escaped]
          IN  call' = [call EXCEPT ![c] = r] /\ do(c, r)
    /\ UNCHANGED <<pageVars, head, hubVars, acked>>

\* A caller that gave an idempotency key and lost the answer tries again; the
\* predecessor is looked up again.
Resend(c) ==
    /\ call[c].pc = "lost"
    /\ LET r == [call[c] EXCEPT !.pc = "waiting", !.prev = IF call[c].explicit THEN @ ELSE head]
       IN  call' = [call EXCEPT ![c] = r] /\ do(c, r)
    /\ UNCHANGED <<pageVars, head, hubVars, acked, used, left>>

GiveUp(c) ==
    /\ call[c].pc = "lost"
    /\ call' = [call EXCEPT ![c] = Idle]
    /\ UNCHANGED <<pageVars, head, net, hubVars, acked, used, left>>

\* The request or its answer takes longer than the transport waits.
Timeout(c) ==
    /\ call[c].pc \in {"waiting", "answered"}
    /\ Spend("lost")
    /\ call' = [call EXCEPT ![c] =
                    IF call[c].kind = "history" THEN [call[c] EXCEPT !.pc = "lost", !.id = 0] ELSE Idle]
    /\ UNCHANGED <<pageVars, head, net, hubVars, acked, used>>

-----------------------------------------------------------------------------
(* The hub.                                                                *)

Answered(m, id) ==
    call' = [call EXCEPT ![m.call] =
        IF @.pc = "waiting" /\ @.n = m.r.n THEN [@ EXCEPT !.pc = "answered", !.id = id] ELSE @]

\* Without a grant the answer is 401.
HubRefuses(m) ==
    /\ m.grant = None
    /\ net' = net \ {m} /\ Answered(m, 0)
    /\ UNCHANGED <<pageVars, head, hubVars, acked, used, left>>

HubStores(m) ==
    /\ m.grant # None /\ m.r.kind = "vault"
    /\ net' = net \ {m} /\ Answered(m, m.r.n)
    /\ vault' = [vault EXCEPT ![m.hub] = @ \cup
                    {[asked |-> m.r.asked, key |-> m.r.key, clock |-> m.r.clock, excused |-> m.r.excused]}]
    /\ UNCHANGED <<pageVars, head, logs, acked, used, left>>

\* A key that is known replays its answer to the same body and is a conflict
\* with another; otherwise the event must follow the head (409).
HubAppends(m) ==
    /\ m.grant # None /\ m.r.kind = "history"
    /\ net' = net \ {m}
    /\ LET known == {i \in DOMAIN logs[m.hub] : logs[m.hub][i].n = m.r.n}
       IN  IF known # {}
           THEN /\ Answered(m, IF \E i \in known : logs[m.hub][i].prev = m.r.prev THEN m.r.n ELSE 0)
                /\ UNCHANGED logs
           ELSE IF m.r.prev = LastId(logs[m.hub])
           THEN /\ Answered(m, m.r.n)
                /\ logs' = [logs EXCEPT ![m.hub] = Append(@, [id |-> m.r.n, n |-> m.r.n, prev |-> m.r.prev])]
           ELSE /\ Answered(m, 0)
                /\ UNCHANGED logs
    /\ UNCHANGED <<pageVars, head, vault, acked, used, left>>

\* Another client appends to the history stream of a hub.
OtherAppends(h) ==
    /\ Spend("others")
    /\ used' = used + 1
    /\ logs' = [logs EXCEPT ![h] = Append(@, [id |-> used + 1, n |-> 0, prev |-> LastId(@)])]
    /\ UNCHANGED <<pageVars, head, call, net, vault, acked>>

-----------------------------------------------------------------------------
(* The answer.                                                             *)

\* Mutant: a conflict refreshes the cached head.
HeadRefreshed(r) == IF r.id # 0 /\ ~r.escaped THEN r.id ELSE LastId(logs[current])

\* The head moves only with an event whose hash the page computed too: the
\* hub escapes characters in causal_dependencies that the page does not.
HeadAfter(r) == IF r.id # 0 /\ ~r.escaped THEN r.id ELSE head

Answer(c) ==
    /\ call[c].pc = "answered"
    /\ call' = [call EXCEPT ![c] = Idle]
    /\ IF call[c].kind = "vault" THEN UNCHANGED <<head, acked>>
       ELSE /\ head' = HeadAfter(call[c])
            /\ acked' = IF call[c].id = 0 \/ call[c].escaped THEN acked
                        ELSE acked \cup {[id |-> call[c].id, explicit |-> call[c].explicit]}
    /\ UNCHANGED <<pageVars, net, hubVars, used, left>>

Next ==
    \/ \E i \in Identities : unlockFIF(i) \/ useGrant(i)
    \/ lock
    \/ \E h \in Hubs : switch(h) \/ OtherAppends(h)
    \/ \E c \in Calls :
          \/ VaultAppend(c) \/ getKey(c) \/ VaultSend(c)
          \/ HistoryAppend(c) \/ Resend(c) \/ GiveUp(c) \/ Timeout(c) \/ Answer(c)
    \/ \E m \in net : HubRefuses(m) \/ HubStores(m) \/ HubAppends(m)

Spec == Init /\ [][Next]_vars

-----------------------------------------------------------------------------
\* What is appended in the name of an identity can be read by that identity,
\* on whatever hub it lands and however often the page is locked and unlocked
\* for others in between.  Three cases escape: an identity replaced without
\* lock() while a key was cached, a derivation that ends after the identity
\* changed, and a vector clock whose keys were not written in sorted order.
OwnEventsOpen ==
    \A h \in Hubs : \A e \in vault[h] : Opens(e, e.asked) \/ e.excused \/ e.clock # Sorted

\* A page never builds on events it has not seen: a history event that was
\* acknowledged to it begins its stream or stands behind one acknowledged to it
\* before, whatever was lost, sent again, appended by others or sent to another
\* hub in between - unless the caller gave the predecessor itself.
NothingUnseenBefore ==
    \A h \in Hubs : \A i \in 2 .. Len(logs[h]) :
        [id |-> logs[h][i].id, explicit |-> FALSE] \in acked =>
            \E e \in acked : e.id = logs[h][i - 1].id
=============================================================================
