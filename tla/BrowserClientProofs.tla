-------------------------- MODULE BrowserClientProofs --------------------------
(***************************************************************************)
(* Theorems about BrowserClient, for every set of identities, hubs and     *)
(* calls, and any bounds.                                                  *)
(***************************************************************************)
EXTENDS BrowserClient, TLAPS

-----------------------------------------------------------------------------
(* The inductive invariant.                                                *)

\* The cached key is that of the unlocked identity, unless an identity was
\* replaced or locked while the key was derived or cached.
KeysFollow == keys # None => keys = fif \/ overtaken

\* Only a vault call derives a key, only a history call is tried again; a call
\* that is under way has a kind.
Kinds ==
    \A c \in Calls :
        /\ call[c].pc \in {"deriving", "keyed"} => call[c].kind = "vault" /\ call[c].id = 0
        /\ call[c].pc = "lost" => call[c].kind = "history" /\ call[c].id = 0
        /\ call[c].pc # "idle" => call[c].kind # "none"

\* A vault event is sealed with the key of who asked, from the call over the
\* request to the hub.
Own(x) == x.key = x.asked \/ x.excused

SealedRight ==
    /\ \A c \in Calls : call[c].kind = "vault" => Own(call[c])
    /\ \A m \in net : m.r.kind = "vault" => Own(m.r)
    /\ \A h \in Hubs : \A e \in vault[h] : Own(e)

\* Who speaks for event n: a call of history.append, one of its requests, or
\* the answer; x says whether the caller named the predecessor.
Claims(n, x) ==
    \/ \E c \in Calls : call[c].kind = "history" /\ call[c].n = n /\ call[c].explicit = x
    \/ \E m \in net : m.r.kind = "history" /\ m.r.n = n /\ m.r.explicit = x
    \/ [id |-> n, explicit |-> x] \in acked

\* An event belongs to one call, which chose once whether to name the
\* predecessor, whatever is lost, sent again or answered twice.
OneChoice ==
    /\ \A n \in 1..used : ~(Claims(n, TRUE) /\ Claims(n, FALSE))
    /\ \A c \in Calls : call[c].kind = "history" => call[c].n \in 1..used
    /\ \A m \in net : m.r.kind = "history" => m.r.n \in 1..used
    /\ \A a \in acked : a.id \in 1..used
    /\ \A c \in Calls : call[c].id \in {0, call[c].n}

\* Events the page has seen acknowledged; 0 stands for the beginning.
Seen == {0} \cup {a.id : a \in acked}

\* A call that does not name the predecessor follows an event it has seen: the
\* cached head, the request, and every copy of the event on any hub.
FollowsSeen ==
    /\ head \in Seen
    /\ \A m \in net : m.r.kind = "history" /\ ~m.r.explicit => m.r.prev \in Seen
    /\ \A h \in Hubs : \A i \in DOMAIN logs[h] :
          Claims(logs[h][i].id, FALSE) => logs[h][i].prev \in Seen

\* Every log is a chain of events that have been handed out.
Linked ==
    \A h \in Hubs : \A i \in DOMAIN logs[h] :
        /\ logs[h][i].id \in 1..used
        /\ i > 1 => logs[h][i].prev = logs[h][i - 1].id

IInv ==
    /\ TypeOK
    /\ KeysFollow
    /\ Kinds
    /\ SealedRight
    /\ OneChoice
    /\ FollowsSeen
    /\ Linked

-----------------------------------------------------------------------------
(* Types.                                                                  *)

LEMMA IdleType == Idle \in Local
BY DEF Idle, Local, Someone, Clocks, Sorted

LEMMA CallType ==
    ASSUME TypeOK, NEW c \in Calls
    PROVE  /\ call[c] \in Local
           /\ call[c].n \in Nat /\ call[c].id \in Nat /\ call[c].prev \in Nat
           /\ call[c].explicit \in BOOLEAN /\ call[c].key \in Someone /\ call[c].asked \in Someone
BY DEF TypeOK, Local

LEMMA MessageType ==
    ASSUME TypeOK, NEW m \in net
    PROVE  /\ m.call \in Calls /\ m.hub \in Hubs /\ m.r \in Local
           /\ m.r.n \in Nat /\ m.r.prev \in Nat /\ m.r.explicit \in BOOLEAN
BY DEF TypeOK, Message, Local

\* A bound is spent.
LEMMA SpendType ==
    ASSUME TypeOK, NEW f \in {"vault", "history", "others", "lost", "turns"}, Spend(f)
    PROVE  left' \in Bounds
<1>1. left \in Bounds /\ left' = [left EXCEPT ![f] = @ - 1] /\ left[f] > 0
  BY DEF TypeOK, Spend
<1>2. left[f] \in Nat
  BY <1>1 DEF Bounds
<1>3. left[f] - 1 \in Nat
  BY <1>1, <1>2
<1>4. QED
  BY <1>1, <1>3 DEF Bounds

LEMMA LastIdType ==
    ASSUME NEW log \in Seq(Entry)
    PROVE  /\ LastId(log) \in Nat
           /\ log # <<>> => Len(log) \in DOMAIN log /\ LastId(log) = log[Len(log)].id
           /\ log = <<>> => LastId(log) = 0
<1>1. CASE log = <<>>
  BY <1>1 DEF LastId
<1>2. CASE log # <<>>
  <2>1. Len(log) \in DOMAIN log /\ log[Len(log)] \in Entry
    BY <1>2
  <2>2. QED
    BY <1>2, <2>1 DEF LastId, Last, Entry
<1>3. QED
  BY <1>1, <1>2

\* A request sent by a call.
LEMMA DoType ==
    ASSUME TypeOK, NEW c \in Calls, NEW r \in Local, do(c, r)
    PROVE  net' \subseteq Message
BY DEF TypeOK, do, Message

LEMMA PutCallType ==
    ASSUME TypeOK, NEW c \in Calls, NEW r \in Local, call' = [call EXCEPT ![c] = r]
    PROVE  /\ call' \in [Calls -> Local]
           /\ call'[c] = r /\ \A d \in Calls : d # c => call'[d] = call[d]
BY DEF TypeOK

\* What an answer does to the call that waits for it.
LEMMA AnsweredFacts ==
    ASSUME TypeOK, NEW m \in net, NEW id \in Nat, Answered(m, id)
    PROVE  /\ call' \in [Calls -> Local]
           /\ \A c \in Calls :
                \/ call'[c] = call[c]
                \/ /\ call[c].n = m.r.n
                   /\ call'[c] = [call[c] EXCEPT !.pc = "answered", !.id = id]
                   /\ call[c].pc = "waiting" /\ c = m.call
<1> DEFINE x == call[m.call]
           y == IF x.pc = "waiting" /\ x.n = m.r.n THEN [x EXCEPT !.pc = "answered", !.id = id] ELSE x
<1>1. m.call \in Calls /\ x \in Local
  BY MessageType, CallType
<1>2. y \in Local
  BY <1>1 DEF Local
<1>3. call' = [call EXCEPT ![m.call] = y]
  BY DEF Answered
<1>4. call' \in [Calls -> Local] /\ call'[m.call] = y /\ \A d \in Calls : d # m.call => call'[d] = call[d]
  <2> HIDE DEF y
  <2> QED
    BY <1>1, <1>2, <1>3, PutCallType
<1>5. QED
  BY <1>1, <1>4

-----------------------------------------------------------------------------
(* History: what all steps have in common.                                 *)

\* A claim that a step adds: the next number, with the choice z.
Fresh(n, x, z) == n = used + 1 /\ used' = used + 1 /\ x = z

\* No call claims what it did not claim before, ...
CallsKeep(z) ==
    \A c \in Calls : call'[c].kind = "history" =>
        \/ call[c].kind = "history" /\ call'[c].n = call[c].n /\ call'[c].explicit = call[c].explicit
        \/ Fresh(call'[c].n, call'[c].explicit, z)

\* ... a new request is that of a call and follows what the page has seen, ...
NetKeeps(z) ==
    \A m \in net' : m \in net \/ m.r.kind # "history" \/
        /\ Claims(m.r.n, m.r.explicit) \/ Fresh(m.r.n, m.r.explicit, z)
        /\ ~m.r.explicit => m.r.prev \in Seen

\* ... an answer is for an event that was claimed, ...
AckedKeeps ==
    /\ acked \subseteq acked'
    /\ \A a \in acked' : a \in acked \/ Claims(a.id, a.explicit)

\* ... and logs grow at the end.
LogsGrow(z) ==
    \A h \in Hubs : logs'[h] = logs[h] \/ \E e \in Entry :
        /\ logs'[h] = Append(logs[h], e)
        /\ e.id \in 1..used' /\ e.prev = LastId(logs[h])
        /\ Claims(e.id, FALSE) => e.prev \in Seen
        /\ ~Fresh(e.id, FALSE, z)

LEMMA ClaimTypes ==
    ASSUME IInv, NEW n, NEW x, Claims(n, x)
    PROVE  n \in 1..used /\ n \in Nat /\ x \in BOOLEAN
<1>1. TypeOK /\ OneChoice
  BY DEF IInv
<1>2. used \in Nat
  BY <1>1 DEF TypeOK
<1>3. CASE \E c \in Calls : call[c].kind = "history" /\ call[c].n = n /\ call[c].explicit = x
  BY <1>1, <1>2, <1>3, CallType DEF OneChoice
<1>4. CASE \E m \in net : m.r.kind = "history" /\ m.r.n = n /\ m.r.explicit = x
  BY <1>1, <1>2, <1>4, MessageType DEF OneChoice
<1>5. CASE [id |-> n, explicit |-> x] \in acked
  <2>1. [id |-> n, explicit |-> x] \in [id : Nat, explicit : BOOLEAN]
    BY <1>1, <1>5 DEF TypeOK
  <2>2. n \in Nat /\ x \in BOOLEAN
    <3>1. /\ [id |-> n, explicit |-> x].id \in Nat
          /\ [id |-> n, explicit |-> x].explicit \in BOOLEAN
      BY <2>1
    <3>2. QED
      BY <3>1
  <2>3. [id |-> n, explicit |-> x].id \in 1..used
    BY <1>1, <1>5 DEF OneChoice
  <2>4. QED
    BY <2>2, <2>3
<1>6. QED
  BY <1>3, <1>4, <1>5 DEF Claims

\* A request and a call under way claim their event.
LEMMA Claimed ==
    /\ \A c \in Calls : call[c].kind = "history" => Claims(call[c].n, call[c].explicit)
    /\ \A m \in net : m.r.kind = "history" => Claims(m.r.n, m.r.explicit)
BY DEF Claims

LEMMA ClaimsKept ==
    ASSUME IInv, NEW z \in BOOLEAN, CallsKeep(z), NetKeeps(z), AckedKeeps,
           NEW n, NEW x, Claims(n, x)'
    PROVE  Claims(n, x) \/ Fresh(n, x, z)
<1>1. CASE \E c \in Calls : call'[c].kind = "history" /\ call'[c].n = n /\ call'[c].explicit = x
  <2>1. PICK c \in Calls : call'[c].kind = "history" /\ call'[c].n = n /\ call'[c].explicit = x
    BY <1>1
  <2>2. CASE call[c].kind = "history" /\ n = call[c].n /\ x = call[c].explicit
    BY <2>2 DEF Claims
  <2>3. QED
    BY <2>1, <2>2 DEF CallsKeep
<1>2. CASE \E m \in net' : m.r.kind = "history" /\ m.r.n = n /\ m.r.explicit = x
  <2>1. PICK m \in net' : m.r.kind = "history" /\ m.r.n = n /\ m.r.explicit = x
    BY <1>2
  <2>2. CASE m \in net
    BY <2>1, <2>2 DEF Claims
  <2>3. QED
    BY <2>1, <2>2 DEF NetKeeps
<1>3. CASE [id |-> n, explicit |-> x] \in acked'
  <2>1. CASE [id |-> n, explicit |-> x] \in acked
    BY <2>1 DEF Claims
  <2>2. CASE Claims([id |-> n, explicit |-> x].id, [id |-> n, explicit |-> x].explicit)
    BY <2>2
  <2>3. QED
    BY <1>3, <2>1, <2>2 DEF AckedKeeps
<1>4. QED
  BY <1>1, <1>2, <1>3 DEF Claims

\* What the steps of the page, of the hubs and of others do to the history.
LEMMA HistoryStep ==
    ASSUME IInv, TypeOK', used <= used',
           NEW z \in BOOLEAN, CallsKeep(z), NetKeeps(z), AckedKeeps, LogsGrow(z),
           head' \in Seen',
           \A c \in Calls : call'[c].id \in {0, call'[c].n}
    PROVE  OneChoice' /\ FollowsSeen' /\ Linked'
<1>1. TypeOK /\ OneChoice /\ FollowsSeen /\ Linked /\ used \in Nat /\ used' \in Nat
  BY DEF IInv, TypeOK
<1>2. Seen \subseteq Seen'
  BY DEF AckedKeeps, Seen
<1>3. \A n, x : Claims(n, x)' => Claims(n, x) \/ Fresh(n, x, z)
  BY ClaimsKept
<1>4. \A n, x : Claims(n, x) => n \in 1..used /\ n \in Nat
  BY ClaimTypes
<1>5. \A n, x : Fresh(n, x, z) => n \in 1..used' /\ n \notin 1..used /\ x = z
  BY <1>1 DEF Fresh
<1>6. \A n \in 1..used : n \in 1..used'
  BY <1>1
<1>7. OneChoice'
  <2>1. ASSUME NEW n \in 1..used' PROVE ~(Claims(n, TRUE)' /\ Claims(n, FALSE)')
    <3>1. ~(Fresh(n, TRUE, z) /\ Fresh(n, FALSE, z))
      BY DEF Fresh
    <3>2. ~(Claims(n, TRUE) /\ Claims(n, FALSE))
      BY <1>1, <1>4 DEF OneChoice
    <3>3. QED
      BY <1>3, <1>4, <1>5, <3>1, <3>2
  <2>4. \A a \in acked' : a.id \in 1..used'
    BY <1>1, <1>4, <1>6 DEF AckedKeeps, OneChoice
  <2>5. \A c \in Calls : call'[c].kind = "history" => call'[c].n \in 1..used'
    BY <1>1, <1>5, <1>6 DEF CallsKeep, OneChoice
  <2>6. \A m \in net' : m.r.kind = "history" => m.r.n \in 1..used'
    BY <1>1, <1>4, <1>5, <1>6 DEF NetKeeps, OneChoice
  <2>7. QED
    BY <2>1, <2>4, <2>5, <2>6 DEF OneChoice
<1>8. ASSUME NEW h \in Hubs, NEW i \in DOMAIN logs'[h]
      PROVE  /\ \A n : n = logs'[h][i].id /\ Claims(n, FALSE)' => logs'[h][i].prev \in Seen'
             /\ logs'[h][i].id \in 1..used'
             /\ i > 1 => logs'[h][i].prev = logs'[h][i - 1].id
  <2>1. logs[h] \in Seq(Entry) /\ Len(logs[h]) \in Nat /\ DOMAIN logs[h] = 1..Len(logs[h])
    BY <1>1 DEF TypeOK
  <2>2. ASSUME NEW j \in DOMAIN logs[h]
        PROVE  /\ \A n : n = logs[h][j].id /\ Claims(n, FALSE)' => logs[h][j].prev \in Seen'
               /\ logs[h][j].id \in 1..used'
               /\ j > 1 => logs[h][j].prev = logs[h][j - 1].id
    <3>1. logs[h][j].id \in 1..used /\ (j > 1 => logs[h][j].prev = logs[h][j - 1].id)
      BY <1>1 DEF Linked
    <3>2. ~Fresh(logs[h][j].id, FALSE, z)
      BY <1>5, <3>1
    <3>3. Claims(logs[h][j].id, FALSE) => logs[h][j].prev \in Seen
      BY <1>1 DEF FollowsSeen
    <3>4. QED
      BY <1>2, <1>3, <1>6, <3>1, <3>2, <3>3
  <2>3. CASE logs'[h] = logs[h]
    BY <2>2, <2>3
  <2>4. CASE logs'[h] # logs[h]
    <3>1. PICK e \in Entry :
              /\ logs'[h] = Append(logs[h], e)
              /\ e.id \in 1..used' /\ e.prev = LastId(logs[h])
              /\ Claims(e.id, FALSE) => e.prev \in Seen
              /\ ~Fresh(e.id, FALSE, z)
      BY <2>4 DEF LogsGrow
    <3>2. /\ DOMAIN logs'[h] = 1..Len(logs[h]) + 1
          /\ \A j \in 1..Len(logs[h]) : logs'[h][j] = logs[h][j]
          /\ logs'[h][Len(logs[h]) + 1] = e
      BY <2>1, <3>1
    <3>3. CASE i \in DOMAIN logs[h]
      <4>1. i > 1 => i - 1 \in 1..Len(logs[h])
        BY <2>1, <3>3
      <4>2. QED
        BY <2>1, <2>2, <3>2, <3>3, <4>1
    <3>4. CASE i \notin DOMAIN logs[h]
      <4>1. i = Len(logs[h]) + 1 /\ logs'[h][i] = e
        BY <2>1, <3>2, <3>4
      <4>2. i > 1 => i - 1 = Len(logs[h]) /\ logs[h] # <<>> /\ i - 1 \in 1..Len(logs[h])
        BY <2>1, <4>1
      <4>3. i > 1 => e.prev = logs'[h][i - 1].id
        BY <2>1, <3>1, <3>2, <4>2, LastIdType
      <4>4. \A n : n = e.id /\ Claims(n, FALSE)' => e.prev \in Seen'
        <5>1. SUFFICES ASSUME NEW n, n = e.id, Claims(n, FALSE)' PROVE e.prev \in Seen'
          OBVIOUS
        <5>2. CASE Claims(n, FALSE)
          BY <1>2, <3>1, <5>1, <5>2
        <5>3. QED
          BY <1>3, <3>1, <5>1, <5>2
      <4>5. QED
        BY <3>1, <4>1, <4>3, <4>4
    <3>5. QED
      BY <3>3, <3>4
  <2>5. QED
    BY <2>3, <2>4
<1>9. FollowsSeen'
  <2>1. \A m \in net' : m.r.kind = "history" /\ ~m.r.explicit => m.r.prev \in Seen'
    BY <1>1, <1>2 DEF NetKeeps, FollowsSeen
  <2>2. QED
    BY <1>8, <2>1 DEF FollowsSeen
<1>10. Linked'
  BY <1>8 DEF Linked
<1>11. QED
  BY <1>7, <1>9, <1>10

-----------------------------------------------------------------------------
(* The steps of the page.                                                  *)

\* A step that leaves calls, requests, logs and answers alone.
LEMMA PageStep ==
    ASSUME IInv, UNCHANGED <<head, call, net, hubVars, acked, used>>,
           fif' \in Someone, keys' \in Someone, grant' \in Someone, current' \in Hubs,
           overtaken' \in BOOLEAN, left' \in Bounds,
           KeysFollow'
    PROVE  IInv'
<1>1. TypeOK'
  BY DEF IInv, TypeOK, hubVars
<1>2. Kinds' /\ SealedRight'
  BY DEF IInv, Kinds, SealedRight, hubVars
<1>3. OneChoice' /\ FollowsSeen' /\ Linked'
  BY DEF IInv, OneChoice, FollowsSeen, Linked, Claims, Seen, hubVars
<1>4. QED
  BY <1>1, <1>2, <1>3 DEF IInv

LEMMA TurnStep ==
    ASSUME IInv,
           \/ \E i \in Identities : unlockFIF(i) \/ useGrant(i)
           \/ lock
           \/ \E h \in Hubs : switch(h)
    PROVE  IInv'
<1>1. TypeOK /\ KeysFollow
  BY DEF IInv
<1>2. Spend("turns") /\ UNCHANGED <<head, call, net, hubVars, acked, used>>
  BY DEF unlockFIF, useGrant, lock, switch
<1>3. left' \in Bounds
  BY <1>1, <1>2, SpendType
<1>4. /\ fif' \in Someone /\ keys' \in Someone /\ grant' \in Someone /\ current' \in Hubs
      /\ overtaken' \in BOOLEAN /\ KeysFollow'
  <2>1. CASE \E i \in Identities : unlockFIF(i)
    BY <1>1, <2>1 DEF unlockFIF, TypeOK, Someone, KeysFollow
  <2>2. CASE lock
    BY <1>1, <2>2 DEF lock, flushKeys, TypeOK, Someone, KeysFollow
  <2>3. CASE (\E i \in Identities : useGrant(i)) \/ (\E h \in Hubs : switch(h))
    BY <1>1, <2>3 DEF useGrant, switch, TypeOK, Someone, KeysFollow
  <2>4. QED
    BY <2>1, <2>2, <2>3
<1>5. QED
  BY <1>2, <1>3, <1>4, PageStep

\* A step of a vault call, which may send a request.
LEMMA VaultStep ==
    ASSUME IInv, TypeOK', NEW c \in Calls, NEW r \in Local,
           call' = [call EXCEPT ![c] = r],
           \A m \in net' : m \in net \/ m.r = r,
           r.kind = "vault", r.pc \in {"deriving", "keyed", "waiting"}, r.id = 0, Own(r),
           UNCHANGED <<head, hubVars, acked>>, used' \in {used, used + 1},
           KeysFollow'
    PROVE  IInv'
<1>1. TypeOK /\ Kinds /\ SealedRight /\ OneChoice /\ FollowsSeen /\ used \in Nat
  BY DEF IInv, TypeOK
<1>2. call'[c] = r /\ \A d \in Calls : d # c => call'[d] = call[d]
  BY <1>1, PutCallType
<1>3. Kinds'
  BY <1>1, <1>2 DEF Kinds
<1>4. SealedRight'
  BY <1>1, <1>2 DEF SealedRight, hubVars
<1>5. CallsKeep(TRUE) /\ NetKeeps(TRUE) /\ AckedKeeps /\ LogsGrow(TRUE)
  BY <1>2 DEF CallsKeep, NetKeeps, AckedKeeps, LogsGrow, hubVars
<1>6. used <= used' /\ head' \in Seen' /\ \A d \in Calls : call'[d].id \in {0, call'[d].n}
  BY <1>1, <1>2 DEF FollowsSeen, Seen, OneChoice
<1>7. OneChoice' /\ FollowsSeen' /\ Linked'
  BY <1>5, <1>6, HistoryStep
<1>8. QED
  BY <1>3, <1>4, <1>7 DEF IInv

LEMMA VaultAppendStep ==
    ASSUME IInv, NEW c \in Calls, VaultAppend(c)
    PROVE  IInv'
<1>1. TypeOK /\ KeysFollow
  BY DEF IInv
<1>2. PICK clock \in Clocks :
          call' = [call EXCEPT ![c] =
              [Idle EXCEPT !.pc = IF keys # None THEN "keyed" ELSE "deriving", !.kind = "vault", !.clock = clock,
                           !.asked = fif, !.key = IF keys # None THEN keys ELSE fif, !.excused = overtaken]]
  BY DEF VaultAppend
<1> DEFINE r == [Idle EXCEPT !.pc = IF keys # None THEN "keyed" ELSE "deriving", !.kind = "vault", !.clock = clock,
                           !.asked = fif, !.key = IF keys # None THEN keys ELSE fif, !.excused = overtaken]
<1>3. r \in Local /\ r.kind = "vault" /\ r.pc \in {"deriving", "keyed"} /\ r.id = 0
  BY <1>1 DEF Idle, Local, TypeOK
<1>4. Own(r)
  BY <1>1 DEF Idle, Own, KeysFollow
<1>5. call' = [call EXCEPT ![c] = r]
  BY <1>2
<1> HIDE DEF r
<1>6. UNCHANGED <<pageVars, head, net, hubVars, acked, used>> /\ left' \in Bounds
  BY <1>1, SpendType DEF VaultAppend
<1>7. call' \in [Calls -> Local]
  BY <1>1, <1>3, <1>5, PutCallType
<1>8. TypeOK' /\ KeysFollow'
  BY <1>1, <1>6, <1>7 DEF TypeOK, KeysFollow, pageVars, hubVars
<1>9. QED
  BY <1>3, <1>4, <1>5, <1>6, <1>8, VaultStep

LEMMA GetKeyStep ==
    ASSUME IInv, NEW c \in Calls, getKey(c)
    PROVE  IInv'
<1>1. TypeOK /\ Kinds /\ SealedRight /\ OneChoice
  BY DEF IInv
<1>2. call[c] \in Local /\ call[c].kind = "vault" /\ call[c].id = 0 /\ call[c].key \in Someone /\ Own(call[c])
  BY <1>1, CallType DEF getKey, Kinds, SealedRight
<1> DEFINE r == [call[c] EXCEPT !.pc = "keyed"]
<1>3. r \in Local /\ r.kind = "vault" /\ r.pc = "keyed" /\ r.id = 0 /\ Own(r)
  BY <1>2 DEF Local, Own
<1>4. call' = [call EXCEPT ![c] = r]
  BY DEF getKey
<1> HIDE DEF r
<1>5. UNCHANGED <<fif, grant, current, head, net, hubVars, acked, used, left>>
  BY DEF getKey
<1>6. keys' \in Someone /\ overtaken' \in BOOLEAN /\ KeysFollow'
  BY <1>1, <1>2 DEF getKey, KeysFollow, TypeOK
<1>7. call' \in [Calls -> Local]
  BY <1>1, <1>3, <1>4, PutCallType
<1>8. TypeOK'
  BY <1>1, <1>5, <1>6, <1>7 DEF TypeOK, hubVars
<1>9. QED
  BY <1>3, <1>4, <1>5, <1>6, <1>8, VaultStep

LEMMA VaultSendStep ==
    ASSUME IInv, NEW c \in Calls, VaultSend(c)
    PROVE  IInv'
<1>1. TypeOK /\ Kinds /\ SealedRight /\ KeysFollow
  BY DEF IInv
<1>2. call[c] \in Local /\ call[c].kind = "vault" /\ call[c].id = 0 /\ Own(call[c]) /\ used \in Nat
  BY <1>1, CallType DEF VaultSend, Kinds, SealedRight, TypeOK
<1> DEFINE r == [call[c] EXCEPT !.pc = "waiting", !.n = used + 1]
<1>3. /\ r \in Local /\ r.kind = "vault" /\ r.pc = "waiting" /\ r.id = 0
      /\ r.key = call[c].key /\ r.asked = call[c].asked /\ r.excused = call[c].excused
  <2>1. used + 1 \in Nat
    BY <1>2
  <2>2. r \in Local
    BY <1>2, <2>1 DEF Local
  <2>3. QED
    BY <1>2, <2>2 DEF Local
<1>4. call' = [call EXCEPT ![c] = r] /\ do(c, r)
  BY DEF VaultSend
<1> HIDE DEF r
<1>0. Own(r)
  BY <1>2, <1>3 DEF Own
<1>5. UNCHANGED <<pageVars, head, hubVars, acked, left>> /\ used' = used + 1
  BY DEF VaultSend
<1>6. call' \in [Calls -> Local] /\ net' \subseteq Message
  BY <1>1, <1>3, <1>4, PutCallType, DoType
<1>7. TypeOK' /\ KeysFollow'
  BY <1>1, <1>2, <1>5, <1>6 DEF TypeOK, KeysFollow, pageVars, hubVars
<1>8. \A m \in net' : m \in net \/ m.r = r
  BY <1>4 DEF do
<1>9. QED
  BY <1>0, <1>3, <1>4, <1>5, <1>7, <1>8, VaultStep

-----------------------------------------------------------------------------
(* The steps of a history call, and what ends a call.                      *)

\* The call goes on as r, which is a history call or nothing, and may send r.
LEMMA CallStep ==
    ASSUME IInv, TypeOK', NEW c \in Calls, NEW r \in Local, NEW z \in BOOLEAN,
           call' = [call EXCEPT ![c] = r],
           r = Idle \/ (r.kind = "history" /\ r.pc \in {"waiting", "lost"} /\ r.id = 0),
           r.kind = "history" => Claims(r.n, r.explicit) \/ Fresh(r.n, r.explicit, z),
           r.kind = "history" =>
               (call[c].kind = "history" /\ r.n = call[c].n /\ r.explicit = call[c].explicit)
               \/ Fresh(r.n, r.explicit, z),
           \A m \in net' : m \in net \/ (m.r = r /\ r.kind = "history" /\ (~r.explicit => r.prev \in Seen)),
           UNCHANGED <<pageVars, head, hubVars, acked>>, used' \in {used, used + 1}
    PROVE  IInv'
<1>1. TypeOK /\ Kinds /\ SealedRight /\ OneChoice /\ FollowsSeen /\ KeysFollow /\ used \in Nat
  BY DEF IInv, TypeOK
<1>2. call'[c] = r /\ \A d \in Calls : d # c => call'[d] = call[d]
  BY <1>1, PutCallType
<1>3. Idle.pc = "idle" /\ Idle.kind = "none" /\ Idle.id = 0
  BY DEF Idle
<1>4. Kinds' /\ KeysFollow'
  BY <1>1, <1>2, <1>3 DEF Kinds, KeysFollow, pageVars
<1>5. SealedRight'
  BY <1>1, <1>2, <1>3 DEF SealedRight, hubVars
<1>6. CallsKeep(z)
  BY <1>2, <1>3 DEF CallsKeep
<1>7. NetKeeps(z) /\ AckedKeeps /\ LogsGrow(z)
  BY DEF NetKeeps, AckedKeeps, LogsGrow, hubVars
<1>8. used <= used' /\ head' \in Seen'
  BY <1>1 DEF FollowsSeen, Seen
<1>9. \A d \in Calls : call'[d].id \in {0, call'[d].n}
  BY <1>1, <1>2, <1>3 DEF OneChoice
<1>10. OneChoice' /\ FollowsSeen' /\ Linked'
  BY <1>6, <1>7, <1>8, <1>9, HistoryStep
<1>11. QED
  BY <1>4, <1>5, <1>10 DEF IInv

LEMMA HistoryAppendStep ==
    ASSUME IInv, NEW c \in Calls, HistoryAppend(c)
    PROVE  IInv'
<1>1. TypeOK /\ FollowsSeen /\ used \in Nat /\ head \in Nat
  BY DEF IInv, TypeOK
<1>2. PICK explicit \in BOOLEAN, escaped \in BOOLEAN :
          LET r == [Idle EXCEPT !.pc = "waiting", !.kind = "history", !.n = used + 1, !.explicit = explicit,
                                !.prev = IF explicit THEN LastId(logs[current]) ELSE head, !.escaped = escaped]
          IN  call' = [call EXCEPT ![c] = r] /\ do(c, r)
  BY DEF HistoryAppend
<1> DEFINE r == [Idle EXCEPT !.pc = "waiting", !.kind = "history", !.n = used + 1, !.explicit = explicit,
                                !.prev = IF explicit THEN LastId(logs[current]) ELSE head, !.escaped = escaped]
<1>3. call' = [call EXCEPT ![c] = r] /\ do(c, r)
  BY <1>2
<1>4. LastId(logs[current]) \in Nat
  BY <1>1, LastIdType DEF TypeOK
<1>5. /\ r.kind = "history" /\ r.pc = "waiting" /\ r.id = 0
      /\ r.n = used + 1 /\ r.explicit = explicit
      /\ r.prev = (IF explicit THEN LastId(logs[current]) ELSE head)
  BY DEF Idle
<1>13. r \in Local
  <2>1. used + 1 \in Nat /\ (IF explicit THEN LastId(logs[current]) ELSE head) \in Nat
    BY <1>1, <1>4
  <2>2. QED
    BY <2>1, IdleType DEF Local
<1>6. ~r.explicit => r.prev \in Seen
  BY <1>1, <1>5 DEF FollowsSeen
<1> HIDE DEF r
<1>7. UNCHANGED <<pageVars, head, hubVars, acked>> /\ used' = used + 1 /\ left' \in Bounds
  BY <1>1, SpendType DEF HistoryAppend
<1>8. call' \in [Calls -> Local] /\ net' \subseteq Message
  BY <1>1, <1>3, <1>13, PutCallType, DoType
<1>9. TypeOK'
  BY <1>1, <1>7, <1>8 DEF TypeOK, pageVars, hubVars
<1>10. \A m \in net' : m \in net \/ m.r = r
  BY <1>3 DEF do
<1>11. Fresh(r.n, r.explicit, explicit)
  BY <1>5, <1>7 DEF Fresh
<1>12. QED
  BY <1>3, <1>5, <1>6, <1>7, <1>9, <1>10, <1>11, <1>13, CallStep

LEMMA ResendStep ==
    ASSUME IInv, NEW c \in Calls, Resend(c)
    PROVE  IInv'
<1>1. TypeOK /\ FollowsSeen /\ Kinds /\ OneChoice /\ call[c] \in Local /\ head \in Nat
  BY CallType DEF IInv, TypeOK
<1> DEFINE r == [call[c] EXCEPT !.pc = "waiting", !.prev = IF call[c].explicit THEN @ ELSE head]
<1>2. call' = [call EXCEPT ![c] = r] /\ do(c, r)
  BY DEF Resend
<1>3. r \in Local /\ r.pc = "waiting" /\ r.kind = call[c].kind /\ r.n = call[c].n /\ r.explicit = call[c].explicit
  BY <1>1 DEF Local
<1>4. r.id = call[c].id
  BY <1>1 DEF Local
<1>5. ~r.explicit => r.prev \in Seen
  BY <1>1 DEF FollowsSeen, Local
<1> HIDE DEF r
<1>6. UNCHANGED <<pageVars, head, hubVars, acked, used, left>>
  BY DEF Resend
<1>7. call' \in [Calls -> Local] /\ net' \subseteq Message
  BY <1>1, <1>2, <1>3, PutCallType, DoType
<1>8. TypeOK'
  BY <1>1, <1>6, <1>7 DEF TypeOK, pageVars, hubVars
<1>9. \A m \in net' : m \in net \/ m.r = r
  BY <1>2 DEF do
<1>10. call[c].kind = "history" /\ call[c].id = 0
  BY <1>1 DEF Resend, Kinds
<1>11. Claims(r.n, r.explicit)
  BY <1>3, <1>10, Claimed
<1>12. QED
  BY <1>2, <1>3, <1>4, <1>5, <1>6, <1>8, <1>9, <1>10, <1>11, CallStep

LEMMA EndStep ==
    ASSUME IInv, NEW c \in Calls, GiveUp(c) \/ Timeout(c)
    PROVE  IInv'
<1>1. TypeOK /\ call[c] \in Local
  BY CallType DEF IInv, TypeOK
<1> DEFINE lost == [call[c] EXCEPT !.pc = "lost", !.id = 0]
<1>2. PICK r : r \in {Idle, lost} /\ call' = [call EXCEPT ![c] = r] /\ (r = lost => r = Idle \/ call[c].kind = "history")
  BY DEF GiveUp, Timeout
<1>3. /\ lost \in Local /\ lost.pc = "lost" /\ lost.id = 0
      /\ lost.kind = call[c].kind /\ lost.n = call[c].n /\ lost.explicit = call[c].explicit
  BY <1>1 DEF Local
<1>4. Idle \in Local /\ Idle.kind = "none"
  BY IdleType DEF Idle
<1> HIDE DEF lost
<1>5. r \in Local
  BY <1>2, <1>3, <1>4
<1>6. UNCHANGED <<pageVars, head, net, hubVars, acked, used>> /\ left' \in Bounds
  BY <1>1, SpendType DEF GiveUp, Timeout, TypeOK
<1>7. call' \in [Calls -> Local]
  BY <1>1, <1>2, <1>5, PutCallType
<1>8. TypeOK'
  BY <1>1, <1>6, <1>7 DEF TypeOK, pageVars, hubVars
<1>9. r.kind = "history" => call[c].kind = "history" /\ r.n = call[c].n /\ r.explicit = call[c].explicit
  BY <1>2, <1>3, <1>4
<1>10. r.kind = "history" => Claims(r.n, r.explicit)
  BY <1>9, Claimed
<1>11. r = Idle \/ (r.kind = "history" /\ r.pc = "lost" /\ r.id = 0)
  BY <1>2, <1>3
<1>12. QED
  BY <1>2, <1>5, <1>6, <1>8, <1>9, <1>10, <1>11, CallStep

-----------------------------------------------------------------------------
(* The steps of the hubs and of other clients.                             *)

\* What happens at a hub: a request is taken off the net, perhaps twice, and
\* the call that waits for it is answered with the number of its event or 0.
LEMMA HubStep ==
    ASSUME IInv, TypeOK', NEW m \in net, NEW id \in {0, m.r.n}, Answered(m, id),
           net' = net \ {m}, LogsGrow(TRUE),
           \A h \in Hubs : \A e \in vault'[h] : e \in vault[h] \/ Own(e),
           UNCHANGED <<pageVars, head, acked, used>>
    PROVE  IInv'
<1>1. TypeOK /\ Kinds /\ SealedRight /\ OneChoice /\ FollowsSeen /\ KeysFollow /\ used \in Nat
  BY DEF IInv, TypeOK
<1>2. m.r.n \in Nat /\ id \in Nat
  BY <1>1, MessageType
<1>3. \A c \in Calls :
          \/ call'[c] = call[c]
          \/ /\ call[c].n = m.r.n
             /\ call'[c] = [call[c] EXCEPT !.pc = "answered", !.id = id]
             /\ call[c].pc = "waiting" /\ c = m.call
  BY <1>1, <1>2, AnsweredFacts
<1>4. ASSUME NEW c \in Calls
      PROVE  /\ call'[c].kind = call[c].kind /\ call'[c].n = call[c].n
             /\ call'[c].explicit = call[c].explicit
             /\ call'[c].key = call[c].key /\ call'[c].asked = call[c].asked
             /\ call'[c].excused = call[c].excused
             /\ call'[c] = call[c] \/ (call'[c].pc = "answered" /\ call[c].pc = "waiting"
                                      /\ call'[c].id \in {0, call[c].n})
  <2>1. call[c] \in Local
    BY <1>1, CallType
  <2>2. CASE call'[c] = call[c]
    BY <2>2
  <2>3. CASE call'[c] # call[c]
    <3>1. call[c].n = m.r.n /\ call[c].pc = "waiting"
          /\ call'[c] = [call[c] EXCEPT !.pc = "answered", !.id = id]
      BY <1>3, <2>3
    <3>2. QED
      BY <2>1, <3>1 DEF Local
  <2>4. QED
    BY <2>2, <2>3
<1>5. Kinds' /\ KeysFollow'
  BY <1>1, <1>4 DEF Kinds, KeysFollow, pageVars
<1>6. SealedRight'
  BY <1>1, <1>4 DEF SealedRight, Own
<1>7. CallsKeep(TRUE) /\ NetKeeps(TRUE) /\ AckedKeeps
  BY <1>4 DEF CallsKeep, NetKeeps, AckedKeeps
<1>8. used <= used' /\ head' \in Seen' /\ \A c \in Calls : call'[c].id \in {0, call'[c].n}
  BY <1>1, <1>4 DEF FollowsSeen, Seen, OneChoice
<1>9. OneChoice' /\ FollowsSeen' /\ Linked'
  BY <1>7, <1>8, HistoryStep
<1>10. QED
  BY <1>5, <1>6, <1>9 DEF IInv

\* Types after a hub has answered.
LEMMA HubTypes ==
    ASSUME TypeOK, NEW m \in net, NEW id \in Nat, Answered(m, id), net' = net \ {m},
           logs' \in [Hubs -> Seq(Entry)], vault' \in [Hubs -> SUBSET Sealed],
           UNCHANGED <<pageVars, head, acked, used, left>>
    PROVE  TypeOK'
BY AnsweredFacts DEF TypeOK, pageVars

LEMMA RefusesStep ==
    ASSUME IInv, NEW m \in net, HubRefuses(m)
    PROVE  IInv'
<1>1. TypeOK
  BY DEF IInv
<1>2. Answered(m, 0) /\ net' = net \ {m} /\ UNCHANGED <<pageVars, head, hubVars, acked, used, left>>
  BY DEF HubRefuses
<1>3. TypeOK'
  BY <1>1, <1>2, HubTypes DEF TypeOK, hubVars
<1>4. LogsGrow(TRUE) /\ \A h \in Hubs : vault'[h] = vault[h]
  BY <1>2 DEF LogsGrow, hubVars
<1>5. QED
  BY <1>2, <1>3, <1>4, HubStep

LEMMA StoresStep ==
    ASSUME IInv, NEW m \in net, HubStores(m)
    PROVE  IInv'
<1>1. TypeOK /\ SealedRight
  BY DEF IInv
<1> DEFINE e == [asked |-> m.r.asked, key |-> m.r.key, clock |-> m.r.clock, excused |-> m.r.excused]
<1>2. /\ Answered(m, m.r.n) /\ net' = net \ {m}
      /\ UNCHANGED <<pageVars, head, logs, acked, used, left>>
      /\ vault' = [vault EXCEPT ![m.hub] = @ \cup {e}] /\ m.r.kind = "vault"
  BY DEF HubStores
<1>3. m.hub \in Hubs /\ m.r \in Local /\ m.r.n \in Nat
  BY <1>1, MessageType
<1>4. e \in Sealed /\ Own(e)
  <2>1. e \in Sealed
    BY <1>3 DEF Local, Sealed
  <2>2. Own(m.r)
    BY <1>1, <1>2 DEF SealedRight
  <2>3. QED
    BY <2>1, <2>2 DEF Own
<1> HIDE DEF e
<1>5. vault' \in [Hubs -> SUBSET Sealed] /\ \A h \in Hubs : \A x \in vault'[h] : x \in vault[h] \/ x = e
  BY <1>1, <1>2, <1>3, <1>4 DEF TypeOK
<1>6. TypeOK'
  BY <1>1, <1>2, <1>3, <1>5, HubTypes DEF TypeOK
<1>7. LogsGrow(TRUE)
  BY <1>2 DEF LogsGrow
<1>8. QED
  BY <1>2, <1>4, <1>5, <1>6, <1>7, HubStep

\* A new event at the end of the log of a hub.
LEMMA AppendedLog ==
    ASSUME TypeOK, NEW h \in Hubs, NEW e \in Entry, logs' = [logs EXCEPT ![h] = Append(@, e)],
           e.id \in 1..used', e.prev = LastId(logs[h]),
           Claims(e.id, FALSE) => e.prev \in Seen,
           ~Fresh(e.id, FALSE, TRUE)
    PROVE  logs' \in [Hubs -> Seq(Entry)] /\ LogsGrow(TRUE)
<1>1. logs \in [Hubs -> Seq(Entry)]
  BY DEF TypeOK
<1>2. logs'[h] = Append(logs[h], e) /\ \A g \in Hubs : g # h => logs'[g] = logs[g]
  BY <1>1
<1>3. Append(logs[h], e) \in Seq(Entry)
  BY <1>1
<1>4. QED
  BY <1>1, <1>2, <1>3 DEF LogsGrow

LEMMA AppendsStep ==
    ASSUME IInv, NEW m \in net, HubAppends(m)
    PROVE  IInv'
<1>1. TypeOK /\ OneChoice /\ FollowsSeen /\ used \in Nat
  BY DEF IInv, TypeOK
<1>2. /\ net' = net \ {m} /\ m.r.kind = "history"
      /\ UNCHANGED <<pageVars, head, vault, acked, used, left>>
  BY DEF HubAppends
<1>3. m.hub \in Hubs /\ m.r.n \in Nat /\ m.r.prev \in Nat /\ m.r.explicit \in BOOLEAN
  BY <1>1, MessageType
<1>4. m.r.n \in 1..used /\ Claims(m.r.n, m.r.explicit)
  BY <1>1, <1>2, Claimed DEF OneChoice
<1>5. PICK id \in {0, m.r.n} : Answered(m, id)
  BY DEF HubAppends
<1>6. logs' \in [Hubs -> Seq(Entry)] /\ LogsGrow(TRUE)
  <2>1. CASE UNCHANGED logs
    BY <1>1, <2>1 DEF TypeOK, LogsGrow
  <2>2. CASE ~UNCHANGED logs
    <3> DEFINE e == [id |-> m.r.n, n |-> m.r.n, prev |-> m.r.prev]
    <3>1. logs' = [logs EXCEPT ![m.hub] = Append(@, e)] /\ m.r.prev = LastId(logs[m.hub])
      BY <2>2 DEF HubAppends
    <3>2. e \in Entry /\ e.id = m.r.n /\ e.prev = m.r.prev
      BY <1>3 DEF Entry
    <3> HIDE DEF e
    <3>3. Claims(m.r.n, FALSE) => m.r.prev \in Seen
      <4>1. SUFFICES ASSUME Claims(m.r.n, FALSE) PROVE m.r.prev \in Seen
        OBVIOUS
      <4>2. ~Claims(m.r.n, TRUE)
        BY <1>1, <1>4, <4>1 DEF OneChoice
      <4>3. m.r.explicit # TRUE
        BY <1>4, <4>2
      <4>4. QED
        BY <1>1, <1>2, <1>3, <4>3 DEF FollowsSeen
    <3>4. ~Fresh(m.r.n, FALSE, TRUE)
      BY DEF Fresh
    <3>5. m.r.n \in 1..used'
      BY <1>2, <1>4
    <3>6. QED
      BY <1>1, <1>3, <3>1, <3>2, <3>3, <3>4, <3>5, AppendedLog
  <2>3. QED
    BY <2>1, <2>2
<1>7. TypeOK'
  BY <1>1, <1>2, <1>3, <1>5, <1>6, HubTypes DEF TypeOK
<1>8. QED
  BY <1>2, <1>5, <1>6, <1>7, HubStep

LEMMA OthersStep ==
    ASSUME IInv, NEW h \in Hubs, OtherAppends(h)
    PROVE  IInv'
<1>1. TypeOK /\ FollowsSeen /\ OneChoice /\ used \in Nat /\ logs[h] \in Seq(Entry)
  BY DEF IInv, TypeOK
<1> DEFINE e == [id |-> used + 1, n |-> 0, prev |-> LastId(logs[h])]
<1>2. /\ UNCHANGED <<pageVars, head, call, net, vault, acked>> /\ used' = used + 1
      /\ logs' = [logs EXCEPT ![h] = Append(@, e)] /\ left' \in Bounds
  BY <1>1, SpendType DEF OtherAppends, TypeOK
<1>3. e \in Entry /\ e.id = used + 1 /\ e.prev = LastId(logs[h])
  BY <1>1, LastIdType DEF Entry
<1> HIDE DEF e
<1>4. ~Claims(e.id, FALSE)
  <2>1. e.id \notin 1..used
    BY <1>1, <1>3
  <2>2. QED
    BY <2>1, ClaimTypes
<1>5. ~Fresh(e.id, FALSE, TRUE) /\ e.id \in 1..used' /\ used' \in Nat
  BY <1>1, <1>2, <1>3 DEF Fresh
<1>6. logs' \in [Hubs -> Seq(Entry)] /\ LogsGrow(TRUE)
  BY <1>1, <1>2, <1>3, <1>4, <1>5, AppendedLog
<1>7. TypeOK'
  BY <1>1, <1>2, <1>5, <1>6 DEF TypeOK, pageVars
<1>8. CallsKeep(TRUE) /\ NetKeeps(TRUE) /\ AckedKeeps
  BY <1>2 DEF CallsKeep, NetKeeps, AckedKeeps
<1>9. used <= used' /\ head' \in Seen' /\ \A c \in Calls : call'[c].id \in {0, call'[c].n}
  BY <1>1, <1>2 DEF FollowsSeen, Seen, OneChoice
<1>10. OneChoice' /\ FollowsSeen' /\ Linked'
  BY <1>6, <1>7, <1>8, <1>9, HistoryStep
<1>11. KeysFollow' /\ Kinds' /\ SealedRight'
  BY <1>2 DEF IInv, KeysFollow, Kinds, SealedRight, pageVars
<1>12. QED
  BY <1>7, <1>10, <1>11 DEF IInv

-----------------------------------------------------------------------------
(* The answer, and all steps together.                                     *)

LEMMA AnswerStep ==
    ASSUME IInv, NEW c \in Calls, Answer(c)
    PROVE  IInv'
<1>1. /\ TypeOK /\ Kinds /\ SealedRight /\ OneChoice /\ FollowsSeen /\ KeysFollow
      /\ used \in Nat /\ head \in Nat
  BY DEF IInv, TypeOK
<1>2. /\ call' = [call EXCEPT ![c] = Idle]
      /\ UNCHANGED <<pageVars, net, hubVars, used, left>>
      /\ call[c].pc = "answered"
  BY DEF Answer
<1>3. /\ call[c].id \in Nat /\ call[c].explicit \in BOOLEAN /\ call[c] \in Local
      /\ Idle \in Local /\ Idle.kind = "none" /\ Idle.pc = "idle" /\ Idle.id = 0
  BY <1>1, CallType, IdleType DEF Idle
<1>4. /\ call' \in [Calls -> Local]
      /\ call'[c] = Idle /\ \A d \in Calls : d # c => call'[d] = call[d]
  BY <1>1, <1>2, <1>3, PutCallType
<1> DEFINE a == [id |-> call[c].id, explicit |-> call[c].explicit]
<1>5. \/ UNCHANGED <<head, acked>>
      \/ /\ head' = call[c].id /\ acked' = acked \cup {a}
         /\ call[c].kind = "history" /\ call[c].id = call[c].n
  <2>1. CASE call[c].kind = "vault"
    BY <2>1 DEF Answer
  <2>2. CASE call[c].kind # "vault"
    <3>1. call[c].kind = "history"
      BY <1>1, <1>2, <1>3, <2>2 DEF Kinds, Local
    <3>2. CASE call[c].id = 0 \/ call[c].escaped
      BY <2>2, <3>2 DEF Answer, HeadAfter
    <3>3. CASE ~(call[c].id = 0 \/ call[c].escaped)
      <4>1. call[c].id = call[c].n
        BY <1>1, <3>3 DEF OneChoice
      <4>2. head' = call[c].id /\ acked' = acked \cup {a}
        BY <2>2, <3>3 DEF Answer, HeadAfter
      <4>3. QED
        BY <3>1, <4>1, <4>2
    <3>4. QED
      BY <3>2, <3>3
  <2>3. QED
    BY <2>1, <2>2
<1>6. a \in [id : Nat, explicit : BOOLEAN] /\ a.id = call[c].id /\ a.explicit = call[c].explicit
  BY <1>3
<1> HIDE DEF a
<1>7. TypeOK'
  <2>1. head' \in Nat /\ acked' \subseteq [id : Nat, explicit : BOOLEAN]
    BY <1>1, <1>3, <1>5, <1>6 DEF TypeOK
  <2>2. QED
    BY <1>1, <1>2, <1>4, <2>1 DEF TypeOK, pageVars, hubVars
<1>8. AckedKeeps
  <2>1. call[c].kind = "history" => Claims(call[c].n, call[c].explicit)
    BY Claimed
  <2>2. QED
    BY <1>5, <1>6, <2>1 DEF AckedKeeps
<1>9. CallsKeep(TRUE) /\ NetKeeps(TRUE) /\ LogsGrow(TRUE)
  BY <1>2, <1>3, <1>4 DEF CallsKeep, NetKeeps, LogsGrow, hubVars
<1>10. head' \in Seen'
  <2>1. CASE UNCHANGED <<head, acked>>
    BY <1>1, <2>1 DEF FollowsSeen, Seen
  <2>2. CASE head' = call[c].id /\ acked' = acked \cup {a}
    BY <1>6, <2>2 DEF Seen
  <2>3. QED
    BY <1>5, <2>1, <2>2
<1>11. used <= used' /\ \A d \in Calls : call'[d].id \in {0, call'[d].n}
  BY <1>1, <1>2, <1>3, <1>4 DEF OneChoice
<1>12. OneChoice' /\ FollowsSeen' /\ Linked'
  BY <1>7, <1>8, <1>9, <1>10, <1>11, HistoryStep
<1>13. KeysFollow' /\ Kinds' /\ SealedRight'
  BY <1>1, <1>2, <1>3, <1>4 DEF KeysFollow, Kinds, SealedRight, pageVars, hubVars
<1>14. QED
  BY <1>7, <1>12, <1>13 DEF IInv

LEMMA InitIInv == Init => IInv
<1>1. SUFFICES ASSUME Init PROVE IInv
  OBVIOUS
<1>2. /\ fif = None /\ keys = None /\ grant = None /\ current \in Hubs /\ head = 0
      /\ call = [c \in Calls |-> Idle] /\ net = {} /\ logs = [h \in Hubs |-> <<>>]
      /\ vault = [h \in Hubs |-> {}] /\ acked = {} /\ overtaken = FALSE /\ used = 0
      /\ left \in Workloads
  BY <1>1 DEF Init
<1>3. Idle \in Local /\ Idle.kind = "none" /\ Idle.pc = "idle" /\ Idle.id = 0
  BY IdleType DEF Idle
<1>4. TypeOK
  <2>1. call \in [Calls -> Local] /\ logs \in [Hubs -> Seq(Entry)] /\ vault \in [Hubs -> SUBSET Sealed]
    BY <1>2, <1>3
  <2>2. QED
    BY <1>2, <2>1, ClientAssumption DEF TypeOK, Someone
<1>5. \A h \in Hubs : DOMAIN logs[h] = {}
  BY <1>2
<1>6. KeysFollow /\ Kinds /\ SealedRight
  BY <1>2, <1>3 DEF KeysFollow, Kinds, SealedRight
<1>7. OneChoice
  BY <1>2, <1>3 DEF OneChoice, Claims
<1>8. FollowsSeen /\ Linked
  BY <1>2, <1>5 DEF FollowsSeen, Linked, Seen
<1>9. QED
  BY <1>4, <1>6, <1>7, <1>8 DEF IInv

LEMMA NextIInv == IInv /\ [Next]_vars => IInv'
<1>1. SUFFICES ASSUME IInv, [Next]_vars PROVE IInv'
  OBVIOUS
<1>2. CASE UNCHANGED vars
  <2>1. UNCHANGED <<fif, keys, grant, current, head, call, net, logs, vault, acked, overtaken, used, left>>
    BY <1>2 DEF vars
  <2>2. QED
    BY <1>1, <2>1 DEF IInv, TypeOK, KeysFollow, Kinds, SealedRight, OneChoice, FollowsSeen, Linked, Claims, Seen
<1>3. CASE (\E i \in Identities : unlockFIF(i) \/ useGrant(i)) \/ lock \/ (\E h \in Hubs : switch(h))
  BY <1>1, <1>3, TurnStep
<1>4. CASE \E h \in Hubs : OtherAppends(h)
  BY <1>1, <1>4, OthersStep
<1>5. CASE \E c \in Calls : VaultAppend(c) \/ getKey(c) \/ VaultSend(c)
  BY <1>1, <1>5, VaultAppendStep, GetKeyStep, VaultSendStep
<1>6. CASE \E c \in Calls : HistoryAppend(c) \/ Resend(c) \/ GiveUp(c) \/ Timeout(c) \/ Answer(c)
  BY <1>1, <1>6, HistoryAppendStep, ResendStep, EndStep, AnswerStep
<1>7. CASE \E m \in net : HubRefuses(m) \/ HubStores(m) \/ HubAppends(m)
  BY <1>1, <1>7, RefusesStep, StoresStep, AppendsStep
<1>8. QED
  BY <1>1, <1>2, <1>3, <1>4, <1>5, <1>6, <1>7 DEF Next

-----------------------------------------------------------------------------
(* The theorems.                                                           *)

\* The inductive invariant holds between any two awaits of the page, whatever
\* is lost, repeated or answered late.
THEOREM Invariance == Spec => []IInv
  BY InitIInv, NextIInv, PTL DEF Spec

\* The variables of the page, the requests and the logs are well typed.
THEOREM TypeCorrect == Spec => []TypeOK
<1>1. IInv => TypeOK
  BY DEF IInv
<1>2. QED
  BY <1>1, Invariance, PTL

\* vault.append seals for the identity that was unlocked when it was called,
\* however often the page is locked, unlocked for another or switched to
\* another hub between its awaits - but for the excuses the property names.
THEOREM OwnOpen == Spec => []OwnEventsOpen
<1>1. IInv => OwnEventsOpen
  <2>1. SUFFICES ASSUME IInv, NEW h \in Hubs, NEW e \in vault[h]
                 PROVE  Opens(e, e.asked) \/ e.excused \/ e.clock # Sorted
    BY DEF OwnEventsOpen
  <2>2. Own(e)
    BY <2>1 DEF IInv, SealedRight
  <2>3. QED
    BY <2>2 DEF Own, Opens
<1>2. QED
  BY <1>1, Invariance, PTL

\* history.append builds on events the page has seen, although the cached head
\* is one for all hubs and is not refreshed after conflicts and lost answers.
THEOREM SeenBefore == Spec => []NothingUnseenBefore
<1>1. IInv => NothingUnseenBefore
  <2>1. SUFFICES ASSUME IInv, NEW h \in Hubs, NEW i \in 2 .. Len(logs[h]),
                        [id |-> logs[h][i].id, explicit |-> FALSE] \in acked
                 PROVE  \E e \in acked : e.id = logs[h][i - 1].id
    BY DEF NothingUnseenBefore
  <2>2. logs[h] \in Seq(Entry) /\ used \in Nat
    BY <2>1 DEF IInv, TypeOK
  <2>3. i \in DOMAIN logs[h] /\ i - 1 \in DOMAIN logs[h] /\ i > 1
    BY <2>2
  <2>4. Claims(logs[h][i].id, FALSE)
    BY <2>1 DEF Claims
  <2>5. logs[h][i].prev \in Seen
    BY <2>1, <2>3, <2>4 DEF IInv, FollowsSeen
  <2>6. logs[h][i].prev = logs[h][i - 1].id /\ logs[h][i - 1].id \in 1..used
    BY <2>1, <2>3 DEF IInv, Linked
  <2>7. QED
    BY <2>2, <2>5, <2>6 DEF Seen
<1>2. QED
  BY <1>1, Invariance, PTL

=============================================================================
