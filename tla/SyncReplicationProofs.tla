------------------------ MODULE SyncReplicationProofs ------------------------
(***************************************************************************)
(* Theorems about SyncReplication, for every set of hubs, relays, streams  *)
(* and events, every page size and any number of faults.                   *)
(***************************************************************************)
EXTENDS SyncReplication, WellFoundedInduction, FiniteSetTheorems, TLAPS

-----------------------------------------------------------------------------
(* Induction over the natural numbers, with a set in the place of the      *)
(* predicate: a least number outside the set would have a predecessor in   *)
(* it.                                                                     *)

LEMMA NatSetInduction ==
    ASSUME NEW S, 0 \in S, \A n \in Nat : n \in S => n + 1 \in S
    PROVE  Nat \subseteq S
<1> DEFINE R == OpToRel(<, Nat)
<1> DEFINE T == Nat \ S
<1>1. IsWellFoundedOn(R, Nat)
  BY NatLessThanWellFounded
<1>2. \A x, y \in Nat : <<x, y>> \in R <=> x < y
  BY DEF OpToRel
<1>3. SUFFICES ASSUME T # {} PROVE FALSE
  OBVIOUS
<1>4. T \subseteq Nat
  OBVIOUS
<1>5. PICK x \in T : \A y \in T : ~ (<<y, x>> \in R)
  <2> HIDE DEF R, T
  <2> QED
    BY <1>1, <1>3, <1>4, WFMin
<1> HIDE DEF R
<1>6. x \in Nat /\ x # 0
  OBVIOUS
<1>7. x - 1 \in Nat /\ x - 1 < x /\ (x - 1) + 1 = x
  BY <1>6
<1>8. x - 1 \notin T
  BY <1>2, <1>5, <1>6, <1>7
<1>9. QED
  BY <1>6, <1>7, <1>8

-----------------------------------------------------------------------------
(* Reading a stream out of the log.                                        *)

\* f lists, for every n, the rows of stream s among the first n.
Filters(f, rows, s) ==
    f = [n \in 0..Len(rows) |->
            IF n = 0 THEN <<>>
            ELSE IF rows[n].stream = s THEN Append(f[n - 1], rows[n]) ELSE f[n - 1]]

FilterExists(rows, s, n) ==
    \E f : f = [k \in 0..n |->
            IF k = 0 THEN <<>>
            ELSE IF rows[k].stream = s THEN Append(f[k - 1], rows[k]) ELSE f[k - 1]]

LEMMA FilterStarts ==
    ASSUME NEW rows, NEW s
    PROVE  FilterExists(rows, s, 0)
<1> DEFINE f == [k \in 0..0 |-> <<>>]
<1>1. f = [k \in 0..0 |->
            IF k = 0 THEN <<>>
            ELSE IF rows[k].stream = s THEN Append(f[k - 1], rows[k]) ELSE f[k - 1]]
  OBVIOUS
<1>2. QED
  BY <1>1 DEF FilterExists

LEMMA FilterGrows ==
    ASSUME NEW rows, NEW s, NEW n \in Nat, FilterExists(rows, s, n)
    PROVE  FilterExists(rows, s, n + 1)
<1>1. PICK f : f = [k \in 0..n |->
            IF k = 0 THEN <<>>
            ELSE IF rows[k].stream = s THEN Append(f[k - 1], rows[k]) ELSE f[k - 1]]
  BY DEF FilterExists
<1> DEFINE last == IF rows[n + 1].stream = s THEN Append(f[n], rows[n + 1]) ELSE f[n]
<1> DEFINE g == [k \in 0..(n + 1) |-> IF k = n + 1 THEN last ELSE f[k]]
<1> HIDE DEF last
<1>2. \A k \in 0..n : g[k] = f[k]
  OBVIOUS
<1>3. ASSUME NEW k \in 0..(n + 1)
      PROVE  g[k] = IF k = 0 THEN <<>>
                    ELSE IF rows[k].stream = s THEN Append(g[k - 1], rows[k]) ELSE g[k - 1]
  <2>1. CASE k = n + 1
    <3>1. g[k] = last /\ k - 1 = n /\ k # 0 /\ g[n] = f[n]
      BY <2>1, <1>2
    <3> HIDE DEF g
    <3>2. QED
      BY <2>1, <3>1 DEF last
  <2>2. CASE k = 0
    <3>1. g[k] = f[k]
      BY <2>2, <1>2
    <3>2. f[k] = <<>>
      <4> HIDE DEF g
      <4> QED BY <2>2, <1>1
    <3>3. QED
      BY <3>1, <3>2, <2>2
  <2>3. CASE k \in 1..n
    <3>1. g[k] = f[k] /\ g[k - 1] = f[k - 1] /\ k # 0 /\ k \in 0..n
      BY <2>3, <1>2
    <3> HIDE DEF g
    <3>2. f[k] = IF rows[k].stream = s THEN Append(f[k - 1], rows[k]) ELSE f[k - 1]
      BY <1>1, <3>1
    <3>3. QED
      BY <3>1, <3>2
  <2>4. QED
    BY <2>1, <2>2, <2>3
<1>4. g = [k \in 0..(n + 1) |->
            IF k = 0 THEN <<>>
            ELSE IF rows[k].stream = s THEN Append(g[k - 1], rows[k]) ELSE g[k - 1]]
  <2>1. g = [k \in 0..(n + 1) |-> g[k]]
    OBVIOUS
  <2> HIDE DEF g
  <2>2. QED
    BY <1>3, <2>1
<1>5. QED
  <2> HIDE DEF g
  <2> QED BY <1>4 DEF FilterExists

LEMMA FilterOfAll ==
    ASSUME NEW rows, NEW s
    PROVE  \A n \in Nat : FilterExists(rows, s, n)
<1> DEFINE S == {n \in Nat : FilterExists(rows, s, n)}
<1>1. 0 \in S
  BY FilterStarts
<1>2. \A n \in Nat : n \in S => n + 1 \in S
  BY FilterGrows
<1>3. Nat \subseteq S
  <2> HIDE DEF S
  <2> QED BY <1>1, <1>2, NatSetInduction
<1>4. QED
  BY <1>3

\* The definition of StreamOf in terms of the function it chooses.
LEMMA StreamOfFilters ==
    ASSUME NEW rows, Len(rows) \in Nat, NEW s
    PROVE  \E f : Filters(f, rows, s) /\ StreamOf(rows, s) = f[Len(rows)]
<1>1. \E f : Filters(f, rows, s)
  <2>1. FilterExists(rows, s, Len(rows))
    BY FilterOfAll
  <2>2. QED
    BY <2>1 DEF FilterExists, Filters
<1> DEFINE f == CHOOSE g : Filters(g, rows, s)
<1>2. Filters(f, rows, s)
  BY <1>1
<1>3. StreamOf(rows, s) = f[Len(rows)]
  BY DEF StreamOf, Filters
<1>4. QED
  BY <1>2, <1>3

\* Two such functions agree, also when one of the sequences is longer.
LEMMA FilterUnique ==
    ASSUME NEW rows, Len(rows) \in Nat, NEW more, Len(more) \in Nat, Len(rows) <= Len(more),
           \A i \in 1..Len(rows) : more[i] = rows[i],
           NEW s, NEW f, Filters(f, rows, s), NEW g, Filters(g, more, s)
    PROVE  \A n \in 0..Len(rows) : f[n] = g[n]
<1> DEFINE S == {n \in Nat : n <= Len(rows) => f[n] = g[n]}
<1>1. 0 \in S
  <2>1. f[0] = <<>> /\ g[0] = <<>>
    BY DEF Filters
  <2>2. QED
    BY <2>1
<1>2. ASSUME NEW n \in Nat, n \in S
      PROVE  n + 1 \in S
  <2>1. SUFFICES ASSUME n + 1 <= Len(rows) PROVE f[n + 1] = g[n + 1]
    OBVIOUS
  <2>2. f[n] = g[n]
    BY <1>2, <2>1
  <2>3. n + 1 \in 0..Len(rows) /\ n + 1 \in 0..Len(more) /\ n + 1 # 0 /\ (n + 1) - 1 = n
    BY <2>1
  <2>4. f[n + 1] = IF rows[n + 1].stream = s THEN Append(f[n], rows[n + 1]) ELSE f[n]
    BY <2>3 DEF Filters
  <2>5. g[n + 1] = IF more[n + 1].stream = s THEN Append(g[n], more[n + 1]) ELSE g[n]
    BY <2>3 DEF Filters
  <2>6. more[n + 1] = rows[n + 1]
    BY <2>1
  <2>7. QED
    BY <2>2, <2>4, <2>5, <2>6
<1>3. Nat \subseteq S
  <2> HIDE DEF S
  <2> QED BY <1>1, <1>2, NatSetInduction
<1>4. QED
  BY <1>3

\* A row that is appended to the log is appended to its stream and to no other.
LEMMA StreamOfAppend ==
    ASSUME NEW T, NEW rows \in Seq(T), NEW row \in T, NEW s
    PROVE  StreamOf(Append(rows, row), s) =
               IF row.stream = s THEN Append(StreamOf(rows, s), row) ELSE StreamOf(rows, s)
<1> DEFINE more == Append(rows, row)
<1> DEFINE n == Len(rows)
<1>1. /\ n \in Nat /\ Len(more) = n + 1 /\ more[n + 1] = row
      /\ \A i \in 1..n : more[i] = rows[i]
  OBVIOUS
<1> HIDE DEF more
<1>2. PICK f : Filters(f, rows, s) /\ StreamOf(rows, s) = f[n]
  BY <1>1, StreamOfFilters
<1>3. PICK g : Filters(g, more, s) /\ StreamOf(more, s) = g[n + 1]
  BY <1>1, StreamOfFilters
<1>4. f[n] = g[n]
  BY <1>1, <1>2, <1>3, FilterUnique
<1>5. n + 1 \in 0..Len(more) /\ n + 1 # 0 /\ (n + 1) - 1 = n
  BY <1>1
<1>6. g[n + 1] = IF more[n + 1].stream = s THEN Append(g[n], more[n + 1]) ELSE g[n]
  BY <1>3, <1>5 DEF Filters
<1>7. QED
  BY <1>1, <1>2, <1>3, <1>4, <1>6 DEF more

LEMMA StreamOfEmpty ==
    ASSUME NEW s
    PROVE  StreamOf(<<>>, s) = <<>>
<1>1. Len(<<>>) = 0
  OBVIOUS
<1>2. PICK f : Filters(f, <<>>, s) /\ StreamOf(<<>>, s) = f[0]
  BY <1>1, StreamOfFilters
<1>3. QED
  BY <1>1, <1>2 DEF Filters

\* A stream is a sequence of rows of the log.
LEMMA StreamOfType ==
    ASSUME NEW T, NEW rows \in Seq(T), NEW s
    PROVE  /\ StreamOf(rows, s) \in Seq(T)
           /\ \A k \in DOMAIN StreamOf(rows, s) :
                 \E i \in DOMAIN rows : StreamOf(rows, s)[k] = rows[i] /\ rows[i].stream = s
<1>1. PICK f : Filters(f, rows, s) /\ StreamOf(rows, s) = f[Len(rows)]
  BY StreamOfFilters
<1> DEFINE Q == {x \in T : \E i \in DOMAIN rows : x = rows[i] /\ rows[i].stream = s}
<1> DEFINE S == {n \in Nat : n <= Len(rows) => f[n] \in Seq(Q)}
<1>2. 0 \in S
  <2>1. f[0] = <<>>
    BY <1>1 DEF Filters
  <2>2. f[0] \in Seq(Q)
    <3> HIDE DEF Q
    <3> QED BY <2>1
  <2>3. QED
    BY <2>2
<1>3. ASSUME NEW n \in Nat, n \in S
      PROVE  n + 1 \in S
  <2>1. SUFFICES ASSUME n + 1 <= Len(rows) PROVE f[n + 1] \in Seq(Q)
    OBVIOUS
  <2>2. f[n] \in Seq(Q)
    BY <1>3, <2>1
  <2>3. n + 1 \in 0..Len(rows) /\ n + 1 # 0 /\ (n + 1) - 1 = n /\ n + 1 \in DOMAIN rows
    BY <2>1
  <2>4. f[n + 1] = IF rows[n + 1].stream = s THEN Append(f[n], rows[n + 1]) ELSE f[n]
    BY <1>1, <2>3 DEF Filters
  <2>5. rows[n + 1].stream = s => rows[n + 1] \in Q
    BY <2>3
  <2> HIDE DEF Q
  <2>6. QED
    BY <2>2, <2>4, <2>5
<1>4. Nat \subseteq S
  <2> HIDE DEF S
  <2> QED BY <1>2, <1>3, NatSetInduction
<1>5. StreamOf(rows, s) \in Seq(Q)
  <2> HIDE DEF Q
  <2> QED BY <1>1, <1>4
<1>6. Q \subseteq T
  OBVIOUS
<1>7. \A k \in DOMAIN StreamOf(rows, s) : StreamOf(rows, s)[k] \in Q
  <2> HIDE DEF Q
  <2> QED BY <1>5
<1>8. StreamOf(rows, s) \in Seq(T)
  <2> HIDE DEF Q
  <2> QED BY <1>5, <1>6
<1>9. QED
  BY <1>7, <1>8

-----------------------------------------------------------------------------
(* Pages.                                                                  *)

Distinct(rows) == \A i, j \in DOMAIN rows : rows[i].id = rows[j].id => i = j

\* The rows after position k, at most limit of them.
IsPageAfter(page, rows, k) ==
    /\ k + Len(page) <= Len(rows)
    /\ \A i \in 1..Len(page) : page[i] = rows[k + i]

LEMMA MinOfTwo ==
    ASSUME NEW m \in Nat, NEW n \in Nat
    PROVE  Min({m, n}) = IF m <= n THEN m ELSE n
<1> DEFINE x == IF m <= n THEN m ELSE n
<1>1. x \in {m, n} /\ \A y \in {m, n} : x <= y
  OBVIOUS
<1>2. \A z \in {m, n} : (\A y \in {m, n} : z <= y) => z = x
  OBVIOUS
<1> HIDE DEF x
<1>3. Min({m, n}) = x
  BY <1>1, <1>2 DEF Min
<1>4. QED
  BY <1>3 DEF x

LEMMA PageAfter ==
    ASSUME NEW T, NEW rows \in Seq(T), NEW k \in Nat, NEW limit \in Nat \ {0}
    PROVE  LET page == Page(SubSeq(rows, k + 1, Len(rows)), limit)
           IN  /\ page \in Seq(T)
               /\ k < Len(rows) => page # <<>>
               /\ page # <<>> => IsPageAfter(page, rows, k)
               /\ k <= Len(rows) => IsPageAfter(page, rows, k)
<1> DEFINE tail == SubSeq(rows, k + 1, Len(rows))
<1> DEFINE m == Min({limit, Len(tail)})
<1>1. /\ tail \in Seq(T)
      /\ Len(tail) = IF k < Len(rows) THEN Len(rows) - k ELSE 0
      /\ \A i \in 1..Len(tail) : tail[i] = rows[k + i]
  OBVIOUS
<1> HIDE DEF tail
<1>2. m = IF limit <= Len(tail) THEN limit ELSE Len(tail)
  <2>1. Len(tail) \in Nat /\ limit \in Nat
    BY <1>1
  <2>2. QED
    BY <2>1, MinOfTwo
<1> HIDE DEF m
<1> DEFINE page == SubSeq(tail, 1, m)
<1>3. m \in 0..Len(tail)
  BY <1>1, <1>2
<1>4. /\ page \in Seq(T)
      /\ Len(page) = m
      /\ \A i \in 1..m : page[i] = tail[i]
  BY <1>1, <1>3
<1>5. page = Page(tail, limit)
  BY DEF Page, m
<1>6. k < Len(rows) => Len(page) > 0
  BY <1>1, <1>2, <1>4
<1>7. k <= Len(rows) => IsPageAfter(page, rows, k)
  BY <1>1, <1>3, <1>4 DEF IsPageAfter
<1>8. page # <<>> => Len(page) > 0
  <2> HIDE DEF page
  <2> QED BY <1>4
<1>9. Len(page) > 0 => k < Len(rows)
  BY <1>1, <1>3, <1>4
<1> HIDE DEF page
<1>10. page = <<>> => Len(page) = 0
  OBVIOUS
<1>11. k \in Nat /\ Len(rows) \in Nat
  OBVIOUS
<1>12. QED
  BY <1>4, <1>5, <1>6, <1>7, <1>8, <1>9, <1>10, <1>11 DEF tail

\* A pulled page, and its cursor.
LEMMA PullFacts ==
    ASSUME NEW rows \in Seq(Row), Distinct(rows), NEW since \in Nat,
           PullPage(rows, since, Limit) # <<>>
    PROVE  LET page == PullPage(rows, since, Limit)
           IN  /\ page \in Seq(Row)
               /\ IsPageAfter(page, rows, since)
               /\ NextCursor(rows, since, Limit) = since + Len(page)
<1> DEFINE page == PullPage(rows, since, Limit)
<1> DEFINE k == since + Len(page)
<1>1. page \in Seq(Row) /\ IsPageAfter(page, rows, since)
  BY PageAfter, SyncAssumption DEF PullPage
<1> HIDE DEF page
<1>2. page # <<>>
  BY DEF page
<1>3. Len(page) \in Nat \ {0}
  BY <1>1, <1>2
<1>4. k \in DOMAIN rows /\ Last(page) = rows[k]
  BY <1>1, <1>3 DEF IsPageAfter, Last
<1>5. \A i \in DOMAIN rows : rows[i].id = rows[k].id => i = k
  BY <1>4 DEF Distinct
<1> HIDE DEF k
<1>6. RowidOf(rows, Last(page).id) = k
  BY <1>4, <1>5 DEF RowidOf
<1>7. NextCursor(rows, since, Limit) = k
  BY <1>2, <1>6 DEF NextCursor, page
<1>8. QED
  BY <1>1, <1>7 DEF page, k

\* What a reader has of a stream: nothing, or the id at position k.
SinceAt(rows, k) == IF k = 0 THEN {} ELSE {rows[k].id}

LEMMA ReadAfter ==
    ASSUME NEW log0 \in Seq(Row), NEW s, Distinct(StreamOf(log0, s)),
           NEW k \in 0..Len(StreamOf(log0, s))
    PROVE  IsPageAfter(ReadStream(log0, s, SinceAt(StreamOf(log0, s), k), Limit), StreamOf(log0, s), k)
<1> DEFINE rows == StreamOf(log0, s)
<1> DEFINE since == SinceAt(rows, k)
<1> DEFINE seq == IF since = {} THEN 0 ELSE RowidOf(rows, CHOOSE e \in since : TRUE)
<1>1. rows \in Seq(Row)
  BY StreamOfType
<1>2. Distinct(rows) /\ k \in 0..Len(rows)
  OBVIOUS
<1> HIDE DEF rows
<1>3. seq = k
  <2>1. CASE k = 0
    BY <2>1 DEF SinceAt
  <2>2. CASE k # 0
    <3>1. since = {rows[k].id} /\ k \in DOMAIN rows
      BY <1>1, <1>2, <2>2 DEF SinceAt
    <3>2. (CHOOSE e \in since : TRUE) = rows[k].id
      BY <3>1
    <3>3. \A i \in DOMAIN rows : rows[i].id = rows[k].id => i = k
      BY <1>2, <3>1 DEF Distinct
    <3>4. RowidOf(rows, rows[k].id) = k
      BY <3>1, <3>3 DEF RowidOf
    <3>5. QED
      BY <3>1, <3>2, <3>4
  <2>3. QED
    BY <2>1, <2>2
<1>4. ReadStream(log0, s, since, Limit) = Page(SubSeq(rows, seq + 1, Len(rows)), Limit)
  BY DEF ReadStream, rows
<1> HIDE DEF seq
<1>5. IsPageAfter(Page(SubSeq(rows, k + 1, Len(rows)), Limit), rows, k)
  BY <1>1, <1>2, PageAfter, SyncAssumption
<1>6. QED
  BY <1>3, <1>4, <1>5 DEF rows

\* Whatever a reader has, it receives a sequence of rows.
LEMMA ReadType ==
    ASSUME NEW log0 \in Seq(Row), NEW s, NEW since, SinceKnown(log0, s, since)
    PROVE  ReadStream(log0, s, since, Limit) \in Seq(Row)
<1> DEFINE rows == StreamOf(log0, s)
<1> DEFINE seq == IF since = {} THEN 0 ELSE RowidOf(rows, CHOOSE e \in since : TRUE)
<1>1. rows \in Seq(Row)
  BY StreamOfType
<1>2. since \subseteq IdsOf(rows)
  BY DEF SinceKnown
<1> HIDE DEF rows
<1>3. seq \in Nat
  <2>1. CASE since = {}
    BY <2>1
  <2>2. CASE since # {}
    <3>1. PICK e : e = (CHOOSE x \in since : TRUE) /\ e \in since
      BY <2>2
    <3>2. \E i \in DOMAIN rows : rows[i].id = e
      BY <1>2, <3>1 DEF IdsOf
    <3>3. RowidOf(rows, e) \in DOMAIN rows
      BY <3>2 DEF RowidOf
    <3>4. RowidOf(rows, e) \in Nat
      BY <3>3, <1>1
    <3>5. QED
      BY <3>1, <3>4, <2>2
  <2>3. QED
    BY <2>1, <2>2
<1>4. ReadStream(log0, s, since, Limit) = Page(SubSeq(rows, seq + 1, Len(rows)), Limit)
  BY DEF ReadStream, rows
<1> HIDE DEF seq
<1>5. Page(SubSeq(rows, seq + 1, Len(rows)), Limit) \in Seq(Row)
  BY <1>1, <1>3, PageAfter, SyncAssumption
<1>6. QED
  BY <1>4, <1>5

-----------------------------------------------------------------------------
(* The inductive invariant.                                                *)

\* A stored row is an appended event.  A history row has the text its hash was
\* computed over; any other has no hash.
FromEvent(row) ==
    \E e \in Events \ pending :
        /\ row.id = e.id /\ row.by = e.by /\ row.stream = e.stream
        /\ IF e.stream \in HistoryStreams THEN row.text = e.text /\ row.hash = {e.text}
                                          ELSE row.hash = {}

RowsGenuine == \A h \in Hubs : \A i \in DOMAIN log[h] : FromEvent(log[h][i])

\* Clients of a hub append in the order of the ids.
PendingLater ==
    \A h \in Hubs : \A i \in DOMAIN log[h] : \A f \in pending :
        log[h][i].by = f.by => log[h][i].id < f.id

\* What a pull makes of a text, and the events every push refuses for it.
WireText(t) == <<IF t[1] = "spaced" THEN "compact" ELSE t[1], "list">>
Refused     == {e.id : e \in {f \in Events : f.stream \in HistoryStreams /\ f.text # WireText(f.text)}}

\* The position up to which the push of a relay has worked off its page.
Done(r) == relay[r].next - Len(relay[r].page)

\* The page a relay pushes is the rest of a page of its source.
PagesPlaced ==
    \A r \in Relays :
        /\ ~relay[r].busy => relay[r].page = <<>> /\ relay[r].errors = {}
        /\ relay[r].busy =>
              /\ relay[r].next <= Len(log[r[1]])
              /\ Done(r) \in Nat
              /\ \A i \in 1..Len(relay[r].page) :
                    relay[r].page[i] = Wire(log[r[1]][Done(r) + i])

\* An error names an event whose ingest failed or whose hash is refused.
ErrorsExplained ==
    /\ reported \subseteq failed \cup Refused
    /\ \A r \in Relays : relay[r].errors \subseteq failed \cup Refused

\* NothingSilentlySkipped, and the same of the page being pushed.
CursorsInLog == \A r \in Relays \ stale : relay[r].cursor <= Len(log[r[1]])

PushedSoFar ==
    \A r \in Relays \ stale : relay[r].busy =>
        \A i \in 1..Done(r) :
            log[r[1]][i].id \in IdsOf(log[r[2]]) \cup reported \cup relay[r].errors

\* Without a restore a hub has the events its clients appended, and every hub
\* has with an event those the same hub appended before, unless they failed
\* or are refused.
Behind(h) ==
    \A i \in DOMAIN log[h] : \A e \in Events :
        e.by = log[h][i].by /\ e.id < log[h][i].id
            => e.id \in IdsOf(log[h]) \cup failed \cup Refused

Unrestored ==
    restored = {} =>
        /\ stale = {}
        /\ \A e \in Events \ pending : e.id \in IdsOf(log[e.by])
        /\ \A h \in Hubs : Behind(h)

\* The subscriber stands at one position of its stream, with or without a
\* connection.
SubRows == StreamOf(log[SubHub], SubStream)

Following ==
    SubHub \notin restored =>
        /\ Distinct(SubRows)
        /\ Len(got) <= Len(SubRows)
        /\ \A i \in 1..Len(got) : got[i] = SubRows[i].id
        /\ \A c \in conn : c.last = SinceAt(SubRows, Len(got))

IInv ==
    /\ TypeOK
    /\ RowsGenuine
    /\ PendingLater
    /\ PagesPlaced
    /\ ErrorsExplained
    /\ CursorsInLog
    /\ PushedSoFar
    /\ NothingSilentlySkipped
    /\ Unrestored
    /\ OrderPreserved
    /\ Following

-----------------------------------------------------------------------------
(* What the steps have in common.                                          *)

LEMMA RelayHubs ==
    ASSUME NEW r \in Relays
    PROVE  r[1] \in Hubs /\ r[2] \in Hubs
BY SyncAssumption

\* The wire keeps everything of a row but its text.
LEMMA WireFacts ==
    ASSUME NEW row \in Row
    PROVE  /\ Wire(row) \in Row
           /\ Wire(row).id = row.id /\ Wire(row).by = row.by
           /\ Wire(row).stream = row.stream /\ Wire(row).hash = row.hash
           /\ Wire(row).text = WireText(row.text)
<1>1. row.text \in AnyText
  BY DEF Row
<1>2. WireText(row.text) \in AnyText
  BY <1>1 DEF WireText, AnyText
<1>3. Wire(row) = [row EXCEPT !.text = WireText(row.text)]
  BY DEF Wire, WireText
<1> HIDE DEF Wire
<1>4. QED
  BY <1>2, <1>3 DEF Row

\* Ids name events.
LEMMA EventIds ==
    /\ \A e \in Events : e.id \in Nat /\ e.id \in Ids /\ e.by \in Hubs /\ e.stream \in Streams /\ e.text \in AnyText
    /\ \A e, f \in Events : e.id = f.id => e = f
BY SyncAssumption DEF Ids

LEMMA RowIds ==
    ASSUME NEW row \in Row
    PROVE  row.id \in Nat /\ row.id \in Ids
BY EventIds DEF Row, Ids

\* Steps of a relay that leave the logs alone.
LEMMA RelayFrame ==
    ASSUME IInv, UNCHANGED <<hubVars, subVars>>, failed \subseteq failed', stale' \subseteq stale
    PROVE  RowsGenuine' /\ PendingLater' /\ Unrestored' /\ OrderPreserved' /\ Following'
<1>1. log' = log /\ pending' = pending /\ restored' = restored /\ conn' = conn /\ got' = got
  BY DEF hubVars, subVars
<1>2. RowsGenuine'
  BY <1>1 DEF IInv, RowsGenuine, FromEvent
<1>3. PendingLater'
  BY <1>1 DEF IInv, PendingLater
<1>4. Unrestored'
  <2>1. \A h \in Hubs : Behind(h) => Behind(h)'
    BY <1>1 DEF Behind
  <2>2. QED
    BY <1>1, <2>1 DEF IInv, Unrestored
<1>5. OrderPreserved'
  BY <1>1 DEF IInv, OrderPreserved
<1>6. Following'
  BY <1>1 DEF IInv, Following, SubRows
<1>7. QED
  BY <1>2, <1>3, <1>4, <1>5, <1>6

\* Steps of the subscriber leave everything else alone.
LEMMA SubscriberFrame ==
    ASSUME IInv, UNCHANGED <<relay, reported, failed, stale, hubVars>>
    PROVE  /\ RowsGenuine' /\ PendingLater' /\ PagesPlaced' /\ ErrorsExplained' /\ CursorsInLog'
           /\ PushedSoFar' /\ NothingSilentlySkipped' /\ Unrestored' /\ OrderPreserved'
<1>1. log' = log /\ pending' = pending /\ restored' = restored
  BY DEF hubVars
<1>2. RowsGenuine' /\ PendingLater'
  BY <1>1 DEF IInv, RowsGenuine, FromEvent, PendingLater
<1>3. PagesPlaced'
  BY <1>1 DEF IInv, PagesPlaced, Done
<1>4. ErrorsExplained' /\ CursorsInLog' /\ NothingSilentlySkipped'
  BY <1>1 DEF IInv, ErrorsExplained, CursorsInLog, NothingSilentlySkipped
<1>5. PushedSoFar'
  BY <1>1 DEF IInv, PushedSoFar, Done
<1>6. Unrestored'
  BY <1>1 DEF IInv, Unrestored, Behind
<1>7. OrderPreserved'
  BY <1>1 DEF IInv, OrderPreserved
<1>8. QED
  BY <1>2, <1>3, <1>4, <1>5, <1>6, <1>7

\* The type of everything a relay's step leaves alone.
LEMMA RelayTypes ==
    ASSUME IInv, UNCHANGED <<hubVars, subVars>>, faults' \in 0..MaxFaults,
           relay' \in [Relays -> RelayState], reported' \subseteq Ids, failed' \subseteq Ids, stale' \subseteq Relays
    PROVE  TypeOK'
BY DEF IInv, TypeOK, hubVars, subVars

LEMMA FaultType ==
    ASSUME TypeOK, Fault
    PROVE  faults' \in 0..MaxFaults
BY SyncAssumption DEF TypeOK, Fault

-----------------------------------------------------------------------------
(* The steps of a relay.                                                   *)

LEMMA RelayTyped ==
    ASSUME IInv, NEW r \in Relays
    PROVE  /\ relay \in [Relays -> RelayState]
           /\ relay[r].cursor \in Nat /\ relay[r].next \in Nat /\ relay[r].page \in Seq(Row)
           /\ relay[r].errors \subseteq Ids /\ relay[r].busy \in BOOLEAN
           /\ log[r[1]] \in Seq(Row) /\ log[r[2]] \in Seq(Row)
           /\ Distinct(log[r[1]]) /\ Distinct(log[r[2]])
<1>1. relay \in [Relays -> RelayState] /\ log \in [Hubs -> Seq(Row)]
  BY DEF IInv, TypeOK
<1>2. relay[r] \in RelayState
  BY <1>1
<1>3. \A h \in Hubs : Distinct(log[h])
  BY DEF IInv, TypeOK, Distinct
<1>4. QED
  BY <1>1, <1>2, <1>3, RelayHubs DEF RelayState

LEMMA IdleType ==
    ASSUME NEW n \in Nat
    PROVE  /\ Idle(n) \in RelayState
           /\ Idle(n).cursor = n /\ Idle(n).page = <<>> /\ Idle(n).errors = {} /\ ~Idle(n).busy
BY DEF Idle, RelayState

\* A relay goes back to its cursor, or to one up to which it has followed.
LEMMA RelayIdle ==
    ASSUME IInv, NEW r \in Relays, NEW n \in Nat, relay' = [relay EXCEPT ![r] = Idle(n)],
           UNCHANGED <<hubVars, subVars>>, reported' \in {reported, reported \cup relay[r].errors},
           UNCHANGED failed, stale' \subseteq stale, faults' \in 0..MaxFaults,
           r \notin stale' =>
              /\ n <= Len(log[r[1]])
              /\ \A i \in 1..n : log[r[1]][i].id \in IdsOf(log[r[2]]) \cup reported',
           \A q \in Relays \ {r} : q \in stale => q \in stale'
    PROVE  IInv'
<1>1. /\ relay[r].errors \subseteq Ids
      /\ relay' \in [Relays -> RelayState]
      /\ relay'[r] = Idle(n)
      /\ \A q \in Relays \ {r} : relay'[q] = relay[q]
  BY RelayTyped, IdleType
<1>2. log' = log
  BY DEF hubVars
<1>3. reported' \subseteq Ids /\ failed' \subseteq Ids /\ stale' \subseteq Relays
  BY <1>1 DEF IInv, TypeOK
<1>4. TypeOK'
  BY <1>1, <1>3, RelayTypes
<1>5. RowsGenuine' /\ PendingLater' /\ Unrestored' /\ OrderPreserved' /\ Following'
  BY RelayFrame
<1>6. /\ relay'[r].page = <<>> /\ relay'[r].errors = {} /\ ~relay'[r].busy /\ relay'[r].cursor = n
  BY <1>1, IdleType
<1>7. PagesPlaced'
  <2>1. SUFFICES ASSUME NEW q \in Relays
                 PROVE  /\ ~relay'[q].busy => relay'[q].page = <<>> /\ relay'[q].errors = {}
                        /\ relay'[q].busy =>
                              /\ relay'[q].next <= Len(log'[q[1]])
                              /\ Done(q)' \in Nat
                              /\ \A i \in 1..Len(relay'[q].page) :
                                    relay'[q].page[i] = Wire(log'[q[1]][Done(q)' + i])
    BY DEF PagesPlaced
  <2>2. CASE q = r
    BY <1>6, <2>2
  <2>3. CASE q # r
    BY <1>1, <1>2, <2>3 DEF IInv, PagesPlaced, Done
  <2>4. QED
    BY <2>2, <2>3
<1>8. ErrorsExplained'
  BY <1>1, <1>6 DEF IInv, ErrorsExplained
<1>9. CursorsInLog' /\ NothingSilentlySkipped'
  <2>1. SUFFICES ASSUME NEW q \in Relays, q \notin stale'
                 PROVE  /\ relay'[q].cursor <= Len(log'[q[1]])
                        /\ \A i \in 1..relay'[q].cursor :
                              log'[q[1]][i].id \in IdsOf(log'[q[2]]) \cup reported'
    BY DEF CursorsInLog, NothingSilentlySkipped
  <2>2. CASE q = r
    BY <1>2, <1>6, <2>1, <2>2
  <2>3. CASE q # r
    BY <1>1, <1>2, <2>1, <2>3 DEF IInv, CursorsInLog, NothingSilentlySkipped
  <2>4. QED
    BY <2>2, <2>3
<1>10. PushedSoFar'
  <2>1. SUFFICES ASSUME NEW q \in Relays, q \notin stale', relay'[q].busy,
                        NEW i \in 1..Done(q)'
                 PROVE  log'[q[1]][i].id \in IdsOf(log'[q[2]]) \cup reported' \cup relay'[q].errors
    BY DEF PushedSoFar
  <2>2. q # r /\ q \notin stale
    BY <1>6, <2>1
  <2>3. relay'[q] = relay[q] /\ Done(q)' = Done(q)
    BY <1>1, <2>2 DEF Done
  <2>4. log[q[1]][i].id \in IdsOf(log[q[2]]) \cup reported \cup relay[q].errors
    BY <2>1, <2>2, <2>3 DEF IInv, PushedSoFar
  <2>5. QED
    BY <1>2, <2>3, <2>4
<1>11. QED
  BY <1>4, <1>5, <1>7, <1>8, <1>9, <1>10 DEF IInv

LEMMA AnsweredStep ==
    ASSUME IInv, NEW r \in Relays, PushAnswered(r)
    PROVE  IInv'
<1>1. relay[r].next \in Nat /\ faults' \in 0..MaxFaults
  BY RelayTyped DEF PushAnswered, IInv, TypeOK
<1>2. relay' = [relay EXCEPT ![r] = Idle(relay[r].next)]
  BY DEF PushAnswered
<1>3. Done(r) = relay[r].next /\ relay[r].next <= Len(log[r[1]])
  <2>1. Len(relay[r].page) = 0
    BY DEF PushAnswered
  <2>2. QED
    BY <1>1, <2>1 DEF Done, IInv, PagesPlaced, PushAnswered
<1>4. r \notin stale' => \A i \in 1..relay[r].next : log[r[1]][i].id \in IdsOf(log[r[2]]) \cup reported'
  BY <1>3 DEF IInv, PushedSoFar, PushAnswered
<1>5. QED
  BY <1>1, <1>2, <1>3, <1>4, RelayIdle DEF PushAnswered

LEMMA CutOffStep ==
    ASSUME IInv, NEW r \in Relays, PushCutOff(r)
    PROVE  IInv'
<1>1. relay[r].cursor \in Nat /\ faults' \in 0..MaxFaults
  BY RelayTyped, FaultType DEF PushCutOff, IInv
<1>2. relay' = [relay EXCEPT ![r] = Idle(relay[r].cursor)]
  BY DEF PushCutOff
<1>3. r \notin stale' =>
         /\ relay[r].cursor <= Len(log[r[1]])
         /\ \A i \in 1..relay[r].cursor : log[r[1]][i].id \in IdsOf(log[r[2]]) \cup reported'
  BY DEF IInv, CursorsInLog, NothingSilentlySkipped, PushCutOff
<1>4. QED
  BY <1>1, <1>2, <1>3, RelayIdle DEF PushCutOff

LEMMA RestartedStep ==
    ASSUME IInv, NEW r \in Relays, RelayRestarted(r)
    PROVE  IInv'
<1>1. 0 \in Nat /\ faults' \in 0..MaxFaults /\ log[r[1]] \in Seq(Row)
  BY RelayTyped DEF RelayRestarted, IInv, TypeOK
<1>2. relay' = [relay EXCEPT ![r] = Idle(0)]
  BY DEF RelayRestarted
<1>3. 0 <= Len(log[r[1]]) /\ 1..0 = {}
  BY <1>1
<1>4. stale' = stale \ {r}
  BY DEF RelayRestarted
<1>5. QED
  BY <1>1, <1>2, <1>3, <1>4, RelayIdle DEF RelayRestarted

LEMMA PullStep ==
    ASSUME IInv, NEW r \in Relays, handleSyncPull(r)
    PROVE  IInv'
<1> DEFINE rows == PullPage(log[r[1]], relay[r].cursor, Limit)
<1> DEFINE page == [i \in DOMAIN rows |-> Wire(rows[i])]
<1> DEFINE next == NextCursor(log[r[1]], relay[r].cursor, Limit)
<1>1. /\ rows \in Seq(Row)
      /\ IsPageAfter(rows, log[r[1]], relay[r].cursor)
      /\ next = relay[r].cursor + Len(rows)
  BY RelayTyped, PullFacts DEF handleSyncPull
<1>2. relay' = [relay EXCEPT ![r].page = page, ![r].next = next, ![r].busy = TRUE]
  BY DEF handleSyncPull
<1> HIDE DEF rows, next
<1>3. /\ page \in Seq(Row) /\ Len(page) = Len(rows)
      /\ \A i \in 1..Len(rows) : page[i] = Wire(rows[i])
  <2>1. DOMAIN rows = 1..Len(rows) /\ Len(rows) \in Nat /\ \A i \in DOMAIN rows : rows[i] \in Row
    BY <1>1
  <2>2. \A i \in DOMAIN rows : Wire(rows[i]) \in Row
    BY <2>1, WireFacts
  <2>3. QED
    BY <2>1, <2>2
<1> HIDE DEF page
<1>4. ~relay[r].busy /\ relay[r].errors = {} /\ relay[r].cursor \in Nat
  BY RelayTyped DEF handleSyncPull, IInv, PagesPlaced
<1>5. /\ relay' \in [Relays -> RelayState]
      /\ relay'[r].page = page /\ relay'[r].next = next /\ relay'[r].busy
      /\ relay'[r].cursor = relay[r].cursor /\ relay'[r].errors = {}
      /\ \A q \in Relays \ {r} : relay'[q] = relay[q]
  <2>1. next \in Nat /\ TRUE \in BOOLEAN
    BY <1>1, <1>4
  <2>2. QED
    BY <1>2, <1>3, <1>4, <2>1, RelayTyped DEF RelayState
<1>6. log' = log /\ UNCHANGED <<hubVars, subVars, reported, failed, stale, faults>>
  BY DEF handleSyncPull, hubVars
<1>7. TypeOK'
  <2>1. faults' \in 0..MaxFaults /\ reported' \subseteq Ids /\ failed' \subseteq Ids /\ stale' \subseteq Relays
    BY <1>6 DEF IInv, TypeOK
  <2>2. QED
    BY <1>5, <1>6, <2>1, RelayTypes
<1>8. RowsGenuine' /\ PendingLater' /\ Unrestored' /\ OrderPreserved' /\ Following'
  BY <1>6, RelayFrame
<1>9. Done(r)' = relay[r].cursor /\ next <= Len(log[r[1]])
  <2>1. Len(rows) \in Nat
    BY <1>1
  <2>2. QED
    BY <1>1, <1>3, <1>4, <1>5, <2>1 DEF Done, IsPageAfter
<1>10. PagesPlaced'
  <2>1. SUFFICES ASSUME NEW q \in Relays
                 PROVE  /\ ~relay'[q].busy => relay'[q].page = <<>> /\ relay'[q].errors = {}
                        /\ relay'[q].busy =>
                              /\ relay'[q].next <= Len(log'[q[1]])
                              /\ Done(q)' \in Nat
                              /\ \A i \in 1..Len(relay'[q].page) :
                                    relay'[q].page[i] = Wire(log'[q[1]][Done(q)' + i])
    BY DEF PagesPlaced
  <2>2. CASE q = r
    <3>1. \A i \in 1..Len(page) : page[i] = Wire(log[r[1]][relay[r].cursor + i])
      BY <1>1, <1>3 DEF IsPageAfter
    <3>2. QED
      BY <1>4, <1>5, <1>6, <1>9, <2>2, <3>1
  <2>3. CASE q # r
    BY <1>5, <1>6, <2>3 DEF IInv, PagesPlaced, Done
  <2>4. QED
    BY <2>2, <2>3
<1>11. ErrorsExplained'
  BY <1>5, <1>6 DEF IInv, ErrorsExplained
<1>12. \A q \in Relays : relay'[q].cursor = relay[q].cursor
  BY <1>5
<1>13. CursorsInLog' /\ NothingSilentlySkipped'
  BY <1>6, <1>12 DEF IInv, CursorsInLog, NothingSilentlySkipped
<1>14. PushedSoFar'
  <2>1. SUFFICES ASSUME NEW q \in Relays, q \notin stale, relay'[q].busy,
                        NEW i \in 1..Done(q)'
                 PROVE  log[q[1]][i].id \in IdsOf(log[q[2]]) \cup reported \cup relay'[q].errors
    BY <1>6 DEF PushedSoFar
  <2>2. CASE q = r
    BY <1>9, <2>1, <2>2 DEF IInv, NothingSilentlySkipped
  <2>3. CASE q # r
    <3>1. relay'[q] = relay[q] /\ Done(q)' = Done(q)
      BY <1>5, <2>3 DEF Done
    <3>2. QED
      BY <2>1, <3>1 DEF IInv, PushedSoFar
  <2>4. QED
    BY <2>2, <2>3
<1>15. QED
  BY <1>7, <1>8, <1>10, <1>11, <1>13, <1>14 DEF IInv

\* The head of the page that is pushed, and what is left.
LEMMA PushFacts ==
    ASSUME IInv, NEW r \in Relays, relay[r].page # <<>>,
           NEW errors \in SUBSET Ids,
           relay' = [relay EXCEPT ![r].page = Tail(@), ![r].errors = errors]
    PROVE  /\ relay' \in [Relays -> RelayState]
           /\ relay'[r].page = Tail(relay[r].page) /\ relay'[r].errors = errors
           /\ relay[r].busy /\ relay'[r].busy
           /\ \A q \in Relays \ {r} : relay'[q] = relay[q] /\ Done(q)' = Done(q)
           /\ \A q \in Relays : relay'[q].cursor = relay[q].cursor /\ relay'[q].next = relay[q].next
           /\ Done(r) \in Nat /\ Done(r)' = Done(r) + 1 /\ Done(r) + 1 \in DOMAIN log[r[1]]
           /\ Head(relay[r].page) = Wire(log[r[1]][Done(r) + 1])
           /\ log[r[1]][Done(r) + 1] \in Row
           /\ \A i \in 1..Len(relay'[r].page) :
                 relay'[r].page[i] = Wire(log[r[1]][Done(r) + 1 + i])
<1>1. /\ relay[r].page \in Seq(Row) /\ relay[r].next \in Nat /\ log[r[1]] \in Seq(Row)
      /\ relay \in [Relays -> RelayState]
  BY RelayTyped
<1> DEFINE page == relay[r].page
<1>2. /\ Tail(page) \in Seq(Row) /\ Len(page) \in Nat /\ Len(page) >= 1
      /\ Len(Tail(page)) = Len(page) - 1
      /\ Head(page) = page[1]
      /\ \A i \in 1..Len(page) - 1 : Tail(page)[i] = page[i + 1]
  <2>1. page \in Seq(Row) /\ page # <<>>
    BY <1>1
  <2> HIDE DEF page
  <2>2. QED
    BY <2>1
<1>3. /\ relay' \in [Relays -> RelayState]
      /\ relay'[r].page = Tail(page) /\ relay'[r].errors = errors /\ relay'[r].next = relay[r].next
      /\ relay'[r].cursor = relay[r].cursor /\ relay'[r].busy = relay[r].busy
      /\ \A q \in Relays \ {r} : relay'[q] = relay[q]
  <2>1. Tail(page) \in Seq(Row)
    BY <1>2
  <2>2. PICK tail \in Seq(Row) : tail = Tail(page)
    BY <2>1
  <2>3. relay' = [relay EXCEPT ![r].page = tail, ![r].errors = errors]
    BY <2>2
  <2> HIDE DEF page
  <2>4. /\ relay' \in [Relays -> RelayState]
        /\ relay'[r].page = tail /\ relay'[r].errors = errors /\ relay'[r].next = relay[r].next
        /\ relay'[r].cursor = relay[r].cursor /\ relay'[r].busy = relay[r].busy
        /\ \A q \in Relays \ {r} : relay'[q] = relay[q]
    <3> DEFINE local == [relay[r] EXCEPT !.page = tail, !.errors = errors]
    <3>1. relay' = [relay EXCEPT ![r] = local]
      BY <1>1, <2>3
    <3>2. /\ local \in RelayState
          /\ local.page = tail /\ local.errors = errors /\ local.next = relay[r].next
          /\ local.cursor = relay[r].cursor /\ local.busy = relay[r].busy
      <4>1. relay[r] \in RelayState
        BY <1>1
      <4>2. QED
        BY <4>1 DEF RelayState
    <3> HIDE DEF local
    <3>3. QED
      BY <1>1, <3>1, <3>2
  <2>5. QED
    BY <2>2, <2>4
<1>4. relay[r].busy
  BY DEF IInv, PagesPlaced
<1>5. /\ relay[r].next <= Len(log[r[1]]) /\ Done(r) \in Nat
      /\ \A i \in 1..Len(page) : page[i] = Wire(log[r[1]][Done(r) + i])
  BY <1>4 DEF IInv, PagesPlaced
<1>6. Done(r) = relay[r].next - Len(page) /\ Done(r)' = relay[r].next - Len(Tail(page))
  BY <1>3 DEF Done
<1>7. Done(r)' = Done(r) + 1 /\ Done(r) + 1 \in 1..Len(log[r[1]])
  <2> HIDE DEF page
  <2> QED BY <1>1, <1>2, <1>5, <1>6
<1>8. Done(r) + 1 \in DOMAIN log[r[1]] /\ log[r[1]][Done(r) + 1] \in Row
  BY <1>1, <1>7
<1>9. Head(page) = Wire(log[r[1]][Done(r) + 1])
  <2>1. 1 \in 1..Len(page)
    BY <1>2
  <2>2. QED
    BY <1>2, <1>5, <2>1
<1>10. \A i \in 1..Len(Tail(page)) : Tail(page)[i] = Wire(log[r[1]][Done(r) + 1 + i])
  <2>1. SUFFICES ASSUME NEW i \in 1..Len(page) - 1
                 PROVE  Tail(page)[i] = Wire(log[r[1]][Done(r) + 1 + i])
    BY <1>2
  <2>2. i + 1 \in 1..Len(page) /\ Done(r) + (i + 1) = Done(r) + 1 + i
    <3>1. Len(page) \in Nat /\ Done(r) \in Nat
      BY <1>2, <1>5
    <3>2. QED
      BY <3>1
  <2>3. page[i + 1] = Wire(log[r[1]][Done(r) + (i + 1)])
    BY <1>5, <2>2
  <2>4. QED
    BY <1>2, <2>2, <2>3
<1>11. \A q \in Relays \ {r} : Done(q)' = Done(q)
  BY <1>3 DEF Done
<1>12. QED
  BY <1>3, <1>4, <1>5, <1>7, <1>8, <1>9, <1>10, <1>11


-----------------------------------------------------------------------------
(* A log that grows by a row.                                              *)

\* Every row stays where it is.
LogExtends ==
    \A k \in Hubs :
        /\ Len(log[k]) <= Len(log'[k])
        /\ \A i \in DOMAIN log[k] : log'[k][i] = log[k][i]
        /\ IdsOf(log[k]) \subseteq IdsOf(log'[k])

\* h has one row more, of an event it did not have.
LogGains(h, row) ==
    /\ row.id \notin IdsOf(log[h])
    /\ log' = [log EXCEPT ![h] = Append(@, row)]

LEMMA LogGainsFacts ==
    ASSUME IInv, NEW h \in Hubs, NEW row \in Row, LogGains(h, row)
    PROVE  /\ log' \in [Hubs -> Seq(Row)]
           /\ LogExtends
           /\ \A k \in Hubs \ {h} : log'[k] = log[k]
           /\ Len(log[h]) + 1 \in DOMAIN log'[h] /\ log'[h][Len(log[h]) + 1] = row
           /\ \A i \in DOMAIN log'[h] :
                 \/ i = Len(log[h]) + 1
                 \/ i \in DOMAIN log[h] /\ i < Len(log[h]) + 1 /\ log'[h][i] = log[h][i]
           /\ row.id \in IdsOf(log'[h])
           /\ \A k \in Hubs : Distinct(log'[k])
<1>1. log \in [Hubs -> Seq(Row)] /\ log[h] \in Seq(Row)
  BY DEF IInv, TypeOK
<1>2. log'[h] = Append(log[h], row) /\ \A k \in Hubs \ {h} : log'[k] = log[k]
  BY <1>1 DEF LogGains
<1> DEFINE n == Len(log[h])
<1>3. /\ n \in Nat /\ Append(log[h], row) \in Seq(Row)
      /\ DOMAIN log[h] = 1..n /\ DOMAIN Append(log[h], row) = 1..(n + 1)
      /\ Len(Append(log[h], row)) = n + 1
      /\ Append(log[h], row)[n + 1] = row
      /\ \A i \in 1..n : Append(log[h], row)[i] = log[h][i]
  BY <1>1
<1>4. log' \in [Hubs -> Seq(Row)]
  BY <1>1, <1>3 DEF LogGains
<1> HIDE DEF n
<1>5. n + 1 \in DOMAIN log'[h] /\ log'[h][n + 1] = row
  BY <1>2, <1>3
<1>6. \A i \in DOMAIN log'[h] :
         \/ i = n + 1
         \/ i \in DOMAIN log[h] /\ i < n + 1 /\ log'[h][i] = log[h][i]
  BY <1>2, <1>3
<1>7. row.id \in IdsOf(log'[h])
  BY <1>5 DEF IdsOf
<1>8. LogExtends
  <2>1. SUFFICES ASSUME NEW k \in Hubs
                 PROVE  /\ Len(log[k]) <= Len(log'[k])
                        /\ \A i \in DOMAIN log[k] : i \in DOMAIN log'[k] /\ log'[k][i] = log[k][i]
    BY DEF LogExtends, IdsOf
  <2>2. CASE k = h
    BY <1>2, <1>3, <2>2 DEF n
  <2>3. CASE k # h
    <3>1. Len(log[k]) \in Nat
      BY <1>1
    <3>2. QED
      BY <1>2, <2>3, <3>1
  <2>4. QED
    BY <2>2, <2>3
<1>9. ASSUME NEW k \in Hubs
      PROVE  Distinct(log'[k])
  <2>1. Distinct(log[k])
    BY DEF IInv, TypeOK, Distinct
  <2>2. CASE k # h
    BY <1>2, <2>1, <2>2
  <2>3. CASE k = h
    <3>1. \A i \in DOMAIN log[h] : log[h][i].id # row.id
      BY DEF LogGains, IdsOf
    <3>2. QED
      BY <1>5, <1>6, <2>1, <2>3, <3>1 DEF Distinct
  <2>4. QED
    BY <2>2, <2>3
<1>10. QED
  BY <1>2, <1>4, <1>5, <1>6, <1>7, <1>8, <1>9 DEF n

\* The subscriber's stream grows at its end, or not at all.
LEMMA FollowingGrows ==
    ASSUME IInv, NEW h \in Hubs, NEW row \in Row, LogGains(h, row), UNCHANGED <<restored, conn, got>>
    PROVE  Following'
<1>1. SUFFICES ASSUME SubHub \notin restored
               PROVE  /\ Distinct(SubRows')
                      /\ Len(got) <= Len(SubRows')
                      /\ \A i \in 1..Len(got) : got[i] = SubRows'[i].id
                      /\ \A c \in conn : c.last = SinceAt(SubRows', Len(got))
  BY DEF Following
<1>2. /\ Distinct(SubRows)
      /\ Len(got) <= Len(SubRows)
      /\ \A i \in 1..Len(got) : got[i] = SubRows[i].id
      /\ \A c \in conn : c.last = SinceAt(SubRows, Len(got))
  BY <1>1 DEF IInv, Following
<1>3. log[SubHub] \in Seq(Row) /\ log[h] \in Seq(Row) /\ got \in Seq(Ids)
  BY SyncAssumption DEF IInv, TypeOK
<1>4. CASE SubRows' = SubRows
  BY <1>2, <1>4
<1>5. CASE SubRows' = Append(SubRows, row) /\ h = SubHub
  <2>1. SubRows \in Seq(Row) /\ \A i \in DOMAIN SubRows : SubRows[i].id \in IdsOf(log[SubHub])
    <3>1. /\ SubRows \in Seq(Row)
          /\ \A i \in DOMAIN SubRows : \E j \in DOMAIN log[SubHub] : SubRows[i] = log[SubHub][j]
      BY <1>3, StreamOfType DEF SubRows
    <3>2. QED
      BY <3>1 DEF IdsOf
  <2>2. \A i \in DOMAIN SubRows : SubRows[i].id # row.id
    BY <1>5, <2>1 DEF LogGains
  <2> DEFINE more == Append(SubRows, row)
  <2>3. /\ DOMAIN SubRows = 1..Len(SubRows) /\ DOMAIN more = 1..(Len(SubRows) + 1)
        /\ Len(more) = Len(SubRows) + 1 /\ Len(SubRows) \in Nat /\ Len(got) \in Nat
        /\ more[Len(SubRows) + 1] = row
        /\ \A i \in 1..Len(SubRows) : more[i] = SubRows[i]
    BY <1>3, <2>1
  <2> HIDE DEF more
  <2>4. Distinct(more)
    BY <1>2, <2>2, <2>3 DEF Distinct
  <2>5. Len(got) <= Len(more)
    BY <1>2, <2>3
  <2>6. \A i \in 1..Len(got) : got[i] = more[i].id
    BY <1>2, <2>3
  <2>7. SinceAt(more, Len(got)) = SinceAt(SubRows, Len(got))
    <3>1. Len(got) # 0 => Len(got) \in 1..Len(SubRows)
      BY <1>2, <2>3
    <3>2. Len(got) # 0 => more[Len(got)] = SubRows[Len(got)]
      BY <2>3, <3>1
    <3>3. QED
      BY <3>2 DEF SinceAt
  <2>8. SubRows' = more
    BY <1>5 DEF more
  <2>9. QED
    BY <1>2, <2>4, <2>5, <2>6, <2>7, <2>8
<1>6. \/ SubRows' = SubRows
      \/ SubRows' = Append(SubRows, row) /\ h = SubHub
  <2>1. CASE h = SubHub
    <3>1. log'[SubHub] = Append(log[SubHub], row)
      BY <2>1, SyncAssumption DEF LogGains, IInv, TypeOK
    <3>2. SubRows' = StreamOf(Append(log[SubHub], row), SubStream)
      BY <3>1 DEF SubRows
    <3>3. QED
      BY <1>3, <2>1, <3>2, StreamOfAppend DEF SubRows
  <2>2. CASE h # SubHub
    BY <2>2, LogGainsFacts, SyncAssumption DEF SubRows
  <2>3. QED
    BY <2>1, <2>2
<1>7. QED
  BY <1>4, <1>5, <1>6

\* What a longer log means for the relays that are not pushing to it.
LEMMA RelaysGrow ==
    ASSUME IInv, LogExtends, log' \in [Hubs -> Seq(Row)],
           UNCHANGED <<relay, reported, failed, stale>>
    PROVE  PagesPlaced' /\ ErrorsExplained' /\ CursorsInLog' /\ PushedSoFar' /\ NothingSilentlySkipped'
<1>1. ASSUME NEW q \in Relays
      PROVE  /\ Len(log[q[1]]) \in Nat /\ Len(log'[q[1]]) \in Nat /\ Len(log[q[1]]) <= Len(log'[q[1]])
             /\ \A i \in 1..Len(log[q[1]]) : log'[q[1]][i] = log[q[1]][i]
             /\ IdsOf(log[q[2]]) \subseteq IdsOf(log'[q[2]])
             /\ relay[q].cursor \in Nat /\ relay[q].next \in Nat /\ Len(relay[q].page) \in Nat
  <2>1. q[1] \in Hubs /\ q[2] \in Hubs
    BY RelayHubs
  <2>2. relay[q].page \in Seq(Row) /\ log[q[1]] \in Seq(Row) /\ log'[q[1]] \in Seq(Row)
    BY <2>1, RelayTyped
  <2>3. Len(log[q[1]]) \in Nat /\ Len(log'[q[1]]) \in Nat /\ DOMAIN log[q[1]] = 1..Len(log[q[1]])
    BY <2>2
  <2>4. QED
    BY <2>1, <2>2, <2>3, RelayTyped DEF LogExtends
<1>2. PagesPlaced'
  <2>1. SUFFICES ASSUME NEW q \in Relays, relay[q].busy
                 PROVE  /\ relay[q].next <= Len(log'[q[1]])
                        /\ \A i \in 1..Len(relay[q].page) :
                              relay[q].page[i] = Wire(log'[q[1]][Done(q) + i])
    BY DEF IInv, PagesPlaced, Done
  <2>2. /\ relay[q].next <= Len(log[q[1]]) /\ Done(q) \in Nat
        /\ \A i \in 1..Len(relay[q].page) : relay[q].page[i] = Wire(log[q[1]][Done(q) + i])
    BY <2>1 DEF IInv, PagesPlaced
  <2>3. \A i \in 1..Len(relay[q].page) : Done(q) + i \in 1..Len(log[q[1]])
    <3>1. Done(q) = relay[q].next - Len(relay[q].page)
      BY DEF Done
    <3>2. relay[q].next \in Nat /\ Len(relay[q].page) \in Nat /\ Len(log[q[1]]) \in Nat
      BY <1>1
    <3>3. relay[q].next <= Len(log[q[1]]) /\ Done(q) \in Nat
      BY <2>2
    <3>4. QED
      BY <3>1, <3>2, <3>3
  <2>4. relay[q].next <= Len(log'[q[1]])
    BY <1>1, <2>2
  <2>5. QED
    BY <1>1, <2>2, <2>3, <2>4
<1>3. ErrorsExplained'
  BY DEF IInv, ErrorsExplained
<1>4. CursorsInLog'
  BY <1>1 DEF IInv, CursorsInLog
<1>5. NothingSilentlySkipped'
  <2>1. SUFFICES ASSUME NEW q \in Relays \ stale, NEW i \in 1..relay[q].cursor
                 PROVE  log'[q[1]][i].id \in IdsOf(log'[q[2]]) \cup reported
    BY DEF NothingSilentlySkipped
  <2>2. i \in 1..Len(log[q[1]])
    BY <1>1, <2>1 DEF IInv, CursorsInLog
  <2>3. QED
    BY <1>1, <2>1, <2>2 DEF IInv, NothingSilentlySkipped
<1>6. PushedSoFar'
  <2>1. SUFFICES ASSUME NEW q \in Relays \ stale, relay[q].busy, NEW i \in 1..Done(q)
                 PROVE  log'[q[1]][i].id \in IdsOf(log'[q[2]]) \cup reported \cup relay[q].errors
    BY DEF PushedSoFar, Done
  <2>2. Done(q) <= Len(log[q[1]]) /\ Done(q) \in Nat
    BY <1>1, <2>1 DEF IInv, PagesPlaced, Done
  <2>3. i \in 1..Len(log[q[1]])
    BY <1>1, <2>1, <2>2
  <2>4. QED
    BY <1>1, <2>1, <2>3 DEF IInv, PushedSoFar
<1>7. QED
  BY <1>2, <1>3, <1>4, <1>5, <1>6


-----------------------------------------------------------------------------
(* A push and an append.                                                   *)

\* A relay works off an event that is at the destination or in its errors.
LEMMA RelayMoves ==
    ASSUME IInv, LogExtends, log' \in [Hubs -> Seq(Row)], UNCHANGED <<reported, stale>>,
           NEW r \in Relays, relay[r].page # <<>>,
           NEW errors \in SUBSET Ids,
           relay' = [relay EXCEPT ![r].page = Tail(@), ![r].errors = errors],
           relay[r].errors \subseteq errors, errors \subseteq failed' \cup Refused,
           failed \subseteq failed',
           log[r[1]][Done(r) + 1].id \in IdsOf(log'[r[2]]) \cup errors
    PROVE  PagesPlaced' /\ ErrorsExplained' /\ CursorsInLog' /\ PushedSoFar' /\ NothingSilentlySkipped'
<1>1. /\ relay'[r].page = Tail(relay[r].page) /\ relay'[r].errors = errors
      /\ relay[r].busy /\ relay'[r].busy
      /\ \A q \in Relays \ {r} : relay'[q] = relay[q] /\ Done(q)' = Done(q)
      /\ \A q \in Relays : relay'[q].cursor = relay[q].cursor /\ relay'[q].next = relay[q].next
      /\ Done(r) \in Nat /\ Done(r)' = Done(r) + 1 /\ Done(r) + 1 \in DOMAIN log[r[1]]
      /\ \A i \in 1..Len(relay'[r].page) :
            relay'[r].page[i] = Wire(log[r[1]][Done(r) + 1 + i])
      /\ relay' \in [Relays -> RelayState]
  BY PushFacts
<1>2. ASSUME NEW q \in Relays
      PROVE  /\ Len(log[q[1]]) \in Nat /\ Len(log'[q[1]]) \in Nat /\ Len(log[q[1]]) <= Len(log'[q[1]])
             /\ DOMAIN log[q[1]] = 1..Len(log[q[1]])
             /\ \A i \in 1..Len(log[q[1]]) : log'[q[1]][i] = log[q[1]][i]
             /\ IdsOf(log[q[2]]) \subseteq IdsOf(log'[q[2]])
             /\ relay[q].cursor \in Nat /\ relay[q].next \in Nat
             /\ Len(relay[q].page) \in Nat /\ Len(relay'[q].page) \in Nat
  <2>1. q[1] \in Hubs /\ q[2] \in Hubs
    BY RelayHubs
  <2>2. /\ relay[q].page \in Seq(Row) /\ log[q[1]] \in Seq(Row) /\ log'[q[1]] \in Seq(Row)
        /\ relay'[q] \in RelayState
    BY <1>1, <2>1, RelayTyped
  <2>3. relay'[q].page \in Seq(Row)
    BY <2>2 DEF RelayState
  <2>4. Len(log[q[1]]) \in Nat /\ Len(log'[q[1]]) \in Nat /\ DOMAIN log[q[1]] = 1..Len(log[q[1]])
    BY <2>2
  <2>5. QED
    BY <2>1, <2>2, <2>3, <2>4, RelayTyped DEF LogExtends
<1>3. ASSUME NEW q \in Relays, relay'[q].busy
      PROVE  /\ relay[q].busy /\ relay'[q].next <= Len(log[q[1]]) /\ Done(q)' \in Nat
             /\ Done(q)' = relay[q].next - Len(relay'[q].page)
             /\ \A i \in 1..Len(relay'[q].page) : relay'[q].page[i] = Wire(log[q[1]][Done(q)' + i])
  <2>1. relay[q].busy
    BY <1>1, <1>3
  <2>2. relay[q].next <= Len(log[q[1]]) /\ Done(q) \in Nat
    BY <2>1 DEF IInv, PagesPlaced
  <2>3. Done(q)' = relay[q].next - Len(relay'[q].page)
    BY <1>1 DEF Done
  <2>4. CASE q = r
    <3>1. Done(r) + 1 \in Nat
      BY <1>1
    <3>2. QED
      BY <1>1, <2>1, <2>2, <2>3, <2>4, <3>1
  <2>5. CASE q # r
    BY <1>1, <2>1, <2>2, <2>3, <2>5 DEF IInv, PagesPlaced
  <2>6. QED
    BY <2>4, <2>5
<1>4. ASSUME NEW q \in Relays, relay'[q].busy
      PROVE  /\ Done(q)' \in Nat /\ Done(q)' + Len(relay'[q].page) <= Len(log[q[1]])
             /\ relay'[q].next <= Len(log'[q[1]])
  <2>1. /\ relay[q].next \in Nat /\ Len(relay'[q].page) \in Nat
        /\ Len(log[q[1]]) \in Nat /\ Len(log'[q[1]]) \in Nat /\ Len(log[q[1]]) <= Len(log'[q[1]])
        /\ relay'[q].next = relay[q].next
    BY <1>1, <1>2
  <2>2. /\ relay'[q].next <= Len(log[q[1]]) /\ Done(q)' \in Nat
        /\ Done(q)' = relay[q].next - Len(relay'[q].page)
    BY <1>1, <1>3, <1>4
  <2>3. \A n, l, m, m2 \in Nat : n <= m /\ m <= m2 => (n - l) + l <= m /\ n <= m2
    OBVIOUS
  <2>4. relay[q].next <= Len(log[q[1]])
    BY <2>1, <2>2
  <2>5. /\ (relay[q].next - Len(relay'[q].page)) + Len(relay'[q].page) <= Len(log[q[1]])
        /\ relay[q].next <= Len(log'[q[1]])
    BY <2>1, <2>3, <2>4
  <2>6. QED
    BY <2>1, <2>2, <2>5
<1>5. PagesPlaced'
  <2>1. ASSUME NEW q \in Relays, ~relay'[q].busy
        PROVE  relay'[q].page = <<>> /\ relay'[q].errors = {}
    BY <1>1, <2>1 DEF IInv, PagesPlaced
  <2>2. ASSUME NEW q \in Relays, relay'[q].busy, NEW i \in 1..Len(relay'[q].page)
        PROVE  relay'[q].page[i] = Wire(log'[q[1]][Done(q)' + i])
    <3>1. Done(q)' \in Nat /\ Done(q)' + Len(relay'[q].page) <= Len(log[q[1]])
      BY <1>4, <2>2
    <3>2. Len(log[q[1]]) \in Nat /\ Len(relay'[q].page) \in Nat
      BY <1>2
    <3>3. Done(q)' + i \in 1..Len(log[q[1]])
      BY <3>1, <3>2
    <3>4. relay'[q].page[i] = Wire(log[q[1]][Done(q)' + i])
      BY <1>3, <2>2
    <3>5. QED
      BY <1>2, <3>3, <3>4
  <2>3. QED
    BY <1>4, <2>1, <2>2 DEF PagesPlaced
<1>6. ErrorsExplained'
  BY <1>1 DEF IInv, ErrorsExplained, Refused
<1>7. CursorsInLog'
  <2>1. SUFFICES ASSUME NEW q \in Relays, q \notin stale
                 PROVE  relay[q].cursor <= Len(log'[q[1]])
    BY <1>1 DEF CursorsInLog
  <2>2. relay[q].cursor <= Len(log[q[1]])
    BY <2>1 DEF IInv, CursorsInLog
  <2>3. QED
    BY <1>2, <2>2
<1>8. NothingSilentlySkipped'
  <2>1. SUFFICES ASSUME NEW q \in Relays, q \notin stale, NEW i \in 1..relay[q].cursor
                 PROVE  log'[q[1]][i].id \in IdsOf(log'[q[2]]) \cup reported
    BY <1>1 DEF NothingSilentlySkipped
  <2>2. relay[q].cursor <= Len(log[q[1]])
    BY <2>1 DEF IInv, CursorsInLog
  <2>3. i \in 1..Len(log[q[1]])
    BY <1>2, <2>2
  <2>4. log[q[1]][i].id \in IdsOf(log[q[2]]) \cup reported
    BY <2>1 DEF IInv, NothingSilentlySkipped
  <2>5. QED
    BY <1>2, <2>3, <2>4
<1>9. PushedSoFar'
  <2>1. SUFFICES ASSUME NEW q \in Relays, q \notin stale, relay'[q].busy, NEW i \in 1..Done(q)'
                 PROVE  log'[q[1]][i].id \in IdsOf(log'[q[2]]) \cup reported \cup relay'[q].errors
    BY DEF PushedSoFar
  <2>2. Done(q)' \in Nat /\ Done(q)' <= Len(log[q[1]]) /\ Len(log[q[1]]) \in Nat
    <3>1. Done(q)' \in Nat /\ Done(q)' + Len(relay'[q].page) <= Len(log[q[1]])
      BY <1>4, <2>1
    <3>2. Len(relay'[q].page) \in Nat /\ Len(log[q[1]]) \in Nat
      BY <1>2
    <3>3. QED
      BY <3>1, <3>2
  <2>3. log'[q[1]][i] = log[q[1]][i] /\ IdsOf(log[q[2]]) \subseteq IdsOf(log'[q[2]])
    <3>1. \A d, m \in Nat : d <= m => \A k \in 1..d : k \in 1..m
      OBVIOUS
    <3>2. i \in 1..Len(log[q[1]])
      BY <2>2, <3>1
    <3>3. QED
      BY <1>2, <3>2
  <2>4. CASE i \in 1..Done(q)
    <3>1. log[q[1]][i].id \in IdsOf(log[q[2]]) \cup reported \cup relay[q].errors
      BY <1>3, <2>1, <2>4 DEF IInv, PushedSoFar
    <3>2. relay[q].errors \subseteq relay'[q].errors
      BY <1>1
    <3>3. QED
      BY <2>3, <3>1, <3>2
  <2>5. CASE q = r /\ i = Done(r) + 1
    BY <1>1, <2>3, <2>5
  <2>6. i \in 1..Done(q) \/ (q = r /\ i = Done(r) + 1)
    BY <1>1, <2>1
  <2>7. QED
    BY <2>4, <2>5, <2>6
<1>10. QED
  BY <1>5, <1>6, <1>7, <1>8, <1>9

LEMMA FailsStep ==
    ASSUME IInv, NEW r \in Relays, PushEventFails(r)
    PROVE  IInv'
<1> DEFINE x == Head(relay[r].page).id
<1> DEFINE errors == relay[r].errors \cup {x}
<1>1. /\ relay[r].page # <<>>
      /\ relay' = [relay EXCEPT ![r].page = Tail(@), ![r].errors = @ \cup {x}]
      /\ failed' = failed \cup {x}
      /\ UNCHANGED <<reported, stale, hubVars, subVars>> /\ log' = log
      /\ faults' \in 0..MaxFaults
  BY FaultType DEF PushEventFails, hubVars, IInv
<1>2. relay' = [relay EXCEPT ![r].page = Tail(@), ![r].errors = errors]
  BY <1>1
<1>3. /\ relay[r].page \in Seq(Row) /\ relay[r].errors \subseteq Ids
      /\ log \in [Hubs -> Seq(Row)]
  BY RelayTyped DEF IInv, TypeOK
<1>4. x \in Ids
  <2>1. Head(relay[r].page) \in Row
    BY <1>1, <1>3
  <2>2. QED
    BY <2>1, RowIds
<1>5. errors \in SUBSET Ids
  BY <1>3, <1>4
<1>6. relay[r].errors \subseteq failed \cup Refused
  BY DEF IInv, ErrorsExplained
<1>7. x \in errors /\ errors \subseteq failed' \cup Refused /\ relay[r].errors \subseteq errors /\ failed \subseteq failed'
  BY <1>1, <1>6
<1> HIDE DEF errors
<1>8. /\ relay' \in [Relays -> RelayState]
      /\ Head(relay[r].page) = Wire(log[r[1]][Done(r) + 1])
      /\ log[r[1]][Done(r) + 1] \in Row
  BY <1>1, <1>2, <1>5, PushFacts
<1>9. x = log[r[1]][Done(r) + 1].id
  BY <1>8, WireFacts
<1>10. LogExtends
  <2>1. \A k \in Hubs : Len(log[k]) \in Nat
    BY <1>3
  <2>2. QED
    BY <1>1, <2>1 DEF LogExtends
<1>11. PagesPlaced' /\ ErrorsExplained' /\ CursorsInLog' /\ PushedSoFar' /\ NothingSilentlySkipped'
  BY <1>1, <1>2, <1>3, <1>5, <1>7, <1>9, <1>10, RelayMoves
<1>12. RowsGenuine' /\ PendingLater' /\ Unrestored' /\ OrderPreserved' /\ Following'
  BY <1>1, <1>7, RelayFrame
<1>13. TypeOK'
  <2>1. reported' \subseteq Ids /\ failed' \subseteq Ids /\ stale' \subseteq Relays
    BY <1>1, <1>4 DEF IInv, TypeOK
  <2>2. QED
    BY <1>1, <1>8, <2>1, RelayTypes
<1>14. QED
  BY <1>11, <1>12, <1>13 DEF IInv


\* A hub stores a row of an event that no pending event precedes, after the
\* events it should come after.
LEMMA GainStep ==
    ASSUME IInv, NEW h \in Hubs, NEW row \in Row, LogGains(h, row),
           UNCHANGED <<restored, conn, got, failed, stale>>,
           pending' \subseteq pending, FromEvent(row)',
           \A f \in pending' : row.by = f.by => row.id < f.id,
           \A e \in Events : e \in pending /\ e \notin pending' => e.id = row.id /\ e.by = h,
           restored = {} =>
              \A e \in Events : e.by = row.by /\ e.id < row.id
                  => e.id \in IdsOf(log[h]) \cup failed \cup Refused,
           restored = {} =>
              \A i \in DOMAIN log[h] :
                  log[h][i].by = row.by => log[h][i].id < row.id \/ row.id \in failed
    PROVE  RowsGenuine' /\ PendingLater' /\ Unrestored' /\ OrderPreserved' /\ Following'
<1> DEFINE n == Len(log[h])
<1>1. /\ LogExtends
      /\ \A k \in Hubs \ {h} : log'[k] = log[k]
      /\ n + 1 \in DOMAIN log'[h] /\ log'[h][n + 1] = row
      /\ \A i \in DOMAIN log'[h] :
            \/ i = n + 1
            \/ i \in DOMAIN log[h] /\ i < n + 1 /\ log'[h][i] = log[h][i]
      /\ row.id \in IdsOf(log'[h])
      /\ log' \in [Hubs -> Seq(Row)]
  BY LogGainsFacts
<1>2. \A k \in Hubs : IdsOf(log[k]) \subseteq IdsOf(log'[k])
  BY <1>1 DEF LogExtends
<1>3. ASSUME NEW k \in Hubs, NEW i \in DOMAIN log'[k]
      PROVE  \/ k = h /\ i = n + 1 /\ log'[k][i] = row
             \/ i \in DOMAIN log[k] /\ log'[k][i] = log[k][i]
  BY <1>1, <1>3
<1>4. \A i \in DOMAIN log'[h] : i \in Int
  <2>1. log'[h] \in Seq(Row)
    BY <1>1
  <2>2. QED
    BY <2>1
<1> HIDE DEF n
<1>5. RowsGenuine'
  <2>1. SUFFICES ASSUME NEW k \in Hubs, NEW i \in DOMAIN log'[k]
                 PROVE  FromEvent(log[k][i])'
    BY DEF RowsGenuine
  <2>2. CASE log'[k][i] = row
    BY <2>2 DEF FromEvent
  <2>3. CASE i \in DOMAIN log[k] /\ log'[k][i] = log[k][i]
    <3>1. FromEvent(log[k][i])
      BY <2>3 DEF IInv, RowsGenuine
    <3>2. QED
      BY <2>3, <3>1 DEF FromEvent
  <2>4. QED
    BY <1>3, <2>2, <2>3
<1>6. PendingLater'
  <2>1. SUFFICES ASSUME NEW k \in Hubs, NEW i \in DOMAIN log'[k], NEW f \in pending',
                        log'[k][i].by = f.by
                 PROVE  log'[k][i].id < f.id
    BY DEF PendingLater
  <2>2. CASE log'[k][i] = row
    BY <2>1, <2>2
  <2>3. CASE i \in DOMAIN log[k] /\ log'[k][i] = log[k][i]
    BY <2>1, <2>3 DEF IInv, PendingLater
  <2>4. QED
    BY <1>3, <2>2, <2>3
<1>7. Unrestored'
  <2>1. SUFFICES ASSUME restored = {}
                 PROVE  /\ stale = {}
                        /\ \A e \in Events \ pending' : e.id \in IdsOf(log'[e.by])
                        /\ \A k \in Hubs : Behind(k)'
    BY DEF Unrestored
  <2>2. /\ stale = {}
        /\ \A e \in Events \ pending : e.id \in IdsOf(log[e.by])
        /\ \A k \in Hubs : Behind(k)
    BY <2>1 DEF IInv, Unrestored
  <2>3. ASSUME NEW e \in Events \ pending'
        PROVE  e.id \in IdsOf(log'[e.by])
    <3>1. e.by \in Hubs
      BY EventIds
    <3>2. CASE e \in pending
      BY <1>1, <2>3, <3>2
    <3>3. CASE e \notin pending
      BY <1>2, <2>2, <3>1, <3>3
    <3>4. QED
      BY <3>2, <3>3
  <2>4. ASSUME NEW k \in Hubs, NEW i \in DOMAIN log'[k], NEW e \in Events,
               e.by = log'[k][i].by, e.id < log'[k][i].id
        PROVE  e.id \in IdsOf(log'[k]) \cup failed \cup Refused
    <3>1. CASE k = h /\ log'[k][i] = row
      BY <1>2, <2>1, <2>4, <3>1
    <3>2. CASE i \in DOMAIN log[k] /\ log'[k][i] = log[k][i]
      <4>1. e.id \in IdsOf(log[k]) \cup failed \cup Refused
        BY <2>2, <2>4, <3>2 DEF Behind
      <4>2. QED
        BY <1>2, <4>1
    <3>3. QED
      BY <1>3, <3>1, <3>2
  <2>5. \A k \in Hubs : Behind(k)'
    BY <2>4 DEF Behind, Refused
  <2>6. QED
    BY <2>2, <2>3, <2>5
<1>8. OrderPreserved'
  <2>1. SUFFICES ASSUME restored = {}, NEW k \in Hubs, NEW i \in DOMAIN log'[k], NEW j \in DOMAIN log'[k],
                        i < j, log'[k][i].by = log'[k][j].by
                 PROVE  log'[k][i].id < log'[k][j].id \/ log'[k][j].id \in failed
    BY DEF OrderPreserved
  <2>2. CASE k # h
    BY <1>1, <2>1, <2>2 DEF IInv, OrderPreserved
  <2>3. CASE k = h /\ j \in DOMAIN log[h] /\ j < n + 1 /\ log'[h][j] = log[h][j]
    <3>1. i # n + 1
      BY <1>4, <2>1, <2>3
    <3>2. i \in DOMAIN log[h] /\ log'[h][i] = log[h][i]
      BY <1>1, <2>1, <2>3, <3>1 DEF n
    <3>3. QED
      BY <2>1, <2>3, <3>2 DEF IInv, OrderPreserved
  <2>4. CASE k = h /\ j = n + 1
    <3>1. i \in DOMAIN log[h] /\ log'[h][i] = log[h][i]
      <4>1. i # n + 1
        BY <1>4, <2>1, <2>4
      <4>2. QED
        BY <1>1, <2>1, <2>4, <4>1 DEF n
    <3>2. log'[h][j] = row
      BY <1>1, <2>4 DEF n
    <3>3. QED
      BY <2>1, <2>4, <3>1, <3>2
  <2>5. QED
    BY <1>1, <2>1, <2>2, <2>3, <2>4 DEF n
<1>9. Following'
  BY FollowingGrows
<1>10. QED
  BY <1>5, <1>6, <1>7, <1>8, <1>9

LEMMA AppendStep ==
    ASSUME IInv, NEW e \in Events, AppendEvent(e)
    PROVE  IInv'
<1> DEFINE row == [id |-> e.id, by |-> e.by, stream |-> e.stream,
                   text |-> e.text, hash |-> IF e.stream \in HistoryStreams THEN {e.text} ELSE {}]
<1>1. /\ e \in pending /\ \A f \in pending : f.by = e.by => e.id <= f.id
      /\ log' = [log EXCEPT ![e.by] = Append(@, row)]
      /\ pending' = pending \ {e}
      /\ UNCHANGED <<relay, reported, failed, stale, conn, got, restored, faults>>
  BY DEF AppendEvent
<1>2. e.by \in Hubs /\ row \in Row
  BY EventIds DEF Row
<1>3. row.id = e.id /\ row.by = e.by /\ row.stream = e.stream /\ row.text = e.text
      /\ row.hash = IF e.stream \in HistoryStreams THEN {e.text} ELSE {}
  OBVIOUS
<1> HIDE DEF row
<1>4. pending \subseteq Events
  BY DEF IInv, TypeOK
<1>5. \A i \in DOMAIN log[e.by] : log[e.by][i].id # e.id
  <2>1. SUFFICES ASSUME NEW i \in DOMAIN log[e.by], log[e.by][i].id = e.id
                 PROVE  FALSE
    OBVIOUS
  <2>2. PICK f \in Events \ pending : log[e.by][i].id = f.id
    BY <1>2 DEF IInv, RowsGenuine, FromEvent
  <2>3. QED
    BY <1>1, <2>1, <2>2, EventIds
<1>6. LogGains(e.by, row)
  BY <1>1, <1>3, <1>5 DEF LogGains, IdsOf
<1>7. FromEvent(row)'
  BY <1>1, <1>3 DEF FromEvent
<1>8. \A f \in pending' : row.by = f.by => row.id < f.id
  <2>1. SUFFICES ASSUME NEW f \in pending, f # e, f.by = e.by
                 PROVE  e.id < f.id
    BY <1>1, <1>3
  <2>2. e.id <= f.id /\ e.id # f.id /\ e.id \in Nat /\ f.id \in Nat
    BY <1>1, <1>4, <2>1, EventIds
  <2>3. QED
    BY <2>2
<1>9. \A f \in Events : f \in pending /\ f \notin pending' => f.id = row.id /\ f.by = e.by
  BY <1>1, <1>3
<1>10. restored = {} =>
          \A f \in Events : f.by = row.by /\ f.id < row.id
              => f.id \in IdsOf(log[e.by]) \cup failed \cup Refused
  <2>1. SUFFICES ASSUME restored = {}, NEW f \in Events, f.by = e.by, f.id < e.id
                 PROVE  f.id \in IdsOf(log[e.by])
    BY <1>3
  <2>2. f \notin pending
    <3>1. f.id \in Nat /\ e.id \in Nat
      BY EventIds
    <3>2. QED
      BY <1>1, <2>1, <3>1
  <2>3. QED
    BY <2>1, <2>2 DEF IInv, Unrestored
<1>11. restored = {} =>
          \A i \in DOMAIN log[e.by] :
              log[e.by][i].by = row.by => log[e.by][i].id < row.id \/ row.id \in failed
  BY <1>1, <1>2, <1>3 DEF IInv, PendingLater
<1>12. RowsGenuine' /\ PendingLater' /\ Unrestored' /\ OrderPreserved' /\ Following'
  <2>1. pending' \subseteq pending
    BY <1>1
  <2>2. QED
    BY <1>1, <1>2, <1>6, <1>7, <1>8, <1>9, <1>10, <1>11, <2>1, GainStep
<1>13. log' \in [Hubs -> Seq(Row)] /\ LogExtends /\ \A k \in Hubs : Distinct(log'[k])
  BY <1>2, <1>6, LogGainsFacts
<1>14. PagesPlaced' /\ ErrorsExplained' /\ CursorsInLog' /\ PushedSoFar' /\ NothingSilentlySkipped'
  BY <1>1, <1>13, RelaysGrow
<1>15. TypeOK'
  BY <1>1, <1>13 DEF IInv, TypeOK, Distinct
<1>16. QED
  BY <1>12, <1>14, <1>15 DEF IInv


\* What a pushed row is: the row of the source, as the wire left it.
LEMMA PushedRow ==
    ASSUME IInv, NEW h \in Hubs, NEW i \in DOMAIN log[h], NEW row, row = Wire(log[h][i])
    PROVE  /\ row \in Row /\ row.id = log[h][i].id /\ row.by = log[h][i].by
           /\ ~HashMatches(row) => row.id \in Refused
           /\ HashMatches(row) =>
                 /\ row.id \notin Refused
                 /\ Ingested(row) \in Row
                 /\ Ingested(row).id = row.id /\ Ingested(row).by = row.by
                 /\ FromEvent(Ingested(row))
<1> DEFINE src == log[h][i]
<1>1. src \in Row
  BY DEF IInv, TypeOK
<1>2. PICK e \in Events \ pending :
         /\ src.id = e.id /\ src.by = e.by /\ src.stream = e.stream
         /\ IF e.stream \in HistoryStreams THEN src.text = e.text /\ src.hash = {e.text}
                                           ELSE src.hash = {}
  BY DEF IInv, RowsGenuine, FromEvent
<1> HIDE DEF src
<1>3. /\ row \in Row /\ row.id = e.id /\ row.by = e.by /\ row.stream = e.stream
      /\ row.text = WireText(src.text) /\ row.hash = src.hash
  BY <1>1, <1>2, WireFacts DEF src
<1>4. ASSUME ~HashMatches(row)
      PROVE  row.id \in Refused
  <2>1. row.hash # {} /\ row.hash # {row.text}
    BY <1>4 DEF HashMatches
  <2>2. e.stream \in HistoryStreams /\ e.text # WireText(e.text)
    BY <1>2, <1>3, <2>1
  <2>3. QED
    BY <1>3, <2>2 DEF Refused
<1>5. ASSUME HashMatches(row)
      PROVE  /\ e.stream \in HistoryStreams => row.text = e.text
             /\ row.id \notin Refused
  <2>1. ASSUME e.stream \in HistoryStreams
        PROVE  row.text = e.text /\ e.text = WireText(e.text)
    <3>1. row.hash = {e.text} /\ row.text = WireText(e.text)
      BY <1>2, <1>3, <2>1
    <3>2. {e.text} = {row.text}
      BY <1>5, <3>1 DEF HashMatches
    <3>3. QED
      BY <3>1, <3>2
  <2>2. row.id \notin Refused
    <3>1. SUFFICES ASSUME NEW f \in Events, f.id = row.id, f.stream \in HistoryStreams, f.text # WireText(f.text)
                   PROVE  FALSE
      BY DEF Refused
    <3>2. f = e
      BY <1>3, <3>1, EventIds
    <3>3. QED
      BY <2>1, <3>1, <3>2
  <2>3. QED
    BY <2>1, <2>2
<1>6. ASSUME HashMatches(row)
      PROVE  /\ Ingested(row) \in Row
             /\ Ingested(row).id = row.id /\ Ingested(row).by = row.by
             /\ FromEvent(Ingested(row))
  <2> DEFINE hash == IF row.stream \in HistoryStreams THEN {row.text} ELSE {}
  <2>1. hash \in SUBSET AnyText
    BY <1>3 DEF Row
  <2>2. Ingested(row) = [row EXCEPT !.hash = hash]
    BY DEF Ingested
  <2>3. hash = IF e.stream \in HistoryStreams THEN {e.text} ELSE {}
    BY <1>3, <1>5, <1>6
  <2> HIDE DEF hash
  <2>4. /\ Ingested(row) \in Row /\ Ingested(row).id = row.id /\ Ingested(row).by = row.by
        /\ Ingested(row).stream = row.stream /\ Ingested(row).text = row.text
        /\ Ingested(row).hash = hash
    BY <1>3, <2>1, <2>2 DEF Row
  <2>5. FromEvent(Ingested(row))
    BY <1>3, <1>5, <1>6, <2>3, <2>4 DEF FromEvent
  <2>6. QED
    BY <2>4, <2>5
<1>7. row.id = log[h][i].id /\ row.by = log[h][i].by
  BY <1>2, <1>3 DEF src
<1>8. QED
  BY <1>3, <1>4, <1>5, <1>6, <1>7

\* Without a restore, whatever the source has appended before the pushed
\* event is at the destination, unless it failed or is refused.
LEMMA PredecessorsArrived ==
    ASSUME IInv, restored = {}, NEW r \in Relays, relay[r].busy,
           Done(r) \in Nat, Done(r) + 1 \in DOMAIN log[r[1]],
           NEW e \in Events, e.by = log[r[1]][Done(r) + 1].by, e.id < log[r[1]][Done(r) + 1].id
    PROVE  e.id \in IdsOf(log[r[2]]) \cup failed \cup Refused
<1> DEFINE k == Done(r) + 1
<1>1. stale = {} /\ Behind(r[1])
  BY RelayHubs DEF IInv, Unrestored
<1>2. e.id \in IdsOf(log[r[1]]) \cup failed \cup Refused
  BY <1>1 DEF Behind
<1>3. SUFFICES ASSUME NEW j \in DOMAIN log[r[1]], log[r[1]][j].id = e.id, e.id \notin failed
               PROVE  e.id \in IdsOf(log[r[2]]) \cup failed \cup Refused
  BY <1>2 DEF IdsOf
<1>4. log[r[1]] \in Seq(Row) /\ r[1] \in Hubs
  BY RelayTyped, RelayHubs
<1>5. j \in Nat /\ j >= 1 /\ k \in Nat
  BY <1>4
<1>6. log[r[1]][j].by = e.by
  <2>1. PICK f \in Events : log[r[1]][j].id = f.id /\ log[r[1]][j].by = f.by
    BY <1>4 DEF IInv, RowsGenuine, FromEvent
  <2>2. QED
    BY <1>3, <2>1, EventIds
<1>7. e.id \in Nat /\ log[r[1]][k].id \in Nat
  <2>1. log[r[1]][k] \in Row
    BY <1>4
  <2>2. QED
    BY <2>1, EventIds, RowIds
<1>8. ~(k < j)
  <2>1. SUFFICES ASSUME k < j PROVE FALSE
    OBVIOUS
  <2>2. log[r[1]][k].id < log[r[1]][j].id \/ log[r[1]][j].id \in failed
    BY <1>3, <1>4, <1>6, <2>1 DEF IInv, OrderPreserved
  <2>3. QED
    BY <1>3, <1>7, <2>2
<1>9. j # k
  BY <1>3, <1>7
<1>10. j \in 1..Done(r)
  BY <1>5, <1>8, <1>9
<1>11. e.id \in IdsOf(log[r[2]]) \cup reported \cup relay[r].errors
  BY <1>1, <1>3, <1>10 DEF IInv, PushedSoFar
<1>12. QED
  BY <1>11 DEF IInv, ErrorsExplained

LEMMA PushStep ==
    ASSUME IInv, NEW r \in Relays, PushEvent(r)
    PROVE  IInv'
<1> DEFINE h   == r[2]
<1> DEFINE k   == Done(r) + 1
<1> DEFINE row == Head(relay[r].page)
<1> DEFINE errors == IF HashMatches(row) THEN relay[r].errors ELSE relay[r].errors \cup {row.id}
<1>1. /\ relay[r].page # <<>>
      /\ log' = [log EXCEPT ![h] =
            IF HashMatches(row) /\ row.id \notin IdsOf(@) THEN Append(@, Ingested(row)) ELSE @]
      /\ relay' = [relay EXCEPT ![r].page = Tail(@), ![r].errors = errors]
      /\ UNCHANGED <<pending, restored, reported, failed, stale, faults, conn, got>>
  BY DEF PushEvent, subVars
<1>2. /\ relay[r].page \in Seq(Row) /\ relay[r].errors \subseteq Ids /\ h \in Hubs /\ r[1] \in Hubs
      /\ log \in [Hubs -> Seq(Row)]
  BY RelayTyped, RelayHubs DEF IInv, TypeOK
<1>3. row \in Row /\ row.id \in Ids
  <2>1. row \in Row
    BY <1>1, <1>2
  <2>2. QED
    BY <2>1, RowIds
<1>4. errors \in SUBSET Ids /\ relay[r].errors \subseteq errors
  BY <1>2, <1>3
<1> HIDE DEF errors, row
<1>5. /\ relay' \in [Relays -> RelayState]
      /\ relay[r].busy /\ Done(r) \in Nat /\ k \in DOMAIN log[r[1]]
      /\ row = Wire(log[r[1]][k])
  BY <1>1, <1>4, PushFacts DEF row
<1> HIDE DEF k
<1>6. /\ row.id = log[r[1]][k].id /\ row.by = log[r[1]][k].by
      /\ ~HashMatches(row) => row.id \in Refused
      /\ HashMatches(row) =>
            /\ row.id \notin Refused
            /\ Ingested(row) \in Row
            /\ Ingested(row).id = row.id /\ Ingested(row).by = row.by
            /\ FromEvent(Ingested(row))
  BY <1>2, <1>5, PushedRow
<1>7. errors \subseteq failed' \cup Refused
  BY <1>1, <1>6 DEF errors, IInv, ErrorsExplained
<1>8. ASSUME HashMatches(row), row.id \notin IdsOf(log[h])
      PROVE  /\ log' \in [Hubs -> Seq(Row)] /\ LogExtends /\ \A g \in Hubs : Distinct(log'[g])
             /\ row.id \in IdsOf(log'[h])
             /\ RowsGenuine' /\ PendingLater' /\ Unrestored' /\ OrderPreserved' /\ Following'
  <2> PICK new : new = Ingested(row)
    OBVIOUS
  <2>1. new \in Row /\ new.id = row.id /\ new.by = row.by /\ FromEvent(new)
    BY <1>6, <1>8
  <2>2. log' = [log EXCEPT ![h] = Append(@, new)]
    BY <1>1, <1>8
  <2>3. LogGains(h, new)
    BY <1>8, <2>1, <2>2 DEF LogGains
  <2>4. /\ log' \in [Hubs -> Seq(Row)] /\ LogExtends /\ \A g \in Hubs : Distinct(log'[g])
        /\ new.id \in IdsOf(log'[h])
    BY <1>2, <2>1, <2>3, LogGainsFacts
  <2>5. FromEvent(new)'
    BY <1>1, <2>1 DEF FromEvent
  <2>6. \A f \in pending' : new.by = f.by => new.id < f.id
    BY <1>1, <1>2, <1>5, <1>6, <2>1 DEF IInv, PendingLater
  <2>7. restored = {} =>
           \A e \in Events : e.by = new.by /\ e.id < new.id
               => e.id \in IdsOf(log[h]) \cup failed \cup Refused
    BY <1>5, <1>6, <2>1, PredecessorsArrived DEF k
  <2>8. restored = {} =>
           \A i \in DOMAIN log[h] :
               log[h][i].by = new.by => log[h][i].id < new.id \/ new.id \in failed
    <3>1. SUFFICES ASSUME restored = {}, NEW i \in DOMAIN log[h], log[h][i].by = row.by,
                          ~(log[h][i].id < row.id)
                   PROVE  row.id \in failed
      BY <2>1
    <3>2. log[h][i] \in Row
      BY <1>2
    <3>3. log[h][i].id \in Nat /\ row.id \in Nat /\ log[h][i].id # row.id
      BY <1>3, <1>8, <3>2, RowIds DEF IdsOf
    <3>4. row.id < log[h][i].id
      BY <3>1, <3>3
    <3>5. PICK e \in Events : e.id = row.id /\ e.by = row.by
      BY <2>1 DEF FromEvent
    <3>6. e.id \in IdsOf(log[h]) \cup failed \cup Refused
      BY <1>2, <3>1, <3>4, <3>5 DEF IInv, Unrestored, Behind
    <3>7. QED
      BY <1>6, <1>8, <3>5, <3>6
  <2>9. pending' \subseteq pending /\ \A e \in Events : e \in pending /\ e \notin pending' => e.id = new.id /\ e.by = h
    BY <1>1
  <2>10. UNCHANGED <<restored, conn, got, failed, stale>>
    BY <1>1
  <2>11. RowsGenuine' /\ PendingLater' /\ Unrestored' /\ OrderPreserved' /\ Following'
    BY <1>2, <2>1, <2>3, <2>5, <2>6, <2>7, <2>8, <2>9, <2>10, GainStep
  <2>12. QED
    BY <2>1, <2>4, <2>11
<1>9. ASSUME ~(HashMatches(row) /\ row.id \notin IdsOf(log[h]))
      PROVE  /\ log' \in [Hubs -> Seq(Row)] /\ LogExtends /\ \A g \in Hubs : Distinct(log'[g])
             /\ HashMatches(row) => row.id \in IdsOf(log'[h])
             /\ RowsGenuine' /\ PendingLater' /\ Unrestored' /\ OrderPreserved' /\ Following'
  <2>1. log' = log
    BY <1>1, <1>2, <1>9
  <2>2. \A g \in Hubs : Len(log[g]) \in Nat
    BY <1>2
  <2>3. LogExtends /\ \A g \in Hubs : Distinct(log'[g])
    BY <2>1, <2>2 DEF LogExtends, IInv, TypeOK, Distinct
  <2>4. RowsGenuine' /\ PendingLater' /\ Unrestored' /\ OrderPreserved' /\ Following'
    <3>1. UNCHANGED <<hubVars, subVars>> /\ failed \subseteq failed' /\ stale' \subseteq stale
      BY <1>1, <2>1 DEF hubVars, subVars
    <3>2. QED
      BY <3>1, RelayFrame
  <2>5. QED
    BY <1>2, <1>9, <2>1, <2>3, <2>4
<1>10. /\ log' \in [Hubs -> Seq(Row)] /\ LogExtends /\ \A g \in Hubs : Distinct(log'[g])
       /\ HashMatches(row) => row.id \in IdsOf(log'[h])
       /\ RowsGenuine' /\ PendingLater' /\ Unrestored' /\ OrderPreserved' /\ Following'
  BY <1>8, <1>9
<1>11. log[r[1]][Done(r) + 1].id \in IdsOf(log'[r[2]]) \cup errors
  BY <1>6, <1>10 DEF errors, k
<1>12. PagesPlaced' /\ ErrorsExplained' /\ CursorsInLog' /\ PushedSoFar' /\ NothingSilentlySkipped'
  <2>1. failed \subseteq failed' /\ UNCHANGED <<reported, stale>>
    BY <1>1
  <2>2. QED
    BY <1>1, <1>4, <1>7, <1>10, <1>11, <2>1, RelayMoves
<1>13. TypeOK'
  BY <1>1, <1>5, <1>10 DEF IInv, TypeOK, Distinct
<1>14. QED
  BY <1>10, <1>12, <1>13 DEF IInv


-----------------------------------------------------------------------------
(* A restore.                                                              *)

LEMMA RestoreStep ==
    ASSUME IInv, NEW h \in Hubs, Restore(h)
    PROVE  IInv'
<1>1. /\ \A r \in Relays : relay'[r] = IF h \in {r[1], r[2]} THEN Idle(relay[r].cursor) ELSE relay[r]
      /\ relay' = [r \in Relays |-> IF h \in {r[1], r[2]} THEN Idle(relay[r].cursor) ELSE relay[r]]
      /\ stale' = stale \cup {r \in Relays : h \in {r[1], r[2]}}
      /\ conn' = IF h = SubHub THEN {} ELSE conn
      /\ restored' = restored \cup {h}
      /\ UNCHANGED <<pending, reported, failed, got>>
      /\ faults' \in 0..MaxFaults
  BY FaultType DEF Restore, IInv
<1>2. PICK n \in 0..Len(log[h]) - 1 : log' = [log EXCEPT ![h] = SubSeq(@, 1, n)]
  BY DEF Restore
<1>3. log \in [Hubs -> Seq(Row)] /\ log[h] \in Seq(Row) /\ relay \in [Relays -> RelayState]
  BY DEF IInv, TypeOK
<1>4. /\ log' \in [Hubs -> Seq(Row)]
      /\ \A k \in Hubs \ {h} : log'[k] = log[k]
      /\ \A k \in Hubs : \A i \in DOMAIN log'[k] : i \in DOMAIN log[k] /\ log'[k][i] = log[k][i]
  <2>1. /\ SubSeq(log[h], 1, n) \in Seq(Row)
        /\ \A i \in DOMAIN SubSeq(log[h], 1, n) : i \in DOMAIN log[h] /\ SubSeq(log[h], 1, n)[i] = log[h][i]
    BY <1>3
  <2> DEFINE rows == SubSeq(log[h], 1, n)
  <2>2. log' = [log EXCEPT ![h] = rows]
    BY <1>2
  <2> HIDE DEF rows
  <2>3. rows \in Seq(Row) /\ \A i \in DOMAIN rows : i \in DOMAIN log[h] /\ rows[i] = log[h][i]
    BY <2>1 DEF rows
  <2>4. QED
    BY <1>3, <2>2, <2>3
<1>5. ASSUME NEW r \in Relays, r \notin stale'
      PROVE  r \notin stale /\ relay'[r] = relay[r] /\ log'[r[1]] = log[r[1]] /\ log'[r[2]] = log[r[2]]
  BY <1>1, <1>4, <1>5, RelayHubs
<1>6. \A r \in Relays : relay'[r].cursor = relay[r].cursor
  BY <1>1, RelayTyped, IdleType
<1>7. TypeOK'
  <2>1. relay' \in [Relays -> RelayState]
    <3>1. \A r \in Relays : relay'[r] \in RelayState
      BY <1>1, <1>3, RelayTyped, IdleType
    <3>2. QED
      BY <1>1, <3>1
  <2>2. conn' \subseteq [last : SUBSET Ids] /\ Cardinality(conn') <= 1
    <3>1. Cardinality({}) = 0
      BY FS_EmptySet
    <3>2. conn' = {} \/ conn' = conn
      BY <1>1
    <3>3. conn \subseteq [last : SUBSET Ids] /\ Cardinality(conn) <= 1 /\ 0 <= 1
      BY DEF IInv, TypeOK
    <3>4. CASE conn' = {}
      BY <3>1, <3>3, <3>4
    <3>5. CASE conn' = conn
      BY <3>3, <3>5
    <3>6. QED
      BY <3>2, <3>4, <3>5
  <2>3. \A k \in Hubs : \A i, j \in DOMAIN log'[k] : log'[k][i].id = log'[k][j].id => i = j
    BY <1>4 DEF IInv, TypeOK
  <2>4. stale' \subseteq Relays /\ restored' \subseteq Hubs
    BY <1>1 DEF IInv, TypeOK
  <2>5. QED
    BY <1>1, <1>4, <2>1, <2>2, <2>3, <2>4 DEF IInv, TypeOK
<1>8. RowsGenuine'
  <2>1. SUFFICES ASSUME NEW k \in Hubs, NEW i \in DOMAIN log'[k] PROVE FromEvent(log[k][i])'
    BY DEF RowsGenuine
  <2>2. FromEvent(log[k][i]) /\ log'[k][i] = log[k][i]
    BY <1>4 DEF IInv, RowsGenuine
  <2>3. QED
    BY <1>1, <2>2 DEF FromEvent
<1>9. PendingLater'
  BY <1>1, <1>4 DEF IInv, PendingLater
<1>10. PagesPlaced'
  <2>1. SUFFICES ASSUME NEW r \in Relays
                 PROVE  /\ ~relay'[r].busy => relay'[r].page = <<>> /\ relay'[r].errors = {}
                        /\ relay'[r].busy =>
                              /\ relay'[r].next <= Len(log'[r[1]])
                              /\ Done(r)' \in Nat
                              /\ \A i \in 1..Len(relay'[r].page) :
                                    relay'[r].page[i] = Wire(log'[r[1]][Done(r)' + i])
    BY DEF PagesPlaced
  <2>2. CASE h \in {r[1], r[2]}
    <3>1. relay'[r] = Idle(relay[r].cursor) /\ relay[r].cursor \in Nat
      BY <1>1, <2>2, RelayTyped
    <3>2. QED
      BY <3>1, IdleType
  <2>3. CASE h \notin {r[1], r[2]}
    <3>1. relay'[r] = relay[r] /\ log'[r[1]] = log[r[1]]
      BY <1>1, <1>4, <2>3, RelayHubs
    <3>2. Done(r)' = Done(r)
      BY <3>1 DEF Done
    <3>3. QED
      BY <3>1, <3>2 DEF IInv, PagesPlaced
  <2>4. QED
    BY <2>2, <2>3
<1>11. ErrorsExplained'
  <2>1. \A r \in Relays : relay'[r].errors \subseteq failed \cup Refused
    BY <1>1, RelayTyped, IdleType DEF IInv, ErrorsExplained
  <2>2. QED
    BY <1>1, <2>1 DEF IInv, ErrorsExplained, Refused
<1>12. CursorsInLog' /\ NothingSilentlySkipped'
  BY <1>1, <1>5 DEF IInv, CursorsInLog, NothingSilentlySkipped
<1>13. PushedSoFar'
  <2>1. SUFFICES ASSUME NEW r \in Relays, r \notin stale', relay'[r].busy, NEW i \in 1..Done(r)'
                 PROVE  log'[r[1]][i].id \in IdsOf(log'[r[2]]) \cup reported' \cup relay'[r].errors
    BY DEF PushedSoFar
  <2>2. /\ r \notin stale /\ relay'[r] = relay[r] /\ log'[r[1]] = log[r[1]] /\ log'[r[2]] = log[r[2]]
        /\ Done(r)' = Done(r)
    BY <1>5, <2>1 DEF Done
  <2>3. QED
    BY <1>1, <2>1, <2>2 DEF IInv, PushedSoFar
<1>14. Unrestored' /\ OrderPreserved'
  BY <1>1 DEF Unrestored, OrderPreserved
<1>15. Following'
  <2>1. SUFFICES ASSUME SubHub \notin restored'
                 PROVE  Following'
    BY DEF Following
  <2>2. SubHub \notin restored /\ h # SubHub
    BY <1>1, <2>1
  <2>3. SubRows' = SubRows /\ conn' = conn /\ got' = got
    BY <1>1, <1>4, <2>2, SyncAssumption DEF SubRows
  <2>4. QED
    BY <2>2, <2>3 DEF IInv, Following
<1>16. QED
  BY <1>7, <1>8, <1>9, <1>10, <1>11, <1>12, <1>13, <1>14, <1>15 DEF IInv

-----------------------------------------------------------------------------
(* The steps of the subscriber.                                            *)

\* What the subscriber has names its position.
LEMMA LastGotIs ==
    ASSUME IInv
    PROVE  /\ LastGot \subseteq Ids
           /\ SubHub \notin restored => LastGot = SinceAt(SubRows, Len(got))
<1>1. got \in Seq(Ids)
  BY DEF IInv, TypeOK
<1>2. CASE got = <<>>
  BY <1>2 DEF LastGot, SinceAt
<1>3. CASE got # <<>>
  <2>1. Len(got) \in Nat /\ Len(got) # 0 /\ Len(got) \in 1..Len(got) /\ Last(got) = got[Len(got)] /\ Last(got) \in Ids
    BY <1>1, <1>3 DEF Last
  <2>2. SubHub \notin restored => Last(got) = SubRows[Len(got)].id
    BY <2>1 DEF IInv, Following
  <2>3. QED
    BY <1>3, <2>1, <2>2 DEF LastGot, SinceAt
<1>4. QED
  BY <1>2, <1>3

\* The rows of a page arrive, or the first ones of them.
LEMMA ReceivedFacts ==
    ASSUME IInv, NEW since, SinceKnown(log[SubHub], SubStream, since),
           SubHub \notin restored => since = SinceAt(SubRows, Len(got)),
           NEW rows, rows \in Seq(Row), Len(rows) <= Len(Fresh(since)),
           \A i \in 1..Len(rows) : rows[i] = Fresh(since)[i],
           Received(rows)
    PROVE  /\ got' \in Seq(Ids)
           /\ rows # <<>> => {Last(rows).id} \subseteq Ids
           /\ SubHub \notin restored =>
                 /\ Len(got') <= Len(SubRows)
                 /\ \A i \in 1..Len(got') : got'[i] = SubRows[i].id
                 /\ rows # <<>> => {Last(rows).id} = SinceAt(SubRows, Len(got'))
<1>1. got \in Seq(Ids) /\ log[SubHub] \in Seq(Row)
  BY SyncAssumption DEF IInv, TypeOK
<1> DEFINE ids == [i \in DOMAIN rows |-> rows[i].id]
<1>2. got' = got \o ids
  BY DEF Received
<1>3. ids \in Seq(Ids) /\ Len(ids) = Len(rows) /\ \A i \in 1..Len(rows) : ids[i] = rows[i].id
  <2>1. DOMAIN rows = 1..Len(rows) /\ Len(rows) \in Nat /\ \A i \in DOMAIN rows : rows[i] \in Row
    OBVIOUS
  <2>2. \A i \in DOMAIN rows : rows[i].id \in Ids
    BY <2>1, RowIds
  <2>3. QED
    BY <2>1, <2>2
<1> HIDE DEF ids
<1>4. /\ got' \in Seq(Ids)
      /\ Len(got') = Len(got) + Len(rows) /\ Len(got) \in Nat /\ Len(rows) \in Nat
      /\ \A i \in 1..Len(got') : got'[i] = IF i <= Len(got) THEN got[i] ELSE ids[i - Len(got)]
  BY <1>1, <1>2, <1>3
<1>5. rows # <<>> => Len(rows) # 0 /\ Last(rows) = rows[Len(rows)] /\ Last(rows) \in Row
  BY <1>4 DEF Last
<1>6. rows # <<>> => {Last(rows).id} \subseteq Ids
  BY <1>5, RowIds
<1>7. ASSUME SubHub \notin restored
      PROVE  /\ Len(got') <= Len(SubRows)
             /\ \A i \in 1..Len(got') : got'[i] = SubRows[i].id
             /\ rows # <<>> => {Last(rows).id} = SinceAt(SubRows, Len(got'))
  <2>1. /\ Distinct(SubRows) /\ Len(got) <= Len(SubRows)
        /\ \A i \in 1..Len(got) : got[i] = SubRows[i].id
        /\ since = SinceAt(SubRows, Len(got))
    BY <1>7 DEF IInv, Following
  <2>2. SubRows \in Seq(Row) /\ Len(SubRows) \in Nat
    <3>1. SubRows \in Seq(Row)
      BY <1>1, StreamOfType DEF SubRows
    <3>2. QED
      BY <3>1
  <2>3. IsPageAfter(Fresh(since), SubRows, Len(got))
    <3>1. Len(got) \in 0..Len(SubRows)
      BY <1>4, <2>1, <2>2
    <3>2. QED
      BY <1>1, <2>1, <3>1, ReadAfter DEF SubRows, Fresh
  <2>4. Fresh(since) \in Seq(Row) /\ Len(Fresh(since)) \in Nat
    <3>1. Fresh(since) \in Seq(Row)
      BY <1>1, ReadType DEF Fresh
    <3>2. QED
      BY <3>1
  <2>5. Len(got) + Len(rows) <= Len(SubRows)
    BY <1>4, <2>2, <2>3, <2>4 DEF IsPageAfter
  <2>6. \A i \in 1..Len(rows) : rows[i] = SubRows[Len(got) + i]
    BY <1>4, <2>3, <2>4 DEF IsPageAfter
  <2>7. ASSUME NEW i \in 1..Len(got')
        PROVE  got'[i] = SubRows[i].id
    <3>1. CASE i <= Len(got)
      BY <1>4, <2>1, <3>1
    <3>2. CASE i > Len(got)
      <4>1. i - Len(got) \in 1..Len(rows) /\ Len(got) + (i - Len(got)) = i /\ ~(i <= Len(got))
        BY <1>4, <3>2
      <4>2. got'[i] = ids[i - Len(got)]
        BY <1>4, <4>1
      <4>3. QED
        BY <1>3, <2>6, <4>1, <4>2
    <3>3. QED
      BY <1>4, <3>1, <3>2
  <2>8. ASSUME rows # <<>>
        PROVE  {Last(rows).id} = SinceAt(SubRows, Len(got'))
    <3>1. Len(rows) \in 1..Len(rows) /\ Len(got') # 0
      BY <1>4, <1>5, <2>8
    <3>2. Last(rows) = SubRows[Len(got')]
      BY <1>4, <1>5, <2>6, <2>8, <3>1
    <3>3. QED
      BY <3>1, <3>2 DEF SinceAt
  <2>9. QED
    BY <1>4, <2>5, <2>7, <2>8
<1>8. QED
  BY <1>4, <1>6, <1>7

\* The subscriber's invariants from what it has and how it is connected.
LEMMA SubscriberStep ==
    ASSUME IInv, UNCHANGED <<relay, reported, failed, stale, hubVars>>, faults' \in 0..MaxFaults,
           got' \in Seq(Ids),
           conn' \in {conn, {}} \/ \E last \in SUBSET Ids : conn' = {[last |-> last]},
           SubHub \notin restored =>
              /\ Len(got') <= Len(SubRows)
              /\ \A i \in 1..Len(got') : got'[i] = SubRows[i].id
              /\ \A c \in conn' : c.last = SinceAt(SubRows, Len(got'))
    PROVE  IInv'
<1>1. log' = log /\ pending' = pending /\ restored' = restored
  BY DEF hubVars
<1>2. conn' \subseteq [last : SUBSET Ids] /\ Cardinality(conn') <= 1
  <2>1. CASE conn' = conn
    BY <2>1 DEF IInv, TypeOK
  <2>2. CASE conn' = {}
    BY <2>2, FS_EmptySet
  <2>3. ASSUME NEW last \in SUBSET Ids, conn' = {[last |-> last]}
        PROVE  conn' \subseteq [last : SUBSET Ids] /\ Cardinality(conn') <= 1
    <3>1. Cardinality(conn') = 1
      BY <2>3, FS_Singleton
    <3>2. QED
      BY <2>3, <3>1
  <2>4. QED
    BY <2>1, <2>2, <2>3
<1>3. TypeOK'
  BY <1>1, <1>2 DEF IInv, TypeOK
<1>4. Following'
  <2>1. SubRows' = SubRows
    BY <1>1 DEF SubRows
  <2>2. QED
    BY <1>1, <2>1 DEF IInv, Following
<1>5. QED
  BY <1>3, <1>4, SubscriberFrame DEF IInv

LEMMA SubscribeStep ==
    ASSUME IInv, Subscribe
    PROVE  IInv'
<1>1. /\ UNCHANGED <<got, relay, reported, failed, stale, faults, hubVars>>
      /\ conn' = {[last |-> LastGot]}
  BY DEF Subscribe
<1>2. LastGot \in SUBSET Ids /\ (SubHub \notin restored => LastGot = SinceAt(SubRows, Len(got)))
  BY LastGotIs
<1>3. got' \in Seq(Ids) /\ faults' \in 0..MaxFaults
  BY <1>1 DEF IInv, TypeOK
<1>4. SubHub \notin restored =>
         /\ Len(got') <= Len(SubRows)
         /\ \A i \in 1..Len(got') : got'[i] = SubRows[i].id
         /\ \A c \in conn' : c.last = SinceAt(SubRows, Len(got'))
  BY <1>1, <1>2 DEF IInv, Following
<1>5. QED
  BY <1>1, <1>2, <1>3, <1>4, SubscriberStep

LEMMA VaultReadStep ==
    ASSUME IInv, handleVaultRead
    PROVE  IInv'
<1>1. /\ conn = {} /\ SinceKnown(log[SubHub], SubStream, LastGot)
      /\ Received(Fresh(LastGot))
      /\ UNCHANGED <<conn, relay, reported, failed, stale, faults, hubVars>>
  BY DEF handleVaultRead
<1>2. PICK since : since = LastGot
  OBVIOUS
<1>3. SubHub \notin restored => since = SinceAt(SubRows, Len(got))
  BY <1>2, LastGotIs
<1>4. Fresh(since) \in Seq(Row)
  BY <1>1, <1>2, ReadType, SyncAssumption DEF Fresh, IInv, TypeOK
<1>5. Len(Fresh(since)) <= Len(Fresh(since))
  <2>1. Len(Fresh(since)) \in Nat
    BY <1>4
  <2>2. QED
    BY <2>1
<1>6. /\ got' \in Seq(Ids)
      /\ SubHub \notin restored =>
            /\ Len(got') <= Len(SubRows)
            /\ \A i \in 1..Len(got') : got'[i] = SubRows[i].id
  BY <1>1, <1>2, <1>3, <1>4, <1>5, ReceivedFacts
<1>7. conn' = {} /\ faults' \in 0..MaxFaults
  BY <1>1 DEF IInv, TypeOK
<1>8. QED
  BY <1>1, <1>6, <1>7, SubscriberStep

LEMMA DeliverStep ==
    ASSUME IInv, deliverNew
    PROVE  IInv'
<1>1. PICK c \in conn :
         /\ SinceKnown(log[SubHub], SubStream, c.last)
         /\ Fresh(c.last) # <<>>
         /\ Received(Fresh(c.last))
         /\ conn' = {[last |-> {Last(Fresh(c.last)).id}]}
         /\ UNCHANGED <<relay, reported, failed, stale, faults, hubVars>>
  BY DEF deliverNew
<1>2. SubHub \notin restored => c.last = SinceAt(SubRows, Len(got))
  BY DEF IInv, Following
<1>3. Fresh(c.last) \in Seq(Row)
  BY <1>1, ReadType, SyncAssumption DEF Fresh, IInv, TypeOK
<1>4. Len(Fresh(c.last)) <= Len(Fresh(c.last))
  <2>1. Len(Fresh(c.last)) \in Nat
    BY <1>3
  <2>2. QED
    BY <2>1
<1>5. /\ got' \in Seq(Ids)
      /\ {Last(Fresh(c.last)).id} \subseteq Ids
      /\ SubHub \notin restored =>
            /\ Len(got') <= Len(SubRows)
            /\ \A i \in 1..Len(got') : got'[i] = SubRows[i].id
            /\ {Last(Fresh(c.last)).id} = SinceAt(SubRows, Len(got'))
  BY <1>1, <1>2, <1>3, <1>4, ReceivedFacts
<1>6. faults' \in 0..MaxFaults
  BY <1>1 DEF IInv, TypeOK
<1>7. SubHub \notin restored => \A d \in conn' : d.last = SinceAt(SubRows, Len(got'))
  <2>1. PICK last : last = {Last(Fresh(c.last)).id}
    OBVIOUS
  <2>2. \A d \in conn' : d.last = last
    BY <1>1, <2>1
  <2>3. QED
    BY <1>5, <2>1, <2>2
<1>8. QED
  BY <1>1, <1>5, <1>6, <1>7, SubscriberStep

LEMMA BrokenStep ==
    ASSUME IInv, deliverBroken
    PROVE  IInv'
<1>1. /\ conn' = {} /\ faults' \in 0..MaxFaults
      /\ UNCHANGED <<relay, reported, failed, stale, hubVars>>
  BY FaultType DEF deliverBroken, IInv
<1>2. PICK c \in conn :
         /\ SinceKnown(log[SubHub], SubStream, c.last)
         /\ \E n \in 0..Len(Fresh(c.last)) : Received(SubSeq(Fresh(c.last), 1, n))
  BY DEF deliverBroken
<1>3. PICK n \in 0..Len(Fresh(c.last)) : Received(SubSeq(Fresh(c.last), 1, n))
  BY <1>2
<1>4. SubHub \notin restored => c.last = SinceAt(SubRows, Len(got))
  BY DEF IInv, Following
<1>5. Fresh(c.last) \in Seq(Row)
  BY <1>2, ReadType, SyncAssumption DEF Fresh, IInv, TypeOK
<1>6. PICK rows : rows = SubSeq(Fresh(c.last), 1, n)
  OBVIOUS
<1>7. rows \in Seq(Row) /\ Len(rows) <= Len(Fresh(c.last)) /\ \A i \in 1..Len(rows) : rows[i] = Fresh(c.last)[i]
  BY <1>5, <1>6
<1>8. /\ got' \in Seq(Ids)
      /\ SubHub \notin restored =>
            /\ Len(got') <= Len(SubRows)
            /\ \A i \in 1..Len(got') : got'[i] = SubRows[i].id
  BY <1>2, <1>3, <1>4, <1>6, <1>7, ReceivedFacts
<1>9. QED
  BY <1>1, <1>8, SubscriberStep

-----------------------------------------------------------------------------
(* The theorems.                                                           *)

LEMMA InitIInv == Init => IInv
<1>1. SUFFICES ASSUME Init PROVE IInv
  OBVIOUS
<1>2. /\ \A h \in Hubs : log[h] = <<>> /\ DOMAIN log[h] = {} /\ Len(log[h]) = 0
      /\ log \in [Hubs -> Seq(Row)]
      /\ pending = Events /\ reported = {} /\ failed = {} /\ stale = {} /\ restored = {}
      /\ conn = {} /\ got = <<>> /\ faults = 0
  BY <1>1 DEF Init
<1>3. \A r \in Relays : relay[r] = Idle(0) /\ relay[r] \in RelayState
  <2>1. 0 \in Nat
    OBVIOUS
  <2>2. Idle(0) \in RelayState
    BY <2>1, IdleType
  <2>3. QED
    BY <1>1, <2>2 DEF Init
<1>4. \A r \in Relays : relay[r].cursor = 0 /\ relay[r].page = <<>> /\ relay[r].errors = {} /\ ~relay[r].busy
  <2>1. 0 \in Nat
    OBVIOUS
  <2>2. QED
    BY <1>3, <2>1, IdleType
<1>5. TypeOK
  <2>1. relay \in [Relays -> RelayState]
    BY <1>1, <1>3 DEF Init
  <2>2. Cardinality(conn) <= 1 /\ conn \subseteq [last : SUBSET Ids]
    BY <1>2, FS_EmptySet
  <2>3. got \in Seq(Ids) /\ faults \in 0..MaxFaults
    BY <1>2, SyncAssumption
  <2>4. QED
    BY <1>2, <2>1, <2>2, <2>3 DEF TypeOK
<1>6. RowsGenuine /\ PendingLater /\ OrderPreserved
  BY <1>2 DEF RowsGenuine, PendingLater, OrderPreserved
<1>7. PagesPlaced /\ ErrorsExplained
  BY <1>2, <1>4 DEF PagesPlaced, ErrorsExplained
<1>8. CursorsInLog /\ NothingSilentlySkipped
  <2>1. 1..0 = {} /\ 0 <= 0
    OBVIOUS
  <2>2. QED
    BY <1>2, <1>4, <2>1, RelayHubs DEF CursorsInLog, NothingSilentlySkipped
<1>9. PushedSoFar
  BY <1>4 DEF PushedSoFar
<1>10. Unrestored
  BY <1>2 DEF Unrestored, Behind
<1>11. Following
  <2>1. SubRows = <<>>
    BY <1>2, StreamOfEmpty, SyncAssumption DEF SubRows
  <2>2. Len(<<>>) = 0 /\ DOMAIN <<>> = {} /\ 1..0 = {} /\ 0 <= 0
    OBVIOUS
  <2>3. QED
    BY <1>2, <2>1, <2>2 DEF Following, Distinct
<1>12. QED
  BY <1>5, <1>6, <1>7, <1>8, <1>9, <1>10, <1>11 DEF IInv

LEMMA NextIInv == IInv /\ [Next]_vars => IInv'
<1>1. SUFFICES ASSUME IInv, [Next]_vars PROVE IInv'
  OBVIOUS
<1>2. CASE UNCHANGED vars
  <2>1. /\ UNCHANGED <<relay, reported, failed, stale, hubVars>> /\ got' = got /\ conn' = conn
        /\ faults' = faults
    BY <1>2 DEF vars, hubVars
  <2>2. got \in Seq(Ids) /\ faults \in 0..MaxFaults
    BY <1>1 DEF IInv, TypeOK
  <2>3. SubHub \notin restored =>
           /\ Len(got) <= Len(SubRows)
           /\ \A i \in 1..Len(got) : got[i] = SubRows[i].id
           /\ \A c \in conn : c.last = SinceAt(SubRows, Len(got))
    BY <1>1 DEF IInv, Following
  <2>4. QED
    BY <1>1, <2>1, <2>2, <2>3, SubscriberStep
<1>3. CASE \E e \in Events : AppendEvent(e)
  BY <1>1, <1>3, AppendStep
<1>4. CASE \E h \in Hubs : Restore(h)
  BY <1>1, <1>4, RestoreStep
<1>5. CASE \E r \in Relays : RelayStep(r)
  BY <1>1, <1>5, PullStep, PushStep, AnsweredStep DEF RelayStep
<1>6. CASE \E r \in Relays : PushEventFails(r)
  BY <1>1, <1>6, FailsStep
<1>7. CASE \E r \in Relays : PushCutOff(r)
  BY <1>1, <1>7, CutOffStep
<1>8. CASE \E r \in Relays : RelayRestarted(r)
  BY <1>1, <1>8, RestartedStep
<1>9. CASE handleVaultRead
  BY <1>1, <1>9, VaultReadStep
<1>10. CASE Subscribe
  BY <1>1, <1>10, SubscribeStep
<1>11. CASE deliverNew
  BY <1>1, <1>11, DeliverStep
<1>12. CASE deliverBroken
  BY <1>1, <1>12, BrokenStep
<1>13. QED
  BY <1>1, <1>2, <1>3, <1>4, <1>5, <1>6, <1>7, <1>8, <1>9, <1>10, <1>11, <1>12 DEF Next

\* The inductive invariant holds of every state of SyncPull, IngestEvent,
\* deliverNew and the backups that may come between.
THEOREM Invariance == Spec => []IInv
<1>1. Init => IInv
  BY InitIInv
<1>2. IInv /\ [Next]_vars => IInv'
  BY NextIInv
<1>3. QED
  BY <1>1, <1>2, PTL DEF Spec

\* Every variable has its type, and no hub stores an id twice (the primary key
\* of table events, and ON CONFLICT in IngestEvent).
THEOREM TypeCorrect == Spec => []TypeOK
<1>1. IInv => TypeOK
  BY DEF IInv
<1>2. QED
  BY <1>1, Invariance, PTL

\* What lies at or below the cursor of a relay, the cursor handleSyncPull gave
\* it, is stored at the destination or was named in an answer of
\* handleSyncPush, unless a hub was restored since the relay started.
THEOREM NothingSkipped == Spec => []NothingSilentlySkipped
<1>1. IInv => NothingSilentlySkipped
  BY DEF IInv
<1>2. QED
  BY <1>1, Invariance, PTL

\* Every hub that ingests has the events one hub appended in the order it
\* appended them, but for those whose ingest failed.
THEOREM OrderKept == Spec => []OrderPreserved
<1>1. IInv => OrderPreserved
  BY DEF IInv
<1>2. QED
  BY <1>1, Invariance, PTL

\* What deliverNew and handleVaultRead gave the subscriber is the beginning of
\* its stream.
THEOREM DeliveredPrefix == Spec => []DeliveredIsPrefix
<1>1. IInv => DeliveredIsPrefix
  <2>1. SUFFICES ASSUME IInv, SubHub \notin restored
                 PROVE  IsPrefix(got, [i \in DOMAIN SubRows |-> SubRows[i].id])
    BY DEF DeliveredIsPrefix, SubRows
  <2> DEFINE ids == [i \in DOMAIN SubRows |-> SubRows[i].id]
  <2>2. /\ Len(got) <= Len(SubRows) /\ \A i \in 1..Len(got) : got[i] = SubRows[i].id
        /\ got \in Seq(Ids)
    BY <2>1 DEF IInv, Following, TypeOK
  <2>3. SubRows \in Seq(Row)
    <3>1. log[SubHub] \in Seq(Row)
      BY <2>1, SyncAssumption DEF IInv, TypeOK
    <3>2. QED
      BY <3>1, StreamOfType DEF SubRows
  <2>4. /\ ids \in Seq(Ids) /\ Len(ids) = Len(SubRows)
        /\ \A i \in 1..Len(SubRows) : ids[i] = SubRows[i].id
    <3>1. DOMAIN SubRows = 1..Len(SubRows) /\ Len(SubRows) \in Nat /\ \A i \in DOMAIN SubRows : SubRows[i] \in Row
      BY <2>3
    <3>2. \A i \in DOMAIN SubRows : SubRows[i].id \in Ids
      BY <3>1, RowIds
    <3>3. QED
      BY <3>1, <3>2
  <2> HIDE DEF ids
  <2>5. Len(got) <= Len(ids) /\ \A i \in 1..Len(got) : got[i] = ids[i]
    <3>1. Len(got) \in Nat /\ Len(SubRows) \in Nat
      BY <2>2, <2>3
    <3>2. QED
      BY <2>2, <2>4, <3>1
  <2>6. SubSeq(ids, 1, Len(got)) = got
    <3>1. Len(got) \in Nat /\ Len(ids) \in Nat
      BY <2>2, <2>4
    <3>2. QED
      BY <2>2, <2>4, <2>5, <3>1
  <2>7. IsPrefix(got, ids)
    BY <2>5, <2>6 DEF IsPrefix
  <2>8. QED
    BY <2>7 DEF ids
<1>2. QED
  BY <1>1, Invariance, PTL
=============================================================================
