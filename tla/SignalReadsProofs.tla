-------------------------- MODULE SignalReadsProofs -------------------------
(***************************************************************************)
(* Proofs about LogPages, for pages of any length, any rows and spans, any *)
(* tenants and any bound on the times, and about RumReads, for any page    *)
(* views and beacons and any bound on what happens on a page.              *)
(***************************************************************************)
EXTENDS LogPages, RumReads, FiniteSetTheorems, FunctionTheorems, TLAPS

-----------------------------------------------------------------------------
(* LogPages. *)

\* What the list query chooses the page from.
Eligible == {r \in Listed(req) : Within(r, req, cursor)}

\* What a row of the page still fits when a relative window has moved on.
Chosen(r) ==
  IF cursor = 0 THEN /\ req.list = "logs" => r.at <= req.window.to
                     /\ ~req.window.slides => r.at >= req.window.from
                ELSE r.at < cursor

Reading == {"list", "count", "reply"}

\* A page stays within what it was chosen from, and its last row is on it; in the
\* explorer none of its rows is older than that.
PageInv ==
  /\ pc \in {"idle", "list", "done"} => page = {} /\ last = NoEntry /\ left = {}
  /\ page \subseteq {r \in Listed(req) : Chosen(r)}
  /\ last.row = NoRow => last = NoEntry
  /\ last.row # NoRow =>
       /\ last.row \in page
       /\ req.list = "logs" => \A r \in page : last.row.at <= r.at

\* Rows of earlier pages of the explorer are not before the cursor.
SeenInv ==
  pc \in Reading =>
    /\ cursor = 0 => seen = {}
    /\ req.list = "logs" => \A r \in seen : r.at >= cursor

\* What the list held at first is on a page, or cut off by a millisecond, or ahead.
Ahead(r) ==
  CASE pc = "list"                -> r.at < cursor
    [] pc \in {"count", "reply"}  -> r \in page \/ (last.row # NoRow /\ HasMore(page) /\ r.at <= last.row.at)
    [] OTHER                      -> FALSE

AskedInv ==
  /\ asked \subseteq Listed(req)
  /\ pc \in {"list", "idle"} /\ cursor = 0 => asked = {}
  /\ pc = "idle" => asked = {}
  /\ \A r \in asked : uneven \/ adrift \/ r \in seen \/ r.at \in cursors \/ Ahead(r)

IInv == TypeOK /\ IsFiniteSet(rows) /\ PageInv /\ SeenInv /\ AskedInv /\ CountsCoverPage

-----------------------------------------------------------------------------
LEMMA RowsAreNot == \A r \in Row : r # NoRow /\ r.at \in 1..MaxTime /\ r.list \in List
BY DEF Row, NoRow, List

\* The last entry belongs to a row of the page, in the explorer to one of the oldest.
LEMMA EndsOnPage ==
  ASSUME NEW p \in SUBSET Row, NEW x \in Ends(p)
  PROVE  /\ x \in [row : p, time : 0..MaxTime]
         /\ (\A r \in p : r.list = "logs") => \A r \in p : x.row.at <= r.at
<1>1. x \in Entries(p) /\ \A f \in Entries(p) : x.time <= f.time
  BY DEF Ends
<1>2. PICK r \in p : \E t \in IF r.list = "logs" THEN {r.at} ELSE r.marks : x = [row |-> r, time |-> t]
  BY <1>1 DEF Entries
<1>3. r.at \in 1..MaxTime /\ r.marks \subseteq 0..MaxTime /\ MaxTime \in Nat
  BY PagingAssumption DEF Row
<1>4. x \in [row : p, time : 0..MaxTime]
  BY <1>2, <1>3
<1>5. ASSUME \A s \in p : s.list = "logs", NEW s \in p
      PROVE  x.row.at <= s.at
  <2>1. [row |-> s, time |-> s.at] \in Entries(p)
    BY <1>5 DEF Entries
  <2>2. x.row = r /\ x.time = r.at
    BY <1>2, <1>5
  <2> QED
    BY <1>1, <2>1, <2>2
<1> QED
  BY <1>4, <1>5

\* Rows and spans only arrive: what is listed stays listed.
LEMMA ListedGrows ==
  ASSUME rows \subseteq rows', spans \subseteq spans', UNCHANGED req
  PROVE  Listed(req) \subseteq Listed(req)'
BY DEF Listed, Visible

LEMMA InitIInv == Init => IInv
<1> SUFFICES ASSUME Init PROVE IInv
  OBVIOUS
<1> USE PagingAssumption DEF Init
<1>1. req \in Request
  <2>1. PICK s \in Scope, w \in Windows : TRUE
    OBVIOUS
  <2>2. [list |-> "logs", scope |-> s, window |-> w] \in Request
    BY <2>1 DEF Request, List
  <2> QED
    BY <2>2
<1>2. IsFiniteSet({}) /\ Cardinality({}) = 0
  BY FS_EmptySet
<1>3. TypeOK
  <2>1. cursor \in 0..MaxTime /\ slid \in 0..MaxTime /\ Cardinality(page) <= Limit /\ part \in Part
    BY <1>2 DEF Part
  <2>2. uneven \in BOOLEAN /\ adrift \in BOOLEAN /\ full \in BOOLEAN
    OBVIOUS
  <2>3. last \in [row : Row \cup {NoRow}, time : 0..MaxTime]
    BY DEF NoEntry
  <2> QED
    BY <1>1, <2>1, <2>2, <2>3 DEF TypeOK
<1>4. PageInv /\ SeenInv /\ AskedInv /\ CountsCoverPage
  BY DEF PageInv, SeenInv, AskedInv, CountsCoverPage, Reading, NoEntry
<1> QED
  BY <1>2, <1>3, <1>4 DEF IInv

LEMMA ArriveStep ==
  ASSUME IInv, rows \subseteq rows', rows' \subseteq Row, IsFiniteSet(rows'),
         spans \subseteq spans', spans' \subseteq Trace \X Tenant, UNCHANGED session
  PROVE  IInv'
<1> USE DEF IInv, session
<1>1. TypeOK'
  BY DEF TypeOK
<1>2. Listed(req) \subseteq Listed(req)'
  BY ListedGrows
<1>3. PageInv'
  BY <1>2 DEF PageInv, Chosen
<1>4. SeenInv'
  BY DEF SeenInv, Reading
<1>5. AskedInv'
  BY <1>2 DEF AskedInv, Ahead, HasMore, Entries
<1>6. CountsCoverPage'
  BY DEF CountsCoverPage, Lower
<1> QED
  BY <1>1, <1>3, <1>4, <1>5, <1>6

LEMMA OpenStep ==
  ASSUME IInv, NEW q \in Request, Open(q)
  PROVE  IInv'
<1> USE DEF IInv, Open, store
<1>1. TypeOK'
  <2>1. cursor' \in 0..MaxTime /\ slid' \in 0..MaxTime /\ Cardinality(page') <= Limit /\ part' \in Part
    BY FS_EmptySet, PagingAssumption DEF Part
  <2>2. last' \in [row : Row \cup {NoRow}, time : 0..MaxTime]
    BY PagingAssumption DEF NoEntry
  <2>3. rows' = rows /\ spans' = spans /\ pc' = "list" /\ req' \in Request /\ page' = {} /\ left' = {}
        /\ full' = FALSE /\ seen' = {} /\ asked' = {} /\ cursors' = {} /\ uneven' = FALSE /\ adrift' = FALSE
    OBVIOUS
  <2> QED
    BY <2>1, <2>2, <2>3 DEF TypeOK
<1>2. PageInv' /\ SeenInv' /\ AskedInv' /\ CountsCoverPage'
  BY DEF PageInv, SeenInv, AskedInv, CountsCoverPage, NoEntry
<1> QED
  BY <1>1, <1>2

\* A window that moves on leaves less in it, and a row it has passed stays outside.
LEMMA SlideStep ==
  ASSUME IInv, Slide
  PROVE  IInv'
<1> USE DEF IInv
<1>1. /\ req.window.slides /\ slid < MaxTime /\ slid' = slid + 1 /\ pc \in {"list", "count"}
      /\ UNCHANGED <<rows, spans, pc, req, cursor, page, last, part, left, full, seen, asked, cursors, uneven, adrift>>
  BY DEF Slide, store
<1>2. slid \in Nat /\ slid \in 0..MaxTime /\ MaxTime \in Nat
  BY PagingAssumption DEF TypeOK
<1>3. TypeOK'
  <2>1. slid' \in 0..MaxTime
    BY <1>1, <1>2
  <2> QED
    BY <1>1, <2>1 DEF TypeOK
<1>4. Listed(req)' = Listed(req)
  BY <1>1 DEF Listed, Visible
<1>5. PageInv'
  BY <1>1, <1>4 DEF PageInv, Chosen
<1>6. SeenInv' /\ AskedInv'
  BY <1>1, <1>4 DEF SeenInv, Reading, AskedInv, Ahead, HasMore, Entries
<1>7. CountsCoverPage'
  <2>1. Lower(req) \in Int /\ Lower(req)' = Lower(req) + 1
    <3>1. req.window.from \in Nat
      BY PagingAssumption DEF TypeOK, Request
    <3> QED
      BY <1>1, <1>2, <3>1 DEF Lower
  <2>2. \A r \in left : r.at \in Int
    BY RowsAreNot, PagingAssumption DEF TypeOK
  <2> QED
    BY <1>1, <2>1, <2>2 DEF CountsCoverPage
<1> QED
  BY <1>1, <1>3, <1>5, <1>6, <1>7

LEMMA ReadPageStep ==
  ASSUME IInv, NEW p \in SUBSET rows, ReadPage(p)
  PROVE  IInv'
<1> USE PagingAssumption DEF IInv
<1>1. /\ pc = "list" /\ pc' \in {"count", "reply"}
      /\ IsPage(p, Eligible) /\ page' = p
      /\ last' \in IF Entries(p) = {} THEN {NoEntry} ELSE Ends(p)
      /\ asked' = IF cursor = 0 THEN {r \in Listed(req) : InWindow(r, req)} ELSE asked
      /\ uneven' = (uneven \/ Cardinality(Entries(p)) # Cardinality(p))
      /\ UNCHANGED <<rows, spans, req, slid, cursor, part, left, full, seen, cursors, adrift>>
  BY DEF ReadPage, Eligible, store
<1>2. /\ p \subseteq Row /\ p \subseteq Eligible
      /\ Cardinality(p) \in Nat /\ Cardinality(p) <= Limit
      /\ Cardinality(p) < Limit => p = Eligible
      /\ \A r \in Eligible \ p, s \in p : r.at <= s.at
  BY <1>1, FS_Subset, FS_CardinalityType DEF IsPage, TypeOK
<1>3. Listed(req)' = Listed(req)
  BY <1>1 DEF Listed, Visible
<1>4. \A r \in p : r.list = req.list
  BY <1>2 DEF Eligible, Listed
<1>5. /\ last' \in [row : Row \cup {NoRow}, time : 0..MaxTime]
      /\ last'.row = NoRow => last' = NoEntry
      /\ last'.row # NoRow => last'.row \in p /\ (req.list = "logs" => \A r \in p : last'.row.at <= r.at)
  <2>1. CASE last' = NoEntry
    BY <2>1 DEF NoEntry
  <2>2. CASE last' \in Ends(p)
    <3>1. /\ last' \in [row : p, time : 0..MaxTime]
          /\ (\A r \in p : r.list = "logs") => \A r \in p : last'.row.at <= r.at
      BY <1>2, <2>2, EndsOnPage
    <3>2. last'.row \in p /\ last'.row # NoRow
      BY <1>2, <3>1, RowsAreNot
    <3> QED
      BY <1>2, <1>4, <3>1, <3>2
  <2> QED
    BY <1>1, <2>1, <2>2
<1>6. TypeOK'
  <2>1. asked' \subseteq Row
    BY <1>1 DEF TypeOK, Listed
  <2>2. uneven' \in BOOLEAN
    BY <1>1, Zenon
  <2> QED
    BY <1>1, <1>2, <1>5, <2>1, <2>2 DEF TypeOK
<1>7. PageInv'
  <2>1. ASSUME NEW r \in p
        PROVE  r \in Listed(req) /\ Chosen(r)'
    <3>1. r \in Listed(req) /\ Within(r, req, cursor)
      BY <1>2, <2>1 DEF Eligible
    <3> QED
      BY <1>1, <3>1 DEF Chosen, Within, InWindow, Lower, Listed
  <2> QED
    BY <1>1, <1>3, <1>5, <2>1 DEF PageInv
<1>8. SeenInv'
  BY <1>1 DEF SeenInv, Reading
<1>9. AskedInv'
  <2>1. asked' \subseteq Listed(req)'
    BY <1>1, <1>3 DEF AskedInv
  <2>2. ASSUME NEW r \in asked', ~ uneven', ~ adrift', r \notin seen', r.at \notin cursors'
        PROVE  Ahead(r)'
    <3>1. r \in Eligible
      <4>1. CASE cursor = 0
        BY <1>1, <2>2, <4>1 DEF Eligible, Within
      <4>2. CASE cursor # 0
        <5>1. r \in asked /\ ~ uneven /\ ~ adrift
          BY <1>1, <2>2, <4>2
        <5>2. r.at < cursor
          BY <1>1, <2>2, <5>1 DEF AskedInv, Ahead
        <5> QED
          BY <4>2, <5>1, <5>2 DEF AskedInv, Eligible, Within
      <4> QED
        BY <4>1, <4>2
    <3>2. CASE r \in p
      BY <1>1, <3>2 DEF Ahead
    <3>3. CASE r \notin p
      <4>1. Cardinality(p) = Limit /\ Cardinality(Entries(p)) = Limit
        <5>1. Cardinality(Entries(p)) = Cardinality(p)
          BY <1>1, <2>2, Zenon
        <5>2. p # Eligible
          BY <3>1, <3>3
        <5> QED
          BY <1>2, <5>1, <5>2
      <4>2. Entries(p) # {}
        BY <4>1, FS_EmptySet
      <4>3. last' \in [row : p, time : 0..MaxTime]
        BY <1>1, <1>2, <4>2, EndsOnPage
      <4>4. last'.row \in p /\ last'.row # NoRow /\ r.at <= last'.row.at
        BY <1>2, <3>1, <3>3, <4>3, RowsAreNot
      <4>5. HasMore(page)'
        BY <1>1, <4>1 DEF HasMore, Entries
      <4> QED
        BY <1>1, <4>4, <4>5 DEF Ahead
    <3> QED
      BY <3>2, <3>3
  <2> QED
    BY <1>1, <2>1, <2>2 DEF AskedInv
<1>10. CountsCoverPage'
  BY <1>1 DEF CountsCoverPage, Lower
<1> QED
  BY <1>1, <1>6, <1>7, <1>8, <1>9, <1>10

LEMMA ReadFailedStep ==
  ASSUME IInv, ReadFailed
  PROVE  IInv'
<1> USE DEF IInv, ReadFailed, store
<1>1. TypeOK'
  <2>1. cursor' \in 0..MaxTime /\ slid' \in 0..MaxTime
    BY PagingAssumption
  <2>2. /\ pc' = "idle" /\ seen' = {} /\ asked' = {} /\ cursors' = {} /\ uneven' = FALSE /\ adrift' = FALSE
        /\ UNCHANGED <<rows, spans, req, page, last, part, left, full>>
    OBVIOUS
  <2> QED
    BY <2>1, <2>2 DEF TypeOK
<1>2. PageInv'
  BY DEF PageInv
<1>3. SeenInv' /\ AskedInv'
  BY DEF SeenInv, AskedInv, Reading
<1>4. CountsCoverPage'
  BY DEF CountsCoverPage, PageInv
<1> QED
  BY <1>1, <1>2, <1>3, <1>4

\* The three counting queries, and one that fails, move on alike.
LEMMA CountStep ==
  ASSUME IInv, pc = "count", NextPart, left' \subseteq page, full' \in BOOLEAN, CountsCoverPage',
         UNCHANGED <<store, req, slid, cursor, page, last, seen, asked, cursors, uneven, adrift>>
  PROVE  IInv'
<1> USE DEF IInv
<1>1. /\ pc' \in {"count", "reply"} /\ part' \in Part
      /\ UNCHANGED <<rows, spans, req, slid, cursor, page, last, seen, asked, cursors, uneven, adrift>>
  BY DEF NextPart, store, TypeOK, Part
<1>2. TypeOK'
  BY <1>1 DEF TypeOK
<1>3. PageInv'
  BY <1>1 DEF PageInv, Chosen, Listed, Visible
<1>4. SeenInv'
  BY <1>1 DEF SeenInv, Reading
<1>5. AskedInv'
  BY <1>1 DEF AskedInv, Ahead, HasMore, Entries, Listed, Visible
<1> QED
  BY <1>1, <1>2, <1>3, <1>4, <1>5

\* What a row of the page has to do to be counted no more.
LEMMA Uncounted ==
  ASSUME IInv, NEW r \in page, r \notin Countable
  PROVE  cursor = 0 /\ req.window.slides /\ r.at < Lower(req)
<1>1. r \in Listed(req) /\ Chosen(r) /\ r \in Row
  BY DEF IInv, PageInv, TypeOK
<1>2. cursor = 0 /\ ~InWindow(r, req)
  BY <1>1 DEF Countable
<1>3. r.at \in Int /\ req.list = r.list
  BY <1>1, RowsAreNot, PagingAssumption DEF Listed
<1>4. req.window.from \in Nat /\ slid \in Nat
  BY PagingAssumption DEF IInv, TypeOK, Request
<1>5. Lower(req) \in Int /\ ~ (r.at >= Lower(req))
  BY <1>1, <1>2, <1>4 DEF InWindow, Chosen, Lower
<1>6. r.at < Lower(req)
  BY <1>3, <1>5
<1> QED
  BY <1>1, <1>2, <1>5, <1>6 DEF Chosen, Lower

LEMMA CountHistogramStep ==
  ASSUME IInv, CountHistogram
  PROVE  IInv'
<1>1. /\ pc = "count" /\ NextPart /\ left' = page \ Countable /\ full' = FALSE
      /\ UNCHANGED <<store, req, slid, cursor, page, last, seen, asked, cursors, uneven, adrift>>
  BY DEF CountHistogram
<1>2. CountsCoverPage'
  BY <1>1, Uncounted DEF CountsCoverPage, Lower
<1> QED
  BY <1>1, <1>2, CountStep

LEMMA CountFacetStep ==
  ASSUME IInv, NEW V \in SUBSET Value, CountFacet(V)
  PROVE  IInv'
<1>1. /\ pc = "count" /\ NextPart
      /\ left' = page \ {r \in Countable : ValueOf[r.id][part] \in V}
      /\ full' = (\E r \in Countable : ValueOf[r.id][part] \notin V)
      /\ UNCHANGED <<store, req, slid, cursor, page, last, seen, asked, cursors, uneven, adrift>>
  BY DEF CountFacet
<1>2. full' \in BOOLEAN
  BY <1>1, Zenon
<1>3. CountsCoverPage'
  <2> SUFFICES ASSUME NEW r \in left', ~ full'
               PROVE  cursor = 0 /\ req.window.slides /\ r.at < Lower(req)
    BY <1>1 DEF CountsCoverPage, Lower
  <2>1. \A s \in Countable : ValueOf[s.id][part] \in V
    BY <1>1, Zenon
  <2>2. r \in page /\ r \notin Countable
    BY <1>1, <2>1
  <2> QED
    BY <2>2, Uncounted
<1> QED
  BY <1>1, <1>2, <1>3, CountStep

LEMMA CountFailedStep ==
  ASSUME IInv, CountFailed
  PROVE  IInv'
<1>1. /\ pc = "count" /\ NextPart /\ left' = {} /\ full' = FALSE
      /\ UNCHANGED <<store, req, slid, cursor, page, last, seen, asked, cursors, uneven, adrift>>
  BY DEF CountFailed
<1>2. CountsCoverPage'
  BY <1>1 DEF CountsCoverPage
<1> QED
  BY <1>1, <1>2, CountStep

LEMMA ReplyStep ==
  ASSUME IInv, Reply
  PROVE  IInv'
<1> USE DEF IInv
<1>1. /\ pc = "reply" /\ page' = {} /\ last' = NoEntry /\ left' = {} /\ full' = FALSE /\ seen' = seen \cup page
      /\ pc' = IF cursor' > 0 /\ HasMore(page) THEN "list" ELSE "done"
      /\ cursor' = NextCursor(last)
      /\ cursors' = cursors \cup ({cursor'} \ {0})
      /\ UNCHANGED <<rows, spans, req, slid, part, asked, uneven>>
  BY DEF Reply, store
<1>2. adrift' = (adrift \/ (last.row # NoRow /\ cursor' # last.row.at))
  BY DEF Reply
<1>3. last.row # NoRow => last.row \in page /\ last.row.at \in 1..MaxTime /\ last.time \in 0..MaxTime
  BY RowsAreNot DEF PageInv, TypeOK
<1>4. cursor' \in 0..MaxTime /\ (last.row = NoRow => cursor' = 0)
      /\ (last.row # NoRow /\ req.list = "logs" => cursor' = last.row.at)
  <2>1. last.row # NoRow => last.row.list = req.list
    BY <1>3 DEF PageInv, Listed
  <2> QED
    BY <1>1, <1>3, <2>1, PagingAssumption DEF NextCursor
<1>5. \A r \in page : r.at \in 1..MaxTime /\ (cursor # 0 => r.at < cursor)
  BY RowsAreNot DEF PageInv, TypeOK, Chosen
<1>6. TypeOK'
  <2>1. Cardinality(page') <= Limit
    BY <1>1, FS_EmptySet, PagingAssumption
  <2>2. cursors' \subseteq 1..MaxTime
    <3>1. cursors \subseteq 1..MaxTime
      BY DEF TypeOK
    <3>2. cursor' # 0 => cursor' \in 1..MaxTime
      BY <1>4, PagingAssumption
    <3> QED
      BY <1>1, <3>1, <3>2
  <2>5. seen' \subseteq Row /\ pc' \in {"list", "done"}
    BY <1>1 DEF TypeOK
  <2>3. adrift' \in BOOLEAN
    BY <1>2, Zenon
  <2>4. last' \in [row : Row \cup {NoRow}, time : 0..MaxTime]
    BY <1>1, PagingAssumption DEF NoEntry
  <2> QED
    BY <1>1, <1>4, <2>1, <2>2, <2>3, <2>4, <2>5 DEF TypeOK
<1>7. PageInv' /\ CountsCoverPage'
  BY <1>1 DEF PageInv, CountsCoverPage, NoEntry
<1>8. SeenInv'
  <2> SUFFICES ASSUME pc' = "list", NEW r \in seen \cup page
               PROVE  cursor' # 0 /\ (req.list = "logs" => r.at >= cursor')
    <3>1. pc' = "list" => cursor' # 0
      BY <1>1
    <3> QED
      BY <1>1, <3>1 DEF SeenInv, Reading
  <2>1. last.row # NoRow /\ cursor' # 0
    BY <1>1, <1>4
  <2> SUFFICES ASSUME req.list = "logs"
               PROVE  r.at >= cursor'
    BY <2>1
  <2>2. cursor' = last.row.at /\ \A s \in page : last.row.at <= s.at
    BY <1>4, <2>1 DEF PageInv
  <2>3. CASE r \in page
    BY <1>3, <1>5, <2>1, <2>2, <2>3
  <2>4. CASE r \in seen
    <3>1. cursor # 0 /\ r.at >= cursor
      BY <1>1, <2>4 DEF SeenInv, Reading
    <3>2. last.row.at < cursor
      BY <1>3, <1>5, <2>1, <3>1
    <3>3. r.at \in 1..MaxTime /\ cursor \in 0..MaxTime
      BY <2>4, RowsAreNot DEF TypeOK
    <3> QED
      BY <1>3, <2>1, <2>2, <3>1, <3>2, <3>3, PagingAssumption
  <2> QED
    BY <2>3, <2>4
<1>9. AskedInv'
  <2>1. asked' \subseteq Listed(req)'
    BY <1>1 DEF AskedInv, Listed, Visible
  <2>2. pc' # "idle" /\ (pc' = "list" => cursor' # 0)
    BY <1>1
  <2>3. ASSUME NEW r \in asked', ~ uneven', ~ adrift', r \notin seen', r.at \notin cursors'
        PROVE  Ahead(r)'
    <3>1. r.at \in 1..MaxTime /\ ~ adrift
      BY <1>1, <1>2, <2>3, RowsAreNot DEF TypeOK
    <3>2. last.row # NoRow /\ HasMore(page) /\ r.at <= last.row.at
      BY <1>1, <2>3, <3>1 DEF AskedInv, Ahead
    <3>6. cursor' = last.row.at
      BY <1>2, <2>3, <3>2, Zenon
    <3>3. cursor' = last.row.at /\ cursor' \in Int /\ cursor' > 0 /\ cursor' # 0
      BY <1>3, <3>2, <3>6, PagingAssumption
    <3>4. cursor' \in cursors' /\ pc' = "list"
      BY <1>1, <3>2, <3>3
    <3>5. r.at < cursor'
      BY <1>3, <2>3, <3>1, <3>2, <3>3, <3>4, PagingAssumption
    <3> QED
      BY <3>4, <3>5 DEF Ahead
  <2> QED
    BY <2>1, <2>2, <2>3 DEF AskedInv
<1> QED
  BY <1>1, <1>6, <1>7, <1>8, <1>9

LEMMA NextIInv == IInv /\ [Next]_vars => IInv'
<1> SUFFICES ASSUME IInv, [Next]_vars PROVE IInv'
  OBVIOUS
<1>1. ASSUME NEW r \in [list : List, id : Id, at : 1..MaxTime, owner : Everything, trace : Trace,
                        marks : Marks \cup {{}}], Arrive(r)
      PROVE  IInv'
  <2>1. r \in Row
    BY PagingAssumption DEF Row, Everything
  <2>2. rows' = rows \cup {r} /\ UNCHANGED <<spans, session>>
    BY <1>1 DEF Arrive
  <2>3. IsFiniteSet(rows')
    BY <2>2, FS_AddElement DEF IInv
  <2> QED
    BY <2>1, <2>2, <2>3, ArriveStep DEF IInv, TypeOK
<1>2. CASE \E x \in Trace, t \in Tenant : ArriveSpan(x, t)
  BY <1>2, ArriveStep DEF ArriveSpan, IInv, TypeOK
<1>3. CASE \E q \in Request : Open(q)
  BY <1>3, OpenStep
<1>4. CASE Slide
  BY <1>4, SlideStep
<1>5. CASE Step
  BY <1>5, ReadPageStep, ReadFailedStep, CountHistogramStep, CountFacetStep, CountFailedStep, ReplyStep DEF Step
<1>6. CASE UNCHANGED vars
  BY <1>6, ArriveStep DEF vars, store, IInv, TypeOK
<1> QED
  BY <1>1, <1>2, <1>3, <1>4, <1>5, <1>6 DEF Next

LEMMA Invariance == Spec => []IInv
<1> QED
  BY InitIInv, NextIInv, PTL DEF Spec

-----------------------------------------------------------------------------
\* TYPE CORRECTNESS.
THEOREM TypeCorrect == Spec => []TypeOK
<1>1. IInv => TypeOK
  BY DEF IInv
<1> QED
  BY <1>1, Invariance, PTL

\* SAFETY.  The explorer never shows a row on two pages of a session (the cursor's
\* strict comparison, logs.go).
THEOREM PagesApart == Spec => []NoLogTwice
<1>1. IInv => NoLogTwice
  <2> SUFFICES ASSUME IInv, req.list = "logs", NEW r \in page, r \in seen
               PROVE  FALSE
    BY DEF NoLogTwice
  <2>1. pc \in Reading /\ cursor # 0 /\ r.at >= cursor
    BY DEF IInv, PageInv, SeenInv, Reading, TypeOK
  <2>2. r.at < cursor
    BY <2>1 DEF IInv, PageInv, Chosen
  <2>3. r.at \in Int /\ cursor \in Int
    BY RowsAreNot, PagingAssumption DEF IInv, TypeOK
  <2> QED
    BY <2>1, <2>2, <2>3
<1> QED
  BY <1>1, Invariance, PTL

\* SAFETY.  When paging ends, what the list held at first has been shown, but for rows
\* cut off by a millisecond, by a page with another number of dumps than of spans or by a
\* cursor taken from a dump (next_cursor and has_more of ServeLogs and ServeDumps).
THEOREM ShownToTheEnd == Spec => []NothingSkipped
<1>1. IInv => NothingSkipped
  BY DEF IInv, AskedInv, Ahead, NothingSkipped
<1> QED
  BY <1>1, Invariance, PTL

\* SAFETY.  The histogram and the facets count the page, whatever is written between
\* the queries, but for rows a relative window has passed and values past a facet's limit
\* (facetWhere and facet of ServeLogs).
THEOREM CountsIncludePage == Spec => []CountsCoverPage
<1>1. IInv => CountsCoverPage
  BY DEF IInv
<1> QED
  BY <1>1, Invariance, PTL

-----------------------------------------------------------------------------
(* RumReads: rows of a page view, and what they add up to. *)

\* The rows of E that rumDedupe puts with those of g.
Widened(g, E) == {e \in E : \E f \in g : PageView(e) = PageView(f)}

\* The entries of a family of page views, of which each has f.
Pairs(S, f) == {x \in S \X (1..MaxEntries) : x[2] <= f[x[1]]}

\* A page view is not empty, and one row tells which it is (Groups).
LEMMA GroupFacts ==
  ASSUME NEW E, NEW g \in Groups(E)
  PROVE  /\ g \subseteq E /\ g # {}
         /\ \A e \in g, f \in E : f \in g <=> PageView(f) = PageView(e)
<1>1. PICK k \in {PageView(e) : e \in E} : g = {e \in E : PageView(e) = k}
  BY DEF Groups
<1> QED BY <1>1

LEMMA GroupOfRow ==
  ASSUME NEW E, NEW e \in E
  PROVE  {f \in E : PageView(f) = PageView(e)} \in Groups(E)
BY DEF Groups

LEMMA GroupsFinite ==
  ASSUME NEW E, IsFiniteSet(E)
  PROVE  IsFiniteSet(Groups(E))
<1>1. Groups(E) \in SUBSET (SUBSET E)
  BY DEF Groups
<1> QED BY <1>1, FS_SUBSET, FS_Subset

\* More rows make no fewer page views: each goes with one of the larger set.
LEMMA WidenedApart ==
  ASSUME NEW E, NEW F, F \subseteq E
  PROVE  [g \in Groups(F) |-> Widened(g, E)] \in Injection(Groups(F), Groups(E))
<1> DEFINE h == [g \in Groups(F) |-> Widened(g, E)]
<1>1. ASSUME NEW g \in Groups(F)
      PROVE  Widened(g, E) \in Groups(E) /\ g \subseteq Widened(g, E)
  <2>1. PICK e \in g : TRUE
    BY GroupFacts
  <2>2. e \in E /\ g \subseteq E /\ \A f \in g : PageView(f) = PageView(e)
    BY GroupFacts
  <2>3. Widened(g, E) = {f \in E : PageView(f) = PageView(e)}
    BY <2>2 DEF Widened
  <2>4. g \subseteq Widened(g, E)
    BY <2>2 DEF Widened
  <2> QED BY <2>2, <2>3, <2>4, GroupOfRow
<1>2. h \in [Groups(F) -> Groups(E)]
  BY <1>1
<1>3. ASSUME NEW a \in Groups(F), NEW b \in Groups(F), Widened(a, E) = Widened(b, E)
      PROVE  a = b
  <2>1. \A e \in a, f \in b : PageView(e) = PageView(f)
    <3> SUFFICES ASSUME NEW e \in a, NEW f \in b
                 PROVE  PageView(e) = PageView(f)
      OBVIOUS
    <3>1. e \in Widened(b, E)
      BY <1>1, <1>3
    <3>2. PICK d \in b : PageView(e) = PageView(d)
      BY <3>1 DEF Widened
    <3>3. PageView(d) = PageView(f)
      BY GroupFacts
    <3> QED BY <3>2, <3>3
  <2>2. a \subseteq F /\ b \subseteq F /\ a # {} /\ b # {}
    BY GroupFacts
  <2>3. a \subseteq b
    <3> SUFFICES ASSUME NEW e \in a PROVE e \in b
      OBVIOUS
    <3>1. PICK f \in b : TRUE
      BY <2>2
    <3>2. e \in F /\ PageView(e) = PageView(f)
      BY <2>1, <2>2
    <3> QED BY <3>2, GroupFacts
  <2>4. b \subseteq a
    <3> SUFFICES ASSUME NEW f \in b PROVE f \in a
      OBVIOUS
    <3>1. PICK e \in a : TRUE
      BY <2>2
    <3>2. f \in F /\ PageView(f) = PageView(e)
      BY <2>1, <2>2
    <3> QED BY <3>2, GroupFacts
  <2> QED BY <2>3, <2>4
<1>4. \A a, b \in Groups(F) : h[a] = h[b] => a = b
  BY <1>3
<1> HIDE DEF h
<1>5. h \in Injection(Groups(F), Groups(E))
  BY <1>2, <1>4, Fun_IsInj
<1> QED BY <1>5 DEF h

LEMMA ViewsGrow ==
  ASSUME NEW E, IsFiniteSet(E), NEW F, F \subseteq E
  PROVE  ViewsOf(F) \in Nat /\ ViewsOf(E) \in Nat /\ ViewsOf(F) <= ViewsOf(E)
<1>1. IsFiniteSet(Groups(E)) /\ IsFiniteSet(Groups(F))
  BY GroupsFinite, FS_Subset
<1>2. Cardinality(Groups(F)) <= Cardinality(Groups(E))
  BY <1>1, WidenedApart, FS_Injection
<1> QED BY <1>1, <1>2, FS_CardinalityType DEF ViewsOf

\* Families of page views compare as what happened on each does.
LEMMA PairsFinite ==
  ASSUME NEW S, IsFiniteSet(S), NEW f
  PROVE  IsFiniteSet(Pairs(S, f)) /\ Cardinality(Pairs(S, f)) \in Nat
<1>1. IsFiniteSet(1..MaxEntries)
  <2>1. MaxEntries \in Nat
    BY RumAssumption
  <2> QED BY <2>1, FS_Interval
<1>2. IsFiniteSet(S \X (1..MaxEntries))
  BY <1>1, FS_Product
<1>3. Pairs(S, f) \in SUBSET (S \X (1..MaxEntries))
  BY DEF Pairs
<1>4. IsFiniteSet(Pairs(S, f))
  BY <1>2, <1>3, FS_Subset
<1> QED BY <1>4, FS_CardinalityType

LEMMA PairsCompare ==
  ASSUME NEW S, NEW T, IsFiniteSet(T), NEW h \in Injection(S, T), NEW f, NEW d,
         \A s \in S : f[s] \in Int /\ d[h[s]] \in Int /\ f[s] <= d[h[s]]
  PROVE  Cardinality(Pairs(S, f)) <= Cardinality(Pairs(T, d))
<1> DEFINE k == [x \in Pairs(S, f) |-> <<h[x[1]], x[2]>>]
<1>1. h \in [S -> T] /\ \A a, b \in S : h[a] = h[b] => a = b
  BY Fun_InjectionProperties
<1>2. ASSUME NEW x \in Pairs(S, f)
      PROVE  <<h[x[1]], x[2]>> \in Pairs(T, d)
  <2>1. x[1] \in S /\ x[2] \in 1..MaxEntries /\ x[2] <= f[x[1]]
    BY DEF Pairs
  <2>2. h[x[1]] \in T
    BY <1>1, <2>1
  <2>3. f[x[1]] \in Int /\ d[h[x[1]]] \in Int /\ f[x[1]] <= d[h[x[1]]] /\ x[2] \in Int
    BY <2>1
  <2>4. x[2] <= d[h[x[1]]]
    BY <2>1, <2>3
  <2> QED BY <2>1, <2>2, <2>4 DEF Pairs
<1>3. k \in [Pairs(S, f) -> Pairs(T, d)]
  BY <1>2
<1>4. ASSUME NEW x \in Pairs(S, f), NEW y \in Pairs(S, f), k[x] = k[y]
      PROVE  x = y
  <2>1. x \in S \X (1..MaxEntries) /\ y \in S \X (1..MaxEntries)
    BY DEF Pairs
  <2>2. h[x[1]] = h[y[1]] /\ x[2] = y[2]
    BY <1>4
  <2> QED BY <1>1, <2>1, <2>2
<1> HIDE DEF k
<1>5. k \in Injection(Pairs(S, f), Pairs(T, d))
  BY <1>3, <1>4, Fun_IsInj
<1>6. IsFiniteSet(Pairs(T, d))
  BY PairsFinite
<1> QED BY <1>5, <1>6, FS_Injection

\* What the rows chosen for the page views of E add up to (EntriesOf).
Taken(p, E) == [g \in Groups(E) |-> p[g].beacon.entries]

LEMMA EntriesArePairs ==
  ASSUME NEW E, NEW n \in EntriesOf(E)
  PROVE  \E p \in [Groups(E) -> E] : (\A g \in Groups(E) : p[g] \in Latest(g)) /\ n = Cardinality(Pairs(Groups(E), Taken(p, E)))
<1>1. PICK p \in {q \in [Groups(E) -> E] : \A g \in Groups(E) : q[g] \in Latest(g)} :
        n = Cardinality({x \in Groups(E) \X (1..MaxEntries) : x[2] <= p[x[1]].beacon.entries})
  BY DEF EntriesOf
<1>2. {x \in Groups(E) \X (1..MaxEntries) : x[2] <= p[x[1]].beacon.entries} = Pairs(Groups(E), Taken(p, E))
  BY DEF Pairs, Taken
<1> QED BY <1>1, <1>2

LEMMA EntriesTyped ==
  ASSUME NEW E, IsFiniteSet(E), NEW n \in EntriesOf(E)
  PROVE  n \in Nat
BY EntriesArePairs, GroupsFinite, PairsFinite

-----------------------------------------------------------------------------
(* The invariant of the session lists. *)

Beacon == [view : View, at : Nat, entries : 0..MaxEntries]

RumTyped ==
  /\ instant \in Nat /\ entries \in [View -> {Unopened} \cup (0..MaxEntries)]
  /\ beacons \subseteq Beacon /\ IsFiniteSet(beacons)
  /\ events \subseteq [beacon : beacons, copy : Nat] /\ IsFiniteSet(events)
  /\ reading \in {"idle", "views", "ajax", "errors"}
  /\ found \in [views : Nat, ajax : Nat, errors : Nat]

\* Beacons of a page view are cumulative, and there is one of each that was opened.
InOrder(B) == \A a, b \in B : a.view = b.view /\ a.at < b.at => a.entries <= b.entries
Cumulative ==
  /\ InOrder(beacons)
  /\ \A b \in beacons : b.at <= instant /\ b.entries <= entries[b.view]
  /\ \A v \in View : entries[v] # Unopened => \E b \in beacons : b.view = v

\* A row of the list was made of some rows of its session.
Founded(r) == \E F \in SUBSET In(r.session) : r.views = ViewsOf(F) /\ r.entries \in EntriesOf(F)
RowsFounded == (\A r \in listed : Founded(r)) /\ (opened # NoSessionRow => Founded(opened))

\* What the queries of an opened session have found so far is enough.
FoundEnough ==
  opened # NoSessionRow /\ ~missed =>
    /\ reading \in {"ajax", "errors", "idle"} => Cap(opened.views, ViewLimit) <= found.views
    /\ reading \in {"errors", "idle"} /\ ~Blurred(opened.session) => Cap(opened.entries, AjaxLimit) <= found.ajax
    /\ reading = "idle" /\ ~Blurred(opened.session) => Cap(opened.entries, ErrorLimit) <= found.errors

RumInv == RumTyped /\ Cumulative /\ RowsFounded /\ FoundEnough

\* More rows of a session add up to no less, unless an instant holds two states.
LEMMA EntriesGrow ==
  ASSUME NEW B \in SUBSET Beacon, InOrder(B), NEW s,
         \A a, b \in B : a.at = b.at /\ SessionOf[a.view] = s /\ SessionOf[b.view] = s
                         /\ (a.view = b.view \/ {a.view, b.view} \subseteq Unnamed) => a.entries = b.entries,
         NEW E, IsFiniteSet(E), \A e \in E : e.beacon \in B /\ SessionOf[e.beacon.view] = s,
         NEW F, F \subseteq E, NEW n \in EntriesOf(F), NEW m \in EntriesOf(E)
  PROVE  n <= m
<1>1. PICK p \in [Groups(F) -> F] :
        (\A g \in Groups(F) : p[g] \in Latest(g)) /\ n = Cardinality(Pairs(Groups(F), Taken(p, F)))
  BY EntriesArePairs
<1>2. PICK q \in [Groups(E) -> E] :
        (\A g \in Groups(E) : q[g] \in Latest(g)) /\ m = Cardinality(Pairs(Groups(E), Taken(q, E)))
  BY EntriesArePairs
<1> DEFINE h == [g \in Groups(F) |-> Widened(g, E)]
<1>3. h \in Injection(Groups(F), Groups(E)) /\ h \in [Groups(F) -> Groups(E)]
  BY WidenedApart, Fun_InjectionProperties
<1>4. ASSUME NEW g \in Groups(F)
      PROVE  /\ Taken(p, F)[g] \in Int /\ Taken(q, E)[h[g]] \in Int
             /\ Taken(p, F)[g] <= Taken(q, E)[h[g]]
  <2> DEFINE e == p[g]
             f == q[h[g]]
  <2>1. e \in g /\ e \in E
    BY <1>1, GroupFacts DEF Latest
  <2>2. h[g] \in Groups(E)
    BY <1>3
  <2>3. e \in h[g]
    BY <2>1 DEF Widened
  <2>4. f \in h[g] /\ e.beacon.at <= f.beacon.at
    BY <1>2, <2>2, <2>3 DEF Latest
  <2>5. f \in E /\ PageView(f) = PageView(e)
    BY <2>2, <2>3, <2>4, GroupFacts
  <2>6. Taken(p, F)[g] = e.beacon.entries /\ Taken(q, E)[h[g]] = f.beacon.entries
    BY <2>2 DEF Taken
  <2> HIDE DEF e, f, h
  <2>7. /\ e.beacon \in B /\ f.beacon \in B /\ e.beacon \in Beacon /\ f.beacon \in Beacon
        /\ SessionOf[e.beacon.view] = s /\ SessionOf[f.beacon.view] = s
    BY <2>1, <2>5
  <2>8. /\ e.beacon.entries \in Nat /\ f.beacon.entries \in Nat /\ e.beacon.at \in Nat /\ f.beacon.at \in Nat
        /\ e.beacon.view \in View /\ f.beacon.view \in View
    BY <2>7 DEF Beacon
  <2>9. \/ e.beacon.view \in Unnamed /\ f.beacon.view \in Unnamed /\ e.beacon.at = f.beacon.at
        \/ e.beacon.view = f.beacon.view
    BY <2>5, <2>8, RumAssumption DEF PageView
  <2>10. e.beacon.at = f.beacon.at => e.beacon.entries = f.beacon.entries
    BY <2>7, <2>9
  <2>11. ASSUME e.beacon.at # f.beacon.at
         PROVE  e.beacon.entries <= f.beacon.entries
    <3>1. e.beacon.at < f.beacon.at
      BY <2>4, <2>8, <2>11
    <3>2. e.beacon.view = f.beacon.view
      BY <2>9, <2>11
    <3>3. \A a, b \in B : a.view = b.view /\ a.at < b.at => a.entries <= b.entries
      BY DEF InOrder
    <3> QED BY <2>7, <3>1, <3>2, <3>3
  <2> QED BY <2>6, <2>8, <2>10, <2>11
<1>5. IsFiniteSet(Groups(E))
  BY GroupsFinite
<1> HIDE DEF h
<1> QED BY <1>1, <1>2, <1>3, <1>4, <1>5, PairsCompare

\* A session as its rows stand is no less than a row of the list says.
LEMMA EnoughToDate ==
  ASSUME RumTyped, Cumulative, NEW r, Founded(r)
  PROVE  /\ r.views <= ViewsOf(In(r.session)) /\ ViewsOf(In(r.session)) \in Nat
         /\ ~Blurred(r.session) => \A n \in EntriesOf(In(r.session)) : r.entries <= n
<1> DEFINE E == In(r.session)
<1>1. PICK F \in SUBSET E : r.views = ViewsOf(F) /\ r.entries \in EntriesOf(F)
  BY DEF Founded
<1>2. E \subseteq events /\ IsFiniteSet(E)
  BY FS_Subset DEF In, RumTyped
<1>3. \A e \in E : e.beacon \in beacons /\ SessionOf[e.beacon.view] = r.session
  BY DEF In, RumTyped
<1>4. beacons \in SUBSET Beacon /\ InOrder(beacons)
  BY DEF RumTyped, Cumulative
<1> HIDE DEF E
<1>5. r.views <= ViewsOf(E) /\ ViewsOf(E) \in Nat
  BY <1>1, <1>2, ViewsGrow
<1>6. ASSUME ~Blurred(r.session), NEW n \in EntriesOf(E)
      PROVE  r.entries <= n
  <2>1. \A a, b \in beacons :
          a.at = b.at /\ SessionOf[a.view] = r.session /\ SessionOf[b.view] = r.session
          /\ (a.view = b.view \/ {a.view, b.view} \subseteq Unnamed) => a.entries = b.entries
    BY <1>6 DEF Blurred
  <2> QED BY <1>1, <1>2, <1>3, <1>4, <1>6, <2>1, EntriesGrow
<1> QED BY <1>5, <1>6 DEF E

\* What was founded stays so, and what was blurred, while rows and beacons come in.
LEMMA FoundedStays ==
  ASSUME NEW r, Founded(r), events \subseteq events'
  PROVE  Founded(r)'
<1>1. In(r.session) \subseteq In(r.session)'
  BY DEF In
<1> QED BY <1>1 DEF Founded

LEMMA BlurredStays ==
  ASSUME NEW s, Blurred(s), beacons \subseteq beacons'
  PROVE  Blurred(s)'
BY DEF Blurred

\* A session is opened and read, or a request is over, while beacons come in: enough
\* for the rest of the invariant is that the lists found so far do (FoundEnough).
LEMMA OpenedStays ==
  ASSUME RumInv, opened' = opened, missed' = missed, found' = found, reading' = reading,
         beacons \subseteq beacons'
  PROVE  FoundEnough'
BY BlurredStays DEF RumInv, FoundEnough

LEMMA LeaveKeeps ==
  ASSUME RumInv, Leave, reading' = reading, beacons \subseteq beacons'
  PROVE  /\ FoundEnough' /\ found' \in [views : Nat, ajax : Nat, errors : Nat]
         /\ opened' \in {opened, NoSessionRow}
<1>1. CASE reading = "idle"
  BY <1>1 DEF Leave, FoundEnough, NoSession
<1>2. CASE reading # "idle"
  BY <1>2, OpenedStays DEF Leave, RumInv, RumTyped
<1> QED BY <1>1, <1>2

\* Steps that leave the lists' rows alone keep them founded.
LEMMA RowsStayFounded ==
  ASSUME RumInv, listed' \subseteq listed, opened' \in {opened, NoSessionRow} \cup listed, events \subseteq events'
  PROVE  RowsFounded'
<1>1. ASSUME NEW r \in listed'
      PROVE  Founded(r)'
  BY <1>1, FoundedStays DEF RumInv, RowsFounded
<1>2. ASSUME opened' # NoSessionRow
      PROVE  Founded(opened)'
  <2>1. Founded(opened')
    BY <1>2 DEF RumInv, RowsFounded
  <2>2. In(opened'.session) \subseteq In(opened.session)'
    BY DEF In
  <2>3. PICK F \in SUBSET In(opened'.session) : opened'.views = ViewsOf(F) /\ opened'.entries \in EntriesOf(F)
    BY <2>1 DEF Founded
  <2>4. F \in SUBSET (In(opened.session)')
    BY <2>2
  <2> QED BY <2>3, <2>4 DEF Founded
<1> QED BY <1>1, <1>2 DEF RowsFounded

LEMMA InstantPassesInv ==
  ASSUME RumInv, InstantPasses
  PROVE  RumInv'
<1>1. RumTyped /\ Cumulative
  BY DEF RumInv
<1>2. /\ instant' = instant + 1 /\ Leave
      /\ entries' = entries /\ beacons' = beacons /\ events' = events /\ listed' = listed /\ reading' = reading
  BY DEF InstantPasses
<1>3. FoundEnough' /\ found' \in [views : Nat, ajax : Nat, errors : Nat] /\ opened' \in {opened, NoSessionRow}
  BY <1>2, LeaveKeeps
<1>4. RumTyped'
  BY <1>1, <1>2, <1>3 DEF RumTyped
<1>5. Cumulative'
  <2>1. \A b \in beacons : b.at \in Nat /\ b.at <= instant /\ instant \in Nat
    BY <1>1 DEF RumTyped, Cumulative, Beacon
  <2>2. \A b \in beacons : b.at <= instant + 1
    BY <2>1
  <2> QED BY <1>1, <1>2, <2>2 DEF Cumulative, InOrder
<1>6. RowsFounded'
  BY <1>2, <1>3, RowsStayFounded
<1> QED BY <1>3, <1>4, <1>5, <1>6 DEF RumInv

LEMMA FlushInv ==
  ASSUME RumInv, NEW v \in View, NEW n \in 0..MaxEntries, Flush(v, n)
  PROVE  RumInv'
<1> DEFINE b == [view |-> v, at |-> instant, entries |-> n]
<1>1. RumTyped /\ Cumulative
  BY DEF RumInv
<1>2. /\ n >= entries[v] /\ entries' = [entries EXCEPT ![v] = n] /\ beacons' = beacons \cup {b} /\ Leave
      /\ instant' = instant /\ events' = events /\ listed' = listed /\ reading' = reading
  BY DEF Flush
<1>3. FoundEnough' /\ found' \in [views : Nat, ajax : Nat, errors : Nat] /\ opened' \in {opened, NoSessionRow}
  BY <1>2, LeaveKeeps
<1>4. b \in Beacon /\ b.view = v /\ b.at = instant /\ b.entries = n /\ instant \in Nat
  BY <1>1 DEF Beacon, RumTyped
<1> HIDE DEF b
<1>5. \A c \in beacons : c.at \in Nat /\ c.at <= instant /\ c.entries \in Int /\ c.view \in View /\ c.entries <= entries[c.view]
  BY <1>1 DEF RumTyped, Beacon, Cumulative
<1>6. RumTyped'
  <2>1. entries' \in [View -> {Unopened} \cup (0..MaxEntries)]
    BY <1>1, <1>2 DEF RumTyped
  <2>2. beacons' \subseteq Beacon /\ IsFiniteSet(beacons')
    BY <1>1, <1>2, <1>4, FS_AddElement DEF RumTyped
  <2>3. events' \subseteq [beacon : beacons', copy : Nat]
    BY <1>1, <1>2 DEF RumTyped
  <2> QED BY <1>1, <1>2, <1>3, <2>1, <2>2, <2>3 DEF RumTyped
<1>7. entries[v] \in Int /\ n \in Int
  BY <1>1 DEF RumTyped, Unopened
<1>8. InOrder(beacons)'
  <2> SUFFICES ASSUME NEW a \in beacons', NEW c \in beacons', a.view = c.view, a.at < c.at
               PROVE  a.entries <= c.entries
    BY DEF InOrder
  <2>1. CASE a \in beacons /\ c \in beacons
    BY <1>1, <2>1 DEF Cumulative, InOrder
  <2>2. CASE a \in beacons /\ c = b
    BY <1>2, <1>4, <1>5, <1>7, <2>2
  <2>3. CASE a = b
    BY <1>2, <1>4, <1>5, <2>3
  <2> QED BY <1>2, <2>1, <2>2, <2>3
<1>9. \A c \in beacons' : c.at <= instant' /\ c.entries <= entries'[c.view]
  <2> SUFFICES ASSUME NEW c \in beacons'
               PROVE  c.at <= instant /\ c.entries <= entries'[c.view]
    BY <1>2
  <2>1. \A u \in View : entries'[u] = IF u = v THEN n ELSE entries[u]
    BY <1>1, <1>2 DEF RumTyped
  <2>2. CASE c = b
    BY <1>4, <1>7, <2>1, <2>2
  <2>3. CASE c \in beacons /\ c.view = v
    BY <1>2, <1>5, <1>7, <2>1, <2>3
  <2>4. CASE c \in beacons /\ c.view # v
    BY <1>5, <2>1, <2>4
  <2> QED BY <1>2, <2>2, <2>3, <2>4
<1>10. \A u \in View : entries'[u] # Unopened => \E c \in beacons' : c.view = u
  BY <1>1, <1>2, <1>4 DEF RumTyped, Cumulative
<1>11. Cumulative'
  BY <1>8, <1>9, <1>10 DEF Cumulative
<1>12. RowsFounded'
  BY <1>2, <1>3, RowsStayFounded
<1> QED BY <1>3, <1>6, <1>11, <1>12 DEF RumInv

LEMMA WriteInv ==
  ASSUME RumInv, NEW b \in beacons, NEW c \in 1..MaxCopies, Write(b, c)
  PROVE  RumInv'
<1> DEFINE e == [beacon |-> b, copy |-> c]
<1>1. RumTyped /\ Cumulative
  BY DEF RumInv
<1>2. /\ events' = events \cup {e} /\ Leave /\ instant' = instant /\ entries' = entries /\ beacons' = beacons
      /\ listed' = listed /\ reading' = reading
  BY DEF Write
<1>3. FoundEnough' /\ found' \in [views : Nat, ajax : Nat, errors : Nat] /\ opened' \in {opened, NoSessionRow}
  BY <1>2, LeaveKeeps
<1>4. e \in [beacon : beacons, copy : Nat]
  <2>1. MaxCopies \in Nat
    BY RumAssumption
  <2> QED BY <2>1
<1> HIDE DEF e
<1>5. RumTyped'
  BY <1>1, <1>2, <1>3, <1>4, FS_AddElement DEF RumTyped
<1>6. Cumulative'
  BY <1>1, <1>2 DEF Cumulative, InOrder
<1>7. RowsFounded'
  BY <1>2, <1>3, RowsStayFounded
<1> QED BY <1>3, <1>5, <1>6, <1>7 DEF RumInv

\* The rows of a session in a window, and the row the list makes of them.
Windowed(s, from) == {e \in In(s) : e.beacon.at >= from}

LEMMA ListedFromWindow ==
  ASSUME NEW from, ServeRUMSessions(from)
  PROVE  \E f \in [Sessions(from) -> UNION {EntriesOf(Windowed(s, from)) : s \in Sessions(from)}] :
           /\ \A s \in Sessions(from) : f[s] \in EntriesOf(Windowed(s, from))
           /\ listed' = {[session |-> s, views |-> ViewsOf(Windowed(s, from)), entries |-> f[s]] : s \in Sessions(from)}
BY DEF ServeRUMSessions, Windowed

LEMMA ServeRUMSessionsInv ==
  ASSUME RumInv, NEW from, ServeRUMSessions(from)
  PROVE  RumInv'
<1>1. RumTyped /\ Cumulative
  BY DEF RumInv
<1>2. /\ Leave /\ reading = "idle" /\ instant' = instant /\ entries' = entries /\ beacons' = beacons
      /\ events' = events /\ reading' = reading
  BY DEF ServeRUMSessions
<1>3. FoundEnough' /\ found' \in [views : Nat, ajax : Nat, errors : Nat] /\ opened' = NoSessionRow
  <2>1. FoundEnough' /\ found' \in [views : Nat, ajax : Nat, errors : Nat]
    BY <1>2, LeaveKeeps
  <2> QED BY <1>2, <2>1 DEF Leave
<1>4. RumTyped' /\ Cumulative'
  BY <1>1, <1>2, <1>3 DEF RumTyped, Cumulative, InOrder
<1>5. PICK f \in [Sessions(from) -> UNION {EntriesOf(Windowed(s, from)) : s \in Sessions(from)}] :
        /\ \A s \in Sessions(from) : f[s] \in EntriesOf(Windowed(s, from))
        /\ listed' = {[session |-> s, views |-> ViewsOf(Windowed(s, from)), entries |-> f[s]] : s \in Sessions(from)}
  BY ListedFromWindow
<1>6. ASSUME NEW r \in listed'
      PROVE  Founded(r)'
  <2>1. PICK s \in Sessions(from) :
          r = [session |-> s, views |-> ViewsOf(Windowed(s, from)), entries |-> f[s]]
    BY <1>5
  <2>2. Windowed(s, from) \in SUBSET In(s) /\ In(s)' = In(s)
    BY <1>2 DEF Windowed, In
  <2>3. r.session = s /\ r.views = ViewsOf(Windowed(s, from)) /\ r.entries \in EntriesOf(Windowed(s, from))
    BY <1>5, <2>1
  <2> QED BY <2>2, <2>3 DEF Founded
<1>7. RowsFounded'
  BY <1>3, <1>6 DEF RowsFounded
<1> QED BY <1>3, <1>4, <1>7 DEF RumInv

LEMMA OpenSessionInv ==
  ASSUME RumInv, NEW r \in listed, OpenSession(r)
  PROVE  RumInv'
<1>1. RumTyped /\ Cumulative
  BY DEF RumInv
<1>2. /\ reading' = "views" /\ opened' = r /\ found' = NoSession /\ listed' = {}
      /\ instant' = instant /\ entries' = entries /\ beacons' = beacons /\ events' = events
  BY DEF OpenSession
<1>3. RumTyped' /\ Cumulative' /\ FoundEnough'
  BY <1>1, <1>2 DEF RumTyped, Cumulative, InOrder, FoundEnough, NoSession
<1>4. RowsFounded'
  BY <1>2, RowsStayFounded
<1> QED BY <1>3, <1>4 DEF RumInv

LEMMA CapTyped ==
  ASSUME NEW n \in Nat, NEW limit \in Nat
  PROVE  Cap(n, limit) \in Nat
BY DEF Cap

\* A limit leaves no less of more.
LEMMA CapGrows ==
  ASSUME NEW n \in Nat, NEW m \in Nat, n <= m, NEW limit \in Nat
  PROVE  Cap(n, limit) \in Nat /\ Cap(m, limit) \in Nat /\ Cap(n, limit) <= Cap(m, limit)
BY DEF Cap

\* What a row of the list counts is counted in numbers.
LEMMA FoundedTyped ==
  ASSUME RumTyped, NEW r, Founded(r)
  PROVE  r.views \in Nat /\ r.entries \in Nat
<1>1. PICK F \in SUBSET In(r.session) : r.views = ViewsOf(F) /\ r.entries \in EntriesOf(F)
  BY DEF Founded
<1>2. IsFiniteSet(F)
  <2>1. F \in SUBSET events /\ IsFiniteSet(events)
    BY <1>1 DEF In, RumTyped
  <2> QED BY <2>1, FS_Subset
<1> QED BY <1>1, <1>2, ViewsGrow, EntriesTyped

\* The three queries of a session, each over its rows as they stand then.
LEMMA CollectInv ==
  ASSUME RumInv, CollectViews \/ CollectAjax \/ CollectErrors
  PROVE  RumInv'
<1> DEFINE E == In(opened.session)
<1>1. RumTyped /\ Cumulative /\ FoundEnough /\ RowsFounded
  BY DEF RumInv
<1>2. /\ instant' = instant /\ entries' = entries /\ beacons' = beacons /\ events' = events /\ listed' = listed
      /\ opened' = opened
  BY DEF CollectViews, CollectAjax, CollectErrors
<1>3. Cumulative' /\ RowsFounded'
  BY <1>1, <1>2, RowsStayFounded DEF Cumulative, InOrder
<1>4. Blurred(opened.session)' <=> Blurred(opened.session)
  BY <1>2 DEF Blurred
<1>5. IsFiniteSet(E)
  BY <1>1, FS_Subset DEF In, RumTyped
<1>6. ViewsOf(E) \in Nat /\ \A n \in EntriesOf(E) : n \in Nat
  BY <1>5, EntriesTyped, ViewsGrow
<1>7. opened # NoSessionRow =>
        /\ opened.views <= ViewsOf(E)
        /\ ~Blurred(opened.session) => \A n \in EntriesOf(E) : opened.entries <= n
  BY <1>1, EnoughToDate DEF RowsFounded
<1>8. found \in [views : Nat, ajax : Nat, errors : Nat] /\ ViewLimit \in Nat /\ AjaxLimit \in Nat /\ ErrorLimit \in Nat
  BY <1>1, RumAssumption DEF RumTyped
<1> HIDE DEF E
<1>12. /\ Cap(ViewsOf(E), ViewLimit) \in Nat
       /\ \A n \in EntriesOf(E) : Cap(n, AjaxLimit) \in Nat /\ Cap(n, ErrorLimit) \in Nat
  BY <1>6, <1>8, CapTyped
<1>13. opened # NoSessionRow =>
         /\ Cap(opened.views, ViewLimit) <= Cap(ViewsOf(E), ViewLimit)
         /\ ~Blurred(opened.session) => \A n \in EntriesOf(E) :
              Cap(opened.entries, AjaxLimit) <= Cap(n, AjaxLimit) /\ Cap(opened.entries, ErrorLimit) <= Cap(n, ErrorLimit)
  <2> SUFFICES ASSUME opened # NoSessionRow
               PROVE  /\ Cap(opened.views, ViewLimit) <= Cap(ViewsOf(E), ViewLimit)
                      /\ ~Blurred(opened.session) => \A n \in EntriesOf(E) :
                           Cap(opened.entries, AjaxLimit) <= Cap(n, AjaxLimit) /\ Cap(opened.entries, ErrorLimit) <= Cap(n, ErrorLimit)
    OBVIOUS
  <2>1. opened.views \in Nat /\ opened.entries \in Nat
    BY <1>1, FoundedTyped DEF RowsFounded
  <2> QED BY <1>6, <1>7, <1>8, <2>1, CapGrows
<1>9. CASE CollectViews
  <2>1. /\ reading = "views" /\ reading' = "ajax"
        /\ \/ found' = [found EXCEPT !.views = Cap(ViewsOf(E), ViewLimit)] /\ missed' = missed
           \/ missed' = TRUE /\ found' = found
    BY <1>9 DEF CollectViews, E
  <2>2. RumTyped'
    BY <1>1, <1>2, <1>8, <1>12, <2>1 DEF RumTyped
  <2>3. FoundEnough'
    BY <1>2, <1>8, <1>13, <2>1 DEF FoundEnough
  <2> QED BY <1>3, <2>2, <2>3 DEF RumInv
<1>10. CASE CollectAjax
  <2>1. /\ reading = "ajax" /\ reading' = "errors"
        /\ \/ /\ \E n \in EntriesOf(E) : found' = [found EXCEPT !.ajax = Cap(n, AjaxLimit)]
              /\ missed' = missed
           \/ missed' = TRUE /\ found' = found
    BY <1>10 DEF CollectAjax, E
  <2>2. RumTyped'
    BY <1>1, <1>2, <1>8, <1>12, <2>1 DEF RumTyped
  <2>3. FoundEnough'
    BY <1>1, <1>2, <1>4, <1>8, <1>13, <2>1 DEF FoundEnough
  <2> QED BY <1>3, <2>2, <2>3 DEF RumInv
<1>11. CASE CollectErrors
  <2>1. /\ reading = "errors" /\ reading' = "idle"
        /\ \/ /\ \E n \in EntriesOf(E) : found' = [found EXCEPT !.errors = Cap(n, ErrorLimit)]
              /\ missed' = missed
           \/ missed' = TRUE /\ found' = found
    BY <1>11 DEF CollectErrors, E
  <2>2. RumTyped'
    BY <1>1, <1>2, <1>8, <1>12, <2>1 DEF RumTyped
  <2>3. FoundEnough'
    BY <1>1, <1>2, <1>4, <1>8, <1>13, <2>1 DEF FoundEnough
  <2> QED BY <1>3, <2>2, <2>3 DEF RumInv
<1> QED BY <1>9, <1>10, <1>11

LEMMA InitRumInv == RumInit => RumInv
<1> SUFFICES ASSUME RumInit PROVE RumInv
  OBVIOUS
<1>1. RumTyped
  BY FS_EmptySet DEF RumInit, RumTyped, NoSession
<1>2. Cumulative /\ RowsFounded /\ FoundEnough
  BY DEF RumInit, Cumulative, InOrder, RowsFounded, FoundEnough
<1> QED BY <1>1, <1>2 DEF RumInv

LEMMA NextRumInv ==
  ASSUME RumInv, [RumNext]_rumVars
  PROVE  RumInv'
<1>1. CASE UNCHANGED rumVars
  <2>1. /\ instant' = instant /\ entries' = entries /\ beacons' = beacons /\ events' = events
        /\ listed' = listed /\ reading' = reading /\ opened' = opened /\ found' = found /\ missed' = missed
    BY <1>1 DEF rumVars
  <2>2. RumTyped' /\ Cumulative'
    BY <2>1 DEF RumInv, RumTyped, Cumulative, InOrder
  <2>3. RowsFounded' /\ FoundEnough'
    BY <2>1, RowsStayFounded, OpenedStays
  <2> QED BY <2>2, <2>3 DEF RumInv
<1> QED
  BY <1>1, InstantPassesInv, FlushInv, WriteInv, ServeRUMSessionsInv, OpenSessionInv, CollectInv DEF RumNext

\* THEOREM.  Beacons are cumulative, every row of the list was made of rows of its
\* session, and what the queries of an opened session found is no less (RumInv).
THEOREM SessionsInvariant == RumSpec => []RumInv
<1>1. RumInit => RumInv
  BY InitRumInv
<1>2. RumInv /\ [RumNext]_rumVars => RumInv'
  BY NextRumInv
<1> QED BY <1>1, <1>2, PTL DEF RumSpec

-----------------------------------------------------------------------------
(* Page views with ids are those that were opened. *)

\* The page view a group of rows is of.
Named(g) == (CHOOSE e \in g : TRUE).beacon.view

LEMMA GroupIsNamed ==
  ASSUME RumTyped, NEW s, AllNamed(s), NEW E \in SUBSET In(s), NEW g \in Groups(E)
  PROVE  \A e \in E : /\ e.beacon.view \in View \ Unnamed
                      /\ e \in g <=> e.beacon.view = Named(g)
<1>1. ASSUME NEW e \in E
      PROVE  e.beacon \in Beacon /\ e.beacon.view \in View \ Unnamed /\ SessionOf[e.beacon.view] = s
  <2>1. e \in events /\ SessionOf[e.beacon.view] = s
    BY DEF In
  <2>2. e.beacon \in Beacon
    BY <2>1 DEF RumTyped
  <2>3. e.beacon.view \in View
    BY <2>2 DEF Beacon
  <2> QED BY <2>1, <2>2, <2>3 DEF AllNamed
<1> DEFINE d == CHOOSE e \in g : TRUE
<1>2. d \in g /\ d \in E
  BY GroupFacts
<1>3. \A e \in E : PageView(e) = PageView(d) <=> e.beacon.view = d.beacon.view
  BY <1>1, <1>2 DEF PageView
<1> HIDE DEF d
<1>4. \A e \in E : e \in g <=> PageView(e) = PageView(d)
  BY <1>2, GroupFacts
<1> QED BY <1>1, <1>3, <1>4 DEF Named, d

\* Opened page views are finitely many, since each has sent a beacon.
LEMMA OpenedFinite ==
  ASSUME RumTyped, Cumulative, NEW s
  PROVE  IsFiniteSet(OpenedIn(s))
<1> DEFINE sent == {b \in beacons : b.view \in OpenedIn(s)}
           f == [b \in sent |-> b.view]
<1>1. IsFiniteSet(sent)
  BY FS_Subset DEF RumTyped
<1>2. f \in [sent -> OpenedIn(s)]
  OBVIOUS
<1>3. ASSUME NEW v \in OpenedIn(s)
      PROVE  \E b \in sent : f[b] = v
  BY DEF OpenedIn, Cumulative
<1> HIDE DEF sent, f
<1>4. f \in Surjection(sent, OpenedIn(s))
  BY <1>2, <1>3, Fun_IsSurj
<1> QED BY <1>1, <1>4, FS_Surjection

\* Rows of a session with named page views go with page views that were opened.
LEMMA NamedApart ==
  ASSUME RumTyped, Cumulative, NEW s, AllNamed(s), NEW E \in SUBSET In(s)
  PROVE  /\ [g \in Groups(E) |-> Named(g)] \in Injection(Groups(E), OpenedIn(s))
         /\ \A g \in Groups(E) : \A e \in g : e.beacon.entries \in Int /\ e.beacon.entries <= entries[Named(g)]
<1> DEFINE h == [g \in Groups(E) |-> Named(g)]
<1>1. ASSUME NEW g \in Groups(E), NEW e \in g
      PROVE  /\ Named(g) \in OpenedIn(s) /\ e \in E
             /\ e.beacon.entries \in Int /\ e.beacon.entries <= entries[Named(g)]
  <2>1. e \in E
    BY GroupFacts
  <2>2. e.beacon \in beacons /\ SessionOf[e.beacon.view] = s
    BY <2>1 DEF In, RumTyped
  <2>3. e.beacon.view = Named(g) /\ Named(g) \in View
    BY <1>1, <2>1, GroupIsNamed
  <2>4. e.beacon.entries \in 0..MaxEntries /\ e.beacon.entries <= entries[Named(g)]
    BY <2>2, <2>3 DEF RumTyped, Beacon, Cumulative
  <2>5. entries[Named(g)] # Unopened
    BY <2>4 DEF Unopened
  <2> QED BY <2>1, <2>2, <2>3, <2>4, <2>5 DEF OpenedIn
<1>2. h \in [Groups(E) -> OpenedIn(s)]
  BY <1>1, GroupFacts
<1>3. ASSUME NEW a \in Groups(E), NEW b \in Groups(E), Named(a) = Named(b)
      PROVE  a = b
  <2>1. a \subseteq E /\ b \subseteq E
    BY GroupFacts
  <2>2. \A e \in E : (e \in a <=> e.beacon.view = Named(a)) /\ (e \in b <=> e.beacon.view = Named(b))
    BY GroupIsNamed
  <2> QED BY <1>3, <2>1, <2>2
<1>4. \A a, b \in Groups(E) : h[a] = h[b] => a = b
  BY <1>3
<1> HIDE DEF h
<1>5. h \in Injection(Groups(E), OpenedIn(s))
  BY <1>2, <1>4, Fun_IsInj
<1> QED BY <1>1, <1>5 DEF h

LEMMA HappenedIsPairs ==
  ASSUME NEW s
  PROVE  Happened(s) = Cardinality(Pairs(OpenedIn(s), entries))
BY DEF Happened, Pairs

LEMMA NoMoreThanHappened ==
  ASSUME RumTyped, Cumulative, NEW s, AllNamed(s), NEW E \in SUBSET In(s)
  PROVE  /\ ViewsOf(E) <= Cardinality(OpenedIn(s))
         /\ \A n \in EntriesOf(E) : n <= Happened(s)
<1> DEFINE h == [g \in Groups(E) |-> Named(g)]
<1>1. IsFiniteSet(OpenedIn(s))
  BY OpenedFinite
<1>2. h \in Injection(Groups(E), OpenedIn(s)) /\ h \in [Groups(E) -> OpenedIn(s)]
  BY NamedApart, Fun_InjectionProperties
<1>3. ViewsOf(E) <= Cardinality(OpenedIn(s))
  BY <1>1, <1>2, FS_Injection DEF ViewsOf
<1>4. ASSUME NEW n \in EntriesOf(E)
      PROVE  n <= Happened(s)
  <2>1. PICK p \in [Groups(E) -> E] :
          (\A g \in Groups(E) : p[g] \in Latest(g)) /\ n = Cardinality(Pairs(Groups(E), Taken(p, E)))
    BY EntriesArePairs
  <2>2. ASSUME NEW g \in Groups(E)
        PROVE  Taken(p, E)[g] \in Int /\ entries[h[g]] \in Int /\ Taken(p, E)[g] <= entries[h[g]]
    <3>1. p[g] \in g /\ h[g] = Named(g) /\ Taken(p, E)[g] = p[g].beacon.entries
      BY <2>1 DEF Latest, Taken
    <3>2. h[g] \in View
      BY <1>2 DEF OpenedIn
    <3>3. entries[h[g]] \in Int
      BY <3>2 DEF RumTyped, Unopened
    <3> QED BY <3>1, <3>3, NamedApart
  <2> HIDE DEF h
  <2>3. n <= Cardinality(Pairs(OpenedIn(s), entries))
    BY <1>1, <1>2, <2>1, <2>2, PairsCompare
  <2> QED BY <2>3, HappenedIsPairs
<1> QED BY <1>3, <1>4

\* THEOREM.  No session is listed with more page views or entries than there were, and
\* one opened from the list has at least what its row has, as far as the limits of its
\* lists let it (SessionsAddUp).
THEOREM SessionsNeverOverstate == RumSpec => []SessionsAddUp
<1>1. ASSUME RumInv
      PROVE  SessionsAddUp
  <2>1. RumTyped /\ Cumulative /\ RowsFounded /\ FoundEnough
    BY <1>1 DEF RumInv
  <2>2. ASSUME NEW r \in listed, AllNamed(r.session)
        PROVE  r.views <= Cardinality(OpenedIn(r.session)) /\ r.entries <= Happened(r.session)
    <3>1. PICK F \in SUBSET In(r.session) : r.views = ViewsOf(F) /\ r.entries \in EntriesOf(F)
      BY <2>1 DEF RowsFounded, Founded
    <3> QED BY <2>1, <2>2, <3>1, NoMoreThanHappened
  <2>3. ASSUME opened # NoSessionRow, reading = "idle", ~missed, ~Blurred(opened.session)
        PROVE  /\ found.views >= Cap(opened.views, ViewLimit)
               /\ found.ajax >= Cap(opened.entries, AjaxLimit)
               /\ found.errors >= Cap(opened.entries, ErrorLimit)
    <3>1. /\ Cap(opened.views, ViewLimit) <= found.views
          /\ Cap(opened.entries, AjaxLimit) <= found.ajax
          /\ Cap(opened.entries, ErrorLimit) <= found.errors
      BY <2>1, <2>3 DEF FoundEnough
    <3>2. opened.views \in Nat /\ opened.entries \in Nat
      BY <2>1, <2>3, FoundedTyped DEF RowsFounded
    <3>3. /\ Cap(opened.views, ViewLimit) \in Nat /\ Cap(opened.entries, AjaxLimit) \in Nat
          /\ Cap(opened.entries, ErrorLimit) \in Nat
      BY <3>2, RumAssumption, CapTyped
    <3>4. found.views \in Nat /\ found.ajax \in Nat /\ found.errors \in Nat
      BY <2>1 DEF RumTyped
    <3> QED BY <3>1, <3>3, <3>4
  <2> QED BY <2>2, <2>3 DEF SessionsAddUp
<1> QED BY <1>1, SessionsInvariant, PTL

-----------------------------------------------------------------------------
(* The last beacon of each page view. *)

\* When the last beacon of each page view is there, what is taken for the session is
\* all that happened in it.
LEMMA SettledIsAll ==
  ASSUME RumTyped, Cumulative, NEW from \in 0..MaxInstant, NEW s, AllNamed(s),
         \A v \in OpenedIn(s) : Settled(v, from),
         NEW n \in EntriesOf(Windowed(s, from))
  PROVE  n = Happened(s)
<1> DEFINE E == Windowed(s, from)
           h == [g \in Groups(E) |-> Named(g)]
<1>1. E \in SUBSET In(s) /\ E \subseteq events
  BY DEF Windowed, In
<1>2. h \in Injection(Groups(E), OpenedIn(s)) /\ h \in [Groups(E) -> OpenedIn(s)]
  BY <1>1, NamedApart, Fun_InjectionProperties
<1>3. PICK p \in [Groups(E) -> E] :
        (\A g \in Groups(E) : p[g] \in Latest(g)) /\ n = Cardinality(Pairs(Groups(E), Taken(p, E)))
  BY EntriesArePairs
<1>4. ASSUME NEW v \in OpenedIn(s)
      PROVE  \E e \in E : /\ e.beacon.view = v /\ \A b \in beacons : b.view = v => b.at <= e.beacon.at
                          /\ \A f \in events : f.beacon.view = v /\ f.beacon.at = e.beacon.at => f.beacon.entries = entries[v]
  BY DEF Settled, Windowed, In, OpenedIn
<1>5. \A e \in E : e.beacon \in beacons /\ e.beacon.at \in Nat
  BY <1>1 DEF RumTyped, Beacon
<1>6. ASSUME NEW g \in Groups(E)
      PROVE  Taken(p, E)[g] = entries[h[g]]
  <2> DEFINE v == Named(g)
             q == p[g]
  <2>1. v \in OpenedIn(s)
    BY <1>2
  <2>2. PICK e \in E : /\ e.beacon.view = v /\ \A b \in beacons : b.view = v => b.at <= e.beacon.at
                       /\ \A f \in events : f.beacon.view = v /\ f.beacon.at = e.beacon.at => f.beacon.entries = entries[v]
    BY <1>4, <2>1
  <2>3. q \in g /\ \A f \in g : f.beacon.at <= q.beacon.at
    BY <1>3 DEF Latest
  <2> HIDE DEF E, q, v
  <2>4. q \in E /\ q \in events
    BY <1>1, <2>3, GroupFacts
  <2>5. e \in g /\ q.beacon.view = v
    BY <1>1, <2>2, <2>3, <2>4, GroupIsNamed DEF v
  <2>6. q.beacon.at = e.beacon.at
    <3>1. q.beacon.at <= e.beacon.at /\ e.beacon.at <= q.beacon.at
      BY <1>5, <2>2, <2>3, <2>4, <2>5
    <3>2. q.beacon.at \in Nat /\ e.beacon.at \in Nat
      BY <1>5, <2>2, <2>4
    <3> QED BY <3>1, <3>2
  <2>7. q.beacon.entries = entries[v]
    BY <2>2, <2>4, <2>5, <2>6
  <2> QED BY <2>7 DEF Taken, q, v
<1>7. ASSUME NEW v \in OpenedIn(s)
      PROVE  \E g \in Groups(E) : h[g] = v
  <2>1. PICK e \in E : e.beacon.view = v
    BY <1>4
  <2> DEFINE g == {f \in E : PageView(f) = PageView(e)}
  <2>2. g \in Groups(E) /\ e \in g
    BY <2>1, GroupOfRow
  <2> HIDE DEF E, g
  <2>3. Named(g) = v
    BY <1>1, <2>1, <2>2, GroupIsNamed
  <2> QED BY <2>2, <2>3
<1> HIDE DEF E, h
<1>8. \A v \in OpenedIn(s) : entries[v] \in Int
  BY DEF OpenedIn, RumTyped, Unopened
<1>9. IsFiniteSet(OpenedIn(s)) /\ IsFiniteSet(Groups(E))
  BY <1>2, OpenedFinite, FS_Injection
<1>10. n <= Happened(s)
  BY <1>1, NoMoreThanHappened DEF E
<1>11. Happened(s) <= n
  <2> DEFINE k == [v \in OpenedIn(s) |-> CHOOSE g \in Groups(E) : h[g] = v]
  <2>1. \A v \in OpenedIn(s) : k[v] \in Groups(E) /\ h[k[v]] = v
    BY <1>7
  <2>2. k \in Injection(OpenedIn(s), Groups(E))
    <3>1. k \in [OpenedIn(s) -> Groups(E)]
      BY <2>1
    <3> HIDE DEF k
    <3>2. \A v, w \in OpenedIn(s) : k[v] = k[w] => v = w
      BY <2>1
    <3> QED BY <3>1, <3>2, Fun_IsInj
  <2> HIDE DEF k
  <2>3. \A v \in OpenedIn(s) : entries[v] \in Int /\ Taken(p, E)[k[v]] \in Int /\ entries[v] <= Taken(p, E)[k[v]]
    BY <1>6, <1>8, <2>1
  <2>4. Cardinality(Pairs(OpenedIn(s), entries)) <= Cardinality(Pairs(Groups(E), Taken(p, E)))
    BY <1>9, <2>2, <2>3, PairsCompare
  <2> QED BY <1>3, <2>4, HappenedIsPairs
<1>12. n \in Nat /\ Happened(s) \in Nat
  BY <1>3, <1>9, PairsFinite, HappenedIsPairs
<1> QED BY <1>10, <1>11, <1>12

\* THEOREM.  Once the last beacon of each of its page views is written, a session is
\* listed with all that happened in it (LastBeaconIsEnough).
THEOREM LastBeaconsSuffice == RumSpec => LastBeaconIsEnough
<1>1. ASSUME RumInv, NEW from \in 0..MaxInstant, ServeRUMSessions(from), NEW s \in Session,
             AllNamed(s), OpenedIn(s) # {}, \A v \in OpenedIn(s) : Settled(v, from)
      PROVE  \E r \in listed' : r.session = s /\ r.entries = Happened(s)
  <2>1. RumTyped /\ Cumulative
    BY <1>1 DEF RumInv
  <2>2. PICK f \in [Sessions(from) -> UNION {EntriesOf(Windowed(u, from)) : u \in Sessions(from)}] :
          /\ \A u \in Sessions(from) : f[u] \in EntriesOf(Windowed(u, from))
          /\ listed' = {[session |-> u, views |-> ViewsOf(Windowed(u, from)), entries |-> f[u]] : u \in Sessions(from)}
    BY <1>1, ListedFromWindow
  <2>3. s \in Sessions(from)
    BY <1>1 DEF Sessions, Settled, In, OpenedIn
  <2>4. f[s] = Happened(s)
    BY <1>1, <2>1, <2>2, <2>3, SettledIsAll
  <2> DEFINE r == [session |-> s, views |-> ViewsOf(Windowed(s, from)), entries |-> f[s]]
  <2>5. r \in listed'
    BY <2>2, <2>3
  <2>6. r.session = s /\ r.entries = f[s]
    OBVIOUS
  <2> HIDE DEF r
  <2> QED BY <2>4, <2>5, <2>6
<1>2. RumInv =>
        \A from \in 0..MaxInstant, s \in Session :
          /\ AllNamed(s) /\ OpenedIn(s) # {} /\ (\A v \in OpenedIn(s) : Settled(v, from))
          /\ ServeRUMSessions(from)
          => \E r \in listed' : r.session = s /\ r.entries = Happened(s)
  BY <1>1
<1> QED BY <1>2, SessionsInvariant, PTL DEF LastBeaconIsEnough, RumSpec

=============================================================================
