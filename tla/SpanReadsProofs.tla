-------------------------- MODULE SpanReadsProofs --------------------------
(***************************************************************************)
(* Proofs about SpanReads: the service map, the trace list and the metric  *)
(* ranges, for any spans, samples, tiers, tenants and bounds.              *)
(***************************************************************************)
EXTENDS SpanReads, FiniteSetTheorems, FunctionTheorems, WellFoundedInduction, TLAPS

(* Least and greatest elements, finite sets. *)

Less == {x \in Nat \X Nat : x[1] < x[2]}

LEMMA LessWellFounded == IsWellFoundedOn(Less, Nat)
<1>1. Less = OpToRel(<, Nat)
  BY Zenon DEF Less, OpToRel
<1> QED
  BY <1>1, NatLessThanWellFounded, Zenon

\* A set of naturals has a least element, which is what Min chooses.
LEMMA MinIsLeast ==
  ASSUME NEW T, T \subseteq Nat, T # {}
  PROVE  Min(T) \in T /\ \A y \in T : Min(T) <= y
<1>1. PICK x \in T : \A y \in T : ~ (<<y, x>> \in Less)
  BY LessWellFounded, WFMin
<1>2. ASSUME NEW y \in T PROVE x <= y
  <2>1. x \in Nat /\ y \in Nat
    OBVIOUS
  <2>2. y < x => <<y, x>> \in Less
    BY <2>1 DEF Less
  <2> QED
    BY <1>1, <2>1, <2>2
<1> QED
  BY <1>2 DEF Min

\* A bounded one has a greatest.
LEMMA MaxIsGreatest ==
  ASSUME NEW T, NEW n \in Nat, T \subseteq 0..n, T # {}
  PROVE  Max(T) \in T /\ \A y \in T : Max(T) >= y
<1> DEFINE D == {n - y : y \in T}
<1>1. D \subseteq Nat /\ D # {}
  <2>1. ASSUME NEW y \in T PROVE n - y \in Nat
    <3>1. y \in 0..n
      OBVIOUS
    <3> QED
      BY <3>1
  <2> QED
    BY <2>1
<1>2. Min(D) \in D /\ \A d \in D : Min(D) <= d
  BY <1>1, MinIsLeast
<1>3. PICK x \in T : Min(D) = n - x
  BY <1>2
<1>4. ASSUME NEW y \in T PROVE x >= y
  <2>1. n - x <= n - y
    BY <1>2, <1>3
  <2>2. x \in Int /\ y \in Int
    OBVIOUS
  <2> QED
    BY <2>1, <2>2
<1> QED
  BY <1>4 DEF Max

\* The image of a finite set is no larger.
LEMMA ImageFinite ==
  ASSUME NEW S, IsFiniteSet(S), NEW f
  PROVE  IsFiniteSet({f[x] : x \in S}) /\ Cardinality({f[x] : x \in S}) <= Cardinality(S)
<1> DEFINE T == {f[x] : x \in S}
           g == [x \in S |-> f[x]]
<1>1. g \in Surjection(S, T)
  BY DEF Surjection
<1> QED
  BY <1>1, FS_Surjection

LEMMA DisjointUnion ==
  ASSUME NEW S, NEW T, IsFiniteSet(S), IsFiniteSet(T), S \cap T = {}
  PROVE  IsFiniteSet(S \cup T) /\ Cardinality(S \cup T) = Cardinality(S) + Cardinality(T)
<1>1. IsFiniteSet(S \cup T) /\ Cardinality(S \cup T) = Cardinality(S) + Cardinality(T) - Cardinality(S \cap T)
  BY FS_Union
<1>2. Cardinality(S \cap T) = 0 /\ Cardinality(S) \in Nat /\ Cardinality(T) \in Nat
  BY FS_EmptySet, FS_CardinalityType
<1> QED
  BY <1>1, <1>2

-----------------------------------------------------------------------------
(* Sums over finite sets. *)

\* What a sum over a set is computed by: a function on its subsets that takes out one
\* element after another.
First(s) == CHOOSE x \in s : TRUE
Sums(f, S, g) == g = [s \in SUBSET S |-> IF s = {} THEN 0 ELSE f[First(s)] + g[s \ {First(s)}]]

LEMMA TakeOut ==
  ASSUME NEW s, IsFiniteSet(s), NEW x \in s
  PROVE  IsFiniteSet(s \ {x}) /\ Cardinality(s) \in Nat \ {0} /\ Cardinality(s \ {x}) = Cardinality(s) - 1
<1>1. Cardinality(s) \in Nat /\ Cardinality(s) # 0
  BY FS_CardinalityType, FS_EmptySet
<1> QED
  BY <1>1, FS_RemoveElement

LEMMA SumsExist ==
  ASSUME NEW S, IsFiniteSet(S), NEW f
  PROVE  \E g : Sums(f, S, g)
<1> DEFINE Small(n) == {s \in SUBSET S : Cardinality(s) <= n}
           Part(n) == \E g : g = [s \in Small(n) |-> IF s = {} THEN 0 ELSE f[First(s)] + g[s \ {First(s)}]]
           Bad == {n \in Nat : ~ Part(n)}
<1>1. ASSUME NEW s \in SUBSET S, s # {}
      PROVE  First(s) \in s /\ s \ {First(s)} \in SUBSET S /\ Cardinality(s) \in Nat \ {0}
             /\ Cardinality(s \ {First(s)}) = Cardinality(s) - 1
  <2>1. First(s) \in s
    BY <1>1 DEF First
  <2>2. IsFiniteSet(s)
    BY FS_Subset
  <2> QED
    BY <2>1, <2>2, TakeOut
<1>2. \A s \in SUBSET S : Cardinality(s) \in Nat /\ (Cardinality(s) = 0 <=> s = {})
  BY FS_Subset, FS_CardinalityType, FS_EmptySet
<1>3. Part(0)
  <2> DEFINE g == [s \in Small(0) |-> 0]
  <2>1. \A s \in Small(0) : s = {}
    BY <1>2
  <2>2. g = [s \in Small(0) |-> IF s = {} THEN 0 ELSE f[First(s)] + g[s \ {First(s)}]]
    BY <2>1
  <2> QED
    BY <2>2
<1>4. ASSUME NEW n \in Nat, Part(n)
      PROVE  Part(n + 1)
  <2>1. PICK g : g = [s \in Small(n) |-> IF s = {} THEN 0 ELSE f[First(s)] + g[s \ {First(s)}]]
    BY <1>4
  <2> DEFINE h == [s \in Small(n + 1) |-> IF s = {} THEN 0 ELSE f[First(s)] + g[s \ {First(s)}]]
  <2>2. \A s \in Small(n) : s \in Small(n + 1) /\ h[s] = g[s]
    <3>1. \A s \in Small(n) : s \in Small(n + 1)
      BY <1>2
    <3>2. \A s \in Small(n) : g[s] = IF s = {} THEN 0 ELSE f[First(s)] + g[s \ {First(s)}]
      BY <2>1
    <3> QED
      BY <3>1, <3>2
  <2>3. \A s \in Small(n + 1) : s # {} => s \ {First(s)} \in Small(n)
    BY <1>1
  <2>4. \A s \in Small(n + 1) : s # {} => h[s \ {First(s)}] = g[s \ {First(s)}]
    BY <2>2, <2>3
  <2> HIDE DEF Small
  <2>5. h = [s \in Small(n + 1) |-> IF s = {} THEN 0 ELSE f[First(s)] + h[s \ {First(s)}]]
    BY <2>4
  <2> QED
    BY <2>5
<1> HIDE DEF Part
<1>5. Bad = {}
  <2> SUFFICES ASSUME Bad # {} PROVE FALSE
    OBVIOUS
  <2>1. Min(Bad) \in Bad /\ \A m \in Bad : Min(Bad) <= m
    BY MinIsLeast
  <2>2. Min(Bad) # 0
    BY <1>3, <2>1
  <2>3. Min(Bad) - 1 \in Nat /\ Min(Bad) - 1 \notin Bad
    BY <2>1, <2>2
  <2> QED
    BY <1>4, <2>1, <2>3
<1>6. Part(Cardinality(S))
  BY <1>5, FS_CardinalityType
<1>7. Small(Cardinality(S)) = SUBSET S
  BY FS_Subset
<1> QED
  BY <1>6, <1>7 DEF Part, Sums

\* Whatever element is taken out first.
LEMMA SumsAdd ==
  ASSUME NEW S, IsFiniteSet(S), NEW f, \A x \in S : f[x] \in Nat, NEW g, Sums(f, S, g)
  PROVE  /\ g[{}] = 0
         /\ \A s \in SUBSET S : g[s] \in Nat /\ \A x \in s : g[s] = f[x] + g[s \ {x}]
<1> DEFINE Good(s) == g[s] \in Nat /\ \A x \in s : g[s] = f[x] + g[s \ {x}]
           Bad == {n \in Nat : \E s \in SUBSET S : Cardinality(s) = n /\ ~ Good(s)}
<1>1. \A s \in SUBSET S : g[s] = IF s = {} THEN 0 ELSE f[First(s)] + g[s \ {First(s)}]
  BY DEF Sums
<1>2. \A s \in SUBSET S : s # {} => First(s) \in s
  BY DEF First
<1>3. \A s \in SUBSET S : IsFiniteSet(s) /\ Cardinality(s) \in Nat
  BY FS_Subset, FS_CardinalityType
<1>4. g[{}] = 0
  BY <1>1
<1>5. ASSUME NEW s \in SUBSET S, \A t \in SUBSET S : Cardinality(t) < Cardinality(s) => Good(t)
      PROVE  Good(s)
  <2>1. CASE s = {}
    BY <1>4, <2>1
  <2>2. CASE s # {}
    <3> DEFINE y == First(s)
    <3>1. y \in s /\ g[s] = f[y] + g[s \ {y}] /\ f[y] \in Nat
      BY <1>1, <1>2, <2>2
    <3> HIDE DEF y
    <3>2. \A x \in s : s \ {x} \in SUBSET S /\ Good(s \ {x})
      <4> TAKE x \in s
      <4>1. Cardinality(s \ {x}) = Cardinality(s) - 1 /\ Cardinality(s) \in Nat
        BY <1>3, TakeOut
      <4>2. s \ {x} \in SUBSET S
        OBVIOUS
      <4> HIDE DEF Good
      <4> QED
        BY <1>5, <4>1, <4>2
    <3>3. g[s] \in Nat
      <4>1. g[s \ {y}] \in Nat
        BY <3>1, <3>2
      <4> QED
        BY <3>1, <4>1
    <3>4. ASSUME NEW x \in s, x # y
          PROVE  g[s] = f[x] + g[s \ {x}]
      <4>1. g[s \ {y}] = f[x] + g[(s \ {y}) \ {x}]
        BY <3>1, <3>2, <3>4
      <4>2. g[s \ {x}] = f[y] + g[(s \ {x}) \ {y}]
        BY <3>1, <3>2, <3>4
      <4>3. (s \ {y}) \ {x} = (s \ {x}) \ {y}
        OBVIOUS
      <4>4. f[x] \in Nat /\ f[y] \in Nat /\ g[s \ {x}] \in Nat /\ g[s \ {y}] \in Nat
        BY <3>1, <3>2
      <4>5. g[(s \ {y}) \ {x}] \in Nat
        <5>1. (s \ {y}) \ {x} \in SUBSET S /\ IsFiniteSet(s \ {y}) /\ x \in s \ {y}
          BY <1>3, <3>2, <3>4
        <5>2. Cardinality((s \ {y}) \ {x}) = Cardinality(s) - 2 /\ Cardinality(s) \in Nat
          BY <1>3, <3>1, <5>1, TakeOut
        <5> QED
          BY <1>5, <5>1, <5>2
      <4> QED
        BY <3>1, <4>1, <4>2, <4>3, <4>4, <4>5
    <3> QED
      BY <3>1, <3>3, <3>4
  <2> QED
    BY <2>1, <2>2
<1> HIDE DEF Good
<1>6. Bad = {}
  <2> SUFFICES ASSUME Bad # {} PROVE FALSE
    OBVIOUS
  <2>1. Min(Bad) \in Bad /\ \A m \in Bad : Min(Bad) <= m
    BY MinIsLeast
  <2>2. PICK s \in SUBSET S : Cardinality(s) = Min(Bad) /\ ~ Good(s)
    BY <2>1
  <2>3. \A t \in SUBSET S : Cardinality(t) < Cardinality(s) => Good(t)
    BY <1>3, <2>1, <2>2
  <2> QED
    BY <1>5, <2>2, <2>3
<1> QED
  BY <1>3, <1>4, <1>6 DEF Good

SumOf(f, S) == (CHOOSE g : Sums(f, S, g))[S]

\* The sum does not depend on what else it could have been computed over.
LEMMA SumsAgree ==
  ASSUME NEW S, IsFiniteSet(S), NEW f, \A x \in S : f[x] \in Nat, NEW g, Sums(f, S, g),
         NEW S2, IsFiniteSet(S2), NEW f2, NEW g2, Sums(f2, S2, g2),
         S \subseteq S2, \A x \in S2 : f2[x] \in Nat, \A x \in S : f[x] = f2[x]
  PROVE  g[S] = g2[S]
<1> DEFINE Bad == {n \in Nat : \E s \in SUBSET S : Cardinality(s) = n /\ g[s] # g2[s]}
<1>1. g[{}] = 0 /\ \A s \in SUBSET S : \A x \in s : g[s] = f[x] + g[s \ {x}]
  BY SumsAdd
<1>2. g2[{}] = 0 /\ \A s \in SUBSET S2 : \A x \in s : g2[s] = f2[x] + g2[s \ {x}]
  BY SumsAdd
<1>3. \A s \in SUBSET S : IsFiniteSet(s) /\ Cardinality(s) \in Nat
  BY FS_Subset, FS_CardinalityType
<1>4. ASSUME Bad # {} PROVE FALSE
  <2>1. Min(Bad) \in Bad /\ \A m \in Bad : Min(Bad) <= m
    BY <1>4, MinIsLeast
  <2>2. PICK s \in SUBSET S : Cardinality(s) = Min(Bad) /\ g[s] # g2[s]
    BY <2>1
  <2>3. s # {}
    BY <1>1, <1>2, <2>2
  <2>4. PICK x \in s : TRUE
    BY <2>3
  <2>5. Cardinality(s \ {x}) = Cardinality(s) - 1 /\ Cardinality(s) \in Nat \ {0} /\ s \ {x} \in SUBSET S
    BY <1>3, TakeOut
  <2>6. g[s \ {x}] = g2[s \ {x}]
    BY <2>1, <2>2, <2>5
  <2>7. s \in SUBSET S2 /\ f[x] = f2[x]
    OBVIOUS
  <2> QED
    BY <1>1, <1>2, <2>2, <2>6, <2>7
<1> QED
  BY <1>3, <1>4

LEMMA SumIs ==
  ASSUME NEW S, IsFiniteSet(S), NEW f, \A x \in S : f[x] \in Nat, NEW g, Sums(f, S, g)
  PROVE  g[S] = SumOf(f, S)
<1>1. Sums(f, S, CHOOSE h : Sums(f, S, h))
  BY Zenon
<1> QED
  BY <1>1, SumsAgree DEF SumOf

LEMMA SumLaws ==
  ASSUME NEW S, IsFiniteSet(S), NEW f, \A x \in S : f[x] \in Nat
  PROVE  /\ SumOf(f, S) \in Nat
         /\ S = {} => SumOf(f, S) = 0
         /\ \A x \in S : SumOf(f, S) = f[x] + SumOf(f, S \ {x})
<1>1. PICK g : Sums(f, S, g)
  BY SumsExist
<1>2. /\ g[{}] = 0
      /\ \A s \in SUBSET S : g[s] \in Nat /\ \A x \in s : g[s] = f[x] + g[s \ {x}]
  BY <1>1, SumsAdd
<1>3. g[S] = SumOf(f, S)
  BY <1>1, SumIs
<1>4. ASSUME NEW x \in S PROVE g[S \ {x}] = SumOf(f, S \ {x})
  <2>1. IsFiniteSet(S \ {x}) /\ S \ {x} \subseteq S
    BY FS_Subset
  <2>2. PICK h : Sums(f, S \ {x}, h)
    BY <2>1, SumsExist
  <2>3. h[S \ {x}] = g[S \ {x}]
    BY <1>1, <2>1, <2>2, SumsAgree
  <2>4. h[S \ {x}] = SumOf(f, S \ {x})
    BY <2>1, <2>2, SumIs
  <2> QED
    BY <2>3, <2>4
<1> QED
  BY <1>2, <1>3, <1>4

LEMMA SumSame ==
  ASSUME NEW S, IsFiniteSet(S), NEW f, NEW h, \A x \in S : f[x] \in Nat /\ h[x] = f[x]
  PROVE  SumOf(h, S) = SumOf(f, S)
<1>1. PICK g : Sums(f, S, g)
  BY SumsExist
<1>2. PICK k : Sums(h, S, k)
  BY SumsExist
<1>3. g[S] = SumOf(f, S)
  BY <1>1, SumIs
<1>4. k[S] = SumOf(h, S)
  BY <1>2, SumIs
<1>5. g[S] = k[S]
  BY <1>1, <1>2, SumsAgree
<1> QED
  BY <1>3, <1>4, <1>5

-----------------------------------------------------------------------------
(* The trace list. *)

\* The group of a trace, and what it is sorted by, among any spans.
GroupIn(F, q, t) ==
  {r \in F : r.trace = t /\ Sees(q, r.owner) /\ q.window.from <= r.start /\ r.start <= q.window.to}
TracesIn(F, q) == {t \in TraceId : GroupIn(F, q, t) # {}}
TimesIn(F, q, t) == {IF q.sort = "created_at" THEN r.created ELSE r.start : r \in GroupIn(F, q, t)}

LEMMA KeyIsLeast ==
  ASSUME NEW F \in SUBSET SpanRow, NEW q \in Asks, NEW t, GroupIn(F, q, t) # {}
  PROVE  LET k == Min(TimesIn(F, q, t))
         IN  k \in TimesIn(F, q, t) /\ k \in Nat /\ TimesIn(F, q, t) \subseteq Nat /\ \A y \in TimesIn(F, q, t) : k <= y
<1>1. TimesIn(F, q, t) \subseteq Nat /\ TimesIn(F, q, t) # {}
  <2>1. ASSUME NEW r \in GroupIn(F, q, t)
        PROVE  r.created \in Nat /\ r.start \in Nat
    <3>1. r \in SpanRow
      BY DEF GroupIn
    <3>2. r.created \in 1..LastTime /\ r.start \in 1..LastTime
      BY <3>1, TraceAssumption DEF SpanRow
    <3> QED
      BY <3>2
  <2> QED
    BY <2>1 DEF TimesIn
<1> QED
  BY <1>1, MinIsLeast

LEMMA TracesAreGroups ==
  /\ \A q : Traces(q) = TracesIn(filed, q) /\ Traces(q)' = TracesIn(filed', q)
  /\ \A q, t : Group(q, t) = GroupIn(filed, q, t) /\ Group(q, t)' = GroupIn(filed', q, t)
  /\ \A q, t : Key(q, t) = Min(TimesIn(filed, q, t)) /\ Key(q, t)' = Min(TimesIn(filed', q, t))
BY DEF Traces, TracesIn, Group, GroupIn, Key, TimesIn, Sees

LEMMA LatestIsLatest ==
  ASSUME filed \subseteq SpanRow
  PROVE  Latest \in Nat /\ \A r \in filed : r.created <= Latest
<1> DEFINE T == {1} \cup {r.created : r \in filed}
<1>1. T \subseteq 0..LastTime /\ T # {}
  BY TraceAssumption DEF SpanRow
<1>2. Latest = Max(T)
  BY DEF Latest
<1>3. Max(T) \in T /\ \A y \in T : Max(T) >= y
  BY <1>1, MaxIsGreatest, TraceAssumption
<1> QED
  BY <1>1, <1>2, <1>3

LEMMA TracesFinite ==
  ASSUME NEW F \in SUBSET SpanRow, NEW q, IsFiniteSet(F)
  PROVE  /\ IsFiniteSet(TracesIn(F, q))
         /\ \A t : IsFiniteSet(GroupIn(F, q, t)) /\ Cardinality(GroupIn(F, q, t)) \in Nat
<1>1. IsFiniteSet({r.trace : r \in F})
  <2>1. IsFiniteSet({[u \in F |-> u.trace][r] : r \in F})
    BY ImageFinite
  <2>2. {[u \in F |-> u.trace][r] : r \in F} = {r.trace : r \in F}
    OBVIOUS
  <2> QED
    BY <2>1, <2>2
<1>2. TracesIn(F, q) \subseteq {r.trace : r \in F}
  BY DEF TracesIn, GroupIn
<1>3. IsFiniteSet(TracesIn(F, q))
  BY <1>1, <1>2, FS_Subset
<1>4. ASSUME NEW t PROVE IsFiniteSet(GroupIn(F, q, t)) /\ Cardinality(GroupIn(F, q, t)) \in Nat
  <2>1. GroupIn(F, q, t) \subseteq F
    BY DEF GroupIn
  <2> QED
    BY <2>1, FS_Subset, FS_CardinalityType
<1> QED
  BY <1>3, <1>4


-----------------------------------------------------------------------------
(* The invariant. *)

Rows(t) == {r \in filed : r.trace = t /\ Sees(ask, r.owner)}

DetailRecord ==
  [trace : TraceId \cup {"none"}, row : Nat, spans : SUBSET SpanRow,
   before : SUBSET (TraceId \X SpanId \X Owner), with : SUBSET SpanRow, full : BOOLEAN]

TraceTyped ==
  /\ TraceTypeOK
  /\ IsFiniteSet(filed) /\ IsFiniteSet(shown)
  /\ detail \in DetailRecord
  /\ step = "full" => there = {}

\* No row promises more spans than its trace has by now, and an open trace was found
\* with those promised, its own, and the payloads there were.
DetailInv ==
  /\ \A row \in shown : row[2] <= Cardinality(Rows(row[1]))
  /\ Cardinality(detail.spans) >= detail.row
  /\ \A r \in detail.spans : r.trace = detail.trace /\ Sees(ask, r.owner)
  /\ step = "full" => detail.before \subseteq payloads
  /\ detail.full => \A r \in detail.spans : <<r.trace, r.span, r.owner>> \in detail.before => r \in detail.with

\* The traces that sort before t.
Earlier(t) == {u \in Traces(ask) : NotAfter(ask, u, t) /\ Key(ask, u) # Key(ask, t)}

\* The next page does not begin after the place of t.
Ahead(t) ==
  /\ step = "list" => offset <= Cardinality(Earlier(t))
  /\ step = "count" => shown # {} /\ offset + Cardinality(shown) <= Cardinality(Earlier(t))
  /\ step = "idle" => shown # {} /\ offset <= Cardinality(Earlier(t)) /\ offset < total

PlaceInv ==
  ask.sort = "created_at" /\ sure /\ ~ adrift =>
    \A t \in there \ met : t \in Traces(ask) /\ (Tied(t) \/ Ahead(t))

TraceInv == TraceTyped /\ DetailInv /\ PlaceInv

-----------------------------------------------------------------------------
LEMMA RequestsAreAsks ==
  /\ AsksWithin(Windows) \subseteq Asks
  /\ \A s \in Scopes : Plain(s) \in Asks
<1>1. Windows \subseteq Window /\ "created_at" \in Sorts
  BY TraceAssumption
<1>2. (CHOOSE w \in Windows : TRUE) \in Windows
  BY TraceAssumption
<1> QED
  BY <1>1, <1>2 DEF Asks, AsksWithin, Plain

LEMMA TraceInitInv == TraceInit => TraceInv
<1> SUFFICES ASSUME TraceInit PROVE TraceInv
  OBVIOUS
<1> USE DEF TraceInit
<1>1. ask \in Asks
  <2>1. (CHOOSE s \in Scopes : TRUE) \in Scopes
    BY TraceAssumption
  <2> QED
    BY <2>1, RequestsAreAsks
<1>2. IsFiniteSet({}) /\ Cardinality({}) = 0
  BY FS_EmptySet
<1>3. detail \in DetailRecord
  BY DEF DetailRecord, NoDetail
<1>4. TraceTyped
  BY <1>1, <1>2, <1>3 DEF TraceTyped, TraceTypeOK, NoDetail
<1>5. DetailInv
  BY <1>2 DEF DetailInv, NoDetail
<1>6. PlaceInv
  BY DEF PlaceInv
<1> QED
  BY <1>4, <1>5, <1>6 DEF TraceInv

-----------------------------------------------------------------------------
\* A new span is created last, so the keys by creation stand.
LEMMA KeysStand ==
  ASSUME TraceTyped, UNCHANGED ask,
         NEW t \in TraceId, NEW s \in SpanId, NEW o \in Owner, NEW a \in Starts, NEW c \in 1..LastTime,
         FileSpan(t, s, o, a, c)
  PROVE  /\ Traces(ask) \subseteq Traces(ask)'
         /\ ask.sort = "created_at" => \A u \in Traces(ask) : Key(ask, u)' = Key(ask, u)
<1> DEFINE n == [trace |-> t, span |-> s, owner |-> o, start |-> a, created |-> c]
<1>1. filed' = filed \cup {n} /\ c \in {Latest, Latest + 1} /\ n \in SpanRow
  BY DEF FileSpan, SpanRow
<1>2. filed \subseteq SpanRow /\ filed' \subseteq SpanRow /\ ask \in Asks
  BY <1>1 DEF TraceTyped, TraceTypeOK
<1>3. Latest \in Nat /\ \A r \in filed : r.created <= Latest
  BY <1>2, LatestIsLatest
<1>4. ASSUME NEW u \in Traces(ask)
      PROVE  u \in Traces(ask)' /\ (ask.sort = "created_at" => Key(ask, u)' = Key(ask, u))
  <2>1. u \in TraceId /\ GroupIn(filed, ask, u) # {} /\ GroupIn(filed, ask, u) \subseteq GroupIn(filed', ask, u)
    BY <1>1, <1>4, TracesAreGroups DEF TracesIn, GroupIn
  <2>2. u \in Traces(ask)'
    BY <2>1, TracesAreGroups DEF TracesIn
  <2>3. ASSUME ask.sort = "created_at"
        PROVE  Key(ask, u)' = Key(ask, u)
    <3> DEFINE T  == TimesIn(filed, ask, u)
               T1 == TimesIn(filed', ask, u)
    <3>1. Min(T) \in T /\ Min(T) \in Nat /\ \A y \in T : Min(T) <= y
      BY <1>2, <2>1, KeyIsLeast
    <3>2. Min(T1) \in T1 /\ Min(T1) \in Nat /\ \A y \in T1 : Min(T1) <= y
      BY <1>2, <2>1, KeyIsLeast
    <3>3. T \subseteq T1
      BY <2>1 DEF TimesIn
    <3>4. T1 \subseteq T \cup {c}
      BY <1>1, <2>3 DEF TimesIn, GroupIn
    <3>5. \A y \in T : y <= c
      <4>1. \A r \in GroupIn(filed, ask, u) : r.created <= Latest /\ r.created \in Nat
        BY <1>2, <1>3 DEF GroupIn, SpanRow
      <4> QED
        BY <1>1, <1>3, <2>3, <4>1 DEF TimesIn
    <3>6. Min(T1) = Min(T)
      BY <3>1, <3>2, <3>3, <3>4, <3>5
    <3>7. Key(ask, u)' = Min(T1)
      BY TracesAreGroups
    <3>8. Key(ask, u) = Min(T)
      BY TracesAreGroups
    <3> QED
      BY <3>6, <3>7, <3>8
  <2> QED
    BY <2>2, <2>3
<1> QED
  BY <1>4

\* Then no place moves forward, and ties remain.
LEMMA PlacesStand ==
  ASSUME TraceTyped, TraceTyped', PlaceInv, ~ adrift' => ~ adrift,
         UNCHANGED <<step, offset, shown, total, met, there, sure>>, ask'.sort = ask.sort, ask'.order = ask.order,
         ~ adrift' => Traces(ask) \subseteq Traces(ask)',
         ~ adrift' /\ ask.sort = "created_at" => \A u \in Traces(ask) : Key(ask, u)' = Key(ask, u)
  PROVE  PlaceInv'
<1> SUFFICES ASSUME ask.sort = "created_at", sure, ~ adrift', NEW t \in there \ met
             PROVE  t \in Traces(ask)' /\ (Tied(t)' \/ Ahead(t)')
  BY DEF PlaceInv
<1>1. t \in Traces(ask) /\ (Tied(t) \/ Ahead(t))
  BY DEF PlaceInv
<1>2. Tied(t) => Tied(t)'
  BY <1>1 DEF Tied
<1>3. Earlier(t) \subseteq Earlier(t)'
  BY <1>1 DEF Earlier, NotAfter
<1>4. IsFiniteSet(Earlier(t)')
  <2>1. IsFiniteSet(Traces(ask)')
    BY TracesFinite, TracesAreGroups DEF TraceTyped, TraceTypeOK
  <2>2. Earlier(t)' \subseteq Traces(ask)'
    BY DEF Earlier
  <2> QED
    BY <2>1, <2>2, FS_Subset
<1>5. /\ Cardinality(Earlier(t)) <= Cardinality(Earlier(t)')
      /\ Cardinality(Earlier(t)) \in Nat /\ Cardinality(Earlier(t)') \in Nat
  BY <1>3, <1>4, FS_Subset, FS_CardinalityType
<1>6. Cardinality(shown) \in Nat /\ offset \in Nat
  BY FS_CardinalityType DEF TraceTyped, TraceTypeOK
<1>7. Ahead(t) => Ahead(t)'
  BY <1>5, <1>6 DEF Ahead
<1> QED
  BY <1>1, <1>2, <1>7

LEMMA FileSpanInv ==
  ASSUME TraceInv, NEW t \in TraceId, NEW s \in SpanId, NEW o \in Owner, NEW a \in Starts, NEW c \in 1..LastTime,
         FileSpan(t, s, o, a, c)
  PROVE  TraceInv'
<1> DEFINE n == [trace |-> t, span |-> s, owner |-> o, start |-> a, created |-> c]
<1>1. /\ filed' = filed \cup {n} /\ n \in SpanRow
      /\ UNCHANGED <<payloads, step, ask, offset, shown, total, met, there, sure, adrift, detail>>
  BY DEF FileSpan, SpanRow
<1>2. TraceTyped /\ TraceTypeOK /\ DetailInv /\ PlaceInv
  BY DEF TraceInv, TraceTyped
<1>3. TraceTyped'
  <2>1. IsFiniteSet(filed')
    BY <1>1, <1>2, FS_AddElement DEF TraceTyped
  <2>2. TraceTypeOK'
    BY <1>1, <1>2 DEF TraceTypeOK
  <2> QED
    BY <1>1, <1>2, <2>1, <2>2 DEF TraceTyped
<1>4. DetailInv'
  <2>1. ASSUME NEW row \in shown
        PROVE  row[2] <= Cardinality(Rows(row[1])')
    <3>1. Rows(row[1]) \subseteq Rows(row[1])' /\ Rows(row[1])' \subseteq filed'
      BY <1>1 DEF Rows, Sees
    <3>2. IsFiniteSet(Rows(row[1])')
      BY <1>3, <3>1, FS_Subset DEF TraceTyped
    <3>3. /\ Cardinality(Rows(row[1])) <= Cardinality(Rows(row[1])')
          /\ Cardinality(Rows(row[1])) \in Nat /\ Cardinality(Rows(row[1])') \in Nat
      BY <3>1, <3>2, FS_Subset, FS_CardinalityType
    <3>4. row[2] \in Nat /\ row[2] <= Cardinality(Rows(row[1]))
      BY <1>2, <2>1 DEF TraceTypeOK, DetailInv
    <3> QED
      BY <3>3, <3>4
  <2> QED
    BY <1>1, <1>2, <2>1 DEF DetailInv, Sees
<1>5. PlaceInv'
  BY <1>1, <1>2, <1>3, KeysStand, PlacesStand
<1> QED
  BY <1>3, <1>4, <1>5 DEF TraceInv

LEMMA FilePayloadInv ==
  ASSUME TraceInv, NEW r \in filed, FilePayload(r)
  PROVE  TraceInv'
<1>1. /\ payloads' = payloads \cup {<<r.trace, r.span, r.owner>>}
      /\ UNCHANGED <<filed, step, ask, offset, shown, total, met, there, sure, adrift, detail>>
  BY DEF FilePayload
<1>2. TraceTyped /\ TraceTypeOK /\ DetailInv /\ PlaceInv
  BY DEF TraceInv, TraceTyped
<1>3. <<r.trace, r.span, r.owner>> \in TraceId \X SpanId \X Owner
  BY <1>2 DEF TraceTypeOK, SpanRow
<1>4. TraceTyped'
  BY <1>1, <1>2, <1>3 DEF TraceTyped, TraceTypeOK
<1>5. DetailInv'
  BY <1>1, <1>2 DEF DetailInv, Rows, Sees
<1>6. PlaceInv'
  <2>1. Traces(ask)' = Traces(ask) /\ \A u : Key(ask, u)' = Key(ask, u)
    BY <1>1, TracesAreGroups
  <2> QED
    BY <1>1, <1>2, <1>4, <2>1, PlacesStand
<1> QED
  BY <1>4, <1>5, <1>6 DEF TraceInv

\* A window that moves leaves the list's traces where they are, unless the move is noted.
LEMMA MoveWindowInv ==
  ASSUME TraceInv, MoveWindow
  PROVE  TraceInv'
<1>1. /\ Later(ask.window) \in Window /\ ask' = [ask EXCEPT !.window = Later(ask.window)]
      /\ adrift' = (adrift \/ \E t \in Traces(ask) : t \notin Traces(ask') \/ Key(ask', t) # Key(ask, t))
      /\ UNCHANGED <<filed, payloads, step, offset, shown, total, met, there, sure, detail>>
  BY DEF MoveWindow
<1>2. TraceTyped /\ TraceTypeOK /\ DetailInv /\ PlaceInv /\ ask \in Asks
  BY DEF TraceInv, TraceTyped, TraceTypeOK
<1>3. ask' \in Asks /\ ask'.scope = ask.scope /\ ask'.sort = ask.sort /\ ask'.order = ask.order
  BY <1>1, <1>2 DEF Asks, AsksWithin
<1>4. adrift' \in BOOLEAN
  BY <1>1, Zenon
<1>5. TraceTyped'
  BY <1>1, <1>2, <1>3, <1>4 DEF TraceTyped, TraceTypeOK
<1>6. \A o : Sees(ask, o)' <=> Sees(ask, o)
  BY <1>3 DEF Sees
<1>7. DetailInv'
  <2>1. \A t : Rows(t)' = Rows(t)
    BY <1>1, <1>6 DEF Rows
  <2> QED
    BY <1>1, <1>2, <1>6, <2>1 DEF DetailInv
<1>8. ASSUME ~ adrift'
      PROVE  ~ adrift /\ Traces(ask) \subseteq Traces(ask)' /\ \A u \in Traces(ask) : Key(ask, u)' = Key(ask, u)
  <2>1. Traces(ask') = Traces(ask)' /\ \A u : Key(ask', u) = Key(ask, u)'
    BY <1>1 DEF Traces, Key, Group, Sees
  <2> QED
    BY <1>1, <1>8, <2>1
<1>9. PlaceInv'
  BY <1>1, <1>2, <1>3, <1>5, <1>8, PlacesStand
<1> QED
  BY <1>5, <1>7, <1>9 DEF TraceInv

LEMMA BrowseInv ==
  ASSUME TraceInv, NEW q \in Asks, Browse(q)
  PROVE  TraceInv'
<1>1. /\ step' = "list" /\ ask' = q /\ offset' = 0 /\ shown' = {} /\ total' = -1
      /\ met' = {} /\ there' = Traces(q) /\ sure' = TRUE /\ adrift' = FALSE /\ detail' = NoDetail
      /\ UNCHANGED <<filed, payloads>>
  BY DEF Browse
<1>2. TraceTyped /\ TraceTypeOK
  BY DEF TraceInv, TraceTyped
<1>3. Traces(q) \subseteq TraceId /\ Traces(q)' = Traces(q)
  BY <1>1, TracesAreGroups DEF TracesIn
<1>4. IsFiniteSet({}) /\ Cardinality({}) = 0
  BY FS_EmptySet
<1>5. NoDetail \in DetailRecord
  BY DEF DetailRecord, NoDetail
<1>6. TraceTyped'
  BY <1>1, <1>2, <1>3, <1>4, <1>5 DEF TraceTyped, TraceTypeOK, NoDetail
<1>7. DetailInv'
  BY <1>1, <1>4 DEF DetailInv, NoDetail
<1>8. PlaceInv'
  <2>1. ASSUME NEW t \in Traces(q)
        PROVE  Ahead(t)'
    <3>1. Cardinality(Earlier(t)') \in Nat
      <4>1. IsFiniteSet(Traces(ask)')
        BY <1>6, TracesFinite, TracesAreGroups DEF TraceTyped, TraceTypeOK
      <4>2. Earlier(t)' \subseteq Traces(ask)'
        BY DEF Earlier
      <4> QED
        BY <4>1, <4>2, FS_Subset, FS_CardinalityType
    <3> QED
      BY <1>1, <3>1 DEF Ahead
  <2>2. \A t \in there' : t \in Traces(ask)'
    BY <1>1, <1>3
  <2> QED
    BY <1>1, <2>1, <2>2 DEF PlaceInv
<1> QED
  BY <1>6, <1>7, <1>8 DEF TraceInv

LEMMA NextPageInv ==
  ASSUME TraceInv, NextPage
  PROVE  TraceInv'
<1>1. /\ step = "idle" /\ step' = "list" /\ detail' = NoDetail
      /\ UNCHANGED <<filed, payloads, ask, offset, shown, total, met, there, sure, adrift>>
  BY DEF NextPage
<1>2. TraceTyped /\ TraceTypeOK /\ DetailInv /\ PlaceInv
  BY DEF TraceInv, TraceTyped
<1>3. NoDetail \in DetailRecord /\ Cardinality({}) = 0
  BY FS_EmptySet DEF DetailRecord, NoDetail
<1>4. TraceTyped'
  BY <1>1, <1>2, <1>3 DEF TraceTyped, TraceTypeOK, NoDetail
<1>5. DetailInv'
  BY <1>1, <1>2, <1>3 DEF DetailInv, NoDetail, Rows, Sees
<1>6. PlaceInv'
  <2>1. Traces(ask)' = Traces(ask) /\ \A u : Key(ask, u)' = Key(ask, u)
    BY <1>1, TracesAreGroups
  <2>2. \A t : (Tied(t) => Tied(t)') /\ Earlier(t)' = Earlier(t)
    BY <1>1, <2>1 DEF Tied, Earlier, NotAfter
  <2>3. \A t : Ahead(t) => Ahead(t)'
    BY <1>1, <2>2 DEF Ahead
  <2> QED
    BY <1>1, <1>2, <2>1, <2>2, <2>3 DEF PlaceInv
<1> QED
  BY <1>4, <1>5, <1>6 DEF TraceInv

LEMMA TraceFailedInv ==
  ASSUME TraceInv, TraceFailed
  PROVE  TraceInv'
<1>1. /\ step = "list" /\ step' = "idle" /\ total' = Max({total, 0}) /\ shown' = {} /\ sure' = FALSE
      /\ UNCHANGED <<filed, payloads, ask, offset, met, there, adrift, detail>>
  BY DEF TraceFailed
<1>2. TraceTyped /\ TraceTypeOK /\ DetailInv
  BY DEF TraceInv, TraceTyped
<1>3. total' \in Nat
  <2>1. CASE total = -1
    <3>1. total' = Max({-1, 0})
      BY <1>1, <2>1
    <3>2. \A x \in {-1, 0} : (\A y \in {-1, 0} : x >= y) <=> x = 0
      OBVIOUS
    <3> QED
      BY <3>1, <3>2 DEF Max
  <2>2. CASE total \in Nat
    <3>1. {total, 0} \subseteq 0..total /\ {total, 0} # {}
      BY <2>2
    <3>2. Max({total, 0}) \in {total, 0}
      BY <2>2, <3>1, MaxIsGreatest
    <3> QED
      BY <1>1, <2>2, <3>2
  <2> QED
    BY <1>2, <2>1, <2>2 DEF TraceTypeOK
<1>4. TraceTyped'
  BY <1>1, <1>2, <1>3, FS_EmptySet DEF TraceTyped, TraceTypeOK
<1>5. DetailInv'
  BY <1>1, <1>2 DEF DetailInv, Rows, Sees
<1> QED
  BY <1>1, <1>4, <1>5 DEF TraceInv, PlaceInv

LEMMA ReadPayloadsInv ==
  ASSUME TraceInv, ReadPayloads
  PROVE  TraceInv'
<1>1. /\ step = "full" /\ step' = "idle"
      /\ UNCHANGED <<filed, payloads, ask, offset, shown, total, met, there, sure, adrift>>
  BY DEF ReadPayloads
<1>2. TraceTyped /\ TraceTypeOK /\ DetailInv /\ detail \in DetailRecord
  BY DEF TraceInv, TraceTyped
<1>3. CASE UNCHANGED detail
  <2>1. TraceTyped' /\ DetailInv'
    BY <1>1, <1>2, <1>3 DEF TraceTyped, TraceTypeOK, DetailInv, Rows, Sees
  <2>2. PlaceInv'
    BY <1>1, <1>2 DEF PlaceInv, TraceTyped
  <2> QED
    BY <2>1, <2>2 DEF TraceInv
<1>4. CASE detail' = [detail EXCEPT !.full = (Payloads # {}),
                         !.with = {r \in detail.spans : \E p \in Payloads : p[2] = r.span}]
  <2>1. /\ detail' \in DetailRecord
        /\ detail'.spans = detail.spans /\ detail'.row = detail.row /\ detail'.trace = detail.trace
        /\ detail'.before = detail.before
        /\ detail'.with = {r \in detail.spans : \E p \in Payloads : p[2] = r.span}
    BY <1>2, <1>4 DEF DetailRecord
  <2>2. TraceTyped'
    BY <1>1, <1>2, <2>1 DEF TraceTyped, TraceTypeOK
  <2>3. \A r \in detail.spans : <<r.trace, r.span, r.owner>> \in detail.before => r \in detail'.with
    <3> SUFFICES ASSUME NEW r \in detail.spans, <<r.trace, r.span, r.owner>> \in detail.before
                 PROVE  \E p \in Payloads : p[2] = r.span
      BY <2>1
    <3>1. <<r.trace, r.span, r.owner>> \in payloads /\ r.trace = detail.trace /\ Sees(ask, r.owner)
      BY <1>1, <1>2 DEF DetailInv
    <3> QED
      BY <3>1 DEF Payloads
  <2>4. DetailInv'
    BY <1>1, <1>2, <2>1, <2>3 DEF DetailInv, Rows, Sees
  <2>5. PlaceInv'
    BY <1>1, <1>2 DEF PlaceInv, TraceTyped
  <2> QED
    BY <2>2, <2>4, <2>5 DEF TraceInv
<1> QED
  BY <1>3, <1>4 DEF ReadPayloads

LEMMA OpenTraceInv ==
  ASSUME TraceInv, NEW row \in shown, OpenTrace(row)
  PROVE  TraceInv'
<1>1. /\ detail' = [trace |-> row[1], row |-> row[2], spans |-> Rows(row[1]),
                    before |-> payloads, with |-> {}, full |-> FALSE]
      /\ step' \in {"idle", "full"} /\ offset' = 0 /\ shown' = {} /\ total' = -1
      /\ met' = {} /\ there' = {} /\ sure' = TRUE /\ adrift' = FALSE
      /\ ask' = Plain(ask.scope) /\ UNCHANGED <<filed, payloads>>
  BY DEF OpenTrace, Rows
<1>2. TraceTyped /\ TraceTypeOK /\ DetailInv
  BY DEF TraceInv, TraceTyped
<1>3. row \in TraceId \X (Nat \ {0}) /\ Rows(row[1]) \subseteq SpanRow
  BY <1>2 DEF TraceTypeOK, Rows
<1>4. detail' \in DetailRecord
  BY <1>1, <1>2, <1>3 DEF DetailRecord, TraceTypeOK
<1>5. ask' \in Asks /\ ask'.scope = ask.scope
  <2>1. ask.scope \in Scopes
    BY <1>2 DEF TraceTypeOK, Asks, AsksWithin
  <2> QED
    BY <1>1, <2>1, RequestsAreAsks DEF Plain
<1>6. TraceTyped'
  BY <1>1, <1>2, <1>4, <1>5, FS_EmptySet DEF TraceTyped, TraceTypeOK
<1>7. DetailInv'
  BY <1>1, <1>2, <1>5 DEF DetailInv, Rows, Sees
<1> QED
  BY <1>1, <1>6, <1>7 DEF TraceInv, PlaceInv

\* An untied trace that is ahead is not the last place, so the total lies behind it.
LEMMA AheadOfTotal ==
  ASSUME TraceTyped, NEW t \in Traces(ask)
  PROVE  /\ IsFiniteSet(Traces(ask)) /\ IsFiniteSet(Earlier(t))
         /\ Cardinality(Earlier(t)) \in Nat /\ Cardinality(Traces(ask)) \in Nat
         /\ Cardinality(Earlier(t)) < Cardinality(Traces(ask))
<1>1. IsFiniteSet(Traces(ask))
  BY TracesFinite, TracesAreGroups DEF TraceTyped, TraceTypeOK
<1>2. Earlier(t) \subseteq Traces(ask) /\ t \notin Earlier(t)
  BY DEF Earlier
<1> QED
  BY <1>1, <1>2, FS_Subset, FS_CardinalityType

LEMMA CountTracesInv ==
  ASSUME TraceInv, CountTraces
  PROVE  TraceInv'
<1>1. /\ step = "count" /\ step' = "idle" /\ offset' = offset + Cardinality(shown)
      /\ \/ total' = Counted /\ sure' = sure
         \/ total' = Cardinality(shown) /\ sure' = FALSE
      /\ UNCHANGED <<filed, payloads, ask, shown, met, there, adrift, detail>>
  BY DEF CountTraces
<1>2. TraceTyped /\ TraceTypeOK /\ DetailInv /\ PlaceInv
  BY DEF TraceInv, TraceTyped
<1>3. Cardinality(shown) \in Nat /\ Counted \in Nat /\ offset \in Nat
  <2>1. IsFiniteSet(Traces(ask))
    BY <1>2, TracesFinite, TracesAreGroups DEF TraceTyped, TraceTypeOK
  <2> QED
    BY <1>2, <2>1, FS_CardinalityType DEF TraceTyped, TraceTypeOK, Counted
<1>4. TraceTyped'
  <2>1. offset' \in Nat /\ total' \in Nat
    BY <1>1, <1>3
  <2>2. sure' \in BOOLEAN
    BY <1>1, <1>2, Zenon DEF TraceTypeOK
  <2> QED
    BY <1>1, <1>2, <2>1, <2>2 DEF TraceTyped, TraceTypeOK
<1>5. DetailInv'
  BY <1>1, <1>2 DEF DetailInv, Rows, Sees
<1>6. PlaceInv'
  <2>1. Traces(ask)' = Traces(ask) /\ \A u : Key(ask, u)' = Key(ask, u)
    BY <1>1, TracesAreGroups
  <2>2. \A t : (Tied(t) => Tied(t)') /\ Earlier(t)' = Earlier(t)
    BY <1>1, <2>1 DEF Tied, Earlier, NotAfter
  <2>3. SUFFICES ASSUME (ask.sort = "created_at")', sure', ~ adrift', NEW t \in there' \ met'
                 PROVE  t \in Traces(ask)' /\ (Tied(t)' \/ Ahead(t)')
    BY DEF PlaceInv
  <2>4. t \in Traces(ask) /\ (Tied(t) \/ Ahead(t)) /\ total' = Counted
    BY <1>1, <1>2, <2>3, Zenon DEF PlaceInv
  <2>5. Ahead(t) => Ahead(t)'
    BY <1>1, <1>2, <1>3, <2>2, <2>4, AheadOfTotal DEF Ahead, Counted
  <2> QED
    BY <2>1, <2>2, <2>4, <2>5
<1> QED
  BY <1>4, <1>5, <1>6 DEF TraceInv

\* What precedes the page and what is on it sort before an untied trace that is on
\* neither and whose place is not before the page.
LEMMA SliceIsBefore ==
  ASSUME TraceTyped, NEW p, IsSlice(ask, offset, p),
         NEW t \in Traces(ask) \ p, ~ Tied(t), offset <= Cardinality(Earlier(t))
  PROVE  p # {} /\ IsFiniteSet(p) /\ offset + Cardinality(p) <= Cardinality(Earlier(t))
<1> DEFINE T == Traces(ask)
           n == Cardinality(Earlier(t))
<1>1. ask \in Asks /\ filed \subseteq SpanRow /\ offset \in Nat
  BY DEF TraceTyped, TraceTypeOK
<1>2. IsFiniteSet(T) /\ IsFiniteSet(Earlier(t)) /\ n \in Nat /\ Cardinality(T) \in Nat /\ n < Cardinality(T)
  BY AheadOfTotal
<1>3. \A u \in T : Key(ask, u) \in Nat
  BY <1>1, KeyIsLeast, TracesAreGroups DEF TracesIn
<1>4. \A u \in T \ {t} : Key(ask, u) # Key(ask, t)
  BY DEF Tied
<1>5. p \subseteq T
  BY DEF IsSlice
<1>6. PICK b \in SUBSET (T \ p) :
        /\ Cardinality(b) = Min({offset, Cardinality(T)})
        /\ Cardinality(p) = Min({PageSize, Cardinality(T \ b)})
        /\ \A x \in b, u \in T \ b : NotAfter(ask, x, u)
        /\ \A x \in p, u \in T \ (b \cup p) : NotAfter(ask, x, u)
  BY DEF IsSlice
<1>7. IsFiniteSet(p) /\ IsFiniteSet(b) /\ IsFiniteSet(T \ b)
  <2>1. b \subseteq T /\ T \ b \subseteq T
    OBVIOUS
  <2> QED
    BY <1>2, <1>5, <2>1, FS_Subset
<1>8. Cardinality(b) = offset
  <2>1. offset \in {offset, Cardinality(T)} /\ Cardinality(T) \in {offset, Cardinality(T)} /\ {offset, Cardinality(T)} \subseteq Nat
    BY <1>1, <1>2
  <2>2. Min({offset, Cardinality(T)}) \in {offset, Cardinality(T)} /\ Min({offset, Cardinality(T)}) <= offset
    BY <2>1, MinIsLeast
  <2> QED
    BY <1>1, <1>2, <1>6, <2>2
<1>9. t \notin b
  <2> SUFFICES ASSUME t \in b PROVE FALSE
    OBVIOUS
  <2>1. Earlier(t) \subseteq b \ {t}
    <3> SUFFICES ASSUME NEW u \in Earlier(t), u \notin b PROVE FALSE
      BY DEF Earlier
    <3>1. u \in T /\ NotAfter(ask, u, t) /\ Key(ask, u) # Key(ask, t) /\ NotAfter(ask, t, u)
      BY <1>6 DEF Earlier
    <3>2. Key(ask, u) \in Nat /\ Key(ask, t) \in Nat
      BY <1>3, <3>1
    <3> QED
      BY <3>1, <3>2 DEF NotAfter
  <2>2. IsFiniteSet(b \ {t}) /\ Cardinality(b \ {t}) = Cardinality(b) - 1
    BY <1>7, FS_RemoveElement
  <2>3. Cardinality(Earlier(t)) <= Cardinality(b \ {t})
    BY <2>1, <2>2, FS_Subset
  <2> QED
    BY <1>1, <1>2, <1>8, <2>2, <2>3
<1>10. b \cup p \subseteq Earlier(t)
  <2> SUFFICES ASSUME NEW u \in b \cup p PROVE u \in Earlier(t)
    OBVIOUS
  <2>1. u \in T /\ u # t /\ NotAfter(ask, u, t)
    BY <1>5, <1>6, <1>9
  <2> QED
    BY <1>4, <2>1 DEF Earlier
<1>11. offset + Cardinality(p) <= n
  <2>1. b \cap p = {}
    OBVIOUS
  <2>2. IsFiniteSet(b \cup p) /\ Cardinality(b \cup p) = Cardinality(b) + Cardinality(p)
    BY <1>7, <2>1, DisjointUnion
  <2>3. Cardinality(b \cup p) <= n
    BY <1>2, <1>10, FS_Subset
  <2> QED
    BY <1>8, <2>2, <2>3
<1>12. p # {}
  <2>1. Cardinality(T \ b) \in Nat /\ Cardinality(T \ b) # 0
    BY <1>7, <1>9, FS_EmptySet, FS_CardinalityType
  <2>2. {PageSize, Cardinality(T \ b)} \subseteq Nat \ {0} /\ {PageSize, Cardinality(T \ b)} # {}
    BY <2>1, TraceAssumption
  <2>3. Min({PageSize, Cardinality(T \ b)}) # 0
    BY <2>2, MinIsLeast
  <2> QED
    BY <1>6, <2>3, FS_EmptySet
<1> QED
  BY <1>7, <1>11, <1>12

LEMMA ListTracesInv ==
  ASSUME TraceInv, NEW p \in SUBSET TraceId, ListTraces(p)
  PROVE  TraceInv'
<1>1. /\ step = "list" /\ IsSlice(ask, offset, p)
      /\ shown' = {<<t, Cardinality(Group(ask, t))>> : t \in p}
      /\ met' = met \cup p /\ step' = "count"
      /\ UNCHANGED <<filed, payloads, ask, offset, total, there, sure, adrift, detail>>
  BY DEF ListTraces
<1>2. TraceTyped /\ TraceTypeOK /\ DetailInv /\ PlaceInv
  BY DEF TraceInv, TraceTyped
<1>3. p \subseteq Traces(ask) /\ IsFiniteSet(p)
  <2>1. IsFiniteSet(Traces(ask))
    BY <1>2, TracesFinite, TracesAreGroups DEF TraceTyped, TraceTypeOK
  <2>2. p \subseteq Traces(ask)
    BY <1>1 DEF IsSlice
  <2> QED
    BY <2>1, <2>2, FS_Subset
<1>4. IsFiniteSet(shown') /\ Cardinality(shown') <= Cardinality(p)
  <2> DEFINE f == [t \in p |-> <<t, Cardinality(Group(ask, t))>>]
  <2>1. shown' = {f[t] : t \in p}
    BY <1>1
  <2> QED
    BY <1>3, <2>1, ImageFinite
<1>5. \A t \in p : Cardinality(Group(ask, t)) \in Nat \ {0} /\ Cardinality(Group(ask, t)) <= Cardinality(Rows(t))
  <2> SUFFICES ASSUME NEW t \in p
               PROVE  Cardinality(Group(ask, t)) \in Nat \ {0} /\ Cardinality(Group(ask, t)) <= Cardinality(Rows(t))
    OBVIOUS
  <2>1. Rows(t) \subseteq filed /\ Group(ask, t) \subseteq Rows(t) /\ Group(ask, t) # {}
    BY <1>3 DEF Rows, Group, Traces
  <2>2. IsFiniteSet(Rows(t)) /\ IsFiniteSet(Group(ask, t))
    BY <1>2, <2>1, FS_Subset DEF TraceTyped
  <2> QED
    BY <2>1, <2>2, FS_Subset, FS_CardinalityType, FS_EmptySet
<1>6. TraceTyped'
  <2>1. shown' \subseteq TraceId \X (Nat \ {0})
    BY <1>1, <1>5
  <2> QED
    BY <1>1, <1>2, <1>4, <2>1 DEF TraceTyped, TraceTypeOK
<1>7. DetailInv'
  <2>1. \A row \in shown' : row[2] <= Cardinality(Rows(row[1]))
    BY <1>1, <1>5
  <2> QED
    BY <1>1, <1>2, <2>1 DEF DetailInv, Rows, Sees
<1>8. PlaceInv'
  <2>1. Traces(ask)' = Traces(ask) /\ \A u : Key(ask, u)' = Key(ask, u)
    BY <1>1, TracesAreGroups
  <2>2. \A t : (Tied(t) => Tied(t)') /\ Earlier(t)' = Earlier(t)
    BY <1>1, <2>1 DEF Tied, Earlier, NotAfter
  <2> SUFFICES ASSUME (ask.sort = "created_at")', sure', ~ adrift', NEW t \in there' \ met'
               PROVE  t \in Traces(ask)' /\ (Tied(t)' \/ Ahead(t)')
    BY DEF PlaceInv
  <2>0. ask.sort = "created_at" /\ sure /\ ~ adrift /\ t \in there \ (met \cup p)
    BY <1>1, Zenon
  <2>3. t \in Traces(ask) /\ (Tied(t) \/ Ahead(t))
    BY <1>2, <2>0 DEF PlaceInv
  <2>4. ASSUME ~ Tied(t)
        PROVE  Ahead(t)'
    <3>1. t \in Traces(ask) \ p /\ offset <= Cardinality(Earlier(t))
      BY <1>1, <2>0, <2>3, <2>4 DEF Ahead
    <3>2. p # {} /\ offset + Cardinality(p) <= Cardinality(Earlier(t))
      BY <1>1, <1>2, <2>4, <3>1, SliceIsBefore
    <3>3. Cardinality(shown') \in Nat /\ Cardinality(p) \in Nat /\ offset \in Nat /\ Cardinality(Earlier(t)) \in Nat
      BY <1>2, <1>3, <1>4, <2>3, AheadOfTotal, FS_CardinalityType DEF TraceTypeOK
    <3>4. shown' # {}
      BY <1>1, <3>2
    <3>5. offset' + Cardinality(shown') <= Cardinality(Earlier(t)')
      BY <1>1, <1>4, <2>2, <3>2, <3>3
    <3> QED
      BY <1>1, <3>4, <3>5 DEF Ahead
  <2> QED
    BY <2>1, <2>2, <2>3, <2>4
<1> QED
  BY <1>6, <1>7, <1>8 DEF TraceInv

LEMMA TraceStepInv ==
  ASSUME TraceInv, [TraceNext]_traceVars
  PROVE  TraceInv'
<1>1. ASSUME TraceNext PROVE TraceInv'
  BY <1>1, RequestsAreAsks, FileSpanInv, FilePayloadInv, MoveWindowInv, BrowseInv, NextPageInv, ListTracesInv, CountTracesInv, OpenTraceInv,
     ReadPayloadsInv, TraceFailedInv DEF TraceNext
<1>2. CASE UNCHANGED traceVars
  <2>1. TraceTyped' /\ DetailInv'
    BY <1>2 DEF TraceInv, TraceTyped, TraceTypeOK, traceVars, DetailInv, Rows, Sees
  <2>2. Traces(ask)' = Traces(ask) /\ \A u : Key(ask, u)' = Key(ask, u)
    BY <1>2, TracesAreGroups DEF traceVars
  <2>3. PlaceInv'
    BY <1>2, <2>1, <2>2, PlacesStand DEF TraceInv, traceVars
  <2> QED
    BY <2>1, <2>3 DEF TraceInv
<1> QED
  BY <1>1, <1>2

LEMMA TraceInvImplies == TraceInv => TraceTypeOK /\ NothingPassedOver /\ DetailIsComplete
<1> SUFFICES ASSUME TraceInv PROVE TraceTypeOK /\ NothingPassedOver /\ DetailIsComplete
  OBVIOUS
<1>1. TraceTypeOK /\ DetailIsComplete
  BY DEF TraceInv, TraceTyped, DetailInv, DetailIsComplete
<1>2. NothingPassedOver
  <2> SUFFICES ASSUME step = "idle", sure, ~ adrift, shown = {} \/ offset >= total, ask.sort = "created_at",
                      NEW t \in there, t \notin met
               PROVE  Tied(t)
    BY DEF NothingPassedOver
  <2>1. Tied(t) \/ (shown # {} /\ offset < total)
    BY DEF TraceInv, PlaceInv, Ahead
  <2> QED
    BY <1>1, <2>1 DEF TraceTypeOK
<1> QED
  BY <1>1, <1>2

-----------------------------------------------------------------------------
(* Metric ranges. *)

LEMMA DivBounds ==
  ASSUME NEW a \in Nat, NEW b \in Nat \ {0}
  PROVE  a \div b \in Nat /\ b * (a \div b) <= a /\ a < b * (a \div b) + b
OBVIOUS

\* The start of an interval is in it.
LEMMA DownBounds ==
  ASSUME NEW t \in Nat, NEW n \in Nat \ {0}
  PROVE  Down(t, n) \in Nat /\ Down(t, n) <= t /\ t < Down(t, n) + n
BY DivBounds DEF Down

\* A request for a range that is not empty.
Proper == {q \in Want : q.range.from < q.range.to}

LEMMA ProperTyped ==
  ASSUME NEW q \in Proper
  PROVE  /\ q.range.from \in Nat /\ q.range.to \in Nat /\ q.points \in Nat \ {0} /\ q.now \in Nat
         /\ Width(q) \in Nat \ {0} /\ Target(q) \in Nat
<1>1. q.range \in Ranges /\ q.points \in Points /\ q.now \in Instant /\ q.range.from < q.range.to
  BY DEF Proper, Want
<1>2. q.range.from \in Nat /\ q.range.to \in Nat /\ q.points \in Nat \ {0} /\ q.now \in Nat
  <2>1. \A r \in Ranges : r.from \in Nat /\ r.to \in Nat
    BY RangeAssumption
  <2>2. Points \subseteq Nat \ {0} /\ MaxClock \in Nat
    BY RangeAssumption
  <2>3. q.now \in 0..MaxClock
    BY <1>1 DEF Instant
  <2>4. q.range.from \in Nat /\ q.range.to \in Nat
    BY <1>1, <2>1, Zenon
  <2>5. q.points \in Nat \ {0}
    BY <1>1, <2>2, Zenon
  <2>6. q.now \in Nat
    <3>1. \A n \in 0..MaxClock : n \in Nat
      BY <2>2
    <3> QED
      BY <2>3, <3>1, Zenon
  <2> QED
    BY <2>4, <2>5, <2>6
<1>3. Width(q) \in Nat \ {0}
  BY <1>1, <1>2 DEF Width
<1>4. Target(q) \in Nat
  BY <1>2, <1>3, DivBounds DEF Target
<1> QED
  BY <1>2, <1>3, <1>4

LEMMA EntryTyped ==
  ASSUME NEW S, NEW s \in Seq(S), NEW i \in 1..Len(s)
  PROVE  s[i] \in S
OBVIOUS

LEMMA TiersTyped ==
  /\ Len(Tiers) \in Nat \ {0}
  /\ \A i \in 1..Len(Tiers) : Tiers[i].res \in Nat /\ Tiers[i].ret \in Nat
<1>1. Tiers \in Seq([res : Nat, ret : Nat]) /\ Tiers # <<>>
  BY RangeAssumption
<1>2. Len(Tiers) \in Nat \ {0}
  BY <1>1
<1>3. ASSUME NEW i \in 1..Len(Tiers)
      PROVE  Tiers[i].res \in Nat /\ Tiers[i].ret \in Nat
  <2>1. Tiers[i] \in [res : Nat, ret : Nat]
    BY <1>1, EntryTyped
  <2> QED
    BY <2>1
<1> QED
  BY <1>2, <1>3

\* The tier chosen covers the range if any does.
LEMMA TierCovers ==
  ASSUME NEW q \in Proper
  PROVE  /\ TierOf(q) \in 1..Len(Tiers)
         /\ Eligible(q) # {} =>
              /\ TierOf(q) \in Eligible(q)
              /\ Min(Eligible(q)) \in Eligible(q)
              /\ Tiers[TierOf(q)].res > Target(q) => TierOf(q) = Min(Eligible(q))
<1>1. Len(Tiers) \in Nat \ {0} /\ Eligible(q) \subseteq 1..Len(Tiers) /\ Fine(q) \subseteq Eligible(q)
  BY TiersTyped DEF Eligible, Fine
<1>2. Eligible(q) # {} => Min(Eligible(q)) \in Eligible(q)
  <2>1. Eligible(q) \subseteq Nat
    BY <1>1
  <2> QED
    BY <2>1, MinIsLeast
<1>3. Fine(q) # {} => Max(Fine(q)) \in Fine(q)
  <2>1. Fine(q) \subseteq 0..Len(Tiers)
    BY <1>1
  <2> QED
    BY <1>1, <2>1, MaxIsGreatest
<1>4. \A i \in Fine(q) : ~ Tiers[i].res > Target(q)
  BY <1>1, ProperTyped, TiersTyped DEF Fine
<1>5. CASE Eligible(q) = {}
  BY <1>1, <1>5 DEF TierOf
<1>6. CASE Eligible(q) # {} /\ Fine(q) = {}
  BY <1>1, <1>2, <1>6 DEF TierOf
<1>7. CASE Eligible(q) # {} /\ Fine(q) # {}
  BY <1>1, <1>2, <1>3, <1>4, <1>7 DEF TierOf
<1> QED
  BY <1>5, <1>6, <1>7

-----------------------------------------------------------------------------
(* The step. *)

LEMMA StepBounds ==
  ASSUME NEW q \in Proper
  PROVE  /\ StepOf(q) \in Nat
         /\ Eligible(q) # {} =>
              /\ StepOf(q) \in Nat \ {0}
              /\ Target(q) + 1 <= 2 * StepOf(q)
              /\ \/ StepOf(q) = 1 \/ StepOf(q) <= Target(q)
                 \/ StepOf(q) = Tiers[Min(Eligible(q))].res
<1> DEFINE i == TierOf(q)
           res == Tiers[i].res
           w == Target(q)
<1>1. i \in 1..Len(Tiers) /\ (Eligible(q) # {} /\ res > w => i = Min(Eligible(q)))
  BY TierCovers
<1>2. res \in Nat /\ w \in Nat
  BY <1>1, TiersTyped, ProperTyped
<1>3. StepOf(q) = IF Eligible(q) = {} THEN res
                  ELSE IF res = 0 THEN IF w = 0 THEN 1 ELSE w
                  ELSE IF w < res THEN res ELSE Down(w, res)
  BY DEF StepOf
<1> HIDE DEF i, w
<1>4. CASE Eligible(q) = {}
  BY <1>2, <1>3, <1>4
<1>5. CASE Eligible(q) # {} /\ res = 0
  BY <1>2, <1>3, <1>5 DEF w
<1>6. CASE Eligible(q) # {} /\ res # 0 /\ w < res
  <2>1. StepOf(q) = res /\ i = Min(Eligible(q))
    BY <1>1, <1>2, <1>3, <1>6
  <2> QED
    BY <1>2, <1>6, <2>1 DEF w
<1>7. CASE Eligible(q) # {} /\ res # 0 /\ ~ w < res
  <2>1. StepOf(q) = Down(w, res) /\ res \in Nat \ {0} /\ w >= res
    BY <1>2, <1>3, <1>7
  <2>2. Down(w, res) \in Nat /\ Down(w, res) <= w /\ w < Down(w, res) + res
    BY <1>2, <2>1, DownBounds
  <2>3. Down(w, res) >= res
    <3>1. w \div res \in Nat /\ w < res * (w \div res) + res
      BY <1>2, <2>1, DivBounds
    <3>2. w \div res # 0
      BY <1>2, <2>1, <3>1
    <3>3. \A d \in Nat \ {0} : d * res >= res
      BY <1>2, <2>1
    <3> QED
      BY <3>1, <3>2, <3>3 DEF Down
  <2> QED
    BY <1>2, <1>7, <2>1, <2>2, <2>3 DEF w
<1> QED
  BY <1>4, <1>5, <1>6, <1>7

LEMMA RangeFits ==
  ASSUME NEW q \in Proper, Eligible(q) # {}
  PROVE  /\ Width(q) <= 2 * q.points * StepOf(q)
         /\ StepOf(q) <= Max({1, Target(q), Tiers[Min(Eligible(q))].res})
<1>1. StepOf(q) \in Nat \ {0} /\ Target(q) + 1 <= 2 * StepOf(q)
  BY StepBounds
<1>2. Width(q) \in Nat /\ Target(q) \in Nat /\ q.points \in Nat \ {0}
  BY ProperTyped
<1>3. Width(q) <= 2 * q.points * StepOf(q)
  <2>1. Width(q) < q.points * Target(q) + q.points
    BY <1>2, DivBounds DEF Target
  <2>2. q.points * Target(q) + q.points = q.points * (Target(q) + 1)
    BY <1>2
  <2>3. \A a, b, n \in Nat : a <= b => n * a <= n * b
    OBVIOUS
  <2>4. q.points * (Target(q) + 1) <= q.points * (2 * StepOf(q))
    BY <1>1, <1>2, <2>3
  <2>5. q.points * (2 * StepOf(q)) = 2 * q.points * StepOf(q)
    BY <1>1, <1>2
  <2>6. q.points * Target(q) \in Nat /\ q.points * (2 * StepOf(q)) \in Nat
    BY <1>1, <1>2
  <2> QED
    BY <1>2, <2>1, <2>2, <2>4, <2>5, <2>6
<1>4. StepOf(q) <= Max({1, Target(q), Tiers[Min(Eligible(q))].res})
  <2> DEFINE f == Tiers[Min(Eligible(q))].res
             M == {1, Target(q), f}
  <2>1. f \in Nat
    <3>1. Min(Eligible(q)) \in Eligible(q)
      BY TierCovers
    <3>2. Eligible(q) \subseteq 1..Len(Tiers)
      BY DEF Eligible
    <3> QED
      BY <3>1, <3>2, TiersTyped
  <2>2. M \subseteq 0..(1 + Target(q) + f) /\ M # {} /\ 1 + Target(q) + f \in Nat
    BY <1>2, <2>1
  <2>3. Max(M) \in M /\ \A y \in M : Max(M) >= y
    BY <2>2, MaxIsGreatest
  <2>4. \E y \in M : StepOf(q) <= y
    BY <1>1, <1>2, <2>1, StepBounds
  <2> QED
    BY <1>1, <1>2, <2>1, <2>3, <2>4
<1> QED
  BY <1>3, <1>4

-----------------------------------------------------------------------------
(* The invariant: there is an answer only between requests, and a request keeps   *)
(* the time it came and the samples there were.                                    *)

RangeInv ==
  /\ RangeTypeOK
  /\ phase # "idle" => curve = NoCurve
  /\ want # NoWant => want \in Proper /\ want.now <= clock
  /\ want = NoWant => curve = NoCurve
  /\ NothingMissing

LEMMA WantIsNot == \A q \in Want : q # NoWant
<1>1. \A q \in Want : q.points # 0
  BY RangeAssumption, Zenon DEF Want
<1> QED
  BY <1>1 DEF NoWant

LEMMA NoCurveTyped ==
  /\ NoCurve.rows = {} /\ NoCurve.tier = 0 /\ NoCurve.at = 0 /\ Cardinality({}) = 0
  /\ NoWant.points = 0
BY FS_EmptySet DEF NoCurve, NoWant

LEMMA RangeInitInv == RangeInit => RangeInv
<1> SUFFICES ASSUME RangeInit PROVE RangeInv
  OBVIOUS
<1>1. want = NoWant /\ curve = NoCurve /\ phase = "idle" /\ clock = 0 /\ samples = {} /\ registered = {}
      /\ resolved = {} /\ held = {}
  BY DEF RangeInit
<1>2. MaxClock \in Nat /\ RowsPerPoint \in Nat
  BY RangeAssumption
<1>3. RangeTypeOK
  BY <1>1, <1>2, NoCurveTyped, TiersTyped DEF RangeTypeOK, Instant
<1> QED
  BY <1>1, <1>3 DEF RangeInv, NothingMissing

\* What time, samples and series do to a request, its answer or its absence.
LEMMA RestInv ==
  ASSUME RangeInv, Rest, UNCHANGED phase, clock' \in Instant, clock <= clock',
         samples \subseteq samples', samples' \subseteq Sample, registered' \subseteq Series
  PROVE  RangeInv'
<1> USE DEF Rest
<1>1. RangeTypeOK
  BY DEF RangeInv
<1>2. CASE phase = "idle"
  <2>1. want' = NoWant /\ resolved' = {} /\ held' = {} /\ curve' = NoCurve /\ phase' = "idle"
    BY <1>2
  <2>2. RowsPerPoint \in Nat /\ MaxClock \in Nat
    BY RangeAssumption
  <2>3. RangeTypeOK'
    BY <1>1, <2>1, <2>2, NoCurveTyped, TiersTyped DEF RangeTypeOK, Instant
  <2> QED
    BY <2>1, <2>3 DEF RangeInv, NothingMissing
<1>3. CASE phase # "idle"
  <2>1. UNCHANGED <<want, resolved, held, curve, phase>>
    BY <1>3
  <2>2. RangeTypeOK'
    BY <1>1, <2>1 DEF RangeTypeOK, Resolves
  <2>3. want # NoWant => want.now <= clock'
    <3>1. clock \in Int /\ clock' \in Int
      BY <1>1 DEF RangeTypeOK, Instant
    <3>2. want # NoWant => want.now \in Nat /\ want.now <= clock
      BY ProperTyped DEF RangeInv
    <3> QED
      BY <3>1, <3>2
  <2>4. curve = NoCurve
    BY <1>3 DEF RangeInv
  <2> QED
    BY <2>1, <2>2, <2>3, <2>4 DEF RangeInv, NothingMissing
<1> QED
  BY <1>2, <1>3

LEMMA QueryRangeInv ==
  ASSUME RangeInv, NEW r \in Ranges, NEW f \in Filters, NEW n \in Points, QueryRange(r, f, n)
  PROVE  RangeInv'
<1> DEFINE q == [range |-> r, filter |-> f, points |-> n, now |-> clock]
<1>1. /\ want' = q /\ r.from < r.to /\ held' = samples /\ curve' = NoCurve
      /\ phase' = IF Resolves(q) THEN "resolve" ELSE "query"
      /\ resolved' = IF Resolves(q) THEN {} ELSE Series
      /\ UNCHANGED <<clock, samples, registered>>
  BY DEF QueryRange
<1>2. RangeTypeOK /\ clock \in Instant
  BY DEF RangeInv, RangeTypeOK
<1>3. q \in Proper /\ q.now = clock /\ q.points \in Nat /\ RowsPerPoint \in Nat
  <2>1. q \in Want
    BY <1>2 DEF Want
  <2>2. q.points \in Nat /\ RowsPerPoint \in Nat
    BY RangeAssumption, Zenon
  <2>3. q.range.from < q.range.to /\ q.now = clock
    BY <1>1
  <2> QED
    BY <2>1, <2>2, <2>3 DEF Proper
<1>4. q \in Want /\ q # NoWant
  BY <1>3, WantIsNot DEF Proper
<1> HIDE DEF q
<1>5. RangeTypeOK'
  <2>1. 0 <= q.points * RowsPerPoint
    BY <1>3
  <2>2. /\ clock' \in Instant /\ samples' \subseteq Sample /\ registered' \subseteq Series /\ held' \subseteq samples'
        /\ phase' \in {"idle", "resolve", "query"} /\ resolved' \subseteq Series
    BY <1>1, <1>2 DEF RangeTypeOK
  <2>3. want' \in Want \cup {NoWant} /\ want' # NoWant /\ (phase' = "query" /\ Resolves(want') => resolved' # {})
    BY <1>1, <1>4
  <2>4. curve'.tier \in 0..Len(Tiers) /\ curve'.at \in Instant /\ Cardinality(curve'.rows) <= want'.points * RowsPerPoint
    <3>1. 0 \in 0..Len(Tiers) /\ 0 \in Instant
      BY TiersTyped, RangeAssumption DEF Instant
    <3> QED
      BY <1>1, <2>1, <3>1, NoCurveTyped
  <2> QED
    BY <2>2, <2>3, <2>4 DEF RangeTypeOK, Resolves
<1>6. want'.now <= clock'
  BY <1>1, <1>2, <1>3 DEF Instant
<1> QED
  BY <1>1, <1>3, <1>4, <1>5, <1>6 DEF RangeInv, NothingMissing

LEMMA ResolveSeriesInv ==
  ASSUME RangeInv, NEW R \in SUBSET Series, ResolveSeries(R)
  PROVE  RangeInv'
<1>1. /\ phase = "resolve" /\ resolved' = R /\ phase' = IF R = {} THEN "idle" ELSE "query"
      /\ UNCHANGED <<clock, samples, registered, want, held, curve>>
  BY DEF ResolveSeries
<1>2. RangeTypeOK /\ curve = NoCurve
  BY <1>1 DEF RangeInv
<1>3. RangeTypeOK'
  BY <1>1, <1>2 DEF RangeTypeOK, Resolves
<1> QED
  BY <1>1, <1>2, <1>3 DEF RangeInv, NothingMissing

LEMMA QueryRangeFailedInv ==
  ASSUME RangeInv, QueryRangeFailed
  PROVE  RangeInv'
<1>1. /\ phase # "idle" /\ phase' = "idle" /\ want' = NoWant /\ resolved' = {} /\ held' = {}
      /\ UNCHANGED <<clock, samples, registered, curve>>
  BY DEF QueryRangeFailed
<1>2. RangeTypeOK /\ curve = NoCurve
  BY <1>1 DEF RangeInv
<1>3. RangeTypeOK'
  <2>1. RowsPerPoint \in Nat
    BY RangeAssumption
  <2> QED
    BY <1>1, <1>2, <2>1, NoCurveTyped DEF RangeTypeOK
<1> QED
  BY <1>1, <1>2, <1>3 DEF RangeInv, NothingMissing

-----------------------------------------------------------------------------
(* The query. *)

\* In a table a sample is no later than it came.
LEMMA TimeInTyped ==
  ASSUME NEW i \in 1..Len(Tiers), NEW s \in Sample
  PROVE  TimeIn(i, s) \in Nat /\ s.ts \in Nat /\ TimeIn(i, s) <= s.ts
<1>1. s.ts \in Nat
  BY RangeAssumption DEF Sample, Instant
<1>2. Tiers[i].res \in Nat
  BY TiersTyped
<1>3. CASE Tiers[i].res = 0
  BY <1>1, <1>3 DEF TimeIn
<1>4. CASE Tiers[i].res # 0
  <2>1. TimeIn(i, s) = Down(s.ts, Tiers[i].res) /\ Tiers[i].res \in Nat \ {0}
    BY <1>2, <1>4 DEF TimeIn
  <2> QED
    BY <1>1, <2>1, DownBounds
<1> QED
  BY <1>3, <1>4

\* A sample among those queried has a row.
LEMMA RowOfSample ==
  ASSUME NEW q, NEW S, NEW s \in S
  PROVE  \E r \in RowsOf(q, S) : s \in r.samples /\ r.start = Start(q, s)
<1> DEFINE k == <<Start(q, s), IF q.filter.split THEN s.series ELSE Merged>>
           r == [start |-> k[1], series |-> k[2], line |-> IF k[2] = Merged THEN Merged ELSE Line(q, k[2]),
                 samples |-> {x \in S : Start(q, x) = k[1] /\ (q.filter.split => x.series = k[2])}]
<1>1. r \in RowsOf(q, S)
  <2>1. k \in {<<Start(q, x), IF q.filter.split THEN x.series ELSE Merged>> : x \in S}
    OBVIOUS
  <2> HIDE DEF k
  <2> QED
    BY <2>1 DEF RowsOf
<1>2. s \in r.samples /\ r.start = Start(q, s)
  BY Zenon
<1> QED
  BY <1>1, <1>2

LEMMA QueryTierInv ==
  ASSUME RangeInv, NEW gone \in SUBSET samples, QueryTier(gone)
  PROVE  RangeInv'
<1> DEFINE i == TierOf(want)
           S == {s \in samples \ gone : s.series \in resolved /\ TimeIn(i, s) >= want.range.from /\ TimeIn(i, s) <= want.range.to}
           n == want.points * RowsPerPoint
<1>1. /\ phase = "query" /\ phase' = "idle" /\ gone \subseteq Forgettable(i)
      /\ UNCHANGED <<clock, samples, registered, want, resolved, held>>
  BY DEF QueryTier
<1>2. PICK K \in Cut(RowsOf(want, S), n) : curve' = [rows |-> K, tier |-> i, at |-> clock]
  BY DEF QueryTier
<1>3. RangeTypeOK /\ want # NoWant /\ want \in Proper /\ want.now <= clock
  BY <1>1 DEF RangeInv, RangeTypeOK
<1>4. /\ K \subseteq RowsOf(want, S) /\ Cardinality(K) <= n /\ (K = RowsOf(want, S) \/ Cardinality(K) = n)
      /\ \A k \in K, r \in RowsOf(want, S) \ K : k.start <= r.start
  BY <1>2 DEF Cut
<1>5. i \in 1..Len(Tiers) /\ (Eligible(want) # {} => i \in Eligible(want))
  BY <1>3, TierCovers
<1>6. curve'.rows = K /\ curve'.tier = i /\ curve'.at = clock
  BY <1>2
<1> HIDE DEF i, S, n
<1>7. RangeTypeOK'
  <2>1. i \in 0..Len(Tiers)
    BY <1>5, TiersTyped
  <2>2. Cardinality(curve'.rows) <= want'.points * RowsPerPoint
    BY <1>1, <1>4, <1>6 DEF n
  <2> QED
    BY <1>1, <1>3, <1>6, <2>1, <2>2 DEF RangeTypeOK
<1>8. NothingMissing'
  <2>1. ASSUME NEW s \in held, s.ts >= want.range.from, s.ts <= want.range.to, s.series \in want.filter.matching,
               s \notin Drawn', ~ TimeIn(i, s) < want.range.from, s.series \in resolved,
               ~ (Cardinality(K) = n /\ \A r \in K : r.start <= Start(want, s))
        PROVE  /\ TimeIn(i, s) + Tiers[i].ret < clock
               /\ clock > want.now \/ Eligible(want) = {}
    <3>1. s \in samples /\ s \in Sample
      BY <1>3, <2>1 DEF RangeTypeOK
    <3>2. TimeIn(i, s) \in Nat /\ s.ts \in Nat /\ TimeIn(i, s) <= s.ts
      BY <1>5, <3>1, TimeInTyped
    <3>3. want.range.from \in Nat /\ want.range.to \in Nat /\ want.now \in Nat
      BY <1>3, ProperTyped
    <3>4. TimeIn(i, s) <= want.range.to /\ TimeIn(i, s) >= want.range.from
      BY <2>1, <3>2, <3>3
    <3>5. s \notin S
      <4> SUFFICES ASSUME s \in S PROVE FALSE
        OBVIOUS
      <4>1. PICK r \in RowsOf(want, S) : s \in r.samples /\ r.start = Start(want, s)
        BY RowOfSample
      <4>2. r \notin K
        BY <1>6, <2>1, <4>1 DEF Drawn
      <4> QED
        BY <1>4, <2>1, <4>1, <4>2
    <3>6. s \in gone
      BY <2>1, <3>1, <3>4, <3>5 DEF S
    <3>7. TimeIn(i, s) + Tiers[i].ret < clock
      BY <1>1, <3>6 DEF Forgettable
    <3>8. ASSUME Eligible(want) # {}
          PROVE  clock > want.now
      <4>1. want.now - want.range.from <= Tiers[i].ret
        BY <1>5, <3>8 DEF Eligible
      <4>2. Tiers[i].ret \in Nat /\ clock \in Int
        BY <1>3, <1>5, TiersTyped DEF RangeTypeOK, Instant
      <4> QED
        BY <3>2, <3>3, <3>4, <3>7, <4>1, <4>2
    <3> QED
      BY <3>7, <3>8
  <2> QED
    BY <1>1, <1>6, <2>1 DEF NothingMissing, TimeIn, Start, n
<1>9. want' # NoWant /\ want' \in Proper /\ want'.now <= clock' /\ phase' = "idle"
  BY <1>1, <1>3
<1> QED
  BY <1>7, <1>8, <1>9 DEF RangeInv

LEMMA RangeStepInv ==
  ASSUME RangeInv, [RangeNext]_rangeVars
  PROVE  RangeInv'
<1>1. RangeTypeOK
  BY DEF RangeInv
<1>2. CASE ClockTick
  <2>1. clock' \in Instant /\ clock <= clock' /\ Rest /\ UNCHANGED <<samples, registered, phase>>
    BY <1>1, <1>2, RangeAssumption DEF ClockTick, RangeTypeOK, Instant
  <2> QED
    BY <1>1, <2>1, RestInv DEF RangeTypeOK
<1>3. ASSUME NEW x \in Series, NEW t \in Instant, AddSample(x, t)
      PROVE  RangeInv'
  <2>1. samples' = samples \cup {[series |-> x, ts |-> t]} /\ Rest /\ UNCHANGED <<clock, registered, phase>>
    BY <1>3 DEF AddSample
  <2>2. clock \in Instant /\ clock <= clock
    BY <1>1, RangeAssumption DEF RangeTypeOK, Instant
  <2> QED
    BY <1>1, <2>1, <2>2, RestInv DEF RangeTypeOK, Sample
<1>4. ASSUME NEW x \in Series, AddSeries(x)
      PROVE  RangeInv'
  <2>1. registered' = registered \cup {x} /\ Rest /\ UNCHANGED <<clock, samples, phase>>
    BY <1>4 DEF AddSeries
  <2>2. clock \in Instant /\ clock <= clock
    BY <1>1, RangeAssumption DEF RangeTypeOK, Instant
  <2> QED
    BY <1>1, <2>1, <2>2, RestInv DEF RangeTypeOK
<1>5. CASE UNCHANGED rangeVars
  BY <1>5 DEF RangeInv, RangeTypeOK, rangeVars, NothingMissing, Drawn, TimeIn, Start, Resolves
<1> QED
  BY <1>2, <1>3, <1>4, <1>5, QueryRangeInv, ResolveSeriesInv, QueryTierInv, QueryRangeFailedInv DEF RangeNext

LEMMA RangeInvImplies == RangeInv => RangeTypeOK /\ NothingMissing /\ ResolutionFits
BY RangeFits DEF RangeInv, ResolutionFits

-----------------------------------------------------------------------------
(* The service map. *)

\* Rows are finitely many.
MapTyped ==
  /\ TypeOK
  /\ stored \in [Tenant -> {NoLevels} \cup [Field -> Nat]]
  /\ IsFiniteSet(spans) /\ IsFiniteSet(items)

\* There is one edge for two services, its ends have names, and over a fixed window its
\* calls are still there.
EdgesInv ==
  /\ IsFiniteSet(edges)
  /\ \A e \in edges : e.type = "service" /\ e.to \in Service /\ e.from \in names /\ e.to \in names
  /\ \A e, g \in edges : e.from = g.from /\ e.to = g.to => e = g
  /\ \A e \in merge : e.type # "service"
  /\ from = 0 => \A e \in edges :
       Calls(e.from, e.to) # {} /\ e.totals.calls <= Cardinality(Calls(e.from, e.to))

\* Over a fixed window a service with spans keeps them, and is named by either query.
NamesInv ==
  /\ pc \in {"thresholds", "edges"} => edges = {}
  /\ pc # "idle" => answer = NoAnswer
  /\ pc # "idle" /\ from = 0 =>
       /\ known \subseteq Active
       /\ pc \in {"stats", "answer"} /\ "services" \notin failed => known \subseteq names
       /\ pc = "answer" /\ "stats" \notin failed => known \subseteq names

CallsIn(E) == MapThenSumSet(LAMBDA e : e.totals.calls, E)

\* The totals were read after the edges.
TotalsInv ==
  /\ \A s \in DOMAIN stats : stats[s] \in Totals
  /\ pc = "answer" /\ from = 0 /\ "stats" \notin failed =>
       \A s \in Service : OneParent(s) =>
         CallsIn({e \in edges : e.to = s}) <= IF s \in DOMAIN stats THEN stats[s].calls ELSE 0

MapInv == MapTyped /\ EdgesInv /\ NamesInv /\ TotalsInv /\ MapIsWhole /\ CallsWithinSpans

-----------------------------------------------------------------------------
TimeOf(S) == MapThenSumSet(LAMBDA x : x.time, S)

LEMMA CallsInIsSum ==
  ASSUME NEW E, IsFiniteSet(E), \A e \in E : e.totals.calls \in Nat
  PROVE  CallsIn(E) = SumOf([e \in E |-> e.totals.calls], E)
<1> DEFINE f == [e \in E |-> e.totals.calls]
           P(g) == g = [s \in SUBSET E |-> IF s = {} THEN 0 ELSE (CHOOSE x \in s : TRUE).totals.calls + g[s \ {CHOOSE x \in s : TRUE}]]
<1>1. CallsIn(E) = (CHOOSE g : P(g))[E]
  BY DEF CallsIn, MapThenSumSet, MapThenFoldSet
<1>2. \A s \in SUBSET E : s # {} => First(s) \in E /\ f[First(s)] = First(s).totals.calls
  BY DEF First
<1>3. \A g : P(g) <=> Sums(f, E, g)
  BY <1>2 DEF Sums, First
<1>4. PICK g : Sums(f, E, g)
  BY SumsExist
<1>5. Sums(f, E, CHOOSE h : P(h))
  BY <1>3, <1>4, Zenon
<1> QED
  BY <1>1, <1>5, SumIs

LEMMA TimeOfIsSum ==
  ASSUME NEW S, IsFiniteSet(S), \A x \in S : x.time \in Nat
  PROVE  TimeOf(S) = SumOf([x \in S |-> x.time], S)
<1> DEFINE f == [x \in S |-> x.time]
           P(g) == g = [s \in SUBSET S |-> IF s = {} THEN 0 ELSE (CHOOSE x \in s : TRUE).time + g[s \ {CHOOSE x \in s : TRUE}]]
<1>1. TimeOf(S) = (CHOOSE g : P(g))[S]
  BY DEF TimeOf, MapThenSumSet, MapThenFoldSet
<1>2. \A s \in SUBSET S : s # {} => First(s) \in S /\ f[First(s)] = First(s).time
  BY DEF First
<1>3. \A g : P(g) <=> Sums(f, S, g)
  BY <1>2 DEF Sums, First
<1>4. PICK g : Sums(f, S, g)
  BY SumsExist
<1>5. Sums(f, S, CHOOSE h : P(h))
  BY <1>3, <1>4, Zenon
<1> QED
  BY <1>1, <1>5, SumIs

LEMMA CallTimeIsSum ==
  ASSUME NEW S, IsFiniteSet(S), \A x \in S : x[1].time \in Nat
  PROVE  MapThenSumSet(LAMBDA x : x[1].time, S) = SumOf([x \in S |-> x[1].time], S)
<1> DEFINE f == [x \in S |-> x[1].time]
           P(g) == g = [s \in SUBSET S |-> IF s = {} THEN 0 ELSE (CHOOSE x \in s : TRUE)[1].time + g[s \ {CHOOSE x \in s : TRUE}]]
<1>1. MapThenSumSet(LAMBDA x : x[1].time, S) = (CHOOSE g : P(g))[S]
  BY DEF MapThenSumSet, MapThenFoldSet
<1>2. \A s \in SUBSET S : s # {} => First(s) \in S /\ f[First(s)] = First(s)[1].time
  BY DEF First
<1>3. \A g : P(g) <=> Sums(f, S, g)
  BY <1>2 DEF Sums, First
<1>4. PICK g : Sums(f, S, g)
  BY SumsExist
<1>5. Sums(f, S, CHOOSE h : P(h))
  BY <1>3, <1>4, Zenon
<1> QED
  BY <1>1, <1>5, SumIs

LEMMA TotalsOfTyped ==
  ASSUME NEW S, IsFiniteSet(S), \A x \in S : x.time \in Nat
  PROVE  TotalsOf(S) \in Totals /\ TotalsOf(S).calls = Cardinality(S)
<1>1. Cardinality(S) \in Nat /\ Cardinality({x \in S : x.error}) \in Nat
  BY FS_Subset, FS_CardinalityType
<1>2. TimeOf(S) \in Nat
  <2> DEFINE f == [x \in S |-> x.time]
  <2>1. \A x \in S : f[x] \in Nat
    OBVIOUS
  <2>2. TimeOf(S) = SumOf(f, S)
    BY TimeOfIsSum
  <2> HIDE DEF f
  <2> QED
    BY <2>1, <2>2, SumLaws
<1>3. TotalsOf(S) = [calls |-> Cardinality(S), errors |-> Cardinality({x \in S : x.error}), time |-> TimeOf(S)]
  BY DEF TotalsOf, TimeOf
<1> HIDE DEF TimeOf
<1> QED
  BY <1>1, <1>2, <1>3 DEF Totals

CallTime(P) == MapThenSumSet(LAMBDA x : x[1].time, P)

LEMMA TotalsOfCallsTyped ==
  ASSUME NEW P, IsFiniteSet(P), \A x \in P : x[1].time \in Nat
  PROVE  TotalsOfCalls(P) \in Totals /\ TotalsOfCalls(P).calls = Cardinality(P)
<1>1. Cardinality(P) \in Nat /\ Cardinality({x \in P : x[1].error}) \in Nat
  BY FS_Subset, FS_CardinalityType
<1>2. CallTime(P) \in Nat
  <2> DEFINE f == [x \in P |-> x[1].time]
  <2>1. \A x \in P : f[x] \in Nat
    OBVIOUS
  <2>2. CallTime(P) = SumOf(f, P)
    BY CallTimeIsSum DEF CallTime
  <2> HIDE DEF f
  <2> QED
    BY <2>1, <2>2, SumLaws
<1>3. TotalsOfCalls(P) = [calls |-> Cardinality(P), errors |-> Cardinality({x \in P : x[1].error}), time |-> CallTime(P)]
  BY DEF TotalsOfCalls, CallTime
<1> HIDE DEF CallTime
<1> QED
  BY <1>1, <1>2, <1>3 DEF Totals

\* A sum is no more than a set that holds a disjoint part for each of its terms.
LEMMA SumWithin ==
  ASSUME NEW E, IsFiniteSet(E), NEW f, \A e \in E : f[e] \in Nat,
         NEW U, IsFiniteSet(U), NEW C, \A e \in E : C[e] \subseteq U /\ f[e] <= Cardinality(C[e]),
         \A e, g \in E : e # g => C[e] \cap C[g] = {}
  PROVE  SumOf(f, E) <= Cardinality(U)
<1> DEFINE D(s) == UNION {C[e] : e \in s}
           Bad == {n \in Nat : \E s \in SUBSET E : Cardinality(s) = n /\ ~ SumOf(f, s) <= Cardinality(D(s))}
<1>1. \A s \in SUBSET E : IsFiniteSet(s) /\ Cardinality(s) \in Nat
  BY FS_Subset, FS_CardinalityType
<1>2. \A s \in SUBSET E : IsFiniteSet(D(s)) /\ Cardinality(D(s)) \in Nat /\ Cardinality(D(s)) <= Cardinality(U)
  <2> TAKE s \in SUBSET E
  <2>1. D(s) \subseteq U
    OBVIOUS
  <2> QED
    BY <2>1, FS_Subset, FS_CardinalityType
<1>3. \A s \in SUBSET E : SumOf(f, s) \in Nat /\ (s = {} => SumOf(f, s) = 0) /\ \A x \in s : SumOf(f, s) = f[x] + SumOf(f, s \ {x})
  <2> TAKE s \in SUBSET E
  <2>1. IsFiniteSet(s) /\ \A x \in s : f[x] \in Nat
    BY <1>1
  <2> QED
    BY <2>1, SumLaws
<1>4. ASSUME Bad # {} PROVE FALSE
  <2>1. Min(Bad) \in Bad /\ \A m \in Bad : Min(Bad) <= m
    BY <1>4, MinIsLeast
  <2>2. PICK s \in SUBSET E : Cardinality(s) = Min(Bad) /\ ~ SumOf(f, s) <= Cardinality(D(s))
    BY <2>1
  <2>3. s # {}
    <3> HIDE DEF D
    <3> QED
      BY <1>2, <1>3, <2>2
  <2>4. PICK x \in s : TRUE
    BY <2>3
  <2>5. Cardinality(s \ {x}) = Cardinality(s) - 1 /\ Cardinality(s) \in Nat \ {0} /\ s \ {x} \in SUBSET E
    BY <1>1, TakeOut
  <2>6. SumOf(f, s \ {x}) <= Cardinality(D(s \ {x}))
    <3> HIDE DEF D
    <3>1. Cardinality(s \ {x}) \in Nat /\ Cardinality(s \ {x}) \notin Bad
      <4> HIDE DEF Bad
      <4> QED
        BY <2>1, <2>2, <2>5
    <3> QED
      BY <2>5, <3>1
  <2>7. IsFiniteSet(C[x]) /\ Cardinality(C[x]) \in Nat
    BY FS_Subset, FS_CardinalityType
  <2>8. C[x] \cap D(s \ {x}) = {} /\ D(s) = C[x] \cup D(s \ {x})
    OBVIOUS
  <2>9. Cardinality(D(s)) = Cardinality(C[x]) + Cardinality(D(s \ {x}))
    <3>1. IsFiniteSet(D(s \ {x}))
      BY <1>2, <2>5
    <3> HIDE DEF D
    <3> QED
      BY <2>7, <2>8, <3>1, DisjointUnion
  <2>10. SumOf(f, s) = f[x] + SumOf(f, s \ {x}) /\ f[x] \in Nat /\ f[x] <= Cardinality(C[x])
    BY <1>3
  <2>11. SumOf(f, s \ {x}) \in Nat /\ Cardinality(D(s \ {x})) \in Nat
    BY <1>2, <1>3, <2>5
  <2> HIDE DEF D
  <2> QED
    BY <2>2, <2>6, <2>7, <2>9, <2>10, <2>11
<1>5. SumOf(f, E) <= Cardinality(D(E))
  <2>1. Cardinality(E) \in Nat /\ Cardinality(E) \notin Bad
    BY <1>1, <1>4
  <2> QED
    BY <2>1
<1>6. SumOf(f, E) \in Nat /\ Cardinality(D(E)) \in Nat /\ Cardinality(D(E)) <= Cardinality(U) /\ Cardinality(U) \in Nat
  BY <1>2, <1>3, FS_CardinalityType
<1> QED
  BY <1>5, <1>6

-----------------------------------------------------------------------------
LEMMA CallsFinite ==
  ASSUME MapTyped
  PROVE  \A a, b : /\ Calls(a, b) \subseteq spans \X spans /\ IsFiniteSet(Calls(a, b)) /\ Cardinality(Calls(a, b)) \in Nat
                   /\ \A x \in Calls(a, b) : x[1].time \in Nat
<1> TAKE a, b
<1>1. Calls(a, b) \subseteq spans \X spans
  BY DEF Calls
<1>2. spans \subseteq Span
  BY MapAssumption DEF MapTyped, TypeOK
<1>3. IsFiniteSet(spans \X spans)
  BY FS_Product DEF MapTyped
<1>4. \A x \in Calls(a, b) : x[1].time \in Nat
  BY <1>1, <1>2 DEF Span
<1> QED
  BY <1>1, <1>3, <1>4, FS_Subset, FS_CardinalityType

\* All calls of the service s: if its spans have one parent each, no more than they are.
CallsTo(s) ==
  {x \in spans \X spans : x[1].parent = x[2].id /\ x[1].service = s /\ In(x[1]) /\ In(x[2]) /\ x[1].at >= from}

LEMMA CallsToWithin ==
  ASSUME MapTyped, NEW s, OneParent(s)
  PROVE  /\ IsFiniteSet(CallsTo(s)) /\ IsFiniteSet(InWindow(s))
         /\ Cardinality(CallsTo(s)) \in Nat /\ Cardinality(InWindow(s)) \in Nat
         /\ Cardinality(CallsTo(s)) <= Cardinality(InWindow(s))
<1> DEFINE h == [x \in CallsTo(s) |-> x[1]]
<1>1. CallsTo(s) \subseteq spans \X spans /\ InWindow(s) \subseteq spans /\ IsFiniteSet(spans \X spans)
  BY FS_Product DEF CallsTo, InWindow, MapTyped
<1>2. IsFiniteSet(CallsTo(s)) /\ IsFiniteSet(InWindow(s))
  BY <1>1, FS_Subset DEF MapTyped
<1>3. h \in [CallsTo(s) -> InWindow(s)]
  BY DEF CallsTo, InWindow
<1>4. ASSUME NEW x \in CallsTo(s), NEW y \in CallsTo(s), x[1] = y[1]
      PROVE  x = y
  <2>1. x \in spans \X spans /\ y \in spans \X spans
    BY <1>1
  <2>2. /\ In(x[1]) /\ x[1].service = s /\ In(x[2]) /\ In(y[2])
        /\ x[2].id = x[1].parent /\ y[2].id = x[1].parent
    BY <1>4 DEF CallsTo
  <2>3. x[2] = y[2]
    BY <2>1, <2>2 DEF OneParent
  <2> QED
    BY <1>4, <2>1, <2>3
<1>5. \A x, y \in CallsTo(s) : h[x] = h[y] => x = y
  BY <1>4
<1> HIDE DEF h
<1>6. h \in Injection(CallsTo(s), InWindow(s))
  BY <1>3, <1>5, Fun_IsInj
<1> QED
  BY <1>2, <1>6, FS_Injection, FS_CardinalityType

\* A call has one caller.
LEMMA CallsApart ==
  ASSUME NEW a, NEW g, NEW b, a # g
  PROVE  Calls(a, b) \cap Calls(g, b) = {}
BY DEF Calls

LEMMA ServiceEdgesFacts ==
  ASSUME MapTyped
  PROVE  /\ IsFiniteSet(ServiceEdges) /\ ServiceEdges \subseteq Edge
         /\ \A e \in ServiceEdges :
              /\ e.type = "service" /\ e.from \in Service /\ e.to \in Service
              /\ Calls(e.from, e.to) # {} /\ e.totals.calls = Cardinality(Calls(e.from, e.to))
         /\ \A e, g \in ServiceEdges : e.from = g.from /\ e.to = g.to => e = g
<1> DEFINE Pairs == {y \in Service \X Service : y[1] # y[2] /\ Calls(y[1], y[2]) # {}}
           h == [x \in Pairs |-> [from |-> x[1], to |-> x[2], type |-> "service", totals |-> TotalsOfCalls(Calls(x[1], x[2]))]]
<1>1. ServiceEdges = {h[x] : x \in Pairs}
  BY DEF ServiceEdges
<1>2. IsFiniteSet(Pairs)
  <2> DEFINE k == [y \in spans \X spans |-> <<y[1].service, y[2].service>>]
  <2>1. IsFiniteSet(spans \X spans)
    BY FS_Product DEF MapTyped
  <2>2. IsFiniteSet({k[y] : y \in spans \X spans})
    <3> HIDE DEF k
    <3> QED
      BY <2>1, ImageFinite
  <2>3. Pairs \subseteq {k[y] : y \in spans \X spans}
    <3> SUFFICES ASSUME NEW x \in Pairs PROVE \E y \in spans \X spans : x = k[y]
      OBVIOUS
    <3>1. PICK c \in Calls(x[1], x[2]) : TRUE
      OBVIOUS
    <3>2. c \in spans \X spans /\ c[1].service = x[2] /\ c[2].service = x[1]
      BY DEF Calls
    <3>4. <<c[2], c[1]>> \in spans \X spans /\ k[<<c[2], c[1]>>] = x
      BY <3>2
    <3> QED
      BY <3>4
  <2> QED
    BY <2>2, <2>3, FS_Subset
<1>3. ASSUME NEW x \in Pairs
      PROVE  /\ h[x].from = x[1] /\ h[x].to = x[2] /\ h[x].type = "service" /\ h[x].totals = TotalsOfCalls(Calls(x[1], x[2]))
             /\ x[1] \in Service /\ x[2] \in Service /\ Calls(x[1], x[2]) # {}
             /\ h[x].totals \in Totals /\ h[x].totals.calls = Cardinality(Calls(x[1], x[2]))
             /\ h[x] \in Edge
  <2>1. TotalsOfCalls(Calls(x[1], x[2])) \in Totals /\ TotalsOfCalls(Calls(x[1], x[2])).calls = Cardinality(Calls(x[1], x[2]))
    BY CallsFinite, TotalsOfCallsTyped
  <2>2. h[x] = [from |-> x[1], to |-> x[2], type |-> "service", totals |-> TotalsOfCalls(Calls(x[1], x[2]))]
    OBVIOUS
  <2>3. x[1] \in Service /\ x[2] \in Service /\ Calls(x[1], x[2]) # {}
    OBVIOUS
  <2> HIDE DEF h, Pairs
  <2> QED
    BY <2>1, <2>2, <2>3 DEF Edge
<1>4. IsFiniteSet({h[x] : x \in Pairs})
  <2> HIDE DEF h, Pairs
  <2> QED
    BY <1>2, ImageFinite
<1>5. \A x, y \in Pairs : x[1] = y[1] /\ x[2] = y[2] => x = y
  OBVIOUS
<1> HIDE DEF h, Pairs
<1> QED
  BY <1>1, <1>3, <1>4, <1>5

LEMMA DependenciesFacts ==
  ASSUME MapTyped, NEW q \in {"database", "http", "redis", "cache"}
  PROVE  /\ Dependencies(q) \subseteq Edge
         /\ \A e \in Dependencies(q) : e.type # "service"
<1> SUFFICES ASSUME NEW e \in Dependencies(q) PROVE e \in Edge /\ e.type # "service"
  OBVIOUS
<1>1. PICK x \in Service \X {TargetOf[p] : p \in Place} \X KindsRead(q) :
        e = [from |-> x[1], to |-> x[2], type |-> x[3], totals |-> TotalsOf(External(x[1], x[2], x[3]))]
  BY DEF Dependencies
<1>2. x[1] \in Service /\ x[2] \in {TargetOf[p] : p \in Place} /\ x[3] \in KindsRead(q)
  BY <1>1
<1>3. x[3] \in Kind /\ x[3] # "service"
  BY <1>2 DEF KindsRead, Kind
<1>4. TotalsOf(External(x[1], x[2], x[3])) \in Totals
  <2>1. External(x[1], x[2], x[3]) \subseteq items
    BY DEF External
  <2>2. items \subseteq Item
    BY MapAssumption DEF MapTyped, TypeOK
  <2>3. \A y \in External(x[1], x[2], x[3]) : y.time \in Nat
    BY <2>1, <2>2 DEF Item
  <2> QED
    BY <2>1, <2>3, FS_Subset, TotalsOfTyped DEF MapTyped
<1> QED
  BY <1>1, <1>2, <1>3, <1>4 DEF Edge

\* Calls, services and traces only come while the window stands.
LEMMA RowsGrow ==
  ASSUME spans \subseteq spans', UNCHANGED <<req, from>>
  PROVE  /\ \A a, b : Calls(a, b) \subseteq Calls(a, b)' /\ EdgeTraces(a, b) \subseteq EdgeTraces(a, b)'
         /\ Active \subseteq Active'
         /\ \A s : OneParent(s)' => OneParent(s)
<1>1. \A a, b : Calls(a, b) \subseteq Calls(a, b)'
  BY DEF Calls, In
<1>2. \A a, b : EdgeTraces(a, b) \subseteq EdgeTraces(a, b)'
  BY DEF EdgeTraces, In
<1>3. \A s : InWindow(s) \subseteq InWindow(s)'
  BY DEF InWindow, In
<1>4. Active \subseteq Active'
  BY <1>3 DEF Active
<1>5. \A s : OneParent(s)' => OneParent(s)
  BY DEF OneParent, In
<1> QED
  BY <1>1, <1>2, <1>4, <1>5

\* A call has a trace to open, or none at all.
LEMMA CallsHaveTraces ==
  \A a, b : Calls(a, b) # {} => EdgeTraces(a, b) # {} \/ \E x \in Calls(a, b) : x[1].id \in Untraced
BY DEF Calls, EdgeTraces

\* Rows that come, and thresholds, change no request.
LEMMA GrowInv ==
  ASSUME MapInv, MapTyped', spans \subseteq spans', UNCHANGED <<pc, req, from, local, answer, failed, known>>
  PROVE  MapInv'
<1>1. MapTyped /\ EdgesInv /\ NamesInv /\ TotalsInv /\ MapIsWhole /\ CallsWithinSpans
  BY DEF MapInv
<1>2. UNCHANGED <<levels, edges, merge, names, stats>>
  BY DEF local
<1>3. /\ Active \subseteq Active' /\ \A a, b : Calls(a, b) \subseteq Calls(a, b)' /\ EdgeTraces(a, b) \subseteq EdgeTraces(a, b)'
      /\ \A s : OneParent(s)' => OneParent(s)
  BY RowsGrow
<1>4. \A a, b : /\ Cardinality(Calls(a, b)) <= Cardinality(Calls(a, b)')
                /\ Cardinality(Calls(a, b)) \in Nat /\ Cardinality(Calls(a, b)') \in Nat
  <2> TAKE a, b
  <2>1. Calls(a, b)' \subseteq spans' \X spans' /\ IsFiniteSet(spans' \X spans')
    BY FS_Product DEF Calls, MapTyped
  <2>2. IsFiniteSet(Calls(a, b)')
    BY <2>1, FS_Subset
  <2> QED
    BY <1>3, <2>2, FS_Subset, FS_CardinalityType
<1>5. EdgesInv'
  <2>1. ASSUME from = 0, NEW e \in edges
        PROVE  Calls(e.from, e.to)' # {} /\ e.totals.calls <= Cardinality(Calls(e.from, e.to)')
    <3>1. Calls(e.from, e.to) # {} /\ e.totals.calls <= Cardinality(Calls(e.from, e.to))
      BY <1>1, <2>1 DEF EdgesInv
    <3>2. e.totals.calls \in Nat
      BY <1>1 DEF MapTyped, TypeOK, Edge, Totals
    <3>3. Calls(e.from, e.to) \subseteq Calls(e.from, e.to)'
      BY <1>3
    <3>4. /\ Cardinality(Calls(e.from, e.to)) <= Cardinality(Calls(e.from, e.to)')
          /\ Cardinality(Calls(e.from, e.to)) \in Nat /\ Cardinality(Calls(e.from, e.to)') \in Nat
      BY <1>4
    <3> QED
      BY <3>1, <3>2, <3>3, <3>4
  <2> QED
    BY <1>1, <1>2, <2>1 DEF EdgesInv
<1>6. NamesInv'
  BY <1>1, <1>2, <1>3 DEF NamesInv
<1>7. TotalsInv'
  BY <1>1, <1>2, <1>3 DEF TotalsInv
<1>8. MapIsWhole' /\ CallsWithinSpans'
  <2>1. Ids' = Ids
    BY DEF Ids
  <2> QED
    BY <1>1, <1>3, <2>1 DEF MapIsWhole, CallsWithinSpans, Into
<1> QED
  BY <1>5, <1>6, <1>7, <1>8 DEF MapInv

LEMMA DefaultsTyped == Defaults \in [Field -> Nat \ {0}]
BY DEF Defaults, Field

LEMMA MapInitInv == Init => MapInv
<1> SUFFICES ASSUME Init PROVE MapInv
  OBVIOUS
<1>1. /\ spans = {} /\ items = {} /\ stored = [t \in Tenant |-> NoLevels]
      /\ pc = "idle" /\ req = [tenant |-> Default, slides |-> FALSE] /\ from = 0
      /\ levels = Defaults /\ edges = {} /\ merge = {} /\ names = {} /\ stats = [s \in {} |-> None]
      /\ answer = NoAnswer /\ failed = {} /\ known = {}
  BY DEF Init
<1>2. req \in [tenant : Tenant, slides : BOOLEAN]
  BY <1>1, MapAssumption
<1>3. from \in Seconds
  BY <1>1, MapAssumption DEF Seconds
<1>4. DOMAIN stats = {}
  BY <1>1
<1>5. MapTyped
  BY <1>1, <1>2, <1>3, <1>4, DefaultsTyped, FS_EmptySet DEF MapTyped, TypeOK, Queries
<1>6. EdgesInv /\ NamesInv /\ TotalsInv
  BY <1>1, <1>4, FS_EmptySet DEF EdgesInv, NamesInv, TotalsInv
<1>7. MapIsWhole /\ CallsWithinSpans
  BY <1>1 DEF MapIsWhole, CallsWithinSpans, NoAnswer
<1> QED
  BY <1>5, <1>6, <1>7 DEF MapInv

LEMMA ArriveInv ==
  ASSUME MapInv,
         \/ \E x \in Spans : ArriveSpan(x)
         \/ \E x \in Items : ArriveItem(x)
         \/ \E t \in Tenant, b \in Bodies : SetThresholds(t, b)
         \/ UNCHANGED vars
  PROVE  MapInv'
<1>1. MapTyped /\ TypeOK
  BY DEF MapInv, MapTyped
<1>2. ASSUME NEW x \in Spans, ArriveSpan(x) PROVE MapInv'
  <2>1. spans' = spans \cup {x} /\ UNCHANGED <<items, stored, pc, req, from, local, answer, failed, known>>
    BY <1>2 DEF ArriveSpan
  <2>2. IsFiniteSet(spans')
    BY <1>1, <2>1, FS_AddElement DEF MapTyped
  <2>4. MapTyped'
    BY <1>1, <2>1, <2>2 DEF MapTyped, TypeOK, local
  <2> QED
    BY <2>1, <2>4, GrowInv
<1>3. ASSUME NEW x \in Items, ArriveItem(x) PROVE MapInv'
  <2>1. items' = items \cup {x} /\ UNCHANGED <<spans, stored, pc, req, from, local, answer, failed, known>>
    BY <1>3 DEF ArriveItem
  <2>2. IsFiniteSet(items')
    BY <1>1, <2>1, FS_AddElement DEF MapTyped
  <2>3. MapTyped'
    BY <1>1, <2>1, <2>2 DEF MapTyped, TypeOK, local
  <2> QED
    BY <2>1, <2>3, GrowInv
<1>4. ASSUME NEW t \in Tenant, NEW b \in Bodies, SetThresholds(t, b) PROVE MapInv'
  <2> DEFINE row == [f \in Field |-> IF f \in DOMAIN b THEN b[f] ELSE Defaults[f]]
  <2>1. stored' = [stored EXCEPT ![t] = row] /\ UNCHANGED <<spans, items, pc, req, from, local, answer, failed, known>>
    BY <1>4 DEF SetThresholds
  <2>2. row \in [Field -> Nat]
    <3>1. \A f \in DOMAIN b : b[f] \in Nat
      BY MapAssumption
    <3> QED
      BY <3>1, DefaultsTyped
  <2> HIDE DEF row
  <2>3. stored' \in [Tenant -> {NoLevels} \cup [Field -> Nat]]
    BY <1>1, <2>1, <2>2 DEF MapTyped
  <2>4. MapTyped'
    BY <1>1, <2>1, <2>3 DEF MapTyped, TypeOK, local
  <2> QED
    BY <2>1, <2>4, GrowInv
<1>5. CASE UNCHANGED vars
  <2>1. UNCHANGED <<spans, items, stored, pc, req, from, local, answer, failed, known>>
    BY <1>5 DEF vars, store
  <2>2. MapTyped'
    BY <1>1, <2>1 DEF MapTyped, TypeOK, local
  <2> QED
    BY <2>1, <2>2, GrowInv
<1> QED
  BY <1>2, <1>3, <1>4, <1>5

LEMMA AskInv ==
  ASSUME MapInv, NEW t \in Tenant, NEW slides \in BOOLEAN, Ask(t, slides)
  PROVE  MapInv'
<1>1. /\ pc' = "thresholds" /\ req' = [tenant |-> t, slides |-> slides] /\ from' = 0
      /\ levels' = Defaults /\ edges' = {} /\ merge' = {} /\ names' = {} /\ stats' = [s \in {} |-> None]
      /\ answer' = NoAnswer /\ failed' = {}
      /\ known' = {x.service : x \in {y \in spans : (t = Default \/ y.owner = t) /\ y.service # NoName}}
      /\ UNCHANGED <<spans, items, stored>>
  BY DEF Ask, store
<1>2. MapTyped /\ TypeOK /\ spans \subseteq Span
  BY MapAssumption DEF MapInv, MapTyped, TypeOK
<1>3. req'.tenant = t /\ req' \in [tenant : Tenant, slides : BOOLEAN] /\ DOMAIN stats' = {}
  BY <1>1
<1>4. known' \subseteq Active' /\ known' \subseteq Service
  <2> SUFFICES ASSUME NEW x \in spans, t = Default \/ x.owner = t, x.service # NoName
               PROVE  x.service \in Active' /\ x.service \in Service
    BY <1>1
  <2>1. x.service \in Service /\ x.at \in Nat
    BY <1>2, MapAssumption DEF Span, Seconds
  <2>2. x \in InWindow(x.service)'
    BY <1>1, <1>3, <2>1 DEF InWindow, In
  <2> QED
    BY <2>1, <2>2 DEF Active
<1>5. MapTyped'
  <2>1. 0 \in Seconds
    BY MapAssumption DEF Seconds
  <2> QED
    BY <1>1, <1>2, <1>3, <1>4, <2>1, DefaultsTyped DEF MapTyped, TypeOK, Queries
<1>6. EdgesInv' /\ TotalsInv'
  BY <1>1, <1>3, FS_EmptySet DEF EdgesInv, TotalsInv
<1>7. NamesInv'
  BY <1>1, <1>4 DEF NamesInv
<1>8. MapIsWhole' /\ CallsWithinSpans'
  BY <1>1 DEF MapIsWhole, CallsWithinSpans, NoAnswer
<1> QED
  BY <1>5, <1>6, <1>7, <1>8 DEF MapInv

\* A window that moved promises nothing but types and ends of edges.
LEMMA SlideInv ==
  ASSUME MapInv, Slide
  PROVE  MapInv'
<1>1. /\ pc # "idle" /\ from < MaxTime /\ from' = from + 1
      /\ UNCHANGED <<spans, items, stored, pc, req, levels, edges, merge, names, stats, answer, failed, known>>
  BY DEF Slide, store, local
<1>2. MapTyped /\ TypeOK /\ EdgesInv /\ NamesInv /\ TotalsInv
  BY DEF MapInv, MapTyped
<1>3. from' \in Seconds /\ from' # 0
  BY <1>1, <1>2, MapAssumption DEF TypeOK, Seconds
<1>4. MapTyped'
  BY <1>1, <1>2, <1>3 DEF MapTyped, TypeOK
<1>5. EdgesInv' /\ NamesInv' /\ TotalsInv'
  BY <1>1, <1>2, <1>3 DEF EdgesInv, NamesInv, TotalsInv
<1>6. MapIsWhole' /\ CallsWithinSpans'
  BY <1>1, <1>2, <1>3 DEF MapIsWhole, CallsWithinSpans, NamesInv, NoAnswer
<1> QED
  BY <1>4, <1>5, <1>6 DEF MapInv

\* A query gives no answer yet, and leaves the rows and the window alone.
LEMMA QueryInv ==
  ASSUME MapInv, pc # "idle", UNCHANGED <<spans, items, stored, req, from, answer, known>>,
         MapTyped', EdgesInv', NamesInv', TotalsInv'
  PROVE  MapInv'
<1>1. answer = NoAnswer
  BY DEF MapInv, NamesInv
<1>2. MapIsWhole' /\ CallsWithinSpans'
  BY <1>1 DEF MapIsWhole, CallsWithinSpans, NoAnswer
<1> QED
  BY <1>2 DEF MapInv

LEMMA LoadMapThresholdsInv ==
  ASSUME MapInv, LoadMapThresholds
  PROVE  MapInv'
<1>1. /\ pc = "thresholds" /\ pc' = "edges" /\ (levels' = Effective(stored[req.tenant]) \/ levels' = levels)
      /\ failed' \subseteq failed \cup {"services", "stats"}
      /\ UNCHANGED <<spans, items, stored, req, from, edges, merge, names, stats, answer, known>>
  BY DEF LoadMapThresholds, Fails, store
<1>2. MapTyped /\ TypeOK /\ EdgesInv /\ NamesInv /\ TotalsInv
  BY DEF MapInv, MapTyped
<1>3. levels' \in [Field -> Nat \ {0}]
  <2>1. stored[req.tenant] \in {NoLevels} \cup [Field -> Nat]
    BY <1>2 DEF MapTyped, TypeOK
  <2>2. \A row \in {NoLevels} \cup [Field -> Nat] : Effective(row) \in [Field -> Nat \ {0}]
    BY DefaultsTyped DEF Effective, NoLevels
  <2> QED
    BY <1>1, <1>2, <2>1, <2>2 DEF TypeOK
<1>4. MapTyped'
  BY <1>1, <1>2, <1>3 DEF MapTyped, TypeOK, Queries
<1>5. EdgesInv' /\ TotalsInv'
  BY <1>1, <1>2 DEF EdgesInv, TotalsInv, Calls, In
<1>6. NamesInv'
  <2>1. edges = {}
    BY <1>1, <1>2 DEF NamesInv
  <2> QED
    BY <1>1, <1>2, <2>1 DEF NamesInv, Active, InWindow, In
<1> QED
  BY <1>1, <1>4, <1>5, <1>6, QueryInv

LEMMA ReadEdgesInv ==
  ASSUME MapInv, ReadEdges
  PROVE  MapInv'
<1>1. /\ pc = "edges"
      /\ \/ pc' = "database" /\ edges' = ServiceEdges /\ failed' = failed
         \/ pc' = "idle" /\ failed' = failed /\ edges' = edges
      /\ names' = names \cup {e.from : e \in edges'} \cup {e.to : e \in edges'}
      /\ UNCHANGED <<spans, items, stored, req, from, levels, merge, stats, answer, known>>
  BY DEF ReadEdges, Fails, store
<1>2. MapTyped /\ TypeOK /\ EdgesInv /\ NamesInv /\ TotalsInv
  BY DEF MapInv, MapTyped
<1>3. edges' = {} \/ edges' = ServiceEdges
  BY <1>1, <1>2 DEF NamesInv
<1>4. MapTyped'
  <2>1. edges' \subseteq Edge /\ \A e \in edges' : e.from \in Service /\ e.to \in Service
    BY <1>2, <1>3, ServiceEdgesFacts
  <2>2. names' \subseteq Service
    BY <1>1, <1>2, <2>1 DEF TypeOK
  <2> QED
    BY <1>1, <1>2, <2>1, <2>2 DEF MapTyped, TypeOK, Queries
<1>5. EdgesInv'
  <2>1. \A a, b : Calls(a, b)' = Calls(a, b)
    BY <1>1 DEF Calls, In
  <2>2. IsFiniteSet(edges')
    BY <1>2, <1>3, ServiceEdgesFacts, FS_EmptySet
  <2>3. \A e \in edges' : e.type = "service" /\ e.to \in Service /\ e.from \in names' /\ e.to \in names'
    BY <1>1, <1>2, <1>3, ServiceEdgesFacts
  <2>4. \A e, g \in edges' : e.from = g.from /\ e.to = g.to => e = g
    BY <1>2, <1>3, ServiceEdgesFacts
  <2>5. \A e \in edges' : Calls(e.from, e.to) # {} /\ e.totals.calls <= Cardinality(Calls(e.from, e.to))
    BY <1>2, <1>3, ServiceEdgesFacts, CallsFinite
  <2> QED
    BY <1>1, <1>2, <2>1, <2>2, <2>3, <2>4, <2>5 DEF EdgesInv
<1>6. NamesInv' /\ TotalsInv'
  BY <1>1, <1>2 DEF NamesInv, TotalsInv, Active, InWindow, In
<1> QED
  BY <1>1, <1>4, <1>5, <1>6, QueryInv

LEMMA ReadDependenciesInv ==
  ASSUME MapInv, ReadDependencies
  PROVE  MapInv'
<1>1. /\ pc \in {"database", "http", "redis", "cache"} /\ pc' = After(pc)
      /\ merge' = merge \cup Dependencies(pc) \/ merge' = merge
      /\ failed' = failed
      /\ UNCHANGED <<spans, items, stored, req, from, levels, edges, names, stats, answer, known>>
  BY DEF ReadDependencies, Fails, store
<1>2. MapTyped /\ TypeOK /\ EdgesInv /\ NamesInv /\ TotalsInv
  BY DEF MapInv, MapTyped
<1>3. pc' \in {"http", "redis", "cache", "services"}
  BY <1>1 DEF After
<1>4. merge' \subseteq Edge /\ \A e \in merge' : e.type # "service"
  BY <1>1, <1>2, DependenciesFacts DEF TypeOK, EdgesInv
<1>5. MapTyped'
  BY <1>1, <1>2, <1>3, <1>4 DEF MapTyped, TypeOK, Queries
<1>6. EdgesInv'
  BY <1>1, <1>2, <1>4 DEF EdgesInv, Calls, In
<1>7. NamesInv' /\ TotalsInv'
  BY <1>1, <1>2, <1>3 DEF NamesInv, TotalsInv, Active, InWindow, In
<1> QED
  BY <1>1, <1>5, <1>6, <1>7, QueryInv

LEMMA ReadServicesInv ==
  ASSUME MapInv, ReadServices
  PROVE  MapInv'
<1>1. /\ pc = "services" /\ pc' = "stats"
      /\ \/ names' = names \cup Active /\ failed' = failed
         \/ names' = names /\ failed' = failed \cup {"services"}
      /\ UNCHANGED <<spans, items, stored, req, from, levels, edges, merge, stats, answer, known>>
  BY DEF ReadServices, Fails, store
<1>2. MapTyped /\ TypeOK /\ EdgesInv /\ NamesInv /\ TotalsInv
  BY DEF MapInv, MapTyped
<1>3. Active \subseteq Service /\ Active' = Active
  BY <1>1 DEF Active, InWindow, In
<1>4. MapTyped'
  BY <1>1, <1>2, <1>3 DEF MapTyped, TypeOK, Queries
<1>5. EdgesInv'
  BY <1>1, <1>2 DEF EdgesInv, Calls, In
<1>6. NamesInv'
  <2>1. from = 0 => known \subseteq Active
    BY <1>1, <1>2 DEF NamesInv
  <2>2. "services" \notin failed' => names' = names \cup Active
    BY <1>1
  <2>3. pc' = "stats" /\ answer' = NoAnswer
    BY <1>1, <1>2 DEF NamesInv
  <2> QED
    BY <1>1, <1>3, <2>1, <2>2, <2>3 DEF NamesInv
<1>7. TotalsInv'
  BY <1>1, <1>2 DEF TotalsInv
<1> QED
  BY <1>1, <1>4, <1>5, <1>6, <1>7, QueryInv

\* The calls of a service's edges are among its spans.
LEMMA EdgesWithinSpans ==
  ASSUME MapTyped, EdgesInv, from = 0, NEW s \in Service, OneParent(s)
  PROVE  LET E == {e \in edges : e.to = s}
         IN  CallsIn(E) \in Nat /\ CallsIn(E) <= Cardinality(InWindow(s)) /\ IsFiniteSet(InWindow(s))
<1> DEFINE E == {e \in edges : e.to = s}
           f == [e \in E |-> e.totals.calls]
           C == [e \in E |-> Calls(e.from, s)]
<1>1. IsFiniteSet(E) /\ IsFiniteSet(InWindow(s))
  <2>1. E \subseteq edges
    OBVIOUS
  <2> QED
    BY <2>1, FS_Subset, CallsToWithin DEF EdgesInv
<1>2. \A e \in E : e.totals.calls \in Nat
  BY DEF MapTyped, TypeOK, Edge, Totals
<1>3. \A e \in E : f[e] \in Nat /\ C[e] \subseteq CallsTo(s) /\ f[e] <= Cardinality(C[e])
  <2> TAKE e \in E
  <2>1. f[e] = e.totals.calls /\ C[e] = Calls(e.from, s)
    OBVIOUS
  <2>2. Calls(e.from, s) \subseteq CallsTo(s)
    BY DEF Calls, CallsTo
  <2>3. e.totals.calls <= Cardinality(Calls(e.from, s))
    BY DEF EdgesInv
  <2> QED
    BY <1>2, <2>1, <2>2, <2>3
<1>4. \A e, g \in E : e # g => C[e] \cap C[g] = {}
  <2> SUFFICES ASSUME NEW e \in E, NEW g \in E, e # g PROVE Calls(e.from, s) \cap Calls(g.from, s) = {}
    OBVIOUS
  <2>1. e.from # g.from
    BY DEF EdgesInv
  <2> QED
    BY <2>1, CallsApart
<1>5. CallsIn(E) = SumOf(f, E)
  <2> HIDE DEF E
  <2> QED
    BY <1>1, <1>2, CallsInIsSum
<1> HIDE DEF E, f, C
<1>8. SumOf(f, E) <= Cardinality(CallsTo(s))
  BY <1>1, <1>3, <1>4, CallsToWithin, SumWithin
<1>7. SumOf(f, E) \in Nat
  BY <1>1, <1>3, SumLaws
<1>6. SumOf(f, E) <= Cardinality(InWindow(s))
  BY <1>7, <1>8, CallsToWithin
<1> QED
  BY <1>1, <1>5, <1>6, <1>7 DEF E

LEMMA ReadStatsInv ==
  ASSUME MapInv, ReadStats
  PROVE  MapInv'
<1>1. /\ pc = "stats" /\ pc' = "answer"
      /\ \/ stats' = [s \in Active |-> TotalsOf(InWindow(s))] /\ names' = names \cup Active /\ failed' = failed
         \/ stats' = stats /\ names' = names /\ failed' = failed \cup {"stats"}
      /\ UNCHANGED <<spans, items, stored, req, from, levels, edges, merge, answer, known>>
  BY DEF ReadStats, Fails, store
<1>2. MapTyped /\ TypeOK /\ EdgesInv /\ NamesInv /\ TotalsInv
  BY DEF MapInv, MapTyped
<1>3. Active \subseteq Service /\ Active' = Active
  BY <1>1 DEF Active, InWindow, In
<1>4. \A s : /\ IsFiniteSet(InWindow(s))
             /\ TotalsOf(InWindow(s)) \in Totals /\ TotalsOf(InWindow(s)).calls = Cardinality(InWindow(s))
  <2> TAKE s
  <2>1. InWindow(s) \subseteq spans /\ spans \subseteq Span
    BY <1>2, MapAssumption DEF InWindow, TypeOK
  <2>2. IsFiniteSet(InWindow(s)) /\ \A x \in InWindow(s) : x.time \in Nat
    BY <1>2, <2>1, FS_Subset DEF MapTyped, Span
  <2> QED
    BY <2>2, TotalsOfTyped
<1>5. DOMAIN stats' \subseteq Service /\ \A s \in DOMAIN stats' : stats'[s] \in Totals
  BY <1>1, <1>2, <1>3, <1>4 DEF TypeOK, TotalsInv
<1>6. MapTyped'
  BY <1>1, <1>2, <1>3, <1>5 DEF MapTyped, TypeOK, Queries
<1>7. EdgesInv'
  BY <1>1, <1>2 DEF EdgesInv, Calls, In
<1>8. NamesInv'
  <2>1. from = 0 => known \subseteq Active
    BY <1>1, <1>2 DEF NamesInv
  <2>2. "stats" \notin failed' => names' = names \cup Active
    BY <1>1
  <2>3. from = 0 /\ "services" \notin failed => known \subseteq names
    BY <1>1, <1>2 DEF NamesInv
  <2>4. failed \subseteq failed' /\ names \subseteq names' /\ pc' = "answer" /\ answer' = NoAnswer
    BY <1>1, <1>2 DEF NamesInv
  <2> QED
    BY <1>1, <1>3, <2>1, <2>2, <2>3, <2>4 DEF NamesInv
<1>9. TotalsInv'
  <2>3. \A s : OneParent(s)' => OneParent(s)
    BY <1>1 DEF OneParent, In
  <2>1. ASSUME from = 0, "stats" \notin failed', NEW s \in Service, OneParent(s)
        PROVE  CallsIn({e \in edges : e.to = s}) <= IF s \in DOMAIN stats' THEN stats'[s].calls ELSE 0
    <3>1. stats' = [x \in Active |-> TotalsOf(InWindow(x))]
      BY <1>1, <2>1
    <3>2. CallsIn({e \in edges : e.to = s}) \in Nat /\ CallsIn({e \in edges : e.to = s}) <= Cardinality(InWindow(s))
      BY <1>2, <2>1, EdgesWithinSpans
    <3>3. CASE s \in Active
      <4>1. s \in DOMAIN stats' /\ stats'[s] = TotalsOf(InWindow(s))
        BY <3>1, <3>3
      <4> QED
        BY <1>4, <3>2, <4>1
    <3>4. CASE s \notin Active
      <4>1. InWindow(s) = {} /\ s \notin DOMAIN stats'
        BY <3>1, <3>4 DEF Active
      <4>2. Cardinality(InWindow(s)) = 0
        BY <4>1, FS_EmptySet
      <4> QED
        BY <3>2, <4>1, <4>2
    <3> QED
      BY <3>3, <3>4
  <2> QED
    BY <1>1, <1>5, <2>1, <2>3 DEF TotalsInv
<1> QED
  BY <1>1, <1>6, <1>7, <1>8, <1>9, QueryInv

LEMMA AnswerInv ==
  ASSUME MapInv, Answer
  PROVE  MapInv'
<1> DEFINE E == edges \cup merge
           N == {ServiceNode(E, s) : s \in Services} \cup {DependencyNode(E, t) : t \in {e.to : e \in merge}}
<1>1. /\ pc = "answer" /\ pc' = "idle" /\ answer' = [edges |-> E, nodes |-> N]
      /\ edges' = {} /\ merge' = {} /\ names' = {} /\ stats' = [s \in {} |-> None]
      /\ UNCHANGED <<spans, items, stored, req, from, levels, failed, known>>
  BY DEF Answer, store
<1>2. MapTyped /\ TypeOK /\ EdgesInv /\ NamesInv /\ TotalsInv
  BY DEF MapInv, MapTyped
<1>3. answer'.edges = E /\ answer'.nodes = N
  BY <1>1
<1>4. /\ \A s \in Services : \E n \in N : n.id = s
      /\ \A e \in merge : \E n \in N : n.id = e.to
  <2>1. ASSUME NEW s \in Services PROVE \E n \in N : n.id = s
    <3>1. ServiceNode(E, s) \in N /\ ServiceNode(E, s).id = s
      BY DEF ServiceNode
    <3> HIDE DEF N
    <3> QED
      BY <3>1
  <2>2. ASSUME NEW e \in merge PROVE \E n \in N : n.id = e.to
    <3>1. DependencyNode(E, e.to) \in N /\ DependencyNode(E, e.to).id = e.to
      BY DEF DependencyNode
    <3> HIDE DEF N
    <3> QED
      BY <3>1
  <2> HIDE DEF N
  <2> QED
    BY <2>1, <2>2
<1>5. \A n \in N : n.type = "service" => n.id \in Services /\ n = ServiceNode(E, n.id)
  BY DEF ServiceNode, DependencyNode
<1> HIDE DEF N
<1>6. Ids' = {n.id : n \in N}
  BY <1>3 DEF Ids
<1>7. DOMAIN stats' = {}
  BY <1>1
<1>8. MapTyped'
  BY <1>1, <1>2, <1>7 DEF MapTyped, TypeOK, Queries
<1>9. EdgesInv' /\ NamesInv' /\ TotalsInv'
  BY <1>1, <1>7, FS_EmptySet DEF EdgesInv, NamesInv, TotalsInv
<1>10. MapIsWhole'
  <2>1. Services \subseteq Ids'
    BY <1>4, <1>6
  <2>2. \A e \in E : {e.from, e.to} \subseteq Ids'
    <3>1. \A e \in edges : e.from \in Services /\ e.to \in Services
      BY <1>2 DEF EdgesInv, Services
    <3>2. \A e \in merge : e.from \in Services /\ e.to \in Ids'
      BY <1>4, <1>6 DEF Services
    <3> QED
      BY <2>1, <3>1, <3>2
  <2>3. from = 0 /\ ~ {"services", "stats"} \subseteq failed => known \subseteq Ids'
    <3>1. from = 0 /\ ~ {"services", "stats"} \subseteq failed => known \subseteq names
      BY <1>1, <1>2 DEF NamesInv
    <3> QED
      BY <2>1, <3>1 DEF Services
  <2>4. ASSUME from = 0, NEW e \in E, e.type = "service"
        PROVE  EdgeTraces(e.from, e.to)' # {} \/ \E x \in Calls(e.from, e.to)' : x[1].id \in Untraced
    <3>1. e \in edges /\ Calls(e.from, e.to) # {}
      BY <1>2, <2>4 DEF EdgesInv
    <3>2. EdgeTraces(e.from, e.to) # {} \/ \E x \in Calls(e.from, e.to) : x[1].id \in Untraced
      BY <3>1, CallsHaveTraces
    <3>3. EdgeTraces(e.from, e.to)' = EdgeTraces(e.from, e.to) /\ Calls(e.from, e.to)' = Calls(e.from, e.to)
      BY <1>1 DEF EdgeTraces, Calls, In
    <3> QED
      BY <3>2, <3>3
  <2> QED
    BY <1>1, <1>3, <2>2, <2>3, <2>4 DEF MapIsWhole
<1>11. CallsWithinSpans'
  <2>2. \A s : OneParent(s)' => OneParent(s)
    BY <1>1 DEF OneParent, In
  <2>1. ASSUME "stats" \notin failed, from = 0, NEW n \in N, n.type = "service", OneParent(n.id)
        PROVE  Sum({e \in Into(E, n.id) : e.type = "service"}).calls <= n.total
    <3> DEFINE s == n.id
    <3>1. s \in Service
      BY <1>2, <1>5, <2>1 DEF TypeOK, Edge, Services
    <3>2. n.total = IF s \in DOMAIN stats THEN stats[s].calls ELSE 0
      BY <1>5, <2>1 DEF ServiceNode, None
    <3>3. {e \in Into(E, s) : e.type = "service"} = {e \in edges : e.to = s}
      BY <1>2 DEF Into, EdgesInv
    <3>4. \A X : Sum(X).calls = CallsIn(X)
      BY DEF Sum, CallsIn
    <3>5. CallsIn({e \in edges : e.to = s}) <= IF s \in DOMAIN stats THEN stats[s].calls ELSE 0
      BY <1>1, <1>2, <2>1, <3>1 DEF TotalsInv
    <3> QED
      BY <3>2, <3>3, <3>4, <3>5
  <2> QED
    BY <1>1, <1>3, <2>1, <2>2 DEF CallsWithinSpans, Into
<1> QED
  BY <1>8, <1>9, <1>10, <1>11 DEF MapInv

LEMMA MapStepInv ==
  ASSUME MapInv, [Next]_vars
  PROVE  MapInv'
BY ArriveInv, AskInv, SlideInv, LoadMapThresholdsInv, ReadEdgesInv, ReadDependenciesInv, ReadServicesInv, ReadStatsInv,
   AnswerInv DEF Next, Handler

-----------------------------------------------------------------------------
(* A behaviour is about one of the readers, the others rest. *)

IInv == MapInv /\ TraceInv /\ RangeInv

THEOREM ReadersInvariant == ReadsSpec => []IInv
<1>1. ReadsInit => IInv
  BY MapInitInv, TraceInitInv, RangeInitInv DEF ReadsInit, IInv
<1>2. IInv /\ [ReadsNext]_<<vars, traceVars, rangeVars, reader>> => IInv'
  <2> SUFFICES ASSUME IInv, [ReadsNext]_<<vars, traceVars, rangeVars, reader>> PROVE IInv'
    OBVIOUS
  <2>1. [Next]_vars /\ [TraceNext]_traceVars /\ [RangeNext]_rangeVars
    BY DEF ReadsNext
  <2> QED
    BY <2>1, MapStepInv, TraceStepInv, RangeStepInv DEF IInv
<1> QED
  BY <1>1, <1>2, PTL DEF ReadsSpec

LEMMA InvariantImplies ==
  IInv => TypesOK /\ MapIsWhole /\ CallsWithinSpans /\ NothingPassedOver /\ DetailIsComplete
          /\ NothingMissing /\ ResolutionFits
BY TraceInvImplies, RangeInvImplies DEF IInv, MapInv, MapTyped, TypesOK

\* Every reader keeps its types, and no threshold the map judges by is zero.
THEOREM TypesStay == ReadsSpec => []TypesOK
BY ReadersInvariant, InvariantImplies, PTL

\* Whatever queries failed and whatever arrived between them, both ends of every edge are
\* nodes, no service with spans is lost by one failure, and every edge has a trace or a
\* call without one.
THEOREM MapsAreWhole == ReadsSpec => []MapIsWhole
BY ReadersInvariant, InvariantImplies, PTL

\* No service is shown with more calls from services than spans, if none of them has its
\* parent in two rows.
THEOREM CallsStayWithinSpans == ReadsSpec => []CallsWithinSpans
BY ReadersInvariant, InvariantImplies, PTL

\* Paging the traces by creation passes over none, however many arrive meanwhile.
THEOREM PagesPassNothingOver == ReadsSpec => []NothingPassedOver
BY ReadersInvariant, InvariantImplies, PTL

\* A trace opened from the list has the spans its row promised and, marked as full, the
\* payloads there were.
THEOREM DetailsAreComplete == ReadsSpec => []DetailIsComplete
BY ReadersInvariant, InvariantImplies, PTL

\* A sample in the range is drawn, or left out for one of the reasons listed.
THEOREM RangesHaveNoGaps == ReadsSpec => []NothingMissing
BY ReadersInvariant, InvariantImplies, PTL

\* A covered range gets about the points asked for, and no coarser than it must be.
THEOREM ResolutionsFit == ReadsSpec => []ResolutionFits
BY ReadersInvariant, InvariantImplies, PTL

=============================================================================
