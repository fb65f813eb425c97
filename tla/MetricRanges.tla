---------------------------- MODULE MetricRanges ----------------------------
(***************************************************************************)
(* A metric over a range (internal/query/metrics.go, ServeMetricQueryRange, *)
(* and metrics_tiers.go).  Samples are kept as they came for a while and,  *)
(* rolled up more and more coarsely, for longer.  A request takes the      *)
(* time, finds its series when it filters or splits by them, picks a tier  *)
(* and a step and queries.  Time passes, samples arrive and tables forget  *)
(* in between.                                                             *)
(*                                                                         *)
(* The unit of time is the second; the roll-ups are kept up to date by     *)
(* whatever writes the samples.  An aggregate is the set of samples that   *)
(* went into it.  A request asks for one metric, as one tenant.            *)
(***************************************************************************)
EXTENDS Integers, Sequences, FiniteSets, FiniteSetsExt

CONSTANTS
  Series,
  LabelOf,      \* the value each series has for the label in group_by
  Tiers,        \* resolution (0: as they came) and retention of the tables, finest first
  Ranges,       \* from and to of the requests
  Filters,      \* whether they name labels, the series that match, and how these are split into lines
  Points,       \* the numbers of points they ask for
  RowsPerPoint, \* rows a query may return per point asked for
  SeriesLimit,  \* how many series a request is resolved to
  MaxClock,     \* bound on the clock
  MaxSamples    \* bound on the samples

ASSUME RangeAssumption ==
  /\ Tiers \in Seq([res : Nat, ret : Nat])
  /\ \A i, j \in 1..Len(Tiers) : i < j => Tiers[i].res < Tiers[j].res /\ Tiers[i].ret < Tiers[j].ret
  /\ Tiers # <<>> /\ Tiers[1].res = 0 /\ Tiers[Len(Tiers)].res > 0
  /\ \A r \in Ranges : r.from \in Nat /\ r.to \in Nat
  /\ \A f \in Filters : f.matching \subseteq Series /\ f.labels \in BOOLEAN /\ f.split \in BOOLEAN
  /\ \A f \in Filters : (f.grouped => f.split) /\ (~ f.labels => f.matching = Series)
  /\ MaxClock \in Nat /\ MaxSamples \in Nat
  /\ Points \subseteq Nat \ {0} /\ RowsPerPoint \in Nat \ {0} /\ SeriesLimit \in Nat \ {0}

VARIABLES
  clock,
  samples,    \* the points of the metric
  registered, \* the series in opa.metric_series
  phase,      \* "idle", "resolve" or "query"; the four below are its request's
  want,       \* the request, with the time it came
  resolved,   \* the series it is about
  held,       \* history: the samples there when it came
  curve       \* the last answer

rangeVars == <<clock, samples, registered, phase, want, resolved, held, curve>>

-----------------------------------------------------------------------------
Instant == 0..MaxClock
Sample == [series : Series, ts : Instant]
Want == [range : Ranges, filter : Filters, points : Points, now : Instant]
NoWant == [points |-> 0]
NoCurve == [rows |-> {}, tier |-> 0, at |-> 0]
Merged == "all series"

Width(q) == q.range.to - q.range.from
Target(q) == Width(q) \div q.points

\* The start of the interval of length n that t is in.
Down(t, n) == (t \div n) * n

\* Mutant: it is the end of the range that must still be there.
EligibleByEnd(q) == {i \in 1..Len(Tiers) : q.now - q.range.to <= Tiers[i].ret}

\* The tables that go back far enough.
Eligible(q) == {i \in 1..Len(Tiers) : q.now - q.range.from <= Tiers[i].ret}

\* Those that are fine enough for the points asked for.
Fine(q) == {i \in Eligible(q) : Tiers[i].res <= Target(q)}

\* selectMetricTier: the coarsest that still gives the points asked for, or else the
\* finest there is; if the range is older than everything, the coarsest.
TierOf(q) ==
  IF Eligible(q) = {} THEN Len(Tiers) ELSE IF Fine(q) = {} THEN Min(Eligible(q)) ELSE Max(Fine(q))

\* Mutant: a roll-up each.
StepFinest(q) == IF Tiers[TierOf(q)].res = 0 THEN 1 ELSE Tiers[TierOf(q)].res

\* A whole number of roll-ups, at least one, or of seconds.
StepOf(q) ==
  LET res == Tiers[TierOf(q)].res
  IN  IF Eligible(q) = {} THEN res
      ELSE IF res = 0 THEN IF Target(q) = 0 THEN 1 ELSE Target(q)
      ELSE IF Target(q) < res THEN res ELSE Down(Target(q), res)

\* The time of a sample in a table, and the start of its interval in the answer.
TimeIn(i, s) == IF Tiers[i].res = 0 THEN s.ts ELSE Down(s.ts, Tiers[i].res)
Start(q, s) == Down(TimeIn(TierOf(q), s), StepOf(q))

\* groupRangeRows: the line a series is drawn in.
Line(q, x) == IF ~ q.filter.split THEN Merged ELSE IF q.filter.grouped THEN LabelOf[x] ELSE x

Resolves(q) == q.filter.labels \/ q.filter.split

-----------------------------------------------------------------------------
RangeInit ==
  /\ clock = 0 /\ samples = {} /\ registered = {}
  /\ phase = "idle" /\ want = NoWant /\ resolved = {} /\ held = {} /\ curve = NoCurve

\* An answered request leaves nothing behind.
Rest ==
  IF phase = "idle" THEN want' = NoWant /\ resolved' = {} /\ held' = {} /\ curve' = NoCurve
                    ELSE UNCHANGED <<want, resolved, held, curve>>

ClockTick ==
  /\ clock < MaxClock /\ clock' = clock + 1
  /\ Rest
  /\ UNCHANGED <<samples, registered, phase>>

\* A sample is written, and its series before or after it.
AddSample(x, t) ==
  /\ Cardinality(samples) < MaxSamples /\ t <= clock
  /\ samples' = samples \cup {[series |-> x, ts |-> t]}
  /\ Rest
  /\ UNCHANGED <<clock, registered, phase>>

AddSeries(x) ==
  /\ registered' = registered \cup {x}
  /\ Rest
  /\ UNCHANGED <<clock, samples, phase>>

\* A range must not be empty.  The time is taken once.
QueryRange(r, f, n) ==
  /\ phase = "idle" /\ r.from < r.to
  /\ want' = [range |-> r, filter |-> f, points |-> n, now |-> clock]
  /\ phase' = IF Resolves(want') THEN "resolve" ELSE "query"
  /\ resolved' = IF Resolves(want') THEN {} ELSE Series
  /\ held' = samples /\ curve' = NoCurve
  /\ UNCHANGED <<clock, samples, registered>>

\* resolveSeriesIDs: any SeriesLimit of the series that match; with none the answer is
\* empty.
ResolveSeries(R) ==
  /\ phase = "resolve"
  /\ LET M == registered \cap want.filter.matching
     IN  R \subseteq M /\ (Cardinality(R) = SeriesLimit \/ R = M)
  /\ resolved' = R
  /\ phase' = IF R = {} THEN "idle" ELSE "query"
  /\ UNCHANGED <<clock, samples, registered, want, held, curve>>

\* A table forgets its rows some time after their retention.
Forgettable(i) == {s \in samples : TimeIn(i, s) + Tiers[i].ret < clock}

\* The rows of buildMetricRangeSQL over the samples S.
RowsOf(q, S) ==
  {[start |-> k[1], series |-> k[2], line |-> IF k[2] = Merged THEN Merged ELSE Line(q, k[2]),
    samples |-> {s \in S : Start(q, s) = k[1] /\ (q.filter.split => s.series = k[2])}] :
     k \in {<<Start(q, s), IF q.filter.split THEN s.series ELSE Merged>> : s \in S}}

\* ORDER BY start LIMIT n: what is cut off are the latest, and of these any.
Cut(R, n) ==
  {K \in SUBSET R : /\ Cardinality(K) <= n /\ (K = R \/ Cardinality(K) = n)
                    /\ \A k \in K, r \in R \ K : k.start <= r.start}

QueryTier(gone) ==
  /\ phase = "query"
  /\ gone \subseteq Forgettable(TierOf(want))
  /\ LET i == TierOf(want)
         S == {s \in samples \ gone : s.series \in resolved /\ TimeIn(i, s) >= want.range.from /\ TimeIn(i, s) <= want.range.to}
     IN  curve' \in {[rows |-> K, tier |-> i, at |-> clock] : K \in Cut(RowsOf(want, S), want.points * RowsPerPoint)}
  /\ phase' = "idle"
  /\ UNCHANGED <<clock, samples, registered, want, resolved, held>>

QueryRangeFailed ==
  /\ phase # "idle" /\ phase' = "idle"
  /\ want' = NoWant /\ resolved' = {} /\ held' = {}
  /\ UNCHANGED <<clock, samples, registered, curve>>

RangeNext ==
  \/ ClockTick
  \/ \E x \in Series, t \in Instant : AddSample(x, t)
  \/ \E x \in Series : AddSeries(x)
  \/ \E r \in Ranges, f \in Filters, n \in Points : QueryRange(r, f, n)
  \/ \E R \in SUBSET Series : ResolveSeries(R)
  \/ \E gone \in SUBSET samples : QueryTier(gone)
  \/ QueryRangeFailed

-----------------------------------------------------------------------------
(* Properties. *)

RangeTypeOK ==
  /\ clock \in Instant /\ samples \subseteq Sample /\ registered \subseteq Series
  /\ phase \in {"idle", "resolve", "query"}
  /\ want \in Want \cup {NoWant} /\ (phase # "idle" => want # NoWant)
  /\ resolved \subseteq Series /\ (phase = "query" /\ Resolves(want) => resolved # {})
  /\ held \subseteq samples
  /\ curve.tier \in 0..Len(Tiers) /\ curve.at \in Instant
  /\ Cardinality(curve.rows) <= want.points * RowsPerPoint

Drawn == UNION {r.samples : r \in curve.rows}

\* SAFETY.  A sample that was there, in the range, when the request came is drawn,
\* unless its roll-up begins before the range, its series was not among those resolved,
\* the answer was cut off at earlier intervals, or its table forgot it; and a table
\* that covered the range when it was picked can only have forgotten it since.
NothingMissing ==
  curve # NoCurve => \A s \in held :
    s.ts >= want.range.from /\ s.ts <= want.range.to /\ s.series \in want.filter.matching =>
      \/ s \in Drawn
      \/ TimeIn(curve.tier, s) < want.range.from
      \/ s.series \notin resolved
      \/ /\ Cardinality(curve.rows) = want.points * RowsPerPoint
         /\ \A r \in curve.rows : r.start <= Start(want, s)
      \/ /\ TimeIn(curve.tier, s) + Tiers[curve.tier].ret < curve.at
         /\ curve.at > want.now \/ Eligible(want) = {}

\* SAFETY.  A range some table covers is answered with at most twice the points asked
\* for and one, and never more coarsely than the points and the finest covering table
\* require.
ResolutionFits ==
  want # NoWant /\ Eligible(want) # {} =>
    /\ Width(want) <= 2 * want.points * StepOf(want)
    /\ StepOf(want) <= Max({1, Target(want), Tiers[Min(Eligible(want))].res})
=============================================================================
