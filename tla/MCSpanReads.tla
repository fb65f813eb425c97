----------------------------- MODULE MCSpanReads -----------------------------
EXTENDS SpanReads, TLC

\* Two ports of one database, and a URL that is just the name of a service.
Targets == [pg1 |-> "postgres://db", pg2 |-> "postgres://db", bare |-> "pay"]
Kinds == [pg1 |-> "database", pg2 |-> "database", bare |-> "http"]

Sp(i, c, p, s, e, t, o) == [id |-> i, copy |-> c, parent |-> p, service |-> s, error |-> e, time |-> 0, at |-> t, owner |-> o]
It(i, p, s, e, d, o) == [id |-> i, place |-> p, service |-> s, error |-> e, time |-> d, at |-> 0, owner |-> o]

SmallSpans ==
  { Sp(1, 1, 0, "shop", FALSE, 0, "a"), Sp(1, 2, 0, "shop", FALSE, 0, "a"),
    Sp(2, 1, 1, "pay", TRUE, 0, "a"), Sp(3, 1, 1, "nobody", FALSE, 0, "a"),
    Sp(4, 1, 0, "shop", FALSE, 0, "a"), Sp(5, 1, 4, "pay", FALSE, 1, "b") }
SmallItems ==
  { It(1, "pg1", "shop", FALSE, 0, "a"), It(2, "pg2", "shop", FALSE, 6000, "a"),
    It(3, "bare", "shop", TRUE, 0, "b") }
SmallBodies == { [downError |-> 0, downLatency |-> 900] }

OneLabel == [x \in Series |-> "host"]
SmallTiers == <<[res |-> 0, ret |-> 1], [res |-> 1, ret |-> 3], [res |-> 2, ret |-> 4]>>
SmallRanges == {[from |-> 0, to |-> 5], [from |-> 1, to |-> 3]}
SmallFilters ==
  { [labels |-> FALSE, matching |-> Series, split |-> TRUE, grouped |-> TRUE],
    [labels |-> TRUE, matching |-> {CHOOSE x \in Series : TRUE}, split |-> FALSE, grouped |-> FALSE] }

\* A window that opens some time ago; while the clock stands it is a fixed one.
OneWindow == {[from |-> 1, to |-> 2, slides |-> {"from"}]}

\* No liveness is checked in this run.
Symmetric == Permutations(TraceId) \cup Permutations(SpanId)
=============================================================================
