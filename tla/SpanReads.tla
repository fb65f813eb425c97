------------------------------ MODULE SpanReads ------------------------------
(***************************************************************************)
(* The readers of spans and of metrics.  They share no state of the hub,   *)
(* so a behaviour is about one of them.                                    *)
(***************************************************************************)
EXTENDS ServiceMap, TraceReads, MetricRanges

VARIABLE reader

ReadsInit == Init /\ TraceInit /\ RangeInit /\ reader \in {"map", "traces", "metrics"}

ReadsNext ==
  \/ reader = "map" /\ Next /\ UNCHANGED <<traceVars, rangeVars, reader>>
  \/ reader = "traces" /\ TraceNext /\ UNCHANGED <<vars, rangeVars, reader>>
  \/ reader = "metrics" /\ RangeNext /\ UNCHANGED <<vars, traceVars, reader>>

ReadsSpec == ReadsInit /\ [][ReadsNext]_<<vars, traceVars, rangeVars, reader>>

\* SAFETY.  What each reader keeps between its queries stays well typed; for the map, no
\* threshold it judges by is zero, although clients may store one.
TypesOK == TypeOK /\ TraceTypeOK /\ RangeTypeOK
=============================================================================
