----------------------------- MODULE EdgeIngest -----------------------------
(***************************************************************************)
(* internal/ingest and the accounting half of internal/store, composed     *)
(* with the agent registry: what happens to a push from an edge agent.     *)
(*                                                                         *)
(* ServePush counts the batch in the writer, with three separate atomic    *)
(* additions (RecordIngest), and only then credits the agent in the        *)
(* registry (MarkPush).  Registrations, heartbeats, other pushes and the   *)
(* stats pages run in between.  A push from an agent the registry does not *)
(* know is accepted all the same; it leaves a trace in the writer only.    *)
(* The module covers requests past the enroll-token and method checks.     *)
(***************************************************************************)
EXTENDS AgentRegistry

CONSTANTS
  EventCount,  \* values of event_count on the wire, the absent field being 0
  Events,      \* forms of the events field, see EventsField
  Bytes,       \* body sizes
  Modulus,     \* 2^64: the counters are uint64
  MaxBatches   \* bound on the pushes accepted between two restarts

\* The events field: missing, an array of some length, or other JSON.
EventsField == [form : {"absent", "array", "other"}, len : Nat]

ASSUME IngestAssumption ==
  /\ Events \subseteq EventsField
  /\ EventCount \subseteq Int /\ Bytes \subseteq Nat
  /\ Modulus \in Nat \ {0} /\ MaxBatches \in Nat

VARIABLES
  batches, ingestEvents, ingestBytes, \* store.Writer's counters
  push,                               \* per goroutine: the ServePush in progress
  orphans                             \* history: pushes whose agent was unknown when credited

writer == <<batches, ingestEvents, ingestBytes>>
hubVars == <<vars, writer, push, orphans>>

-----------------------------------------------------------------------------
\* The steps of a push that are still to come.
Step == {"batches", "events", "bytes", "mark"}
Push == [next : Step, agent : WireId, n : Int, bytes : Nat]
NoPush == [next |-> "none"]

PushTyped == push \in [Caller -> Push \cup {NoPush}]

HubTypeOK ==
  /\ TypeOK
  /\ batches \in 0..Modulus-1 /\ ingestEvents \in 0..Modulus-1 /\ ingestBytes \in 0..Modulus-1
  /\ PushTyped
  /\ orphans \in Nat

HubInit ==
  /\ Init
  /\ batches = 0 /\ ingestEvents = 0 /\ ingestBytes = 0
  /\ push = [c \in Caller |-> NoPush]
  /\ orphans = 0

-----------------------------------------------------------------------------
\* The n of ServePush: a count that is not positive gives way to the number of
\* events, if there is an events field at all.
EventsIn(count, e) ==
  IF count > 0 \/ e.form = "absent" THEN count
  ELSE IF e.form = "array" THEN e.len ELSE 1

\* ServePush up to RecordIngest; a blank agent_id is refused.
AcceptPush(c, w, count, e, b) ==
  /\ push[c] = NoPush /\ enrol[c] = NoCall
  /\ w.name # Blank
  /\ push' = [push EXCEPT ![c] = [next |-> "batches", agent |-> w, n |-> EventsIn(count, e), bytes |-> b]]
  /\ UNCHANGED <<vars, writer, orphans>>

Advance(c, step) ==
  push' = [push EXCEPT ![c] =
             [next |-> step, agent |-> push[c].agent, n |-> push[c].n, bytes |-> push[c].bytes]]

\* RecordIngest, one atomic addition after another.
CountBatch(c) ==
  /\ push[c].next = "batches"
  /\ batches < MaxBatches
  /\ batches' = (batches + 1) % Modulus
  /\ Advance(c, "events")
  /\ UNCHANGED <<vars, ingestEvents, ingestBytes, orphans>>

\* uint64(eventCount) of a negative int is its two's complement.
CountEvents(c) ==
  /\ push[c].next = "events"
  /\ ingestEvents' = (ingestEvents + push[c].n) % Modulus
  /\ Advance(c, "bytes")
  /\ UNCHANGED <<vars, batches, ingestBytes, orphans>>

CountBytes(c) ==
  /\ push[c].next = "bytes"
  /\ ingestBytes' = (ingestBytes + push[c].bytes) % Modulus
  /\ Advance(c, "mark")
  /\ UNCHANGED <<vars, batches, ingestEvents, orphans>>

\* Mutant: a push of an unknown agent registers it.
CreditEnrolling(c) ==
  /\ push[c].next = "mark"
  /\ push' = [push EXCEPT ![c] = NoPush]
  /\ \/ MarkPush(push[c].agent)
     \/ /\ ~Known(push[c].agent)
        /\ agents' = Put(push[c].agent.name,
             [org |-> DefaultOrg, project |-> DefaultProject, registeredAt |-> now,
              lastSeenAt |-> now, lastPushAt |-> now, pushCount |-> 1])
        /\ UNCHANGED <<now, enrol>>
  /\ UNCHANGED <<writer, orphans>>

\* MarkPush and the reply.
Credit(c) ==
  /\ push[c].next = "mark"
  /\ push' = [push EXCEPT ![c] = NoPush]
  /\ \/ /\ MarkPush(push[c].agent)
        /\ UNCHANGED orphans
     \/ /\ ~Known(push[c].agent)
        /\ orphans' = orphans + 1
        /\ UNCHANGED vars
  /\ UNCHANGED writer

\* The registry's own requests, by goroutines that are not pushing.
RegistryRequest ==
  /\ \/ \E c \in Caller, w \in WireId, t \in Tenant : push[c] = NoPush /\ Enrol(c, w, t)
     \/ \E c \in Caller : Register(c)
     \/ \E w \in WireId : Heartbeat(w)
     \/ Tick
  /\ UNCHANGED <<writer, push, orphans>>

\* Mutant: only the registry is lost.
RestartHalf ==
  /\ Restart
  /\ UNCHANGED writer
  /\ push' = [c \in Caller |-> NoPush]
  /\ orphans' = 0

\* The process restarts: registry, counters and requests start from nothing.
HubRestart ==
  /\ Restart
  /\ batches' = 0 /\ ingestEvents' = 0 /\ ingestBytes' = 0
  /\ push' = [c \in Caller |-> NoPush]
  /\ orphans' = 0

HubNext ==
  \/ \E c \in Caller, w \in WireId, n \in EventCount, e \in Events, b \in Bytes :
       AcceptPush(c, w, n, e, b)
  \/ \E c \in Caller : CountBatch(c) \/ CountEvents(c) \/ CountBytes(c) \/ Credit(c)
  \/ RegistryRequest
  \/ HubRestart

HubSpec == HubInit /\ [][HubNext]_hubVars

-----------------------------------------------------------------------------
(* Properties. *)

\* Pushes the writer has counted and the registry has not seen yet.
Uncredited == {c \in Caller : push[c].next \in {"events", "bytes", "mark"}}

\* Pushes credited to agents, each as the agent and which of its pushes it was.
Credited == UNION {{i} \X (1..agents[i].pushCount) : i \in DOMAIN agents}

\* SAFETY.  The two halves of a push never drift apart: at any instant every batch
\* the writer counted, in 64 bits, is credited to a registered agent, or came from
\* an agent unknown at that time, or is still between RecordIngest and MarkPush.
PushesAccountedFor ==
  batches = (Cardinality(Credited) + orphans + Cardinality(Uncredited)) % Modulus

\* REFINEMENT.  Seen from the registry, pushing and counting are MarkPush steps or
\* nothing at all, so what is proved of the registry holds of the hub.
RegistryBehaviour == Spec

=============================================================================
