# A TLA+ model of OPA-Hub

OPA-Hub is the hub of an observability platform: edge agents register with it
and push telemetry, dashboards query it, and its sister services discover
organizations through it. It is one Go process (`main.go`, `internal/`) with
one goroutine per HTTP request, a little in-memory state behind mutexes and
atomics, and two peers: ClickHouse, which holds all telemetry and configuration
tables, and OAM, which holds the organization directory and, optionally, user
identities.

This directory holds TLA+ modules for the parts of the hub that keep state or
whose answers depend on the order of events, TLC configurations that check them
on small instances, and TLAPS proofs of their main properties for every value
of the constants. `PROJECT.json` lists the runs, the source lines behind every
definition, the mutants each property is tested with, and the hazards.

    tlc -config MCOamDirectory_calls.cfg MCOamDirectory     # a model-checking run
    tlapm TenancyPickerProofs.tla                           # a proof module

## Inventory of the system

| part | code | state | operations | what is hard |
|---|---|---|---|---|
| agent registry | `internal/registry` | map of agents behind an RWMutex, lost on restart | Register, Heartbeat, MarkPush; List, Get, ListScoped, Organizations | Register reads the clock before the lock; three copies of the tenant test |
| edge ingest | `internal/ingest`, `internal/store` | three atomic counters | ServePush: count the batch, then credit the agent | two halves of one push; unknown agents; a signed count in an unsigned counter |
| directory client | `internal/oamdir` | cached directory and its time, behind a mutex; a copy in Redis | Organizations | no single-flight, two cache lifetimes, stale copies, failing peer |
| tenancy discovery | `internal/server/tenancy.go`, `oam_projects.go` | none of its own | organization picker, project list | combines two views taken at different times |
| authentication | `internal/auth` | local users in memory, secrets | login, register, logout, status, role middleware | two identity homes, tokens outlive a restart |
| alerts | `internal/query/alerts.go` | rows in ClickHouse | create, update, delete, test delivery | upserts over a replacing table, a poll that races the delivery |
| SLOs, synthetics | `internal/query/slos.go`, `synthetics.go` | rows in ClickHouse | create, update, delete, status | mutations applied late, partial updates |
| error inbox | `internal/query/extras.go` | rows in ClickHouse | list, triage | read-modify-write without a lock |
| diagnostics | `internal/query/diagnostics.go` | a flag behind a mutex, four tables | lazy DDL, release markers, ranking of suspects | partial failure of the DDL, markers versioned by a client's time |
| logs, dumps | `internal/query/logs.go`, `span_queries.go` | none | pages by cursor, histogram, facets | rows arrive late and share milliseconds |
| traces | `internal/query/traces.go` | none | list by offset, detail, full detail | list, total, spans and payloads are read at different times |
| browser sessions | `internal/query/rum.go`, `rum_replay.go` | none | sessions and what happened in one | cumulative beacons, repeated, reordered, lost |
| metrics | `internal/query/metrics.go`, `metrics_tiers.go` | none | ranges over roll-ups of several resolutions | tables forget between the choice of tier and the query |
| service map | `internal/query/service_map.go`, `service_map_external.go` | thresholds in ClickHouse | map, thresholds, traces of an edge | eight queries put together, most of which may fail |
| other reads | the rest of `internal/query` | none | one query in, JSON out | - |
| wiring | `internal/server/server.go`, `internal/config`, `main.go` | none after start-up | routes, environment | - |

Interactions: `ServePush` calls the writer, then the registry. The organization
picker calls the directory client, falls back on the registry, and takes agent
counts from the registry in both cases. The middleware of `internal/auth` runs
before every handler of `internal/query`, which adds a tenant filter to its SQL.
The handlers of `internal/query` meet in ClickHouse only: every one of them is a
sequence of statements with other requests, and the writers of telemetry, between.

## What makes each part correct

- Agent registry: contact never makes an agent look older, history survives
  re-registration, the list, the detail page and the picker apply one tenant test.
- Edge ingest: the writer's counts and the registry's credits account for the same pushes.
- Directory client: an answer is not older than the caches' lifetimes allow,
  overlapping calls cannot take the cache back further than that, an outage does
  not hide known organizations.
- Tenancy picker: a change in OAM shows after a bounded time.
- Authentication: nobody holds a role that was not given, one identity home at a
  time, tokens do not outlive an ephemeral secret.
- Rules (alerts, checks, SLOs): an undisturbed write is what reads find, deleted
  checks do not come back by themselves, a tenant's rules change by its own requests and by
  updates that see the tenant.
- Alert test: bounded wait, a true answer, synchronous while the leader is healthy,
  every test answered.
- Error inbox: a request of one tenant changes the field it names and no other, unless it
  races; the list and a group's page agree.
- Diagnostics: the tables exist once a request got past their creation, one request
  at a time creates them and none waits for ever; the marker shown is the one meant
  to count; a release is blamed for what came after it.
- Reads: pages neither repeat nor skip rows, what belongs to one answer adds up
  although it was read at different times, a failed part leaves the rest of the answer whole.

## Modules

**OamDirectory** (`internal/oamdir`). One action per stretch of
`Client.Organizations` between two points where other goroutines can run: the
first critical section (`HitCache`, `MissCache`), the second-level lookup
(`LoadL2Hit`, `LoadL2Miss`), the request to OAM (`FetchAnswered`,
`FetchFailed`), the second-level write (`StoreL2`) and the last critical
section (`Fill`). The locals `stale` and `orgs` of a call are the variables
`stale` and `got`. The environment edits the directory, lets time pass and
restarts the hub. A directory carries the instant OAM produced it; the code has
no such field, the properties are about it. OAM sends a list, never JSON
`null`, so a directory is never the nil slice.

**AgentScope** (`internal/registry`, read side). Pure operators: the tenant
test of the list (`ListScoped`), of the detail page (`InScope`, `Found`) and
the summary for the picker (`OrganizationsOf`). Headers are resolved to contexts
by the opentenant library, outside the repository; contexts are a constant.

**AgentRegistry** (`internal/registry`, over AgentScope). The registry and its
writers. `Register` is two actions, `Enrol` (clock, id, defaults) and `Register`
(critical section), because the code reads the clock before it waits for the
mutex; `Heartbeat` and `MarkPush` are one each.

**EdgeIngest** (`internal/ingest`, `internal/store`, extends AgentRegistry).
A push is five steps: accept, three atomic additions, credit. `HubSpec` is the
composition; the registry's own actions are steps of it.

**TenancyPicker** (`internal/server/tenancy.go`, extends OamDirectory and
AgentScope; the composition is `PickerSpec`). `Ask`, then the steps of the directory call
(`Consult`), then `Compose`: list, counts, scoping. The registry is read at
`Compose`, the directory at some point before, and both change in between.

**IdentityHome** (`internal/auth`). Logins, registrations and the role gate,
with the hub as identity home and beside OAM. The environment is chosen anew at
each restart; users and an ephemeral secret are lost, tokens are not. Beside OAM a token
must name `oam-api` as its issuer or none at all. Roles are `openauth`'s, OAM grants and
changes roles as it likes.

**RuleStore** (`alerts.go`, `synthetics.go`, `slos.go`). The three tables, the
requests on them one statement at a time, and ClickHouse's part: replacing tables
read with `FINAL`, mutations that are applied after the reply. The DDL of these
tables is not in the repository; that rules are told apart by tenant and id and
versioned by `updated_at` is taken from `docs/ownership.md` and the statements.
An SLO update is modelled with the `WHERE` it has, which names the id alone. A request has
a tenant it writes to and a set of tenants it sees, which need not be the same
(`X-Project-IDs`, or no headers at all): an update writes where it found the rule.

**AlertTest** (`alerts.go`, `POST /api/alerts/{id}`). The handler as a chain of
queries and pauses with a deadline, each query possibly failing; the edge leader
delivers requests, or not, and fires rules by itself.

**ErrorInbox**, **ErrorTriage** (`extras.go`: `writeErrorGroupStatus` and the triage
columns of `ServeErrors`). ErrorInbox is the promise: a status and an assignee per
tenant, each request sets one of them and carries the other over from what it sees.
ErrorTriage is the code: a query, a merge, an insert, and requests overlapping; the join and
filter with which the list shows the same rows, and the page that shows one of them.

**Diagnostics** (`diagnostics.go`). `Lock`, `Create` and `CreateFailed` are
`ensureDiagnosticsTables` under `diagDDLMu`, one statement per step; a post takes its
time (`TakeTime`) and writes (`PostDone`, `PostFailed`: a lost insert may have had its
effect); the ranking reads the markers, then two shares of errors for each
(`ReadMarkers`, `ReadAfter`, `ReadBefore`, `Rank`) while spans arrive. A query that
fails counts as what the code takes it for: nothing found, or no errors. `Restart`
drops the flag, not the tables.

**LogPages** (`logs.go`, and the dumps of `span_queries.go`). A client's session: a
page (`ReadPage`), for logs the three counting queries (`CountHistogram`, `CountFacet`
twice, each with its own `CountFailed`), the answer and the next cursor (`Reply`). Rows, and the
spans that vouch for a log's tenant, arrive at every point with any time. A window has fixed
bounds or is the default one, `now() - INTERVAL 7 DAY`, which moves between the queries
(`Slide`). `IsPage` is `ORDER BY ... DESC LIMIT`, with ties open; `IsFacet` keeps the values
with the most rows. The cursor of the dumps is their span's start, or a dump's own time if
that start cannot be read (`NextCursor`).

**RumReads** (`rum.go`, `rumDedupe` of `helpers.go`). Browsers send a page view again
and again with all that has happened on it (`Flush`), the edge writes beacons late,
twice or never (`Write`). The hub makes one row of each page view when it reads,
for the list of sessions and for the three lists of an opened session, each cut at its
limit (`Cap`; the sums in the list of sessions are not). What happened is counted as pairs
of a page view and a number.

**TraceReads** (`traces.go`). The list of traces by offset, with its total a query
later, sorted by start or by creation; the trace opened from a row, and its full form,
two queries each, while spans and payloads are written. Both bounds of the list may be
relative to `now()`, and then move between its queries (`MoveWindow`).

**ServiceMap** (`service_map.go`, `service_map_external.go`). A request reads
its thresholds, edges, four kinds of dependencies, services and their totals in eight
queries (`LoadMapThresholds` to `ReadStats`), all but the second of which may fail
unnoticed; spans arrive and the window slides between. `Answer` puts nodes and edges
together, `Health` grades them by thresholds other requests set (`SetThresholds`). Calls
are the rows of a join, a child and a parent (`Calls`): a span may be in the table several times,
under one tenant or several. The traces behind an edge are looked up by a join of their own,
which takes parents of any tenant and no child without a trace id (`EdgeTraces`).

**MetricRanges** (`metrics.go`, `metrics_tiers.go`). A range query: the clock, series
by label whenever a label is asked for, tier and step, the query, while tables forget by their retention. An
aggregate is the set of samples it is made of, so what is lost or counted twice shows.

**SpanReads** puts ServiceMap, TraceReads and MetricRanges side by side, a behaviour being
about one of them; they share nothing but ClickHouse.

Theorems are in **TenancyPickerProofs** (OamDirectory and TenancyPicker),
**EdgeIngestProofs** (AgentRegistry and EdgeIngest), **ErrorTriageProofs**, **AlertProofs**
(AlertTest and RuleStore), **IdentityHomeProofs**, **DiagnosticsProofs**,
**SignalReadsProofs** (LogPages and RumReads) and **SpanReadsProofs** (ServiceMap,
TraceReads and MetricRanges). The **MC** modules give the constants their values for TLC;
MCSignalReads also puts LogPages and RumReads side by side.

The operators marked *Mutant* in a comment are deliberate faults: each replaces
the definition it stands next to when a property's ability to fail is tested.
They are used nowhere else.

## Runs

| run | configuration | shows |
|---|---|---|
| `oam_calls` | 2 callers, 1 organization, lifetimes 1 and 2, calls of 1, time to 4 | dated answers, bounded regression, outage fallback |
| `agents` | 2 callers, 2 ids (one a reserved word), 2 tenants, 48 contexts, 1 push, time to 2 | times, history, and the three copies of the tenant test |
| `ingest_push` | 2 callers, 2 agents, 3 forms of events, 3 batches, time to 1 | accounting, refinement of AgentRegistry |
| `picker` | 1 caller, 1 organization, 1 agent, 7 contexts, time to 5 | delay of changes |
| `oam_stale` (violation) | 1 caller, lifetimes 1 and 10, time to 3 | an answer older than `cacheTTL` |
| `rules` | 2 callers, 2 tenants sharing an id, contexts that see one or both, 2 definitions, 3 requests, time to 2 | writes show, deletions, tenants |
| `triage_races` | 2 callers, 2 tenants, contexts that see one or both, 2 assignees, 3 requests | who can lose a field; list and page agree |
| `tests` | 2 callers, 1 rule, 2 requests, deadline 3 | true answers in time, every test answered |
| `identity_homes` | 2 users, every environment, 2 restarts, 2 tokens, with an issuer or none | roles, ephemeral tokens |
| `diagnostics` | 2 clients, 1 release, time to 1, 2 spans | tables, mutex, markers, blame, every request answered |
| `signals` | 3 rows, pages of 2, facets of 1, 2 instants, a fixed and a relative window; 3 page views in 2 sessions, 3 beacons, 3 rows, lists of 1 and 2 | cursor paging and its end; counts cover their page; sessions add up |
| `span_reads` | 3 rows from 6 spans and 3 dependency calls of 2 tenants, one span written twice, two without a trace; 3 traces, pages of 1, 3 spans, time to 2, a window that may slide; 3 tiers, time to 5, 2 samples | whole maps, pages and details, ranges without gaps |

Why the bounds are enough to be interesting. In `oam_calls` time reaches past
FreshWithin less two, where a late expiry test shows, and two overlapping calls
are what it takes to overtake. The clock of `agents` passes StaleAfter with a
registration waiting for the mutex across a tick. Three batches and two agents let
pushes of a known and an unknown agent overlap with a restart between. Three
requests on the rules are a creation and then a deletion that an update overlaps. Two
restarts of the identity home lead away from a configuration and back to it. Two
clients of diagnostics are one at a statement and one waiting; a span before a
deployment and one after it make a share rise. Three rows fill a page of two with one
left, and two instants make two of them share a millisecond. Three beacons are a page
view, its sequel and another view. Three rows of the map are a caller, its callee and a
call that leaves the map, in either tenant, or a parent written twice and its child. The
list of traces has a window with a lower bound that may slide past the first of two instants; it is
sorted by creation, the default, in either order (the proofs are of both sorts). A facet of one
value is full with two services in the list, and lists of one and two entries are cut by two page
views. Requests that see both tenants read and write where others do. Five seconds outlive every tier. Each
property is shown able to fail by a mutant under the same bounds. What the bounds
cannot show (more callers, more contexts, longer times) the theorems cover: every safety
property of a passing run is also proved.

`tests`, `rules` and `triage_races` stop when their requests are used
up, so these do not check for deadlock; the others do.

Symmetry is used where all the run's properties are safety properties or actions and
the permuted values are told apart by nothing.

## Fairness

Three runs check liveness.

- `tests`: time passes and each handler runs (weak fairness of `Tick` and of each
  `Handler`): Go runs runnable goroutines, and queries end, with an error or without.
  Nothing is asked of the edge leader, which may never deliver.
- `diagnostics`: the steps of a request are weakly fair for the same reason; `Lock` is
  strongly fair, because a `sync.Mutex` is handed to a waiter that has been passed over
  for a millisecond, however often others take it. Statements may always be the failing
  ones.
- `signals`: the handler and the client that goes on asking are weakly fair (`Step`).
  Rows may arrive for ever; the cursor moves back all the same.

## Proofs

All for every value of the constants that their ASSUMEs allow. Each proof rests on an
inductive invariant, which the property alone is not:

- OamDirectory: `IInv` dates every place a directory can be. A second-level entry
  expires L2TTL after OAM's answer plus the call that stored it; a call about to
  fill holds an entry that was live after the call began; so the cache was filled with
  something younger than L2TTL plus two calls. `ServedAgeBound` follows at `HitCache`
  and `Fill`, `ViewRegressionBounded` from two successive caches. `StaleCovers` adds
  that the copy a call keeps is the cache, or the cache was filled since: the outage
  property.
- TenancyPicker: the composition takes the client's steps only
  (`PickerRefinesDirectory`), so `IInv` holds of it. `PickerInv` adds what the copies say:
  each one, in the cache, the second level, a call's locals or an answer, is right about
  every organization that has not changed since the instant it is dated
  (`CopiesStayAccurate`). An organization unchanged for the length `IInv` allows a copy is
  then listed as it is (`ChangesReachThePicker`).
- AgentRegistry: `IInv` says that a registration waiting for the mutex carries a time at
  most LockWait old, and that the times in a record agree up to that. Hence
  `PushKeepsOnline` and `ContactRefreshes`. `HistoryKept` is by cases on the actions;
  `ListGetAgree`, `NoCrossTenant` and `PickerCountsListed` hold of every registry,
  reachable or not, which is why they are proved from the operators alone.
- EdgeIngest: typing of the pushes in progress, then every step is a step of
  AgentRegistry or leaves its variables alone (`Refinement`); recent pushes keep agents
  online in the composed system because they do in AgentRegistry. `PushesAddUp` counts the
  pushes agents were credited with as a set of pairs, an agent and a number, and shows
  that it, the orphans and the pushes between counter and credit together have the
  counter as their remainder by its width, step by step, restarts included.
- ErrorTriage, for every set of contexts: `NoValueInvented` needs that the seed a request
  carries shows values asked for in its tenant, if those who write there see no other
  (`KeptApart`); `UnovertakenKeepTheOther` that the seed of a request that sees its tenant alone
  (`SeesOwn`) and is not overtaken is what readers see. `ListShowsPage` compares the rows a
  filter leaves with the rows the page can take, whichever tenants they are of.
  `SequentialRefinement` assumes `Sequential` (one goroutine, reads that do not fail): then
  ErrorTriage implements ErrorInbox. This refinement is proved and not run.
- AlertTest: `WaitsInv` says that every query began before the deadline and every pause
  after such a query, which bounds the wait; `ShownInv` dates the delivery against what
  the polls so far have missed, so a call that gives up cannot have overlooked a delivery
  that was there when its last query began; `RequestsInv` gives each request a row of its own.
- RuleStore, for every set of contexts: `RuleInv` says
  that what a request read is of a tenant in its sight, and until another statement on that rule
  overtakes it what everybody reads there (`HoldsRule`) and no row of the rule is later than the stamp of what
  it is about to insert (`Newest`); a deletion waiting to be applied hits the tenant it is by
  and no other (`MutationsSound`). `WritesShow` and `DeletedStaysDeleted` follow, about the tenant
  a rule was read from; `RulesOfTenantsApart` is by cases on the actions, an insert into another
  tenant being an update that found its rule there (`HoldsRule`).
- IdentityHome: `SourcesGranted` (what OAM and the seed can hand on was granted), `SeedOnly`
  (beside OAM no user is ever added) and `KeysDrawn` (a drawn key was drawn by a process so
  far). One test of the issuer then keeps the homes apart (`HomesApart`), and a fresh draw
  forgets every token (`RestartsForget`), given that no configured secret is what a process
  draws.
- LogPages: a page stays within what it was chosen from, since rows and spans only arrive
  (`PageInv`); rows of earlier pages are not before the cursor (`SeenInv`); what was in the
  list at first has been shown, is cut off by a millisecond, or lies ahead of the cursor
  (`AskedInv`), the last of which paging to the end excludes. A row of the page that a counting
  query leaves out is before the bound that has moved since, or has a value past the limit of
  the facet: the page was within the window when it was read, and bounds move forward only.
- RumReads: beacons are cumulative (`Cumulative`), so a row made of some beacons of a
  session counts no more than one made of all: widening the set of rows is an injection
  on page views, and counts compare by an injection on pairs. `RowsFounded` says that
  every listed row was made of rows its session still has, `FoundEnough` that what an
  opened session has found so far is no less than its row, each cut at the list's limit, which
  keeps their order. `SessionsNeverOverstate` bounds
  the list by what happened; `LastBeaconsSuffice` turns the bound into an equality, page
  views and their rows being in bijection once each last beacon is in.
- Diagnostics: the tables before the one a request is at are there (`StatementsInOrder`), and
  only the holder of the mutex is among them; a post without a rival is at least as late as
  every marker of its release (`PostInv`); a release with anything counted after its
  deployment is past, so the hour before it no longer changes (`TallyInv`, `FoundInv`).

- TraceReads: `PlaceInv` says that the next page does not begin after the place of a trace
  that was there at first and has not been met: the offset is at most the number of traces
  that sort before it, which only grows, for traces that arrive later sort before it too.
  A bound that moves keeps this as long as it leaves every trace of the list its key; `adrift` is
  that it did not.
  `DetailInv` says that an opened trace has at least the spans its row promised, and the
  payloads there were when it was opened.
- MetricRanges: a tier is chosen among those that reach back far enough and are fine
  enough, and the step from what the points allow: arithmetic of quotients
  (`TierCovers`, `StepBounds`). A sample is then drawn or missing
  for a reason `NothingMissing` lists, which `RangeInv` carries from the choice of the
  series to the answer.
- ServiceMap: `EdgesInv` (edges read are edges of spans read), `NamesInv` (their ends are
  named by the services or the dependencies read) and `TotalsInv` (calls into a service,
  summed over its edges, are no more than its spans, where each of these has one parent row):
  a call is then told by its child, and the calls of two edges have none in common. Sums over finite sets come from well-founded induction
  over cardinality (`SumsExist`, `SumLaws`). Services and totals are read after the edges and
  spans only arrive, or the window slid and the request does not count.

Type invariants are stated once per module and proved with the rest. `RuleInv`, `RumInv`,
`PickerInv` and every `IInv` hold on the instances of the runs too; the configurations list
the properties only.

Only model-checked: liveness, that is `EveryTestAnswered`, `EveryRequestAnswered` and
`PagingEnds`, because the prover has no rules for fairness and ENABLED. Only proved:
`SequentialRefinement`, `HomesApart`, `WaitsEnd`, `DeploymentsAdvance` and what the
inductive invariants say.

## Disagreements between code and documents, and other surprises

One has a run, `oam_stale`: `oamdir.go:19` says that `cacheTTL` bounds how stale the hub's view
can be. A copy found in Redis, stored for ten times as long, is dated anew (`oamdir.go:103-108`),
so the view may be almost eleven lifetimes old; `ServedAgeBound` says what does hold.

Met while modelling, without a run of their own:

- `docs/security.md:21` says that beside OAM a registration is proxied to OAM;
  `ServeRegister` answers 503 (`auth.go:121`), and its test expects that.
- `oamdir_test.go:66` says a client serves its last known directory in an outage; it serves
  the one known when the call began (`oamdir.go:100`, `113`).
- `registry.go:291` says the picker lists the organization ids of registered agents; it
  lists them trimmed (`registry.go:299`), and the list compares them untrimmed.
- A negative `event_count` takes events off the counter (`clickhouse.go:81`, `88`).
- An update that read a check before its deletion was applied brings the check back, though
  the deletion was acknowledged (`synthetics.go:81`); `ChecksReturnOnlyByRace` says that
  nothing else does.
- `extras.go:310` drops the error of a triage request's first query: after it an assignment
  reopens a resolved group.
- Two triage requests on a group that overlap can undo one another (`extras.go:308-331`): the
  later insert carries the other field as it was. `OnlyRacesLoseFields` says that only this and a
  failed first query do, for requests that see one tenant.
- A triage request that sees several tenants (no headers, or `X-Project-IDs`) reads any one of
  their rows (`LIMIT 1`) and inserts that row's other field under its own tenant; likewise an
  update of an alert or a check writes to the tenant of the rule it found (`alerts.go:147`), but a
  deletion goes to the request's own.
- `traces.go:64` says entry spans are preferred for a trace's service; the query takes any.
- A page after the first drops the request's own time window, its cursor replacing both ends
  (`logs.go`, `span_queries.go`). For dumps `has_more` compares the number of dumps with a
  limit on spans, so paging may end early or repeat a span's dumps; `NothingSkipped` excludes
  such pages by `uneven`. If a span's start cannot be read the cursor is a dump's time
  (`span_queries.go:539`), by which paging may skip spans or never end; `adrift` marks these.
- A first page of logs without `from` is over `now() - INTERVAL 7 DAY`, evaluated anew by the
  histogram and the facets, so these may lack a row the page shows (`logs.go:97`); and a facet
  has 20 values at most (`logs.go:200`).
- An opened session lists 200 page views, 500 requests and 200 errors at most
  (`rum.go:176`, `185`, `191`), while the sums of its row in the list are of everything.
- Paging through traces by offset under a bound relative to `now()` passes over traces once the bound
  has moved past one before them, which the dashboard's expressions make possible (`query.go:248`).
- An edge of the service map counts rows of a join: a parent that is in the table twice counts its
  child twice, so a service may show more calls than spans. An edge all of whose calls
  lack a trace id has no trace to open (`service_map.go:302`).
- The logs of a trace page go by the log's own tenant columns, the explorer also by the
  tenants of the trace's spans.
- A post of thresholds resets the fields it does not name; a zero is acknowledged and shown,
  and the map uses the default.
- The traces behind an edge are filtered by the callee's tenant only.
- A failed query for the hour before a deployment counts as an hour without errors, and a
  release may be blamed on it; `BlameIsFounded` excludes these by `sure`.
- A roll-up that begins before the range is left out, one that begins within it and ends
  after it is included whole; a range older than every table ignores the number of points.
- Two nodes of a map may share an id when a dependency is recorded under the bare name of a
  service.

## Hazards without a property

Six of the hazards in `PROJECT.json` have no property: the negative count above (no
document says what an edge may send), tokens of another home (the theorem `HomesApart`
covers it; a token that names no issuer is taken, `auth.go:63`), external names that coincide (nothing
says node ids are different), the uneven and adrift pages of dumps (nothing says what `has_more`
means there), a correction of a release marker with an earlier time (ignored by the version
column, as the theorem `DeploymentsAdvance` has it), and a failed query for the hour before a
deployment. The properties nearest to the last three name these cases as exceptions. What the
picker shows when the directory errs is covered only as far as `OutageServesKnownOrgs` bounds when that happens.

## Plan

Order: what is shared by all products first (directory, registry, ingest), then state
that several requests change, then the readers, those that put several queries together
before those that make one.

1. Done: all modules above, their runs, and the proofs of all their safety properties.
2. What is left to prove: nothing the prover can reach. `SequentialRefinement` alone assumes
   more than its module's ASSUME, that requests do not overlap.
3. What is left to model: the lists that page by offset over one aggregate query
   (SQL, Redis and HTTP calls), which differ from TraceReads in what they aggregate only.

## Not modelled

- Read handlers that turn one query into JSON (`services.go`, `db_monitoring.go`,
  `profiles.go`, `compare.go`, `anomalies.go`, `ops_reads.go`, `platform_ops.go`,
  `explore_facets.go`): what they answer is in the SQL, which ClickHouse evaluates at one
  moment. The same goes for single reads of modelled parts: the firing history, the overview,
  vitals and replays of browser sessions, metric catalogues, a heap snapshot by its id.
- Fixed limits on rows of queries that do not page: 100 sessions in their list, 200 traces
  of an edge, and those of the catalogues and rankings (up to 5000). The limits of facets (20) and of an
  opened session's lists (200, 500, 200) are in the model, as constants.
- Sorting by columns other than times, filters that all queries of a request share.
- The wiring of `server.go`, `config.go` and `main.go`, which runs once.
- Passwords, token signatures, tenant claims and service tokens, and encryption, which
  belong to libraries outside the repository. Edge agents and browsers appear as the
  environment.
