---------------------------- MODULE OamDirectory ----------------------------
(***************************************************************************)
(* internal/oamdir: the hub's read-through view of OAM's organization      *)
(* directory.  Any number of request goroutines run Client.Organizations   *)
(* at once.  A call looks at the in-process cache under the mutex, then,   *)
(* with the mutex released, at the shared second-level cache (opencache,   *)
(* Redis behind it), then asks OAM over HTTP; whatever it found it writes  *)
(* back into the in-process cache under the mutex.  There is no            *)
(* single-flight: what a call read before it released the mutex may be     *)
(* overtaken by what other calls write.                                    *)
(*                                                                         *)
(* A directory is abstracted to the set of its organizations together with *)
(* the instant OAM produced it.  The code does not keep that instant; it   *)
(* is what the staleness properties are about.                             *)
(***************************************************************************)
EXTENDS Integers, FiniteSets

CONSTANTS
  Caller,     \* request goroutines that may be inside Organizations
  Org,        \* organizations that can exist in OAM
  CacheTTL,   \* oamdir.cacheTTL
  L2TTL,      \* cacheTTL*10, the lifetime storeRedis asks for
  CallTime,   \* longest a call may take: HTTP timeout plus cache round trips
  MaxTime     \* bound on the clock

ASSUME TimesAssumption ==
  /\ CacheTTL \in Nat \ {0}
  /\ L2TTL \in Nat \ {0}
  /\ CallTime \in Nat
  /\ MaxTime \in Nat

VARIABLES
  now,        \* the monotonic clock behind time.Now / time.Since
  secretSet,  \* OPEN_SERVICE_JWT_SECRET is non-blank (fixed at start-up)
  oam,        \* OAM's directory
  cached,     \* Client.cached
  cachedAt,   \* Client.cachedAt
  l2,         \* the "oamdir:orgs" entry of the second-level cache
  pc,         \* where each call of Organizations is
  start,      \* when it began
  stale,      \* its local copy "stale"
  got,        \* its local "orgs": what it is about to write back
  answer      \* what the caller's last call returned

client == <<cached, cachedAt>>
locals == <<start, stale, got>>
vars == <<now, secretSet, oam, cached, cachedAt, l2, pc, start, stale, got, answer>>

-----------------------------------------------------------------------------
Directory == [orgs : SUBSET Org, at : Nat]

\* The nil slice: nothing has been cached since the process started.
Nil == [orgs |-> {}, at |-> -1]

L2Entry == [dir : Directory, expires : Nat]
NoEntry == [dir |-> Nil, expires |-> 0]

\* What Organizations returned: a directory that some layer vouched for, the
\* directory kept from before a failed fetch, or an error.
Answer == [kind : {"none", "fresh", "outage", "error"}, orgs : SUBSET Org, age : Nat]
NoAnswer == [kind |-> "none", orgs |-> {}, age |-> 0]
Error == [kind |-> "error", orgs |-> {}, age |-> 0]
Served(kind, d) == [kind |-> kind, orgs |-> d.orgs, age |-> now - d.at]

TypeOK ==
  /\ now \in Nat
  /\ secretSet \in BOOLEAN
  /\ oam \in SUBSET Org
  /\ cached \in Directory \cup {Nil}
  /\ cachedAt \in Nat
  /\ l2 \in L2Entry \cup {NoEntry}
  /\ pc \in [Caller -> {"idle", "loadL2", "fetch", "storeL2", "fill"}]
  /\ start \in [Caller -> Nat]
  /\ stale \in [Caller -> Directory \cup {Nil}]
  /\ got \in [Caller -> Directory \cup {Nil}]
  /\ answer \in [Caller -> Answer]

EveryCaller(v) == [c \in Caller |-> v]

Init ==
  /\ now = 0
  /\ secretSet \in BOOLEAN
  /\ oam \in SUBSET Org
  /\ cached = Nil /\ cachedAt = 0
  /\ l2 = NoEntry
  /\ pc = EveryCaller("idle")
  /\ start = EveryCaller(0)
  /\ stale = EveryCaller(Nil) /\ got = EveryCaller(Nil)
  /\ answer = EveryCaller(NoAnswer)

-----------------------------------------------------------------------------
(* Client.Organizations, one action per section between two releases of    *)
(* control.                                                                *)

\* The call returns a and its locals go out of scope.
Return(c, a) ==
  /\ pc' = [pc EXCEPT ![c] = "idle"]
  /\ start' = [start EXCEPT ![c] = 0]
  /\ stale' = [stale EXCEPT ![c] = Nil]
  /\ got' = [got EXCEPT ![c] = Nil]
  /\ answer' = [answer EXCEPT ![c] = a]

Goto(c, to) == pc' = [pc EXCEPT ![c] = to]

\* The service secret is missing: no token can be minted, every call fails.
NoSecret(c) ==
  /\ pc[c] = "idle"
  /\ ~secretSet
  /\ Return(c, Error)
  /\ UNCHANGED <<now, secretSet, oam, client, l2>>

\* Mutant: the boundary of the expiry test is off by one.
CacheIsFreshLate == now - cachedAt <= CacheTTL /\ cached # Nil

CacheIsFresh == now - cachedAt < CacheTTL /\ cached # Nil

\* First critical section, cache still fresh: answer with a copy of it.
HitCache(c) ==
  /\ pc[c] = "idle"
  /\ secretSet
  /\ CacheIsFresh
  /\ Return(c, Served("fresh", cached))
  /\ UNCHANGED <<now, secretSet, oam, client, l2>>

\* First critical section, cache expired or nil: keep a copy, release the lock.
MissCache(c) ==
  /\ pc[c] = "idle"
  /\ secretSet
  /\ ~CacheIsFresh
  /\ Goto(c, "loadL2")
  /\ start' = [start EXCEPT ![c] = now]
  /\ stale' = [stale EXCEPT ![c] = cached]
  /\ answer' = [answer EXCEPT ![c] = NoAnswer]
  /\ UNCHANGED <<now, secretSet, oam, client, l2, got>>

\* Mutant: the age of the second-level entry is not looked at.
LoadL2Any(c) ==
  /\ pc[c] = "loadL2"
  /\ l2 # NoEntry
  /\ Goto(c, "fill")
  /\ got' = [got EXCEPT ![c] = l2.dir]
  /\ UNCHANGED <<now, secretSet, oam, client, l2, start, stale, answer>>

\* loadRedisStale finds a live entry.
LoadL2Hit(c) ==
  /\ pc[c] = "loadL2"
  /\ l2 # NoEntry
  /\ now < l2.expires
  /\ Goto(c, "fill")
  /\ got' = [got EXCEPT ![c] = l2.dir]
  /\ UNCHANGED <<now, secretSet, oam, client, l2, start, stale, answer>>

\* loadRedisStale finds nothing, or cannot read, decrypt or decode it.
LoadL2Miss(c) ==
  /\ pc[c] = "loadL2"
  /\ Goto(c, "fetch")
  /\ UNCHANGED <<now, secretSet, oam, client, l2, locals, answer>>

\* OAM serves GET /api/tenancy/organizations; the answer travels back.
FetchAnswered(c) ==
  /\ pc[c] = "fetch"
  /\ Goto(c, "storeL2")
  /\ got' = [got EXCEPT ![c] = [orgs |-> oam, at |-> now]]
  /\ UNCHANGED <<now, secretSet, oam, client, l2, start, stale, answer>>

\* Mutant: no fallback.
FetchFailedBare(c) ==
  /\ pc[c] = "fetch"
  /\ Return(c, Error)
  /\ UNCHANGED <<now, secretSet, oam, client, l2>>

\* fetch fails (timeout, non-200, undecodable body): serve the copy taken at
\* the start of the call if it has any entry, else the error.
FetchFailed(c) ==
  /\ pc[c] = "fetch"
  /\ Return(c, IF stale[c].orgs # {} THEN Served("outage", stale[c]) ELSE Error)
  /\ UNCHANGED <<now, secretSet, oam, client, l2>>

\* storeRedis: the write takes, or its error is dropped.
StoreL2(c) ==
  /\ pc[c] = "storeL2"
  /\ l2' \in {l2, [dir |-> got[c], expires |-> now + L2TTL]}
  /\ Goto(c, "fill")
  /\ UNCHANGED <<now, secretSet, oam, client, locals, answer>>

\* Last critical section: whatever this call holds becomes the cache, whoever
\* wrote the cache since, and is returned.
Fill(c) ==
  /\ pc[c] = "fill"
  /\ cached' = got[c]
  /\ cachedAt' = now
  /\ Return(c, Served("fresh", got[c]))
  /\ UNCHANGED <<now, secretSet, oam, l2>>

Organizations(c) ==
  \/ NoSecret(c)
  \/ HitCache(c)
  \/ MissCache(c)
  \/ LoadL2Hit(c)
  \/ LoadL2Miss(c)
  \/ FetchAnswered(c)
  \/ FetchFailed(c)
  \/ StoreL2(c)
  \/ Fill(c)

-----------------------------------------------------------------------------
(* The environment. *)

\* Somebody creates or removes organizations in OAM.
EditDirectory ==
  /\ oam' \in (SUBSET Org) \ {oam}
  /\ UNCHANGED <<now, secretSet, client, l2, pc, locals, answer>>

\* Time passes; no call may have been running for CallTime already.
Tick ==
  /\ now < MaxTime
  /\ \A c \in Caller : pc[c] # "idle" => now - start[c] < CallTime
  /\ now' = now + 1
  /\ UNCHANGED <<secretSet, oam, client, l2, pc, locals, answer>>

\* The hub process restarts.  A second-level entry outlives it in Redis, and is
\* lost when the layered cache had only its in-process level.
Restart ==
  /\ cached' = Nil /\ cachedAt' = 0
  /\ l2' \in {l2, NoEntry}
  /\ pc' = EveryCaller("idle")
  /\ start' = EveryCaller(0)
  /\ stale' = EveryCaller(Nil) /\ got' = EveryCaller(Nil)
  /\ answer' = EveryCaller(NoAnswer)
  /\ UNCHANGED <<now, secretSet, oam>>

Next ==
  \/ \E c \in Caller : Organizations(c)
  \/ EditDirectory
  \/ Tick
  \/ Restart

Spec == Init /\ [][Next]_vars

-----------------------------------------------------------------------------
(* Properties. *)

\* How old an answer may be when no layer admits to an outage: OAM's answer may
\* take CallTime to reach the second-level cache, stay there L2TTL, take another
\* CallTime to be written back, and be served from the process for CacheTTL.
FreshWithin == CacheTTL + L2TTL + 2 * CallTime

\* SAFETY.  Every answer that is not the outage fallback describes OAM as it was
\* less than FreshWithin ago (two units less: both expiry tests are strict),
\* whatever the interleaving of callers, restarts and failing cache writes
\* (Organizations, loadRedisStale and storeRedis taken together).
ServedAgeBound ==
  \A c \in Caller : answer[c].kind = "fresh" => answer[c].age + 2 <= FreshWithin

\* ACTION PROPERTY.  Calls overtake one another and the last writer wins, so the
\* cache can go back to an older directory; but never further back than an entry
\* of the second-level cache can be old (the unguarded writes to c.cached).
ViewRegressionBounded ==
  [][cached # Nil /\ cached' # Nil => cached.at - cached'.at < L2TTL + 2 * CallTime]_vars

\* ACTION PROPERTY.  While the client holds organizations, a failed fetch does not
\* surface as an error: "a brief OAM outage must not blank out every product's org
\* picker" (oamdir_test.go).  FetchFailed answers from the copy taken when the call
\* began, so organizations cached by other calls since then do not count.
OutageServesKnownOrgs ==
  [][\A c \in Caller :
       pc[c] = "fetch" /\ answer'[c] = Error => cached.orgs = {} \/ cachedAt >= start[c]]_vars

\* SAFETY.  "cacheTTL bounds how stale the hub's view can be" (oamdir.go:19): no answer
\* that is not the outage fallback describes OAM as it was longer ago than that, the
\* time of calls set apart.  It does not hold: a copy found in the second-level cache,
\* which keeps it for ten times as long, is cached anew as if OAM had just answered
\* (Organizations).
CacheTTLBoundsView ==
  \A c \in Caller : answer[c].kind = "fresh" => answer[c].age <= CacheTTL + 2 * CallTime

(***************************************************************************)
(* The inductive invariant behind ServedAgeBound and ViewRegressionBounded: *)
(* where a directory can be at each point of a call, and how old it is.    *)
(***************************************************************************)

\* A running call started at most CallTime ago.
CallsInTime ==
  \A c \in Caller : pc[c] # "idle" =>
    start[c] <= now /\ now <= start[c] + CallTime

\* A second-level entry was stored within CallTime of OAM's answer.
L2Age ==
  l2 # NoEntry =>
    /\ l2.dir \in Directory
    /\ l2.dir.at <= now
    /\ l2.expires <= l2.dir.at + CallTime + L2TTL

\* A call about to store holds an answer of OAM to this very call; a call about
\* to fill holds that or a second-level entry that was live during the call.
GotAge ==
  \A c \in Caller :
    /\ pc[c] \in {"storeL2", "fill"} =>
         got[c] \in Directory /\ got[c].at <= now
    /\ pc[c] = "storeL2" => start[c] <= got[c].at
    /\ pc[c] = "fill" => start[c] < got[c].at + CallTime + L2TTL

\* The cache was filled with something younger than L2TTL plus two calls.
CacheAge ==
  cached # Nil =>
    /\ cached \in Directory
    /\ cached.at <= cachedAt /\ cachedAt <= now
    /\ cachedAt < cached.at + L2TTL + 2 * CallTime

\* The copy a call keeps was the cache, so it does not lie in the future.
StaleIsPast ==
  \A c \in Caller : stale[c].at <= now

IInv == TypeOK /\ CallsInTime /\ L2Age /\ GotAge /\ CacheAge /\ StaleIsPast /\ ServedAgeBound

\* Behind OutageServesKnownOrgs: until a call has its answer from OAM, the copy it
\* keeps is the cache, or the cache was filled since the call began.
StaleCovers ==
  \A c \in Caller :
    /\ pc[c] # "idle" => answer[c] = NoAnswer
    /\ pc[c] \in {"loadL2", "fetch"} => stale[c] = cached \/ cachedAt >= start[c]
=============================================================================
