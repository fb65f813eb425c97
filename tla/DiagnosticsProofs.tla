------------------------- MODULE DiagnosticsProofs -------------------------
(***************************************************************************)
(* Proofs about Diagnostics, for every number of clients, every set of     *)
(* tenants and releases, and every length of the windows.                  *)
(***************************************************************************)
EXTENDS Diagnostics, FiniteSetTheorems, TLAPS

Tally == [errors : Nat, n : Nat]
Blame == [marker : Marker, after : Tally, sure : BOOLEAN, score : Nat]

DataOK ==
  /\ TypeOK
  /\ IsFiniteSet(spans)
  /\ tally \in [Client -> Tally] /\ found \in [Client -> SUBSET Blame]

\* The tables before the one a request is at are there.
StatementsInOrder ==
  \A c \in Client :
    /\ pc[c] = Ddl[2] => Ddl[1] \in tables
    /\ pc[c] = Ddl[3] => {Ddl[1], Ddl[2]} \subseteq tables
    /\ pc[c] = Ddl[4] => {Ddl[1], Ddl[2], Ddl[3]} \subseteq tables

TableInv == TablesBeforeQueries /\ OneAtATheStatements /\ StatementsInOrder

\* Without a rival no marker of the release is later than the time the post took.
PostInv ==
  \A c \in Client : pc[c] = "write" /\ ~ rival[c] =>
    \A o \in Shown(ask[c].tenant, ask[c].release) : o.deployed <= stamp[c]

\* What follows a deployment has come after it, so what precedes it is settled.
TallyInv == \A c \in Client : \A k \in cur[c] : tally[c].n > 0 => k.deployed <= now

FoundInv ==
  \A c \in Client : \A s \in found[c] : s.score >= 80 /\ s.sure =>
    s.marker.deployed <= now /\ Worse(s.after, Preceding(s.marker.tenant, s.marker.deployed))

IInv == DataOK /\ TableInv /\ PostInv /\ TallyInv /\ FoundInv

-----------------------------------------------------------------------------
LEMMA TimeIs == Time \subseteq Nat /\ Missing \notin Nat
BY DiagnosticsAssumption DEF Time, Missing

\* Counts of spans are numbers, and a positive one has a span behind it.
LEMMA ShareIs ==
  ASSUME IsFiniteSet(spans), NEW S \in SUBSET spans
  PROVE  /\ Share(S) \in Tally
         /\ Share(S).n > 0 => S # {}
<1>1. IsFiniteSet(S) /\ IsFiniteSet({s \in S : s.error})
  <2>1. {s \in S : s.error} \subseteq spans
    OBVIOUS
  <2> QED
    BY <2>1, FS_Subset
<1>2. Cardinality(S) \in Nat /\ Cardinality({s \in S : s.error}) \in Nat
  BY <1>1, FS_CardinalityType
<1>3. Cardinality(S) > 0 => S # {}
  BY FS_EmptySet
<1> QED
  BY <1>2, <1>3 DEF Share, Tally

LEMMA UnknownIs == Unknown \in Tally /\ Unknown.n = 0
BY DEF Unknown, Tally

\* An insert keeps one marker for a release, never an older one than before, and
\* leaves the other releases alone.
LEMMA InsertIs ==
  ASSUME DataOK, NEW k \in Marker
  PROVE  /\ Insert(k) \subseteq Marker
         /\ \A m, o \in Insert(k) : m.tenant = o.tenant /\ m.release = o.release => m = o
         /\ \A m \in markers : \E o \in Insert(k) :
              o.tenant = m.tenant /\ o.release = m.release /\ o.deployed >= m.deployed
         /\ \A o \in Insert(k) : o \in markers \/ o = k
         /\ (\A o \in Shown(k.tenant, k.release) : o.deployed <= k.deployed) => k \in Insert(k)
<1>1. markers \subseteq Marker /\ \A m, o \in markers : m.tenant = o.tenant /\ m.release = o.release => m = o
  BY DEF DataOK, TypeOK
<1>2. \A m \in Marker : m.deployed \in Nat
  BY TimeIs DEF Marker
<1>3. CASE \E o \in Shown(k.tenant, k.release) : o.deployed > k.deployed
  <2>1. Insert(k) = markers
    BY <1>3 DEF Insert
  <2>2. ~ \A o \in Shown(k.tenant, k.release) : o.deployed <= k.deployed
    BY <1>1, <1>2, <1>3 DEF Shown
  <2> QED
    BY <1>1, <1>2, <2>1, <2>2
<1>4. CASE ~ \E o \in Shown(k.tenant, k.release) : o.deployed > k.deployed
  <2>1. Insert(k) = (markers \ Shown(k.tenant, k.release)) \cup {k}
    BY <1>4 DEF Insert
  <2>2. \A o \in Shown(k.tenant, k.release) : o.deployed <= k.deployed
    BY <1>1, <1>2, <1>4 DEF Shown
  <2> QED
    BY <1>1, <1>2, <2>1, <2>2 DEF Shown
<1> QED
  BY <1>3, <1>4

-----------------------------------------------------------------------------
LEMMA InitIInv == Init => IInv
<1> SUFFICES ASSUME Init PROVE IInv
  OBVIOUS
<1> USE DiagnosticsAssumption DEF Init
<1>0. (CHOOSE a \in Asks : TRUE) \in Ask
  OBVIOUS
<1>1. /\ now \in Time /\ holder \in Client \cup {Nobody} /\ ready \in BOOLEAN
      /\ pc \in [Client -> Phase] /\ ask \in [Client -> Ask] /\ stamp \in [Client -> Time]
      /\ todo \in [Client -> SUBSET Marker] /\ cur \in [Client -> SUBSET Marker]
      /\ rival \in [Client -> BOOLEAN]
  <2>1. ask \in [Client -> Ask]
    BY <1>0, Zenon
  <2>2. rival \in [Client -> BOOLEAN] /\ ready \in BOOLEAN
    BY Zenon
  <2> QED
    BY <2>1, <2>2 DEF Time, Phase
<1>2. TypeOK
  BY <1>1 DEF TypeOK
<1>3. DataOK
  BY <1>2, FS_EmptySet, UnknownIs DEF DataOK
<1>4. TableInv
  BY DEF TableInv, TablesBeforeQueries, OneAtATheStatements, StatementsInOrder, Table, Ddl, Nobody
<1>5. PostInv /\ TallyInv /\ FoundInv
  BY DEF PostInv, TallyInv, FoundInv
<1> QED
  BY <1>3, <1>4, <1>5 DEF IInv

-----------------------------------------------------------------------------
(* The tables and the mutex. *)

Serving == {"serve", "insert", "write", "after", "before", "rank"}

\* A request moves on, after the statements or before them.
LEMMA TableMove ==
  ASSUME IInv, NEW c \in Client, NEW x \in Serving \cup {"idle", "ensure"},
         pc' = [pc EXCEPT ![c] = x], pc[c] \notin Table, x \in Serving => pc[c] \in Serving,
         UNCHANGED <<tables, ready, holder>>
  PROVE  TableInv'
BY DEF IInv, DataOK, TypeOK, TableInv, TablesBeforeQueries, OneAtATheStatements, StatementsInOrder,
       Serving, Table, Ddl, Nobody

LEMMA TableStep == IInv /\ Next => TableInv'
<1> SUFFICES ASSUME IInv, Next PROVE TableInv'
  OBVIOUS
<1> USE DiagnosticsAssumption
<1>1. CASE Tick \/ \E t \in Tenant, e \in BOOLEAN : Arrive(t, e)
  BY <1>1 DEF Tick, Arrive, IInv, TableInv, TablesBeforeQueries, OneAtATheStatements, StatementsInOrder
<1>2. CASE Restart
  BY <1>2 DEF Restart, IInv, TableInv, TablesBeforeQueries, OneAtATheStatements, StatementsInOrder,
              Table, Ddl, Nobody
<1>3. ASSUME NEW c \in Client, NEW a \in Asks, Request(c, a)
      PROVE  TableInv'
  <2>1. pc[c] = "idle" /\ pc' = [pc EXCEPT ![c] = "ensure"] /\ UNCHANGED <<tables, ready, holder>>
    BY <1>3 DEF Request
  <2>2. "idle" \notin Table /\ "ensure" \notin Serving
    BY DEF Serving, Table, Ddl
  <2> QED
    BY <2>1, <2>2, TableMove
<1>4. ASSUME NEW c \in Client, Lock(c)
      PROVE  TableInv'
  <2>1. CASE ready
    <3>1. \A o : First(o) \in Serving
      BY DEF First, Serving
    <3>2. First(ask[c].op) \in Serving /\ pc' = [pc EXCEPT ![c] = First(ask[c].op)]
          /\ UNCHANGED <<tables, ready, holder>>
      BY <1>4, <2>1, <3>1 DEF Lock
    <3> QED
      BY <1>4, <2>1, <3>2 DEF Lock, IInv, DataOK, TypeOK, TableInv, TablesBeforeQueries, OneAtATheStatements,
         StatementsInOrder, Serving, Table, Ddl, Nobody
  <2>2. CASE ~ ready
    BY <1>4, <2>2 DEF Lock, IInv, DataOK, TypeOK, TableInv, TablesBeforeQueries, OneAtATheStatements,
       StatementsInOrder, Table, Ddl, Nobody
  <2> QED
    BY <2>1, <2>2
<1>5. ASSUME NEW c \in Client, Create(c)
      PROVE  TableInv'
  <2>1. PICK i \in 1..4 :
          /\ pc[c] = Ddl[i] /\ tables' = tables \cup {Ddl[i]}
          /\ IF i < 4 THEN pc' = [pc EXCEPT ![c] = Ddl[i + 1]] /\ UNCHANGED <<holder, ready>>
                      ELSE pc' = [pc EXCEPT ![c] = First(ask[c].op)] /\ holder' = Nobody /\ ready' = TRUE
    BY <1>5 DEF Create
  <2>2. CASE i \in 1..3
    <3>1. /\ \/ pc[c] = Ddl[1] /\ pc' = [pc EXCEPT ![c] = Ddl[2]] /\ tables' = tables \cup {Ddl[1]}
             \/ pc[c] = Ddl[2] /\ pc' = [pc EXCEPT ![c] = Ddl[3]] /\ tables' = tables \cup {Ddl[2]}
             \/ pc[c] = Ddl[3] /\ pc' = [pc EXCEPT ![c] = Ddl[4]] /\ tables' = tables \cup {Ddl[3]}
          /\ UNCHANGED <<holder, ready>>
      BY <2>1, <2>2
    <3> QED
      BY <3>1 DEF IInv, DataOK, TypeOK, TableInv, TablesBeforeQueries, OneAtATheStatements,
         StatementsInOrder, Table, Ddl, Nobody
  <2>3. CASE i = 4
    <3>1. First(ask[c].op) \in Serving
      BY DEF First, Serving
    <3>2. tables' = Table
      BY <2>1, <2>3 DEF IInv, DataOK, TypeOK, TableInv, StatementsInOrder, Table, Ddl
    <3>3. holder = c /\ pc' = [pc EXCEPT ![c] = First(ask[c].op)] /\ holder' = Nobody
      BY <2>1, <2>3 DEF IInv, TableInv, OneAtATheStatements, Table
    <3>4. \A d \in Client : pc'[d] \notin Table
      BY <3>1, <3>3 DEF IInv, DataOK, TypeOK, TableInv, OneAtATheStatements, Serving, Table, Ddl
    <3> QED
      BY <3>2, <3>3, <3>4 DEF TableInv, TablesBeforeQueries, OneAtATheStatements, StatementsInOrder, Table
  <2> QED
    BY <2>1, <2>2, <2>3
<1>6. ASSUME NEW c \in Client, CreateFailed(c)
      PROVE  TableInv'
  BY <1>6 DEF CreateFailed, IInv, DataOK, TypeOK, TableInv, TablesBeforeQueries, OneAtATheStatements,
     StatementsInOrder, Table, Ddl, Nobody
<1>7. ASSUME NEW c \in Client,
             TakeTime(c) \/ PostDone(c) \/ PostFailed(c) \/ ReadTable(c) \/ ReadMarkers(c)
               \/ (\E k : ReadAfter(c, k) \/ ReadBefore(c, k)) \/ Rank(c)
      PROVE  TableInv'
  <2>1. PICK x \in Serving \cup {"idle"} :
          pc[c] \in Serving /\ pc' = [pc EXCEPT ![c] = x] /\ UNCHANGED <<tables, ready, holder>>
    BY <1>7 DEF TakeTime, PostDone, PostFailed, EndPost, ReadTable, ReadMarkers, ReadAfter, ReadBefore, Rank,
       Serving
  <2>2. pc[c] \notin Table
    BY <2>1 DEF Serving, Table, Ddl
  <2> QED
    BY <2>1, <2>2, TableMove
<1> QED
  BY <1>1, <1>2, <1>3, <1>4, <1>5, <1>6, <1>7 DEF Next, Work

-----------------------------------------------------------------------------
(* Posts. *)

\* A request moves, not to a write of its own; the others stay.
LEMMA PostMove ==
  ASSUME IInv, NEW c \in Client, NEW x, x # "write", pc' = [pc EXCEPT ![c] = x],
         \A d \in Client : d # c => ask'[d] = ask[d], UNCHANGED <<stamp, markers, rival>>
  PROVE  PostInv'
<1> SUFFICES ASSUME NEW d \in Client, pc'[d] = "write", ~ rival'[d]
             PROVE  \A o \in Shown(ask[d].tenant, ask[d].release)' : o.deployed <= stamp'[d]
  BY DEF PostInv
<1>1. d # c /\ pc[d] = "write"
  BY DEF IInv, DataOK, TypeOK
<1>2. ask'[d] = ask[d]
  BY <1>1
<1> QED
  BY <1>1, <1>2 DEF IInv, PostInv, Shown

LEMMA PostStep == IInv /\ Next => PostInv'
<1> SUFFICES ASSUME IInv, Next PROVE PostInv'
  OBVIOUS
<1>1. CASE Tick \/ \E t \in Tenant, e \in BOOLEAN : Arrive(t, e)
  BY <1>1 DEF Tick, Arrive, IInv, PostInv, Shown
<1>2. CASE Restart
  BY <1>2 DEF Restart, PostInv
<1>3. ASSUME NEW c \in Client, NEW a \in Asks, Request(c, a)
      PROVE  PostInv'
  <2>1. pc' = [pc EXCEPT ![c] = "ensure"] /\ ask' = [ask EXCEPT ![c] = a] /\ UNCHANGED <<stamp, markers, rival>>
    BY <1>3 DEF Request
  <2>2. \A d \in Client : d # c => ask'[d] = ask[d]
    BY <2>1 DEF IInv, DataOK, TypeOK
  <2> QED
    BY <2>1, <2>2, PostMove
<1>4. ASSUME NEW c \in Client,
             Lock(c) \/ Create(c) \/ CreateFailed(c) \/ ReadTable(c) \/ ReadMarkers(c)
               \/ (\E k : ReadAfter(c, k) \/ ReadBefore(c, k)) \/ Rank(c)
      PROVE  PostInv'
  <2>1. PICK x : x # "write" /\ pc' = [pc EXCEPT ![c] = x] /\ UNCHANGED <<ask, stamp, markers, rival>>
    <3>1. (\A o : First(o) # "write") /\ \A i \in 1..4 : Ddl[i] # "write"
      BY DEF First, Ddl
    <3>2. CASE Lock(c)
      BY <3>1, <3>2 DEF Lock
    <3>3. ASSUME NEW i \in 1..4,
                 IF i < 4 THEN pc' = [pc EXCEPT ![c] = Ddl[i + 1]] ELSE pc' = [pc EXCEPT ![c] = First(ask[c].op)]
          PROVE  \E x : x # "write" /\ pc' = [pc EXCEPT ![c] = x]
      BY <3>1, <3>3
    <3>4. CASE Create(c)
      BY <3>3, <3>4 DEF Create
    <3>5. CASE CreateFailed(c) \/ ReadTable(c) \/ ReadMarkers(c)
                 \/ (\E k : ReadAfter(c, k) \/ ReadBefore(c, k)) \/ Rank(c)
      BY <3>5 DEF CreateFailed, ReadTable, ReadMarkers, ReadAfter, ReadBefore, Rank
    <3> QED
      BY <1>4, <3>2, <3>4, <3>5
  <2> QED
    BY <2>1, PostMove
<1>5. ASSUME NEW c \in Client, TakeTime(c)
      PROVE  PostInv'
  <2>1. /\ UNCHANGED <<ask, markers>>
        /\ pc' = [pc EXCEPT ![c] = "write"] /\ stamp' = [stamp EXCEPT ![c] = Stamp(ask[c])]
        /\ \A d \in Client \ {c} : rival'[d] = rival[d]
        /\ ~ rival'[c] => /\ ask[c].deployed = Missing
                          /\ ~ \E o \in Shown(ask[c].tenant, ask[c].release) : o.deployed > now
    BY <1>5 DEF TakeTime, IInv, DataOK, TypeOK
  <2>2. ~ rival'[c] => \A o \in Shown(ask[c].tenant, ask[c].release) : o.deployed <= stamp'[c]
    <3>1. \A o \in Shown(ask[c].tenant, ask[c].release) : o.deployed \in Nat /\ now \in Nat
      BY TimeIs DEF IInv, DataOK, TypeOK, Shown, Marker
    <3> QED
      BY <2>1, <3>1 DEF Stamp, IInv, DataOK, TypeOK
  <2> QED
    BY <2>1, <2>2 DEF IInv, DataOK, TypeOK, PostInv, Shown
<1>6. ASSUME NEW c \in Client, PostDone(c) \/ PostFailed(c)
      PROVE  PostInv'
  <2>1. /\ UNCHANGED ask /\ markers' \in {markers, Insert(Posted(c))}
        /\ pc' = [pc EXCEPT ![c] = "idle"] /\ stamp' = [stamp EXCEPT ![c] = 0]
        /\ \A d \in Client \ {c} : ~ rival'[d] => ~ rival[d] /\ (pc[d] = "write" => ~ SameRelease(c, d))
    BY <1>6 DEF PostDone, PostFailed, EndPost
  <2>2. Posted(c) \in Marker
    BY DEF Posted, Marker, IInv, DataOK, TypeOK, Ask
  <2> SUFFICES ASSUME NEW d \in Client, pc'[d] = "write", ~ rival'[d], NEW o \in Shown(ask[d].tenant, ask[d].release)'
               PROVE  o.deployed <= stamp'[d]
    BY DEF PostInv
  <2>3. d # c /\ pc[d] = "write" /\ ~ rival[d] /\ ~ SameRelease(c, d) /\ stamp'[d] = stamp[d]
    BY <2>1 DEF IInv, DataOK, TypeOK
  <2>4. o \in markers \/ o = Posted(c)
    BY <2>1, <2>2, InsertIs DEF IInv, Shown
  <2>5. o \in Shown(ask[d].tenant, ask[d].release)
    BY <2>1, <2>3, <2>4 DEF Shown, SameRelease, Posted
  <2> QED
    BY <2>3, <2>5 DEF IInv, PostInv
<1> QED
  BY <1>1, <1>2, <1>3, <1>4, <1>5, <1>6 DEF Next, Work

-----------------------------------------------------------------------------
(* Suspects. *)

\* What follows a deployment is counted only once the deployment is past.
LEMMA FollowingIs ==
  ASSUME DataOK, NEW k \in Marker
  PROVE  /\ Following(k.tenant, k.deployed) \in Tally
         /\ Following(k.tenant, k.deployed).n > 0 => k.deployed <= now
<1> DEFINE S == {s \in spans : s.tenant = k.tenant /\ s.created >= k.deployed /\ s.created < k.deployed + Hour}
<1>1. S \in SUBSET spans /\ Following(k.tenant, k.deployed) = Share(S)
  BY DEF Following
<1>2. S # {} => k.deployed <= now
  <2>1. k.deployed \in Nat /\ now \in Nat /\ \A s \in spans : s.created \in Nat /\ s.created <= now
    BY TimeIs DEF Marker, DataOK, TypeOK
  <2> QED
    BY <2>1
<1> HIDE DEF S
<1> QED
  BY <1>1, <1>2, ShareIs DEF DataOK

LEMMA PrecedingIs ==
  ASSUME DataOK, NEW t, NEW d
  PROVE  Preceding(t, d) \in Tally
<1> DEFINE S == {s \in spans : s.tenant = t /\ s.created < d /\ s.created >= d - Hour}
<1>1. S \in SUBSET spans /\ Preceding(t, d) = Share(S)
  BY DEF Preceding
<1> HIDE DEF S
<1> QED
  BY <1>1, ShareIs DEF DataOK

\* A release is scored for errors only if they rose.
LEMMA SuspectIs ==
  ASSUME NEW k \in Marker, NEW a \in Tally, NEW b \in Tally, NEW f \in BOOLEAN
  PROVE  /\ Suspect(k, a, b, f) \in Blame
         /\ Suspect(k, a, b, f).marker = k /\ Suspect(k, a, b, f).after = a /\ Suspect(k, a, b, f).sure = f
         /\ Suspect(k, a, b, f).score >= 80 => a.n > 0 /\ Worse(a, b)
<1> DEFINE score == 40 + (IF Raised(a, b) THEN 40 ELSE 0) + (IF k.text \in Commits THEN 5 ELSE 0)
<1>1. score \in Nat /\ (score >= 80 => Raised(a, b))
  OBVIOUS
<1>2. Suspect(k, a, b, f) = [marker |-> k, after |-> a, sure |-> f, score |-> score]
  BY DEF Suspect
<1> HIDE DEF score
<1>3. Suspect(k, a, b, f).score = score
  BY <1>2
<1>4. /\ Suspect(k, a, b, f) \in Blame
      /\ Suspect(k, a, b, f).marker = k /\ Suspect(k, a, b, f).after = a /\ Suspect(k, a, b, f).sure = f
  <2>1. [marker |-> k, after |-> a, sure |-> f, score |-> score] \in Blame
    BY <1>1 DEF Blame
  <2>2. Suspect(k, a, b, f).marker = k /\ Suspect(k, a, b, f).after = a
    BY <1>2
  <2>3. Suspect(k, a, b, f).sure = f
    BY <1>2
  <2> QED
    BY <1>2, <2>1, <2>2, <2>3
<1> QED
  BY <1>1, <1>3, <1>4 DEF Raised

LEMMA BlameStep == IInv /\ Next => TallyInv' /\ FoundInv'
<1> SUFFICES ASSUME IInv, Next PROVE TallyInv' /\ FoundInv'
  OBVIOUS
<1>0. /\ now \in Nat /\ \A k \in Marker : k.deployed \in Nat
      /\ \A c \in Client : cur[c] \subseteq Marker /\ found[c] \subseteq Blame
  BY TimeIs DEF IInv, DataOK, TypeOK, Marker
<1>1. CASE Tick
  <2>1. now' = now + 1 /\ UNCHANGED <<cur, tally, found, spans>>
    BY <1>1 DEF Tick
  <2>2. TallyInv'
    BY <1>0, <2>1 DEF IInv, TallyInv
  <2>3. \A d \in Nat : d <= now => d <= now'
    BY <1>0, <2>1
  <2>4. \A c \in Client : \A s \in found[c] : s.marker.deployed \in Nat
    BY <1>0 DEF Blame
  <2>5. FoundInv'
    BY <2>1, <2>3, <2>4 DEF IInv, FoundInv, Preceding
  <2> QED
    BY <2>2, <2>5
<1>2. ASSUME NEW t \in Tenant, NEW e \in BOOLEAN, Arrive(t, e)
      PROVE  TallyInv' /\ FoundInv'
  <2> DEFINE x == [id |-> Cardinality(spans), tenant |-> t, created |-> now, error |-> e]
  <2>1. spans' = spans \cup {x} /\ x.created = now /\ UNCHANGED <<now, cur, tally, found>>
    BY <1>2 DEF Arrive
  <2> HIDE DEF x
  <2>2. ASSUME NEW u, NEW d \in Nat, d <= now
        PROVE  Preceding(u, d)' = Preceding(u, d)
    <3>1. ~ now < d
      BY <1>0, <2>2
    <3>2. {s \in spans' : s.tenant = u /\ s.created < d /\ s.created >= d - Hour}
            = {s \in spans : s.tenant = u /\ s.created < d /\ s.created >= d - Hour}
      BY <2>1, <3>1
    <3> QED
      BY <3>2 DEF Preceding
  <2>3. TallyInv'
    BY <2>1 DEF IInv, TallyInv
  <2>4. FoundInv'
    <3> SUFFICES ASSUME NEW c \in Client, NEW s \in found[c], s.score >= 80, s.sure
                 PROVE  s.marker.deployed <= now /\ Worse(s.after, Preceding(s.marker.tenant, s.marker.deployed)')
      BY <2>1 DEF FoundInv
    <3>1. s.marker.deployed <= now /\ Worse(s.after, Preceding(s.marker.tenant, s.marker.deployed))
      BY DEF IInv, FoundInv
    <3>2. s.marker.deployed \in Nat
      BY <1>0 DEF Blame
    <3>3. Preceding(s.marker.tenant, s.marker.deployed)' = Preceding(s.marker.tenant, s.marker.deployed)
      BY <2>1, <2>2, <3>1, <3>2
    <3> QED
      BY <3>1, <3>3
  <2> QED
    BY <2>3, <2>4
<1>3. CASE Restart
  BY <1>3 DEF Restart, TallyInv, FoundInv
<1>4. ASSUME UNCHANGED <<now, cur, tally, found, spans>>
      PROVE  TallyInv' /\ FoundInv'
  BY <1>4 DEF IInv, TallyInv, FoundInv, Preceding
<1>5. ASSUME NEW c \in Client,
             \/ \E a \in Asks : Request(c, a)
             \/ Lock(c) \/ Create(c) \/ CreateFailed(c)
             \/ TakeTime(c) \/ PostDone(c) \/ PostFailed(c) \/ ReadTable(c) \/ ReadMarkers(c)
      PROVE  TallyInv' /\ FoundInv'
  BY <1>4, <1>5 DEF Request, Lock, Create, CreateFailed, TakeTime, PostDone, PostFailed, EndPost, ReadTable,
     ReadMarkers
<1>6. ASSUME NEW c \in Client, NEW k, ReadAfter(c, k)
      PROVE  TallyInv' /\ FoundInv'
  <2>1. PICK s \in {Following(k.tenant, k.deployed), Unknown} :
          /\ k \in todo[c] /\ cur' = [cur EXCEPT ![c] = {k}] /\ tally' = [tally EXCEPT ![c] = s]
          /\ UNCHANGED <<now, found, spans>>
    BY <1>6 DEF ReadAfter
  <2>2. k \in Marker
    BY <2>1 DEF IInv, DataOK, TypeOK
  <2>3. s.n > 0 => k.deployed <= now
    BY <2>2, FollowingIs, UnknownIs DEF IInv
  <2>4. TallyInv'
    BY <2>1, <2>3 DEF IInv, DataOK, TypeOK, TallyInv
  <2>5. FoundInv'
    BY <2>1 DEF IInv, FoundInv, Preceding
  <2> QED
    BY <2>4, <2>5
<1>7. ASSUME NEW c \in Client, NEW k, ReadBefore(c, k)
      PROVE  TallyInv' /\ FoundInv'
  <2>1. PICK b \in Tally, f \in BOOLEAN :
          /\ f => b = Preceding(k.tenant, k.deployed)
          /\ cur[c] = {k} /\ cur' = [cur EXCEPT ![c] = {}] /\ tally' = [tally EXCEPT ![c] = Unknown]
          /\ found' = [found EXCEPT ![c] = @ \cup {Suspect(k, tally[c], b, f)}]
          /\ UNCHANGED <<now, spans>>
    <3>1. Preceding(k.tenant, k.deployed) \in Tally
      BY PrecedingIs DEF IInv
    <3>2. CASE found' = [found EXCEPT ![c] = @ \cup {Suspect(k, tally[c], Preceding(k.tenant, k.deployed), TRUE)}]
      BY <1>7, <3>1, <3>2 DEF ReadBefore
    <3>3. CASE found' = [found EXCEPT ![c] = @ \cup {Suspect(k, tally[c], Unknown, FALSE)}]
      BY <1>7, <3>3, UnknownIs DEF ReadBefore
    <3> QED
      BY <1>7, <3>2, <3>3 DEF ReadBefore
  <2>2. k \in Marker /\ tally[c] \in Tally
    BY <2>1 DEF IInv, DataOK, TypeOK
  <2>3. TallyInv'
    BY <2>1 DEF IInv, DataOK, TypeOK, TallyInv
  <2>4. ASSUME NEW s, s = Suspect(k, tally[c], b, f), s.score >= 80, s.sure
        PROVE  s.marker.deployed <= now /\ Worse(s.after, Preceding(s.marker.tenant, s.marker.deployed))
    <3>1. /\ s.marker = k /\ s.after = tally[c] /\ s.sure = f
          /\ tally[c].n > 0 /\ Worse(tally[c], b)
      <4> DEFINE x == Suspect(k, tally[c], b, f)
      <4>1. /\ x.marker = k /\ x.after = tally[c] /\ x.sure = f
            /\ x.score >= 80 => tally[c].n > 0 /\ Worse(tally[c], b)
        BY <2>2, SuspectIs
      <4> QED
        BY <2>4, <4>1
    <3>2. b = Preceding(k.tenant, k.deployed)
      BY <2>1, <2>4, <3>1, Zenon
    <3>3. k.deployed <= now
      BY <2>1, <3>1 DEF IInv, TallyInv
    <3> QED
      BY <3>1, <3>2, <3>3
  <2>5. FoundInv'
    <3> SUFFICES ASSUME NEW d \in Client, NEW s \in found'[d], s.score >= 80, s.sure
                 PROVE  s.marker.deployed <= now /\ Worse(s.after, Preceding(s.marker.tenant, s.marker.deployed))
      BY <2>1 DEF FoundInv, Preceding
    <3>1. s \in found[d] \/ s = Suspect(k, tally[c], b, f)
      BY <2>1 DEF IInv, DataOK
    <3> QED
      BY <2>4, <3>1 DEF IInv, FoundInv
  <2> QED
    BY <2>3, <2>5
<1>8. ASSUME NEW c \in Client, Rank(c)
      PROVE  TallyInv' /\ FoundInv'
  <2>1. found' = [found EXCEPT ![c] = {}] /\ UNCHANGED <<now, cur, tally, spans>>
    BY <1>8 DEF Rank
  <2>2. \A d \in Client : found'[d] \subseteq found[d]
    BY <2>1 DEF IInv, DataOK
  <2> QED
    BY <2>1, <2>2 DEF IInv, TallyInv, FoundInv, Preceding
<1> QED
  BY <1>1, <1>2, <1>3, <1>5, <1>6, <1>7, <1>8 DEF Next, Work

-----------------------------------------------------------------------------
(* Types, and the theorems. *)

LEMMA PhasesAre == /\ {"idle", "ensure", "serve", "insert", "write", "after", "before", "rank"} \subseteq Phase
                   /\ Table \subseteq Phase /\ \A i \in 1..4 : Ddl[i] \in Table
                   /\ \A o : First(o) \in Phase
BY DEF Phase, Table, Ddl, First

\* A request moves and nothing else happens but to the tables and the mutex.
LEMMA DataMove ==
  ASSUME DataOK, NEW c \in Client, NEW x \in Phase, pc' = [pc EXCEPT ![c] = x],
         tables' \subseteq Table, holder' \in Client \cup {Nobody}, ready' \in BOOLEAN,
         ask' \in [Client -> Ask], UNCHANGED <<now, stamp, todo, cur, tally, found, markers, spans, rival>>
  PROVE  DataOK'
<1>1. pc' \in [Client -> Phase]
  BY DEF DataOK, TypeOK
<1> QED
  BY <1>1 DEF DataOK, TypeOK

LEMMA DataStep == IInv /\ Next => DataOK'
<1> SUFFICES ASSUME IInv, Next PROVE DataOK'
  OBVIOUS
<1> USE DiagnosticsAssumption DEF IInv
<1>1. CASE Tick
  <2>1. now' \in Time /\ now <= now' /\ now \in Int
    BY <1>1 DEF Tick, DataOK, TypeOK, Time
  <2>2. \A s \in spans : s.created <= now'
    BY <2>1 DEF DataOK, TypeOK, Time
  <2> QED
    BY <1>1, <2>1, <2>2 DEF Tick, DataOK, TypeOK
<1>2. ASSUME NEW t \in Tenant, NEW e \in BOOLEAN, Arrive(t, e)
      PROVE  DataOK'
  <2> DEFINE x == [id |-> Cardinality(spans), tenant |-> t, created |-> now, error |-> e]
  <2>1. /\ spans' = spans \cup {x} /\ x.tenant = t /\ x.created = now
        /\ UNCHANGED <<now, tables, ready, holder, pc, ask, stamp, todo, cur, tally, found, markers, rival>>
    BY <1>2 DEF Arrive
  <2> HIDE DEF x
  <2>2. IsFiniteSet(spans')
    BY <2>1, FS_AddElement DEF DataOK
  <2>3. \A s \in spans' : s.tenant \in Tenant /\ s.created \in Time /\ s.created <= now
    BY <2>1 DEF DataOK, TypeOK, Time
  <2> QED
    BY <2>1, <2>2, <2>3 DEF DataOK, TypeOK
<1>3. CASE Restart
  <2>1. /\ pc' = [c \in Client |-> "idle"] /\ pc' \in [Client -> Phase]
        /\ stamp' \in [Client -> Time] /\ holder' \in Client \cup {Nobody}
        /\ todo' \in [Client -> SUBSET Marker] /\ cur' \in [Client -> SUBSET Marker]
        /\ found' \in [Client -> SUBSET Blame]
    BY <1>3 DEF Restart, Phase, Time
  <2>2. tally' \in [Client -> Tally]
    BY <1>3, UnknownIs DEF Restart
  <2>3. ready' \in BOOLEAN /\ rival' \in [Client -> BOOLEAN]
    BY <1>3, Zenon DEF Restart
  <2>4. UNCHANGED <<now, tables, ask, markers, spans>>
    BY <1>3 DEF Restart
  <2> QED
    BY <2>1, <2>2, <2>3, <2>4 DEF DataOK, TypeOK
<1>4. ASSUME NEW c \in Client, NEW a \in Asks, Request(c, a)
      PROVE  DataOK'
  <2>1. ask' \in [Client -> Ask] /\ pc' = [pc EXCEPT ![c] = "ensure"] /\ "ensure" \in Phase
    BY <1>4, PhasesAre DEF Request, DataOK, TypeOK
  <2>2. UNCHANGED <<now, tables, ready, holder, stamp, todo, cur, tally, found, markers, spans, rival>>
    BY <1>4 DEF Request
  <2> QED
    BY <2>1, <2>2, DataMove DEF DataOK, TypeOK
<1>5. ASSUME NEW c \in Client, Lock(c) \/ Create(c) \/ CreateFailed(c) \/ ReadTable(c)
      PROVE  DataOK'
  <2>1. UNCHANGED <<now, ask, stamp, todo, cur, tally, found, markers, spans, rival>>
    BY <1>5 DEF Lock, Create, CreateFailed, ReadTable
  <2>2. PICK x \in Phase :
          /\ pc' = [pc EXCEPT ![c] = x]
          /\ tables' \subseteq Table /\ holder' \in Client \cup {Nobody} /\ ready' \in BOOLEAN
    <3>1. CASE Lock(c)
      BY <3>1, PhasesAre DEF Lock, DataOK, TypeOK
    <3>2. CASE Create(c)
      <4>1. PICK i \in 1..4 :
              /\ tables' = tables \cup {Ddl[i]}
              /\ IF i < 4 THEN pc' = [pc EXCEPT ![c] = Ddl[i + 1]] /\ UNCHANGED <<holder, ready>>
                          ELSE pc' = [pc EXCEPT ![c] = First(ask[c].op)] /\ holder' = Nobody /\ ready' = TRUE
        BY <3>2 DEF Create
      <4>2. Ddl[i] \in Table /\ (i < 4 => Ddl[i + 1] \in Phase)
        BY PhasesAre
      <4> QED
        BY <4>1, <4>2, PhasesAre DEF DataOK, TypeOK
    <3>3. CASE CreateFailed(c) \/ ReadTable(c)
      BY <3>3, PhasesAre DEF CreateFailed, ReadTable, DataOK, TypeOK
    <3> QED
      BY <1>5, <3>1, <3>2, <3>3
  <2>3. ask' \in [Client -> Ask]
    BY <2>1 DEF DataOK, TypeOK
  <2> QED
    BY <2>1, <2>2, <2>3, DataMove
<1>6. ASSUME NEW c \in Client, TakeTime(c)
      PROVE  DataOK'
  <2>1. Stamp(ask[c]) \in Time
    BY DEF Stamp, DataOK, TypeOK, Ask
  <2>2. /\ pc' = [pc EXCEPT ![c] = "write"] /\ stamp' = [stamp EXCEPT ![c] = Stamp(ask[c])]
        /\ UNCHANGED <<now, tables, ready, holder, ask, todo, cur, tally, found, markers, spans>>
    BY <1>6 DEF TakeTime
  <2>3. pc' \in [Client -> Phase] /\ stamp' \in [Client -> Time]
    BY <2>1, <2>2, PhasesAre DEF DataOK, TypeOK
  <2>4. rival' \in [Client -> BOOLEAN]
    BY <1>6 DEF TakeTime, DataOK, TypeOK
  <2> QED
    BY <2>2, <2>3, <2>4 DEF DataOK, TypeOK
<1>7. ASSUME NEW c \in Client, PostDone(c) \/ PostFailed(c)
      PROVE  DataOK'
  <2>1. /\ markers' \in {markers, Insert(Posted(c))}
        /\ pc' = [pc EXCEPT ![c] = "idle"] /\ stamp' = [stamp EXCEPT ![c] = 0]
        /\ UNCHANGED <<now, tables, ready, holder, ask, todo, cur, tally, found, spans>>
    BY <1>7 DEF PostDone, PostFailed, EndPost
  <2>2. Posted(c) \in Marker
    BY DEF Posted, Marker, DataOK, TypeOK, Ask
  <2>3. markers' \subseteq Marker /\ \A m, o \in markers' : m.tenant = o.tenant /\ m.release = o.release => m = o
    BY <2>1, <2>2, InsertIs DEF DataOK, TypeOK
  <2>4. pc' \in [Client -> Phase] /\ stamp' \in [Client -> Time]
    BY <2>1, PhasesAre DEF DataOK, TypeOK, Time
  <2>5. rival' \in [Client -> BOOLEAN]
    BY <1>7 DEF PostDone, PostFailed, EndPost, DataOK, TypeOK
  <2> QED
    BY <2>1, <2>3, <2>4, <2>5 DEF DataOK, TypeOK
<1>8. ASSUME NEW c \in Client, ReadMarkers(c)
      PROVE  DataOK'
  <2>1. PICK x \in {"idle", "after"} : pc' = [pc EXCEPT ![c] = x]
    BY <1>8 DEF ReadMarkers
  <2>2. todo' \in [Client -> SUBSET Marker]
    BY <1>8 DEF ReadMarkers, DataOK, TypeOK
  <2>3. UNCHANGED <<now, tables, ready, holder, ask, stamp, cur, tally, found, markers, spans, rival>>
    BY <1>8 DEF ReadMarkers
  <2>4. pc' \in [Client -> Phase]
    BY <2>1, PhasesAre DEF DataOK, TypeOK
  <2> QED
    BY <2>2, <2>3, <2>4 DEF DataOK, TypeOK
<1>9. ASSUME NEW c \in Client, NEW k, ReadAfter(c, k)
      PROVE  DataOK'
  <2>1. /\ k \in todo[c] /\ pc' = [pc EXCEPT ![c] = "before"]
        /\ cur' = [cur EXCEPT ![c] = {k}] /\ todo' = [todo EXCEPT ![c] = @ \ {k}]
        /\ UNCHANGED <<now, tables, ready, holder, ask, stamp, found, markers, spans, rival>>
    BY <1>9 DEF ReadAfter
  <2>2. PICK s \in {Following(k.tenant, k.deployed), Unknown} : tally' = [tally EXCEPT ![c] = s]
    BY <1>9 DEF ReadAfter
  <2>3. k \in Marker
    BY <2>1 DEF DataOK, TypeOK
  <2>4. s \in Tally
    BY <2>3, FollowingIs, UnknownIs
  <2>5. tally' \in [Client -> Tally]
    BY <2>2, <2>4 DEF DataOK
  <2>6. /\ pc' \in [Client -> Phase]
        /\ cur' \in [Client -> SUBSET Marker] /\ todo' \in [Client -> SUBSET Marker]
    BY <2>1, <2>3, PhasesAre DEF DataOK, TypeOK
  <2> QED
    BY <2>1, <2>5, <2>6 DEF DataOK, TypeOK
<1>10. ASSUME NEW c \in Client, NEW k, ReadBefore(c, k)
       PROVE  DataOK'
  <2>1. /\ cur[c] = {k} /\ cur' = [cur EXCEPT ![c] = {}] /\ tally' = [tally EXCEPT ![c] = Unknown]
        /\ UNCHANGED <<now, tables, ready, holder, ask, stamp, todo, markers, spans, rival>>
    BY <1>10 DEF ReadBefore
  <2>2. PICK x \in {"rank", "after"} : pc' = [pc EXCEPT ![c] = x]
    BY <1>10 DEF ReadBefore
  <2>3. PICK s \in {Suspect(k, tally[c], Preceding(k.tenant, k.deployed), TRUE),
                    Suspect(k, tally[c], Unknown, FALSE)} :
          found' = [found EXCEPT ![c] = @ \cup {s}]
    BY <1>10 DEF ReadBefore
  <2>4. k \in Marker /\ tally[c] \in Tally
    BY <2>1 DEF DataOK, TypeOK
  <2>5. s \in Blame
    <3>1. Preceding(k.tenant, k.deployed) \in Tally /\ Unknown \in Tally
      BY PrecedingIs, UnknownIs
    <3>2. \A b \in Tally, f \in BOOLEAN : Suspect(k, tally[c], b, f) \in Blame
      BY <2>4, SuspectIs
    <3> QED
      BY <2>3, <3>1, <3>2
  <2>6. found' \in [Client -> SUBSET Blame]
    BY <2>3, <2>5 DEF DataOK
  <2>7. tally' \in [Client -> Tally] /\ cur' \in [Client -> SUBSET Marker] /\ pc' \in [Client -> Phase]
    BY <2>1, <2>2, UnknownIs, PhasesAre DEF DataOK, TypeOK
  <2> QED
    BY <2>1, <2>6, <2>7 DEF DataOK, TypeOK
<1>11. ASSUME NEW c \in Client, Rank(c)
       PROVE  DataOK'
  <2>1. /\ pc' = [pc EXCEPT ![c] = "idle"] /\ found' = [found EXCEPT ![c] = {}]
        /\ UNCHANGED <<now, tables, ready, holder, ask, stamp, todo, cur, tally, markers, spans, rival>>
    BY <1>11 DEF Rank
  <2>2. pc' \in [Client -> Phase] /\ found' \in [Client -> SUBSET Blame]
    BY <2>1, PhasesAre DEF DataOK, TypeOK
  <2> QED
    BY <2>1, <2>2 DEF DataOK, TypeOK
<1> QED
  BY <1>1, <1>2, <1>3, <1>4, <1>5, <1>6, <1>7, <1>8, <1>9, <1>10, <1>11 DEF Next, Work

LEMMA NextIInv == IInv /\ [Next]_vars => IInv'
<1> SUFFICES ASSUME IInv, [Next]_vars PROVE IInv'
  OBVIOUS
<1>1. CASE Next
  BY <1>1, DataStep, TableStep, PostStep, BlameStep DEF IInv
<1>2. CASE UNCHANGED vars
  BY <1>2 DEF vars, IInv, DataOK, TypeOK, TableInv, TablesBeforeQueries, OneAtATheStatements, StatementsInOrder,
     PostInv, Shown, TallyInv, FoundInv, Preceding
<1> QED
  BY <1>1, <1>2

LEMMA Invariance == Spec => []IInv
<1> QED
  BY InitIInv, NextIInv, PTL DEF Spec

-----------------------------------------------------------------------------
\* TYPE CORRECTNESS, with one marker per release.
THEOREM TypeCorrect == Spec => []TypeOK
<1>1. IInv => TypeOK
  BY DEF IInv, DataOK
<1> QED
  BY <1>1, Invariance, PTL

\* SAFETY.  The four tables are there before any request queries, whatever statements
\* fail and whenever the hub restarts (ensureDiagnosticsTables).
THEOREM TablesFirst == Spec => []TablesBeforeQueries
<1>1. IInv => TablesBeforeQueries
  BY DEF IInv, TableInv
<1> QED
  BY <1>1, Invariance, PTL

\* SAFETY.  One request at a time is among the statements, and it holds the mutex
\* (diagDDLMu).
THEOREM StatementsExclusive == Spec => []OneAtATheStatements
<1>1. IInv => OneAtATheStatements
  BY DEF IInv, TableInv
<1> QED
  BY <1>1, Invariance, PTL

\* SAFETY.  No release is blamed for errors that did not rise after its deployment
\* (ServeDiagnosticsSuspects).
THEOREM BlameHasReason == Spec => []BlameIsFounded
<1>1. IInv => BlameIsFounded
  BY DEF IInv, FoundInv, BlameIsFounded, Preceding
<1> QED
  BY <1>1, Invariance, PTL

\* ACTION PROPERTY.  A post that no other post got in the way of is shown (the
\* ReplacingMergeTree's version is the deployment time).
THEOREM PostsShow == Spec => UnrivalledPostShows
<1>1. IInv /\ [Next]_vars
        => [\A c \in Client : pc[c] = "write" /\ PostDone(c) /\ ~ rival[c] => Posted(c) \in markers']_vars
  <2> SUFFICES ASSUME IInv, NEW c \in Client, pc[c] = "write", PostDone(c), ~ rival[c]
               PROVE  Posted(c) \in markers'
    OBVIOUS
  <2>1. Posted(c) \in Marker /\ markers' = Insert(Posted(c))
    BY DEF PostDone, Posted, Marker, IInv, DataOK, TypeOK, Ask
  <2>2. \A o \in Shown(Posted(c).tenant, Posted(c).release) : o.deployed <= Posted(c).deployed
    BY DEF IInv, PostInv, Posted
  <2> QED
    BY <2>1, <2>2, InsertIs DEF IInv
<1> QED
  BY <1>1, Invariance, PTL DEF Spec, UnrivalledPostShows

\* ACTION PROPERTY.  The deployment time of a release never moves back, whatever times
\* clients send (the version column of opa.release_markers).
THEOREM DeploymentsAdvance == Spec => DeploymentNeverMovesBack
<1>1. IInv /\ [Next]_vars
        => [\A k \in markers : \E o \in markers' :
              o.tenant = k.tenant /\ o.release = k.release /\ o.deployed >= k.deployed]_vars
  <2> SUFFICES ASSUME IInv, Next, NEW k \in markers
               PROVE  \E o \in markers' : o.tenant = k.tenant /\ o.release = k.release /\ o.deployed >= k.deployed
    OBVIOUS
  <2>1. k.deployed >= k.deployed
    <3>1. k \in Marker
      BY DEF IInv, DataOK, TypeOK
    <3>2. k.deployed \in Nat
      BY <3>1, TimeIs DEF Marker
    <3> QED
      BY <3>2
  <2>2. ASSUME NEW c \in Client, PostDone(c) \/ PostFailed(c), markers' # markers
        PROVE  \E o \in markers' : o.tenant = k.tenant /\ o.release = k.release /\ o.deployed >= k.deployed
    <3>1. markers' = Insert(Posted(c)) /\ Posted(c) \in Marker
      BY <2>2 DEF PostDone, PostFailed, Posted, Marker, IInv, DataOK, TypeOK, Ask
    <3> QED
      BY <3>1, InsertIs DEF IInv
  <2>3. markers' = markers \/ \E c \in Client : PostDone(c) \/ PostFailed(c)
    BY DEF Next, Work, Tick, Arrive, Restart, Request, Lock, Create, CreateFailed, TakeTime, ReadTable,
       ReadMarkers, ReadAfter, ReadBefore, Rank
  <2> QED
    BY <2>1, <2>2, <2>3
<1> QED
  BY <1>1, Invariance, PTL DEF Spec, DeploymentNeverMovesBack
=============================================================================
