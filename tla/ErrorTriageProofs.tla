-------------------------- MODULE ErrorTriageProofs -------------------------
(***************************************************************************)
(* Proofs about ErrorTriage for any number of requests, tenants, callers   *)
(* and assignees.  The seed a request carries is the only thing that links *)
(* its two queries; SeedInv says what is known of it.                      *)
(***************************************************************************)
EXTENDS ErrorTriage, TLAPS

\* The seed of a request that was not overtaken is what its sender can see now; in a
\* tenant kept apart any seed shows values asked for there.
SeedInv ==
  \A c \in Caller : pc[c] = "insert" =>
    /\ ~overtaken[c] => seed[c] \in PageShows(req[c].ctx)
    /\ KeptApart(req[c].ctx.tenant) =>
         /\ seed[c].status \in asked[req[c].ctx.tenant] \cup {"unresolved"}
         /\ seed[c].assigned \in asked[req[c].ctx.tenant] \cup {Null}

\* What a request asks for is on record until it is answered.
AskedInv ==
  \A c \in Caller : pc[c] # "idle" =>
    /\ req[c].status # "" => req[c].status \in asked[req[c].ctx.tenant]
    /\ req[c].assigned \in Assignee => req[c].assigned \in asked[req[c].ctx.tenant]

IInv == TypeOK /\ SeedInv /\ AskedInv /\ NothingInvented

-----------------------------------------------------------------------------
(* Lemmas about the pure operators. *)

\* A stored row reads back as a valid status and an assignee or none.
LEMMA ReadBackTyped ==
  ASSUME NEW row \in Row \cup {NoRow}
  PROVE  ReadBack(row) \in [status : Statuses, assigned : Assignee \cup {Null}]
BY TriageAssumption DEF ReadBack, Row, NoRow, Default, Statuses

\* A request has a tenant, and one of its two fields.
LEMMA RequestTyped ==
  ASSUME NEW r \in Request
  PROVE  /\ r.ctx \in Context
         /\ r.ctx.tenant \in Tenant
         /\ r.status \in Statuses \cup {""}
         /\ r.assigned \in Assignee \cup {Blank, Null}
         /\ r.status = "" \/ r.assigned = Null
<1>1. ASSUME NEW x \in Context, NEW s \in Statuses, r = StatusRequest(x, s)
      PROVE  r.ctx = x /\ r.status = s /\ r.assigned = Null
  BY <1>1 DEF StatusRequest
<1>2. ASSUME NEW x \in Context, NEW a \in Assignee \cup {Blank, Null}, r = AssignRequest(x, a)
      PROVE  r.ctx = x /\ r.status = "" /\ r.assigned = a
  BY <1>2 DEF AssignRequest
<1>3. \A x \in Context : x.tenant \in Tenant
  BY TriageAssumption
<1>4. \/ \E x \in Context, s \in Statuses : r = StatusRequest(x, s)
      \/ \E x \in Context, a \in Assignee \cup {Blank, Null} : r = AssignRequest(x, a)
  BY DEF Request
<1> QED
  BY <1>1, <1>2, <1>3, <1>4

\* A request merged into a seed is a storable row.
LEMMA MergedTyped ==
  ASSUME NEW r \in Request, NEW cur \in [status : Statuses, assigned : Assignee \cup {Null}]
  PROVE  Merged(r, cur) \in Row
BY RequestTyped DEF Merged, Row, Statuses

\* Reading back what was merged gives the request's fields, else the seed's.
LEMMA MergedReadBack ==
  ASSUME NEW r \in Request, NEW cur \in [status : Statuses, assigned : Assignee \cup {Null}]
  PROVE  /\ ReadBack(Merged(r, cur)).status = IF r.status = "" THEN cur.status ELSE r.status
         /\ ReadBack(Merged(r, cur)).assigned =
              IF r.assigned = Null THEN cur.assigned
              ELSE IF r.assigned = Blank THEN Null ELSE r.assigned
<1>1. Merged(r, cur) # NoRow
  <2>1. Merged(r, cur).status \in Statuses
    BY MergedTyped DEF Row
  <2>2. NoRow.status \notin Statuses
    BY DEF NoRow, Statuses
  <2> QED
    BY <2>1, <2>2
<1>2. cur.assigned # Blank
  BY TriageAssumption
<1> QED
  BY <1>1, <1>2, RequestTyped, TriageAssumption DEF ReadBack, Merged

\* The strings of the code are told apart.
LEMMA DefaultTyped == Default \in [status : Statuses, assigned : Assignee \cup {Null}]
BY DEF Default, Statuses

\* What a context sees are rows of the table.
LEMMA VisibleTyped ==
  ASSUME TypeOK, NEW x \in Context
  PROVE  VisibleRows(x) \subseteq Row \cup {NoRow}
BY TriageAssumption DEF TypeOK, VisibleRows

\* A context that sees its own tenant alone sees the row it writes.
LEMMA OwnRowSeen ==
  ASSUME TypeOK, NEW x \in Context, SeesOwn(x)
  PROVE  PageShows(x) = {Seen[x.tenant]}
<1>1. x.tenant \in Tenant /\ x.scope = {x.tenant}
  BY TriageAssumption DEF SeesOwn
<1>2. VisibleRows(x) = {rows[x.tenant]}
  BY <1>1 DEF VisibleRows
<1> QED
  BY <1>1, <1>2 DEF PageShows, Seen

\* What a context sees stays as long as the rows in its scope do.
LEMMA SightKept ==
  ASSUME NEW x, \A t \in x.scope : rows'[t] = rows[t]
  PROVE  PageShows(x)' = PageShows(x)
<1>1. VisibleRows(x)' = VisibleRows(x)
  BY DEF VisibleRows
<1> QED
  BY <1>1 DEF PageShows

\* Typed rows show typed triage states.
LEMMA SeenTyped ==
  ASSUME rows \in [Tenant -> Row \cup {NoRow}]
  PROVE  Seen \in [Tenant -> [status : Statuses, assigned : Assignee \cup {Null}]]
BY ReadBackTyped DEF Seen

-----------------------------------------------------------------------------
(* Type correctness. *)

\* Every step keeps the types.
LEMMA TypeStep == TypeOK /\ [Next]_vars => TypeOK'
<1> SUFFICES ASSUME TypeOK, [Next]_vars PROVE TypeOK'
  OBVIOUS
<1> USE DEF TypeOK
<1>1. ASSUME NEW c \in Caller, NEW r \in Request, Ask(c, r) PROVE TypeOK'
  <2>1. asked' \in [Tenant -> SUBSET (Statuses \cup Assignee)]
    BY <1>1 DEF Ask
  <2>2. requests' \in 0..MaxRequests
    BY <1>1, TriageAssumption DEF Ask
  <2>3. \A d \in Caller : pc'[d] # "idle" => req'[d] \in Request
    <3> SUFFICES ASSUME NEW d \in Caller, pc'[d] # "idle" PROVE req'[d] \in Request
      OBVIOUS
    <3>1. CASE d = c
      BY <3>1, <1>1 DEF Ask
    <3>2. CASE d # c
      BY <3>2, <1>1 DEF Ask
    <3> QED
      BY <3>1, <3>2
  <2>4. Seen' = Seen
    BY <1>1 DEF Ask, Seen
  <2> QED
    BY <1>1, <2>1, <2>2, <2>3, <2>4 DEF Ask
<1>2. ASSUME NEW c \in Caller, Seed(c) PROVE TypeOK'
  <2>1. PICK row \in VisibleRows(req[c].ctx) : seed' = [seed EXCEPT ![c] = ReadBack(row)]
    BY <1>2 DEF Seed
  <2>2. req[c].ctx \in Context
    BY <1>2, RequestTyped DEF Seed
  <2>3. row \in Row \cup {NoRow}
    BY <2>1, <2>2, VisibleTyped
  <2>4. Seen' = Seen
    BY <1>2 DEF Seed, Seen
  <2> QED
    BY <1>2, <2>1, <2>3, <2>4, ReadBackTyped DEF Seed
<1>3. ASSUME NEW c \in Caller, SeedFailed(c) PROVE TypeOK'
  <2>1. Seen' = Seen
    BY <1>3 DEF SeedFailed, Seen
  <2> QED
    BY <1>3, <2>1, DefaultTyped DEF SeedFailed
<1>4. ASSUME NEW c \in Caller, Insert(c) PROVE TypeOK'
  <2>1. req[c] \in Request
    BY <1>4 DEF Insert
  <2>2. rows' \in [Tenant -> Row \cup {NoRow}]
    BY <1>4, <2>1, MergedTyped DEF Insert
  <2>3. Seen' \in [Tenant -> [status : Statuses, assigned : Assignee \cup {Null}]]
    BY <2>2, ReadBackTyped DEF Seen
  <2>4. overtaken' \in [Caller -> BOOLEAN]
    BY <1>4, Zenon DEF Insert
  <2> QED
    BY <1>4, <2>2, <2>3, <2>4 DEF Insert
<1>5. ASSUME NEW c \in Caller, InsertFailed(c) PROVE TypeOK'
  <2>1. Seen' = Seen
    BY <1>5 DEF InsertFailed, Seen
  <2> QED
    BY <1>5, <2>1 DEF InsertFailed
<1>6. ASSUME UNCHANGED vars PROVE TypeOK'
  <2>1. Seen' = Seen
    BY <1>6 DEF vars, Seen
  <2> QED
    BY <1>6, <2>1 DEF vars
<1> QED
  BY <1>1, <1>2, <1>3, <1>4, <1>5, <1>6 DEF Next

\* The initial state is well typed.
LEMMA InitTyped == Init => TypeOK
<1> SUFFICES ASSUME Init PROVE TypeOK
  OBVIOUS
<1>1. rows \in [Tenant -> Row \cup {NoRow}]
  BY DEF Init
<1> QED
  BY <1>1, SeenTyped, DefaultTyped, TriageAssumption DEF Init, TypeOK

\* The triage state is well typed in every reachable state (writeErrorGroupStatus
\* stores and reads back valid statuses and assignees only).
THEOREM TypeCorrect == Spec => []TypeOK
BY InitTyped, TypeStep, PTL DEF Spec

-----------------------------------------------------------------------------
(* The inductive invariant. *)

\* What was asked for is never struck off, and is recorded when it is asked.
LEMMA AskedGrows ==
  ASSUME TypeOK, NEW c \in Caller, NEW r \in Request, Ask(c, r)
  PROVE  /\ \A t \in Tenant : asked[t] \subseteq asked'[t]
         /\ r.status \in Statuses => r.status \in asked'[r.ctx.tenant]
         /\ r.assigned \in Assignee => r.assigned \in asked'[r.ctx.tenant]
BY RequestTyped DEF TypeOK, Ask

\* The initial state satisfies the invariant.
LEMMA InitInv == Init => IInv
<1> SUFFICES ASSUME Init PROVE IInv
  OBVIOUS
<1>1. \A t \in Tenant : Seen[t] = Default
  BY DEF Init, Seen, ReadBack
<1>2. NothingInvented
  BY <1>1 DEF NothingInvented, Default
<1> QED
  BY <1>2, InitTyped DEF Init, IInv, SeedInv, AskedInv

\* A request at hand keeps what is known of the others.
LEMMA AskStep ==
  ASSUME IInv, NEW c \in Caller, NEW r \in Request, Ask(c, r)
  PROVE  SeedInv' /\ AskedInv' /\ NothingInvented'
<1> USE DEF IInv
<1>1. Seen' = Seen
  BY DEF Ask, Seen
<1>2. \A t \in Tenant : asked[t] \subseteq asked'[t]
  BY AskedGrows
<1>3. \A d \in Caller : pc[d] # "idle" => req[d].ctx.tenant \in Tenant
  BY RequestTyped DEF TypeOK
<1>4. \A d \in Caller : d # c => req'[d] = req[d] /\ pc'[d] = pc[d] /\ overtaken'[d] = overtaken[d]
  BY DEF Ask, TypeOK
<1>5. pc'[c] = "seed" /\ req'[c] = r
  BY DEF Ask, TypeOK
<1>6. SeedInv'
  <2>1. rows' = rows /\ seed' = seed
    BY DEF Ask
  <2>2. \A x : PageShows(x)' = PageShows(x)
    BY <2>1, SightKept
  <2> QED
    BY <1>2, <1>3, <1>4, <1>5, <2>1, <2>2 DEF SeedInv
<1>7. AskedInv'
  <2> SUFFICES ASSUME NEW d \in Caller, pc'[d] # "idle"
               PROVE  /\ req'[d].status # "" => req'[d].status \in asked'[req'[d].ctx.tenant]
                      /\ req'[d].assigned \in Assignee => req'[d].assigned \in asked'[req'[d].ctx.tenant]
    BY DEF AskedInv
  <2>1. CASE d = c
    BY <2>1, <1>5, AskedGrows, RequestTyped
  <2>2. CASE d # c
    BY <2>2, <1>2, <1>3, <1>4 DEF AskedInv
  <2> QED
    BY <2>1, <2>2
<1>8. NothingInvented'
  BY <1>1, <1>2 DEF NothingInvented
<1> QED
  BY <1>6, <1>7, <1>8

\* Reading the row makes the seed current; failing to read it makes it the default.
LEMMA SeedStep ==
  ASSUME IInv, NEW c \in Caller, Seed(c) \/ SeedFailed(c)
  PROVE  SeedInv' /\ AskedInv' /\ NothingInvented'
<1> USE DEF IInv
<1> DEFINE x == req[c].ctx
           t == req[c].ctx.tenant
<1>1. Seen' = Seen /\ asked' = asked /\ req' = req /\ \A y : PageShows(y)' = PageShows(y)
  <2>1. rows' = rows /\ asked' = asked /\ req' = req
    BY DEF Seed, SeedFailed
  <2> QED
    BY <2>1, SightKept DEF Seen
<1>2. x \in Context /\ t \in Tenant
  BY RequestTyped DEF TypeOK, Seed, SeedFailed
<1>3. \A d \in Caller : d # c => seed'[d] = seed[d] /\ pc'[d] = pc[d] /\ overtaken'[d] = overtaken[d]
  BY DEF Seed, SeedFailed, TypeOK
<1>4. /\ ~overtaken'[c] => seed'[c] \in PageShows(x)
      /\ KeptApart(t) =>
           /\ seed'[c].status \in asked[t] \cup {"unresolved"}
           /\ seed'[c].assigned \in asked[t] \cup {Null}
  <2>1. CASE Seed(c)
    <3>1. seed'[c] \in PageShows(x)
      BY <2>1 DEF Seed, TypeOK, PageShows
    <3>2. KeptApart(t) => seed'[c] = Seen[t]
      BY <1>2, <3>1, OwnRowSeen DEF KeptApart
    <3> QED
      BY <1>2, <3>1, <3>2 DEF NothingInvented
  <2>2. CASE SeedFailed(c)
    <3>1. seed'[c] = Default /\ overtaken'[c]
      BY <2>2, Zenon DEF SeedFailed, TypeOK
    <3> QED
      BY <3>1 DEF Default
  <2> QED
    BY <2>1, <2>2
<1>5. SeedInv'
  BY <1>1, <1>3, <1>4 DEF SeedInv
<1>6. \A d \in Caller : pc'[d] # "idle" => pc[d] # "idle"
  BY <1>3 DEF Seed, SeedFailed
<1>7. AskedInv'
  BY <1>1, <1>6 DEF AskedInv
<1>8. NothingInvented'
  BY <1>1 DEF NothingInvented
<1> QED
  BY <1>5, <1>7, <1>8

\* An insert shows what was asked for, and marks the requests it overtakes.
LEMMA InsertStep ==
  ASSUME IInv, NEW c \in Caller, Insert(c)
  PROVE  SeedInv' /\ AskedInv' /\ NothingInvented'
<1> USE DEF IInv
<1> DEFINE t == req[c].ctx.tenant
<1>1. asked' = asked /\ req' = req /\ seed' = seed
  BY DEF Insert
<1>2. req[c] \in Request /\ t \in Tenant /\ pc[c] = "insert"
  BY RequestTyped DEF TypeOK, Insert
<1>3. seed[c] \in [status : Statuses, assigned : Assignee \cup {Null}]
  BY DEF TypeOK
<1>4. \A u \in Tenant : u # t => Seen'[u] = Seen[u]
  BY DEF Insert, Seen, TypeOK
<1>5. Seen'[t] = ReadBack(Merged(req[c], seed[c]))
  BY <1>2 DEF Insert, Seen, TypeOK
<1>6. \A d \in Caller : pc'[d] = "insert" => pc[d] = "insert"
  BY DEF Insert, TypeOK
<1>7. \A d \in Caller : pc[d] = "insert" /\ ~overtaken'[d] =>
         ~overtaken[d] /\ t \notin {req[d].ctx.tenant} \cup req[d].ctx.scope
  BY Zenon DEF Insert
<1>8. SeedInv'
  <2> SUFFICES ASSUME NEW d \in Caller, pc'[d] = "insert"
               PROVE  /\ ~overtaken'[d] => seed[d] \in PageShows(req[d].ctx)'
                      /\ KeptApart(req[d].ctx.tenant) =>
                           /\ seed[d].status \in asked[req[d].ctx.tenant] \cup {"unresolved"}
                           /\ seed[d].assigned \in asked[req[d].ctx.tenant] \cup {Null}
    BY <1>1 DEF SeedInv
  <2>1. pc[d] = "insert"
    BY <1>6
  <2>2. ASSUME ~overtaken'[d]
        PROVE  PageShows(req[d].ctx)' = PageShows(req[d].ctx)
    <3>1. t \notin req[d].ctx.scope
      BY <2>1, <2>2, <1>7
    <3>2. req[d].ctx \in Context
      BY <2>1, RequestTyped DEF TypeOK
    <3>3. \A u \in req[d].ctx.scope : rows'[u] = rows[u]
      BY <3>1, <3>2, TriageAssumption DEF Insert, TypeOK
    <3> QED
      BY <1>1, <3>3, SightKept
  <2> QED
    BY <2>1, <2>2, <1>7 DEF SeedInv
<1>9. AskedInv'
  <2>1. \A d \in Caller : pc'[d] # "idle" => pc[d] # "idle"
    BY DEF Insert, TypeOK
  <2> QED
    BY <2>1, <1>1 DEF AskedInv
<1>10. ASSUME KeptApart(t)
       PROVE  /\ Seen'[t].status \in asked[t] \cup {"unresolved"}
              /\ Seen'[t].assigned \in asked[t] \cup {Null}
  <2>3. /\ Seen'[t].status = IF req[c].status = "" THEN seed[c].status ELSE req[c].status
        /\ Seen'[t].assigned =
             IF req[c].assigned = Null THEN seed[c].assigned
             ELSE IF req[c].assigned = Blank THEN Null ELSE req[c].assigned
    BY <1>2, <1>3, <1>5, MergedReadBack, Zenon
  <2>4. /\ seed[c].status \in asked[t] \cup {"unresolved"}
        /\ seed[c].assigned \in asked[t] \cup {Null}
        /\ req[c].status # "" => req[c].status \in asked[t]
        /\ req[c].assigned \in Assignee => req[c].assigned \in asked[t]
    BY <1>2, <1>10 DEF SeedInv, AskedInv
  <2>5. req[c].assigned \in Assignee \cup {Blank, Null}
    BY <1>2, RequestTyped
  <2>1. Seen'[t].status \in asked[t] \cup {"unresolved"}
    BY <2>3, <2>4
  <2>2. Seen'[t].assigned \in asked[t] \cup {Null}
    BY <2>3, <2>4, <2>5
  <2> QED
    BY <2>1, <2>2
<1>11. NothingInvented'
  BY <1>1, <1>4, <1>10 DEF NothingInvented
<1> QED
  BY <1>8, <1>9, <1>11

\* Every step keeps the invariant.
LEMMA InvStep == IInv /\ [Next]_vars => IInv'
<1> SUFFICES ASSUME IInv, [Next]_vars PROVE IInv'
  OBVIOUS
<1>1. TypeOK'
  BY TypeStep DEF IInv
<1>2. ASSUME NEW c \in Caller, InsertFailed(c) PROVE SeedInv' /\ AskedInv' /\ NothingInvented'
  <2>1. Seen' = Seen
    BY <1>2 DEF InsertFailed, Seen
  <2>2. \A d \in Caller : pc'[d] # "idle" => pc'[d] = pc[d]
    BY <1>2 DEF InsertFailed, IInv, TypeOK
  <2>3. \A x : PageShows(x)' = PageShows(x)
    BY <1>2, SightKept DEF InsertFailed
  <2> QED
    BY <1>2, <2>1, <2>2, <2>3 DEF InsertFailed, IInv, SeedInv, AskedInv, NothingInvented
<1>3. ASSUME UNCHANGED vars PROVE SeedInv' /\ AskedInv' /\ NothingInvented'
  <2>1. Seen' = Seen
    BY <1>3 DEF vars, Seen
  <2>2. \A x : PageShows(x)' = PageShows(x)
    BY <1>3, SightKept DEF vars
  <2> QED
    BY <1>3, <2>1, <2>2 DEF vars, IInv, SeedInv, AskedInv, NothingInvented
<1> QED
  BY <1>1, <1>2, <1>3, AskStep, SeedStep, InsertStep DEF Next, IInv

-----------------------------------------------------------------------------
(* Theorems. *)

\* Whatever races, failed reads and lost inserts do, and whatever others see, the group
\* of a tenant whose writers see it alone shows only values asked for there
\* (writeErrorGroupStatus).
THEOREM NoValueInvented == Spec => []NothingInvented
<1>1. IInv => NothingInvented
  BY DEF IInv
<1> QED
  BY <1>1, InitInv, InvStep, PTL DEF Spec

\* A request that sees its own tenant alone and that no other overtook keeps the field
\* it does not name, whatever the other requests see; of a request that sees several
\* tenants nothing is said (writeErrorGroupStatus, whose first query names no tenant
\* of its own).
THEOREM UnovertakenKeepTheOther == Spec => OnlyRacesLoseFields
<1> DEFINE Kept ==
      \A c \in Caller : Insert(c) /\ SeesOwn(req[c].ctx) /\ ~overtaken[c] =>
        LET t == req[c].ctx.tenant
        IN /\ req[c].status = "" => Seen'[t].status = Seen[t].status
           /\ req[c].assigned = Null => Seen'[t].assigned = Seen[t].assigned
<1>1. IInv /\ [Next]_vars => [Kept]_vars
  <2> SUFFICES ASSUME IInv, NEW c \in Caller, Insert(c), SeesOwn(req[c].ctx), ~overtaken[c]
               PROVE  LET t == req[c].ctx.tenant
                      IN /\ req[c].status = "" => Seen'[t].status = Seen[t].status
                         /\ req[c].assigned = Null => Seen'[t].assigned = Seen[t].assigned
    OBVIOUS
  <2>1. req[c] \in Request /\ req[c].ctx.tenant \in Tenant /\ pc[c] = "insert"
    BY RequestTyped DEF IInv, TypeOK, Insert
  <2>2. seed[c] \in [status : Statuses, assigned : Assignee \cup {Null}]
    BY DEF IInv, TypeOK
  <2>3. Seen'[req[c].ctx.tenant] = ReadBack(Merged(req[c], seed[c]))
    BY <2>1 DEF Insert, Seen, IInv, TypeOK
  <2>4. seed[c] = Seen[req[c].ctx.tenant]
    BY <2>1, RequestTyped, OwnRowSeen DEF IInv, SeedInv
  <2>5. /\ ReadBack(Merged(req[c], seed[c])).status = IF req[c].status = "" THEN seed[c].status ELSE req[c].status
        /\ ReadBack(Merged(req[c], seed[c])).assigned =
             IF req[c].assigned = Null THEN seed[c].assigned
             ELSE IF req[c].assigned = Blank THEN Null ELSE req[c].assigned
    BY <2>1, <2>2, MergedReadBack, Zenon
  <2> QED
    BY <2>3, <2>4, <2>5
<1>2. (Init => IInv) /\ (IInv /\ [Next]_vars => IInv')
  BY InitInv, InvStep
<1> QED
  BY <1>1, <1>2, PTL DEF Spec, OnlyRacesLoseFields

\* The list shows a row, and filters it, as the page reads it back.
LEMMA ListReadsBack ==
  ASSUME NEW row \in Row \cup {NoRow}, NEW f \in Statuses
  PROVE  /\ ListShows(row) = ReadBack(row)
         /\ (row.status = f \/ (f = "unresolved" /\ row.status = "")) <=> ReadBack(row).status = f
<1>1. CASE row = NoRow
  <2>1. row.status = "" /\ row.assigned = Null /\ ReadBack(row) = Default
    BY <1>1 DEF NoRow, ReadBack
  <2>2. ListShows(row) = Default
    BY <2>1, TriageAssumption DEF ListShows, Default
  <2>3. f # ""
    BY DEF Statuses
  <2>4. ReadBack(row).status = "unresolved"
    <3>1. Default.status = "unresolved"
      BY DEF Default
    <3> QED
      BY <2>1, <3>1, Zenon
  <2>5. (row.status = f \/ (f = "unresolved" /\ row.status = "")) <=> ReadBack(row).status = f
    BY <2>1, <2>3, <2>4
  <2> QED
    BY <2>1, <2>2, <2>5
<1>2. CASE row # NoRow
  <2>1. row.status \in Statuses
    BY <1>2 DEF Row
  <2>2. row.status # ""
    BY <2>1 DEF Statuses
  <2>3. ReadBack(row) = [status |-> row.status, assigned |-> IF row.assigned = Blank THEN Null ELSE row.assigned]
    BY <1>2 DEF ReadBack
  <2>4. ListShows(row) = ReadBack(row)
    BY <2>2, <2>3 DEF ListShows
  <2>5. ReadBack(row).status = row.status
    BY <2>3
  <2> QED
    BY <2>2, <2>4, <2>5
<1> QED
  BY <1>1, <1>2

\* The list shows a group under the statuses its own page can show, and no other, to
\* requests that see one tenant, several or none (ServeErrors and the group's page join
\* the same table).
THEOREM ListShowsPage == Spec => []ListAgreesWithPage
<1>1. IInv => ListAgreesWithPage
  <2> SUFFICES ASSUME IInv, NEW x \in Context, NEW f \in Statuses
               PROVE  {ListShows(row) : row \in Filtered(x, f)} = {s \in PageShows(x) : s.status = f}
    BY DEF ListAgreesWithPage
  <2>1. \A row \in VisibleRows(x) :
          /\ ListShows(row) = ReadBack(row)
          /\ (row.status = f \/ (f = "unresolved" /\ row.status = "")) <=> ReadBack(row).status = f
    BY VisibleTyped, ListReadsBack DEF IInv
  <2>2. \A row : row \in Filtered(x, f) <=> row \in VisibleRows(x) /\ ReadBack(row).status = f
    BY <2>1 DEF Filtered
  <2>3. ASSUME NEW s
        PROVE  s \in {ListShows(row) : row \in Filtered(x, f)} <=> s \in {v \in PageShows(x) : v.status = f}
    <3>1. s \in {ListShows(row) : row \in Filtered(x, f)}
            <=> \E row \in VisibleRows(x) : ReadBack(row).status = f /\ s = ListShows(row)
      BY <2>2
    <3>2. s \in {v \in PageShows(x) : v.status = f}
            <=> \E row \in VisibleRows(x) : s = ReadBack(row) /\ s.status = f
      BY DEF PageShows
    <3> QED
      BY <2>1, <3>1, <3>2
  <2> QED
    BY <2>3
<1>2. (Init => IInv) /\ (IInv /\ [Next]_vars => IInv')
  BY InitInv, InvStep
<1> QED
  BY <1>1, <1>2, PTL DEF Spec

-----------------------------------------------------------------------------
(* The refinement of ErrorInbox by requests that do not overlap. *)

\* One request at a time, and a first query that does not fail.
Sequential == ~ReadsFail /\ \A c, d \in Caller : c = d

NotOvertaken == \A c \in Caller : pc[c] # "idle" => ~overtaken[c]

\* Without overlap and failed reads no request is overtaken.
LEMMA NotOvertakenStep ==
  ASSUME Sequential, TypeOK, NotOvertaken, [Next]_vars
  PROVE  NotOvertaken'
<1> USE DEF TypeOK, NotOvertaken
<1>1. ASSUME NEW c \in Caller, NEW r \in Request, Ask(c, r) PROVE NotOvertaken'
  <2>1. ~overtaken'[c]
    BY <1>1, Zenon DEF Ask
  <2> QED
    BY <2>1 DEF Sequential
<1>2. ASSUME NEW c \in Caller, Seed(c) PROVE NotOvertaken'
  BY <1>2 DEF Seed, Sequential
<1>3. ASSUME NEW c \in Caller, Insert(c) \/ InsertFailed(c) PROVE NotOvertaken'
  <2>1. pc'[c] = "idle"
    BY <1>3 DEF Insert, InsertFailed
  <2> QED
    BY <2>1 DEF Sequential
<1>4. ASSUME NEW c \in Caller, SeedFailed(c) PROVE NotOvertaken'
  BY <1>4 DEF SeedFailed, Sequential
<1>5. ASSUME UNCHANGED vars PROVE NotOvertaken'
  BY <1>5 DEF vars
<1> QED
  BY <1>1, <1>2, <1>3, <1>4, <1>5 DEF Next

\* What a sender sees on the page it sees in the inbox.
LEMMA SightOfInbox ==
  ASSUME NEW x \in Context
  PROVE  PageShows(x) \subseteq Inbox!InSight(x)
<1> SUFFICES ASSUME NEW row \in VisibleRows(x) PROVE ReadBack(row) \in Inbox!InSight(x)
  BY DEF PageShows
<1>1. x.scope \subseteq Tenant
  BY TriageAssumption
<1>2. CASE x.scope = {}
  BY <1>2 DEF VisibleRows, ReadBack, Default, Inbox!InSight, Inbox!Untriaged
<1>3. CASE x.scope # {}
  <2>1. \E t \in x.scope : row = rows[t]
    BY <1>3 DEF VisibleRows
  <2> QED
    BY <1>1, <1>3, <2>1 DEF Inbox!InSight, Seen
<1> QED
  BY <1>2, <1>3

\* The insert of a request that was not overtaken is one step of the inbox.
LEMMA InsertRefines ==
  ASSUME IInv, NEW c \in Caller, Insert(c), ~overtaken[c]
  PROVE  [Inbox!Next]_Seen
<1> DEFINE x == req[c].ctx
           t == req[c].ctx.tenant
<1>1. req[c] \in Request /\ x \in Context /\ t \in Tenant /\ pc[c] = "insert"
  BY RequestTyped DEF IInv, TypeOK, Insert
<1>2. /\ req[c].status \in Statuses \cup {""}
      /\ req[c].assigned \in Assignee \cup {Blank, Null}
  BY <1>1, RequestTyped
<1>3. req[c].status = "" \/ req[c].assigned = Null
  BY <1>1, RequestTyped
<1>4. seed[c] \in Inbox!InSight(x)
  BY <1>1, SightOfInbox DEF IInv, SeedInv
<1>5. seed[c] \in [status : Statuses, assigned : Assignee \cup {Null}]
  BY DEF IInv, TypeOK
<1>6. Seen'[t] = ReadBack(Merged(req[c], seed[c]))
  BY <1>1 DEF Insert, Seen, IInv, TypeOK
<1>7. Seen'[t] \in [status : Statuses, assigned : Assignee \cup {Null}]
  BY <1>1, <1>5, <1>6, MergedTyped, ReadBackTyped
<1>8. /\ ReadBack(Merged(req[c], seed[c])).status = IF req[c].status = "" THEN seed[c].status ELSE req[c].status
      /\ ReadBack(Merged(req[c], seed[c])).assigned =
           IF req[c].assigned = Null THEN seed[c].assigned
           ELSE IF req[c].assigned = Blank THEN Null ELSE req[c].assigned
  BY <1>1, <1>5, MergedReadBack, Zenon
<1>9. Seen' = [Seen EXCEPT ![t] = Seen'[t]]
  <2>1. \A u \in Tenant : u # t => Seen'[u] = Seen[u]
    BY <1>1 DEF Insert, Seen, IInv, TypeOK
  <2> QED
    BY <1>1, <2>1 DEF Seen
<1>10. Seen'[t] = [status |-> Seen'[t].status, assigned |-> Seen'[t].assigned]
  BY <1>7
<1>11. CASE req[c].status = ""
  <2>1. Seen'[t].status = seed[c].status
    BY <1>6, <1>8, <1>11
  <2>2. Inbox!Assign(x, Seen'[t].assigned)
    BY <1>4, <1>9, <1>10, <2>1 DEF Inbox!Assign
  <2> QED
    BY <1>1, <1>7, <2>2 DEF Inbox!Next
<1>12. CASE req[c].assigned = Null
  <2>1. Seen'[t].assigned = seed[c].assigned
    BY <1>6, <1>8, <1>12
  <2>2. Inbox!SetStatus(x, Seen'[t].status)
    BY <1>4, <1>9, <1>10, <2>1 DEF Inbox!SetStatus
  <2> QED
    BY <1>1, <1>7, <2>2 DEF Inbox!Next, Inbox!Statuses, Statuses
<1> QED
  BY <1>3, <1>11, <1>12

\* One request at a time with reads that do not fail, the two queries of a triage
\* request behave as one atomic update of the field it names, with the other carried
\* over from a tenant its sender sees (ErrorInbox).
THEOREM SequentialRefinement ==
  ASSUME Sequential
  PROVE  Spec => InboxBehaviour
<1>1. Init => Inbox!Init
  BY DEF Init, Inbox!Init, Inbox!Untriaged, Seen, ReadBack, Default
<1>2. IInv /\ NotOvertaken /\ [Next]_vars => [Inbox!Next]_Seen
  <2> SUFFICES ASSUME IInv, NotOvertaken, [Next]_vars PROVE [Inbox!Next]_Seen
    OBVIOUS
  <2>1. ASSUME NEW c \in Caller, Insert(c) PROVE [Inbox!Next]_Seen
    <3>1. ~overtaken[c]
      BY <2>1 DEF NotOvertaken, Insert
    <3> QED
      BY <2>1, <3>1, InsertRefines
  <2>2. ASSUME rows' = rows PROVE Seen' = Seen
    BY <2>2 DEF Seen
  <2> QED
    BY <2>1, <2>2 DEF Next, Ask, Seed, SeedFailed, InsertFailed, vars
<1>3. Init => NotOvertaken
  BY DEF Init, NotOvertaken
<1>4. IInv /\ NotOvertaken /\ [Next]_vars => NotOvertaken'
  BY NotOvertakenStep DEF IInv
<1>5. (Init => IInv) /\ (IInv /\ [Next]_vars => IInv')
  BY InitInv, InvStep
<1> QED
  BY <1>1, <1>2, <1>3, <1>4, <1>5, PTL DEF Spec, InboxBehaviour, Inbox!Spec
=============================================================================
