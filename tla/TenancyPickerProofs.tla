------------------------ MODULE TenancyPickerProofs -------------------------
(***************************************************************************)
(* Proofs about the directory client and the organization picker composed  *)
(* of it and the agent registry, for every set of callers, organizations,  *)
(* agents and contexts and every choice of the durations allowed by        *)
(* TimesAssumption.                                                        *)
(***************************************************************************)
EXTENDS TenancyPicker, TLAPS

-----------------------------------------------------------------------------
(* OamDirectory. *)

\* The nil slice is not a directory, and a missing entry is not an entry.
LEMMA NilIsNoDirectory == Nil \notin Directory /\ NoEntry \notin L2Entry
BY DEF Nil, Directory, NoEntry, L2Entry

LEMMA ErrorIsAnswer == NoAnswer \in Answer /\ Error \in Answer
BY DEF NoAnswer, Error, Answer

\* A directory that does not lie in the future can be served.
LEMMA ServedIsAnswer ==
  ASSUME now \in Nat, NEW d \in Directory, d.at <= now, NEW k \in {"fresh", "outage"}
  PROVE  Served(k, d) \in Answer
BY DEF Served, Directory, Answer

\* The invariant holds initially.
LEMMA InitIInv == Init => IInv
BY ErrorIsAnswer, TimesAssumption
   DEF Init, EveryCaller, IInv, TypeOK, CallsInTime, L2Age, GotAge, CacheAge, StaleIsPast, ServedAgeBound,
       Nil, NoEntry, NoAnswer

\* The invariant is preserved by every step.
LEMMA NextIInv == IInv /\ [Next]_vars => IInv'
<1> SUFFICES ASSUME IInv, [Next]_vars
             PROVE  IInv'
  OBVIOUS
<1> USE TimesAssumption
<1>1. ASSUME NEW c \in Caller, NoSecret(c)
      PROVE  IInv'
  BY <1>1, ErrorIsAnswer DEF NoSecret, Return, client, IInv, TypeOK, CallsInTime, L2Age, GotAge,
     CacheAge, StaleIsPast, ServedAgeBound, Nil, Error, NoAnswer
<1>2. ASSUME NEW c \in Caller, HitCache(c)
      PROVE  IInv'
  <2>1. cached \in Directory /\ cached.at <= now
    BY <1>2 DEF HitCache, Return, client, CacheIsFresh, IInv, CacheAge, TypeOK, Directory
  <2>2. Served("fresh", cached) \in Answer
    BY <2>1, ServedIsAnswer DEF IInv, TypeOK
  <2>3. Served("fresh", cached).age + 2 <= FreshWithin
    BY <1>2, <2>1 DEF HitCache, Return, client, CacheIsFresh, Served, FreshWithin, IInv, CacheAge, TypeOK, Directory
  <2> QED
    BY <1>2, <2>2, <2>3 DEF HitCache, Return, client, IInv, TypeOK, CallsInTime, L2Age, GotAge,
       CacheAge, StaleIsPast, ServedAgeBound, Nil, FreshWithin
<1>3. ASSUME NEW c \in Caller, MissCache(c)
      PROVE  IInv'
  <2>1. cached.at <= now
    BY DEF IInv, TypeOK, CacheAge, Nil, Directory
  <2> QED
    BY <1>3, <2>1, ErrorIsAnswer DEF MissCache, Goto, client, locals, IInv, TypeOK, CallsInTime, L2Age, GotAge,
       CacheAge, StaleIsPast, ServedAgeBound, NoAnswer, FreshWithin
<1>4. ASSUME NEW c \in Caller, LoadL2Hit(c)
      PROVE  IInv'
  <2>1. l2.dir \in Directory /\ l2.dir.at <= now /\ start[c] < l2.dir.at + CallTime + L2TTL
    BY <1>4 DEF LoadL2Hit, Goto, client, locals, IInv, TypeOK, CallsInTime, L2Age, L2Entry, Directory
  <2> QED
    BY <1>4, <2>1 DEF LoadL2Hit, Goto, client, locals, IInv, TypeOK, CallsInTime, L2Age, GotAge,
       CacheAge, StaleIsPast, ServedAgeBound, FreshWithin
<1>5. ASSUME NEW c \in Caller, LoadL2Miss(c)
      PROVE  IInv'
  BY <1>5 DEF LoadL2Miss, Goto, client, locals, IInv, TypeOK, CallsInTime, L2Age, GotAge, CacheAge, StaleIsPast,
     ServedAgeBound, FreshWithin
<1>6. ASSUME NEW c \in Caller, FetchAnswered(c)
      PROVE  IInv'
  <2>1. [orgs |-> oam, at |-> now] \in Directory
    BY DEF IInv, TypeOK, Directory
  <2> QED
    BY <1>6, <2>1 DEF FetchAnswered, Goto, client, locals, IInv, TypeOK, CallsInTime, L2Age, GotAge, CacheAge, StaleIsPast,
       ServedAgeBound, FreshWithin
<1>7. ASSUME NEW c \in Caller, FetchFailed(c)
      PROVE  IInv'
  <2> DEFINE a == IF stale[c].orgs # {} THEN Served("outage", stale[c]) ELSE Error
  <2>1. a \in Answer /\ a.kind # "fresh"
    <3>1. CASE stale[c].orgs # {}
      <4>1. stale[c] \in Directory /\ stale[c].at <= now
        BY <3>1 DEF IInv, TypeOK, StaleIsPast, Nil
      <4> QED BY <3>1, <4>1, ServedIsAnswer DEF IInv, TypeOK, Served
    <3>2. CASE stale[c].orgs = {}
      BY <3>2, ErrorIsAnswer DEF Error, NoAnswer
    <3> QED BY <3>1, <3>2
  <2>2. Return(c, a)
    BY <1>7 DEF FetchFailed
  <2> HIDE DEF a
  <2> QED
    BY <1>7, <2>1, <2>2 DEF FetchFailed, Return, client, IInv, TypeOK, CallsInTime, L2Age, GotAge,
       CacheAge, StaleIsPast, ServedAgeBound, Nil, FreshWithin
<1>8. ASSUME NEW c \in Caller, StoreL2(c)
      PROVE  IInv'
  <2>1. /\ got[c] \in Directory /\ got[c].at <= now
        /\ start[c] <= got[c].at /\ now <= start[c] + CallTime
        /\ start[c] \in Nat
    BY <1>8 DEF StoreL2, Goto, client, locals, IInv, TypeOK, CallsInTime, GotAge
  <2> DEFINE e == [dir |-> got[c], expires |-> now + L2TTL]
  <2>2. e \in L2Entry /\ e.dir \in Directory /\ e.dir.at <= now /\ e.expires <= e.dir.at + CallTime + L2TTL
    BY <2>1 DEF IInv, TypeOK, L2Entry, Directory
  <2>3. l2' = l2 \/ l2' = e
    BY <1>8 DEF StoreL2
  <2> HIDE DEF e
  <2>4. TypeOK'
    BY <1>8, <2>2, <2>3 DEF StoreL2, Goto, client, locals, IInv, TypeOK
  <2>5. L2Age'
    BY <1>8, <2>2, <2>3 DEF StoreL2, Goto, client, locals, IInv, L2Age
  <2>6. GotAge'
    BY <1>8, <2>1 DEF StoreL2, Goto, client, locals, IInv, TypeOK, GotAge, Directory
  <2> QED
    BY <1>8, <2>4, <2>5, <2>6 DEF StoreL2, Goto, client, locals, IInv, TypeOK, CallsInTime, CacheAge, StaleIsPast,
       ServedAgeBound, FreshWithin
<1>9. ASSUME NEW c \in Caller, Fill(c)
      PROVE  IInv'
  <2>1. /\ got[c] \in Directory /\ got[c].at <= now
        /\ now < got[c].at + L2TTL + 2 * CallTime
    BY <1>9 DEF Fill, Return, client, IInv, TypeOK, CallsInTime, GotAge, Directory
  <2>2. /\ Served("fresh", got[c]) \in Answer
        /\ Served("fresh", got[c]).age + 2 <= FreshWithin
    <3>1. Served("fresh", got[c]) \in Answer
      BY <2>1, ServedIsAnswer DEF IInv, TypeOK
    <3>2. Served("fresh", got[c]).age + 2 <= FreshWithin
      BY <2>1 DEF IInv, TypeOK, Served, FreshWithin, Directory
    <3> QED BY <3>1, <3>2
  <2> DEFINE a == Served("fresh", got[c])
  <2>3. Return(c, a)
    BY <1>9 DEF Fill
  <2> HIDE DEF a
  <2>4. TypeOK'
    BY <1>9, <2>1, <2>2, <2>3 DEF Fill, Return, IInv, TypeOK, a
  <2>5. CacheAge'
    BY <1>9, <2>1 DEF Fill, IInv, TypeOK, CacheAge, Directory
  <2>6. ServedAgeBound'
    BY <2>2, <2>3 DEF Return, IInv, TypeOK, ServedAgeBound, FreshWithin, a
  <2> QED
    BY <1>9, <2>3, <2>4, <2>5, <2>6 DEF Fill, Return, IInv, TypeOK, CallsInTime, L2Age, GotAge,
       StaleIsPast, Nil
<1>10. CASE EditDirectory
  BY <1>10 DEF EditDirectory, client, locals, EveryCaller, IInv, TypeOK, CallsInTime, L2Age, GotAge, CacheAge, StaleIsPast,
     ServedAgeBound, FreshWithin
<1>11. CASE Tick
  BY <1>11 DEF Tick, client, locals, EveryCaller, IInv, TypeOK, CallsInTime, L2Age, GotAge, CacheAge, StaleIsPast,
     ServedAgeBound, FreshWithin, Directory, L2Entry, Nil, NoEntry
<1>12. CASE Restart
  BY <1>12, ErrorIsAnswer DEF Restart, client, locals, EveryCaller, IInv, TypeOK, CallsInTime, L2Age, GotAge,
     CacheAge, StaleIsPast, ServedAgeBound, Nil, NoEntry, NoAnswer, FreshWithin
<1>13. CASE UNCHANGED vars
  BY <1>13 DEF vars, IInv, TypeOK, CallsInTime, L2Age, GotAge, CacheAge, StaleIsPast,
     ServedAgeBound, FreshWithin
<1> QED
  BY <1>1, <1>2, <1>3, <1>4, <1>5, <1>6, <1>7, <1>8, <1>9, <1>10, <1>11, <1>12, <1>13
     DEF Next, Organizations

\* The invariant of the directory cache.
THEOREM Invariance == Spec => []IInv
BY InitIInv, NextIInv, PTL DEF Spec

\* Every variable keeps its type.
THEOREM TypeCorrect == Spec => []TypeOK
BY Invariance, PTL DEF IInv

\* No answer that is not the outage fallback is older than FreshWithin, for
\* every number of concurrent callers and every choice of the durations.
THEOREM ServedAge == Spec => []ServedAgeBound
BY Invariance, PTL DEF IInv

\* However calls overtake one another, the cache never goes back by more than a
\* second-level lifetime and two calls.
THEOREM Regression == Spec => ViewRegressionBounded
<1>1. IInv /\ IInv' /\ [Next]_vars =>
        [cached # Nil /\ cached' # Nil => cached.at - cached'.at < L2TTL + 2 * CallTime]_vars
  <2> SUFFICES ASSUME IInv, IInv', [Next]_vars, cached # Nil, cached' # Nil, ~UNCHANGED vars
               PROVE  cached.at - cached'.at < L2TTL + 2 * CallTime
    OBVIOUS
  <2>1. cached.at \in Nat /\ cached'.at \in Nat /\ cachedAt \in Nat /\ cachedAt' \in Nat
    BY DEF IInv, TypeOK, CacheAge, Directory
  <2>2. cached.at <= now /\ cachedAt' < cached'.at + L2TTL + 2 * CallTime
    BY <2>1 DEF IInv, TypeOK, CacheAge
  <2>3. cached' = cached \/ cachedAt' = now
    BY DEF Next, Organizations, NoSecret, HitCache, MissCache, LoadL2Hit, LoadL2Miss, FetchAnswered,
       FetchFailed, StoreL2, Fill, EditDirectory, Tick, Restart, client, locals, Return, vars
  <2>4. now \in Nat
    BY DEF IInv, TypeOK
  <2> QED
    BY <2>1, <2>2, <2>3, <2>4, TimesAssumption
<1> QED
  BY <1>1, Invariance, PTL DEF Spec, ViewRegressionBounded

\* A call keeps a copy of the cache as long as it may need it.
LEMMA NextStaleCovers == IInv /\ StaleCovers /\ [Next]_vars => StaleCovers'
<1> SUFFICES ASSUME IInv, StaleCovers, [Next]_vars
             PROVE  StaleCovers'
  OBVIOUS
<1>1. ASSUME NEW c \in Caller, Fill(c)
      PROVE  StaleCovers'
  <2>1. /\ cachedAt' = now /\ start' = [start EXCEPT ![c] = 0] /\ pc' = [pc EXCEPT ![c] = "idle"]
        /\ \A d \in Caller : d # c => answer'[d] = answer[d]
    BY <1>1 DEF Fill, Return, IInv, TypeOK
  <2>2. \A d \in Caller : pc[d] # "idle" => start[d] <= now
    BY DEF IInv, CallsInTime
  <2> QED BY <2>1, <2>2 DEF IInv, TypeOK, StaleCovers
<1>2. ASSUME NEW c \in Caller, Organizations(c), ~Fill(c)
      PROVE  StaleCovers'
  <2>1. cached' = cached /\ cachedAt' = cachedAt
    BY <1>2 DEF Organizations, NoSecret, HitCache, MissCache, LoadL2Hit, LoadL2Miss, FetchAnswered, FetchFailed,
       StoreL2, client
  <2>2. \A d \in Caller : d # c =>
          pc'[d] = pc[d] /\ stale'[d] = stale[d] /\ start'[d] = start[d] /\ answer'[d] = answer[d]
    BY <1>2 DEF Organizations, NoSecret, HitCache, MissCache, LoadL2Hit, LoadL2Miss, FetchAnswered, FetchFailed,
       StoreL2, Return, Goto, locals, IInv, TypeOK
  <2>3. /\ pc'[c] # "idle" => answer'[c] = NoAnswer
        /\ pc'[c] \in {"loadL2", "fetch"} => stale'[c] = cached \/ cachedAt >= start'[c]
    BY <1>2 DEF Organizations, NoSecret, HitCache, MissCache, LoadL2Hit, LoadL2Miss, FetchAnswered, FetchFailed,
       StoreL2, Return, Goto, locals, IInv, TypeOK, StaleCovers
  <2> QED BY <2>1, <2>2, <2>3 DEF StaleCovers
<1>3. CASE EditDirectory \/ Tick \/ UNCHANGED vars
  BY <1>3 DEF EditDirectory, Tick, vars, client, locals, StaleCovers
<1>4. CASE Restart
  BY <1>4 DEF Restart, EveryCaller, StaleCovers
<1> QED BY <1>1, <1>2, <1>3, <1>4 DEF Next

\* An outage does not hide the organizations the client knew when the call began,
\* whatever other calls do meanwhile.
THEOREM OutageKeepsOrgs == Spec => OutageServesKnownOrgs
<1>1. Init => StaleCovers
  BY DEF Init, EveryCaller, StaleCovers
<1>2. IInv /\ StaleCovers /\ [Next]_vars =>
        [\A c \in Caller :
           pc[c] = "fetch" /\ answer'[c] = Error => cached.orgs = {} \/ cachedAt >= start[c]]_vars
  <2> SUFFICES ASSUME IInv, StaleCovers, [Next]_vars, NEW c \in Caller, pc[c] = "fetch", answer'[c] = Error
               PROVE  cached.orgs = {} \/ cachedAt >= start[c]
    OBVIOUS
  <2>1. answer[c] = NoAnswer /\ (stale[c] = cached \/ cachedAt >= start[c])
    BY DEF StaleCovers
  <2>2. NoAnswer # Error /\ \A d : Served("outage", d) # Error /\ Served("fresh", d) # Error
    BY DEF NoAnswer, Error, Served
  <2>3. answer' = answer \/ (\E d \in Caller : Organizations(d)) \/ Restart
    BY DEF Next, EditDirectory, Tick, vars
  <2>4. CASE Restart
    BY <2>2, <2>4 DEF Restart, EveryCaller
  <2>5. ASSUME NEW d \in Caller, Organizations(d)
        PROVE  stale[c].orgs = {}
    <3>1. d = c
      BY <2>1, <2>2, <2>5 DEF Organizations, NoSecret, HitCache, MissCache, LoadL2Hit, LoadL2Miss, FetchAnswered,
         FetchFailed, StoreL2, Fill, Return, IInv, TypeOK
    <3>2. FetchFailed(c)
      BY <2>1, <2>2, <2>5, <3>1 DEF Organizations, NoSecret, HitCache, MissCache, LoadL2Hit, LoadL2Miss, FetchAnswered,
         FetchFailed, StoreL2, Fill
    <3> QED BY <2>2, <3>2 DEF FetchFailed, Return, IInv, TypeOK
  <2> QED BY <2>1, <2>2, <2>3, <2>4, <2>5
<1> QED
  BY <1>1, <1>2, NextStaleCovers, Invariance, PTL DEF Spec, OutageServesKnownOrgs

-----------------------------------------------------------------------------
(* TenancyPicker. *)

\* Whatever the hub does, the directory client takes one of its own steps or none
\* (the handler reaches it through Client.Organizations only).
LEMMA PickerStepIsClients == [PickerNext]_pickerVars => [Next]_vars
<1> SUFFICES ASSUME [PickerNext]_pickerVars
             PROVE  [Next]_vars
  OBVIOUS
<1>1. CASE UNCHANGED pickerVars
  BY <1>1 DEF pickerVars
<1>2. CASE \E c \in Caller, x \in Context : Ask(c, x)
  BY <1>2 DEF Ask
<1>3. CASE \E c \in Caller : Consult(c)
  BY <1>3 DEF Consult, Next
<1>4. CASE \E c \in Caller : Compose(c)
  BY <1>4 DEF Compose
<1>5. CASE \E i \in AgentId, t \in Tenant : EnrolAgent(i, t)
  BY <1>5 DEF EnrolAgent
<1>6. CASE EditOrganizations \/ PickerTick \/ HubRestart
  BY <1>6 DEF EditOrganizations, PickerTick, HubRestart, Next
<1> QED
  BY <1>1, <1>2, <1>3, <1>4, <1>5, <1>6 DEF PickerNext

\* The picker composes the directory client without disturbing it: what is proved of
\* the client holds of the hub.
THEOREM PickerRefinesDirectory == PickerSpec => Spec
<1>1. PickerInit => Init
  BY DEF PickerInit
<1> QED
  BY <1>1, PickerStepIsClients, PTL DEF PickerSpec, Spec

\* The nil slice and the missing entry are right about nothing.
LEMMA NilAccurate ==
  ASSUME changedAt \in [Org -> Nat]
  PROVE  Accurate(Nil)
BY DEF Accurate, Nil

\* What a step of the call leaves of its copies (Client.Organizations).
LEMMA CallCopies ==
  ASSUME IInv, PickerTyped, CopiesAccurate, NEW c \in Caller, Organizations(c), changedAt' = changedAt
  PROVE  /\ CopiesAccurate' /\ oam' = oam /\ now' = now
         /\ \A d \in Caller \ {c} : answer'[d] = answer[d]
         /\ pc'[c] = "idle" /\ answer'[c].kind = "fresh" =>
              Accurate([orgs |-> answer'[c].orgs, at |-> now - answer'[c].age])
<1>1. /\ Accurate(Nil) /\ now \in Nat
      /\ cached \in Directory \cup {Nil} /\ \A d \in Caller : got[d] \in Directory \cup {Nil}
      /\ answer \in [Caller -> Answer] /\ got \in [Caller -> Directory \cup {Nil}]
  BY NilAccurate DEF IInv, TypeOK, PickerTyped
<1>2. oam' = oam /\ now' = now /\ \A d \in Caller \ {c} : answer'[d] = answer[d]
  BY <1>1 DEF Organizations, NoSecret, HitCache, MissCache, LoadL2Hit, LoadL2Miss, FetchAnswered, FetchFailed,
     StoreL2, Fill, Return
<1>3. ASSUME NEW d, Accurate(d)
      PROVE  Accurate(d)'
  BY <1>2, <1>3 DEF Accurate
<1>4. ASSUME NEW d \in Directory \cup {Nil}, Accurate(d), answer' = [answer EXCEPT ![c] = Served("fresh", d)]
      PROVE  Accurate([orgs |-> answer'[c].orgs, at |-> now - answer'[c].age])
  <2>1. answer'[c] = Served("fresh", d)
    BY <1>1, <1>4
  <2>2. d.at \in Int
    BY DEF Directory, Nil
  <2>3. answer'[c].orgs = d.orgs /\ now - answer'[c].age = d.at
    BY <1>1, <2>1, <2>2 DEF Served
  <2> QED BY <1>4, <2>3 DEF Accurate
<1>5. CASE NoSecret(c) \/ FetchFailed(c)
  <2>1. /\ cached' = cached /\ l2' = l2 /\ pc' = [pc EXCEPT ![c] = "idle"] /\ got' = [got EXCEPT ![c] = Nil]
        /\ answer'[c].kind # "fresh"
    BY <1>1, <1>5 DEF NoSecret, FetchFailed, Return, client, Error, Served
  <2>2. CopiesAccurate'
    BY <1>1, <1>2, <1>3, <2>1 DEF CopiesAccurate, IInv, TypeOK
  <2> QED BY <1>2, <2>1, <2>2
<1>6. CASE HitCache(c)
  <2>1. /\ cached' = cached /\ l2' = l2 /\ pc' = [pc EXCEPT ![c] = "idle"] /\ got' = [got EXCEPT ![c] = Nil]
        /\ answer' = [answer EXCEPT ![c] = Served("fresh", cached)]
    BY <1>6 DEF HitCache, Return, client
  <2>2. CopiesAccurate'
    BY <1>1, <1>2, <1>3, <2>1 DEF CopiesAccurate, IInv, TypeOK
  <2>3. Accurate(cached)
    BY DEF CopiesAccurate
  <2>4. Accurate([orgs |-> answer'[c].orgs, at |-> now - answer'[c].age])
    BY <1>1, <1>4, <2>1, <2>3
  <2> QED BY <1>2, <2>2, <2>4
<1>7. CASE MissCache(c) \/ LoadL2Miss(c)
  <2>1. /\ cached' = cached /\ l2' = l2 /\ got' = got
        /\ \E to \in {"loadL2", "fetch"} : pc' = [pc EXCEPT ![c] = to]
    BY <1>7 DEF MissCache, LoadL2Miss, Goto, client, locals
  <2>2. CopiesAccurate'
    BY <1>1, <1>2, <1>3, <2>1 DEF CopiesAccurate, IInv, TypeOK
  <2> QED BY <1>2, <2>1, <2>2 DEF IInv, TypeOK
<1>8. CASE LoadL2Hit(c) \/ FetchAnswered(c)
  <2>1. /\ cached' = cached /\ l2' = l2 /\ answer' = answer
        /\ \E to \in {"fill", "storeL2"} : pc' = [pc EXCEPT ![c] = to]
        /\ got' = [got EXCEPT ![c] = l2.dir] \/ got' = [got EXCEPT ![c] = [orgs |-> oam, at |-> now]]
    BY <1>8 DEF LoadL2Hit, FetchAnswered, Goto, client
  <2>2. Accurate(l2.dir) /\ Accurate([orgs |-> oam, at |-> now])
    BY DEF CopiesAccurate, Accurate
  <2>3. Accurate(got'[c])
    BY <1>1, <2>1, <2>2
  <2>4. \A d \in Caller \ {c} : pc'[d] = pc[d] /\ got'[d] = got[d]
    BY <2>1 DEF IInv, TypeOK
  <2>5. CopiesAccurate'
    BY <1>3, <2>1, <2>3, <2>4 DEF CopiesAccurate
  <2> QED BY <1>2, <2>1, <2>5 DEF IInv, TypeOK
<1>9. CASE StoreL2(c)
  <2>1. /\ cached' = cached /\ answer' = answer /\ got' = got /\ pc[c] = "storeL2"
        /\ pc' = [pc EXCEPT ![c] = "fill"]
        /\ l2' = l2 \/ l2'.dir = got[c]
    BY <1>9 DEF StoreL2, Goto, client, locals
  <2>2. Accurate(got[c])
    BY <2>1 DEF CopiesAccurate
  <2>3. \A d \in Caller \ {c} : pc'[d] = pc[d]
    BY <2>1 DEF IInv, TypeOK
  <2>4. Accurate(l2'.dir)
    BY <2>1, <2>2 DEF CopiesAccurate
  <2>5. CopiesAccurate'
    BY <1>3, <2>1, <2>2, <2>3, <2>4 DEF CopiesAccurate
  <2> QED BY <1>2, <2>1, <2>5 DEF IInv, TypeOK
<1>10. CASE Fill(c)
  <2>1. /\ pc[c] = "fill" /\ cached' = got[c] /\ l2' = l2
        /\ pc' = [pc EXCEPT ![c] = "idle"] /\ got' = [got EXCEPT ![c] = Nil]
        /\ answer' = [answer EXCEPT ![c] = Served("fresh", got[c])]
    BY <1>10 DEF Fill, Return
  <2>2. Accurate(got[c])
    BY <2>1 DEF CopiesAccurate
  <2>3. \A d \in Caller : pc'[d] \in {"storeL2", "fill"} => d # c /\ pc'[d] = pc[d] /\ got'[d] = got[d]
    BY <2>1 DEF IInv, TypeOK
  <2>4. CopiesAccurate'
    BY <1>3, <2>1, <2>2, <2>3 DEF CopiesAccurate
  <2>5. Accurate([orgs |-> answer'[c].orgs, at |-> now - answer'[c].age])
    BY <1>1, <1>4, <2>1, <2>2
  <2> QED BY <1>2, <2>4, <2>5
<1> QED
  BY <1>5, <1>6, <1>7, <1>8, <1>9, <1>10 DEF Organizations

\* The picker's own variables keep their types.
LEMMA NextPickerTyped ==
  ASSUME IInv, PickerTyped, [PickerNext]_pickerVars
  PROVE  PickerTyped'
<1>1. CASE UNCHANGED pickerVars
  BY <1>1 DEF pickerVars, PickerTyped
<1>2. ASSUME NEW c \in Caller, NEW x \in Context, Ask(c, x)
      PROVE  PickerTyped'
  <2>1. \E s \in {"directory", "compose"} : ask' = [ask EXCEPT ![c] = Asked(s, x)]
    BY <1>2 DEF Ask
  <2>2. ask' \in [Caller -> {Idle} \cup [stage : {"directory", "compose"}, ctx : Context]]
    BY <2>1 DEF PickerTyped, Asked
  <2> QED BY <1>2, <2>2 DEF Ask, PickerTyped
<1>3. ASSUME NEW c \in Caller, Consult(c)
      PROVE  PickerTyped'
  <2>1. ask[c] \in [stage : {"directory", "compose"}, ctx : Context]
    BY <1>3 DEF Consult, PickerTyped, Idle
  <2>2. ask' = ask \/ ask' = [ask EXCEPT ![c] = Asked("compose", ask[c].ctx)]
    BY <1>3 DEF Consult
  <2>3. ask' \in [Caller -> {Idle} \cup [stage : {"directory", "compose"}, ctx : Context]]
    BY <2>1, <2>2 DEF PickerTyped, Asked
  <2> QED BY <1>3, <2>3 DEF Consult, PickerTyped
<1>4. ASSUME NEW c \in Caller, Compose(c)
      PROVE  PickerTyped'
  <2>1. ask' = [ask EXCEPT ![c] = Idle] /\ DOMAIN reply' = DOMAIN reply /\ changedAt' = changedAt
    BY <1>4 DEF Compose
  <2> QED BY <2>1 DEF PickerTyped
<1>5. ASSUME NEW i \in AgentId, NEW t \in Tenant, EnrolAgent(i, t)
      PROVE  PickerTyped'
  BY <1>5 DEF EnrolAgent, PickerTyped
<1>6. CASE EditOrganizations
  <2>1. now \in Nat
    BY DEF IInv, TypeOK
  <2> QED BY <1>6, <2>1 DEF EditOrganizations, PickerTyped
<1>7. CASE PickerTick \/ HubRestart
  BY <1>7 DEF PickerTick, HubRestart, PickerTyped
<1> QED
  BY <1>1, <1>2, <1>3, <1>4, <1>5, <1>6, <1>7 DEF PickerNext

\* What every copy and answer is right about survives each step of the hub.
LEMMA NextPickerInv == IInv /\ PickerInv /\ [PickerNext]_pickerVars => PickerInv'
<1> SUFFICES ASSUME IInv, PickerInv, [PickerNext]_pickerVars
             PROVE  PickerInv'
  OBVIOUS
<1>1. PickerTyped /\ PickerTyped' /\ CopiesAccurate /\ AnswersAccurate /\ NothingWithoutPeer
  BY NextPickerTyped DEF PickerInv
<1>2. CASE UNCHANGED pickerVars
  <2>1. /\ ask' = ask /\ answer' = answer /\ now' = now /\ changedAt' = changedAt /\ oam' = oam
        /\ cached' = cached /\ l2' = l2 /\ pc' = pc /\ got' = got
    BY <1>2 DEF pickerVars, vars
  <2>2. CopiesAccurate' /\ AnswersAccurate' /\ NothingWithoutPeer'
    BY <1>1, <2>1 DEF CopiesAccurate, AnswersAccurate, NothingWithoutPeer, Accurate
  <2> QED BY <1>1, <2>2 DEF PickerInv
<1>3. ASSUME NEW c \in Caller, NEW x \in Context, Ask(c, x)
      PROVE  PickerInv'
  <2>1. /\ answer' = answer /\ now' = now /\ changedAt' = changedAt /\ oam' = oam
        /\ cached' = cached /\ l2' = l2 /\ pc' = pc /\ got' = got
        /\ ask' = [ask EXCEPT ![c] = Asked(IF Configured THEN "directory" ELSE "compose", x)]
    BY <1>3 DEF Ask, vars
  <2>2. CopiesAccurate'
    BY <1>1, <2>1 DEF CopiesAccurate, Accurate
  <2>3. \A d \in Caller : ask'[d].stage = "compose" => ask[d].stage = "compose" \/ ~Configured
    BY <1>1, <2>1 DEF PickerTyped, Asked
  <2>4. AnswersAccurate'
    BY <1>1, <2>1, <2>3 DEF AnswersAccurate, NothingWithoutPeer, Accurate
  <2>5. NothingWithoutPeer'
    BY <1>1, <2>1 DEF NothingWithoutPeer, PickerTyped, Asked
  <2> QED BY <1>1, <2>2, <2>4, <2>5 DEF PickerInv
<1>4. ASSUME NEW c \in Caller, Consult(c)
      PROVE  PickerInv'
  <2>1. /\ Organizations(c) /\ changedAt' = changedAt /\ ask[c].stage = "directory"
        /\ ask' = IF pc'[c] = "idle" THEN [ask EXCEPT ![c] = Asked("compose", ask[c].ctx)] ELSE ask
    BY <1>4 DEF Consult
  <2>2. /\ CopiesAccurate' /\ oam' = oam /\ now' = now
        /\ \A d \in Caller \ {c} : answer'[d] = answer[d]
        /\ pc'[c] = "idle" /\ answer'[c].kind = "fresh" =>
             Accurate([orgs |-> answer'[c].orgs, at |-> now - answer'[c].age])
    BY <1>1, <2>1, CallCopies
  <2>3. \A d \in Caller \ {c} : ask'[d] = ask[d]
    BY <1>1, <2>1 DEF PickerTyped
  <2>4. ask'[c].stage = "compose" => pc'[c] = "idle"
    BY <2>1
  <2>5. ASSUME NEW d \in Caller, ask'[d].stage = "compose", answer'[d].kind = "fresh"
        PROVE  Accurate([orgs |-> answer'[d].orgs, at |-> now - answer'[d].age])
    <3>1. CASE d = c
      BY <2>2, <2>4, <2>5, <3>1
    <3>2. CASE d # c
      BY <1>1, <2>2, <2>3, <2>5, <3>2 DEF AnswersAccurate
    <3> QED BY <3>1, <3>2
  <2>6. AnswersAccurate'
    BY <2>1, <2>2, <2>5 DEF AnswersAccurate, Accurate
  <2>7. NothingWithoutPeer'
    BY <1>1, <2>1 DEF NothingWithoutPeer
  <2> QED BY <1>1, <2>2, <2>6, <2>7 DEF PickerInv
<1>5. ASSUME NEW c \in Caller, Compose(c)
      PROVE  PickerInv'
  <2>1. /\ answer' = answer /\ now' = now /\ changedAt' = changedAt /\ oam' = oam
        /\ cached' = cached /\ l2' = l2 /\ pc' = pc /\ got' = got
        /\ ask' = [ask EXCEPT ![c] = Idle]
    BY <1>5 DEF Compose, vars
  <2>2. \A d \in Caller : ask'[d].stage = ask[d].stage \/ ask'[d].stage = "idle"
    BY <1>1, <2>1 DEF PickerTyped, Idle
  <2>3. CopiesAccurate' /\ AnswersAccurate' /\ NothingWithoutPeer'
    BY <1>1, <2>1, <2>2 DEF CopiesAccurate, AnswersAccurate, NothingWithoutPeer, Accurate
  <2> QED BY <1>1, <2>3 DEF PickerInv
<1>6. CASE \E i \in AgentId, t \in Tenant : EnrolAgent(i, t)
  <2>1. /\ ask' = ask /\ answer' = answer /\ now' = now /\ changedAt' = changedAt /\ oam' = oam
        /\ cached' = cached /\ l2' = l2 /\ pc' = pc /\ got' = got
    BY <1>6 DEF EnrolAgent, vars
  <2>2. CopiesAccurate' /\ AnswersAccurate' /\ NothingWithoutPeer'
    BY <1>1, <2>1 DEF CopiesAccurate, AnswersAccurate, NothingWithoutPeer, Accurate
  <2> QED BY <1>1, <2>2 DEF PickerInv
<1>7. CASE EditOrganizations
  <2>1. /\ ask' = ask /\ answer' = answer /\ now' = now
        /\ cached' = cached /\ l2' = l2 /\ pc' = pc /\ got' = got
        /\ changedAt' = [o \in Org |-> IF (o \in oam) = (o \in oam') THEN changedAt[o] ELSE now]
    BY <1>7 DEF EditOrganizations, EditDirectory, client, locals
  <2>2. now \in Nat /\ answer \in [Caller -> Answer]
    BY DEF IInv, TypeOK
  <2>3. ASSUME NEW d, Accurate(d), d.at \in Int, d.at <= now
        PROVE  Accurate(d)'
    <3> SUFFICES ASSUME NEW o \in Org, changedAt'[o] < d.at
                 PROVE  o \in d.orgs <=> o \in oam'
      BY DEF Accurate
    <3>1. (o \in oam) = (o \in oam')
      <4> SUFFICES ASSUME (o \in oam) # (o \in oam')
                   PROVE  FALSE
        OBVIOUS
      <4>1. changedAt'[o] = now
        BY <2>1
      <4> QED BY <2>2, <2>3, <4>1
    <3>2. changedAt'[o] = changedAt[o]
      BY <2>1, <3>1
    <3> QED BY <2>3, <3>1, <3>2 DEF Accurate
  <2>4. cached.at \in Int /\ cached.at <= now /\ l2.dir.at \in Int /\ l2.dir.at <= now
    BY <2>2 DEF IInv, TypeOK, CacheAge, L2Age, Directory, L2Entry, Nil, NoEntry
  <2>5. \A c \in Caller : pc[c] \in {"storeL2", "fill"} => got[c].at \in Int /\ got[c].at <= now
    BY DEF IInv, GotAge, Directory
  <2>6. CopiesAccurate'
    BY <1>1, <2>1, <2>3, <2>4, <2>5 DEF CopiesAccurate
  <2>7. ASSUME NEW c \in Caller, ask[c].stage = "compose", answer[c].kind = "fresh"
        PROVE  Accurate([orgs |-> answer[c].orgs, at |-> now - answer[c].age])'
    <3> DEFINE d == [orgs |-> answer[c].orgs, at |-> now - answer[c].age]
    <3>1. Accurate(d)
      BY <1>1, <2>7 DEF AnswersAccurate
    <3>2. answer[c].age \in Nat
      BY <2>2 DEF Answer
    <3>3. d.at \in Int /\ d.at <= now /\ d' = d
      BY <2>1, <2>2, <3>2
    <3> SUFFICES ASSUME NEW o \in Org, changedAt'[o] < d.at
                 PROVE  o \in d.orgs <=> o \in oam'
      BY <3>3 DEF Accurate
    <3>4. (o \in oam) = (o \in oam')
      <4> SUFFICES ASSUME (o \in oam) # (o \in oam')
                   PROVE  FALSE
        OBVIOUS
      <4>1. changedAt'[o] = now
        BY <2>1
      <4> QED BY <2>2, <3>3, <4>1
    <3>5. changedAt'[o] = changedAt[o]
      BY <2>1, <3>4
    <3> QED BY <3>1, <3>4, <3>5 DEF Accurate
  <2>8. AnswersAccurate'
    BY <2>1, <2>7 DEF AnswersAccurate
  <2>9. NothingWithoutPeer'
    BY <1>1, <2>1 DEF NothingWithoutPeer
  <2> QED BY <1>1, <2>6, <2>8, <2>9 DEF PickerInv
<1>8. CASE PickerTick
  <2>1. /\ ask' = ask /\ answer' = answer /\ changedAt' = changedAt /\ oam' = oam
        /\ cached' = cached /\ l2' = l2 /\ pc' = pc /\ got' = got
        /\ \A c \in Caller : ask[c].stage # "compose"
    BY <1>8 DEF PickerTick, Tick, client, locals
  <2>2. CopiesAccurate' /\ AnswersAccurate' /\ NothingWithoutPeer'
    BY <1>1, <2>1 DEF CopiesAccurate, AnswersAccurate, NothingWithoutPeer, Accurate
  <2> QED BY <1>1, <2>2 DEF PickerInv
<1>9. CASE HubRestart
  <2>1. /\ changedAt' = changedAt /\ oam' = oam /\ cached' = Nil /\ l2' \in {l2, NoEntry}
        /\ \A c \in Caller : pc'[c] = "idle" /\ ask'[c] = Idle /\ answer'[c] = NoAnswer
    BY <1>9 DEF HubRestart, Restart, EveryCaller
  <2>2. Accurate(Nil) /\ Accurate(l2.dir)
    BY <1>1, NilAccurate DEF PickerTyped, CopiesAccurate
  <2>3. Accurate(l2'.dir)
    BY <2>1, <2>2 DEF NoEntry
  <2>4. CopiesAccurate'
    BY <2>1, <2>2, <2>3 DEF CopiesAccurate, Accurate
  <2>5. AnswersAccurate' /\ NothingWithoutPeer'
    BY <2>1 DEF AnswersAccurate, NothingWithoutPeer, Idle, NoAnswer
  <2> QED BY <1>1, <2>4, <2>5 DEF PickerInv
<1> QED
  BY <1>2, <1>3, <1>4, <1>5, <1>6, <1>7, <1>8, <1>9 DEF PickerNext

\* What the directory client holds, and what the picker answers with, is right about
\* every organization that has not changed since.
THEOREM CopiesStayAccurate == PickerSpec => []PickerInv
<1>1. PickerInit => PickerInv
  <2> SUFFICES ASSUME PickerInit
               PROVE  PickerInv
    OBVIOUS
  <2>1. PickerTyped
    BY DEF PickerInit, PickerTyped
  <2>2. /\ cached = Nil /\ l2 = NoEntry
        /\ \A c \in Caller : pc[c] = "idle" /\ ask[c] = Idle /\ answer[c] = NoAnswer
    BY DEF PickerInit, Init, EveryCaller
  <2>3. CopiesAccurate
    BY <2>1, <2>2, NilAccurate DEF CopiesAccurate, PickerTyped, NoEntry
  <2>4. AnswersAccurate /\ NothingWithoutPeer
    BY <2>2 DEF AnswersAccurate, NothingWithoutPeer, Idle, NoAnswer
  <2> QED BY <2>1, <2>3, <2>4 DEF PickerInv
<1> QED
  BY <1>1, NextPickerInv, PickerRefinesDirectory, Invariance, PTL DEF PickerSpec

\* The directory's list has an entry for each organization and no other.
LEMMA ListIsOfIds ==
  ASSUME NEW S, NEW o
  PROVE  (\E e \in DirectoryList(S) : e.id = o) <=> o \in S
<1> DEFINE entry(p) == [id |-> p, agentCount |-> Cardinality(MembersOf(agents, p)), source |-> "oam"]
<1>1. \A p : entry(p).id = p
  OBVIOUS
<1>2. DirectoryList(S) = {entry(p) : p \in S}
  BY DEF DirectoryList
<1> HIDE DEF entry
<1> QED BY <1>1, <1>2

\* An organization created or removed in OAM a directory lifetime ago is, or is not,
\* in every unscoped reply that does not stem from an outage.
THEOREM ChangesReachThePicker == PickerSpec => EstablishedOrgsListed
<1>1. IInv /\ PickerInv /\ [PickerNext]_pickerVars =>
        [\A c \in Caller :
           Compose(c) /\ answer[c].kind = "fresh" /\ ~ask[c].ctx.orgScoped =>
             \A o \in Org : now - changedAt[o] >= FreshWithin =>
               (o \in oam <=> \E e \in reply'[c].orgs : e.id = o)]_pickerVars
  <2> SUFFICES ASSUME IInv, PickerInv, NEW c \in Caller, Compose(c), answer[c].kind = "fresh",
                      ~ask[c].ctx.orgScoped, NEW o \in Org, now - changedAt[o] >= FreshWithin
               PROVE  o \in oam <=> \E e \in reply'[c].orgs : e.id = o
    OBVIOUS
  <2>1. answer[c].age + 2 <= FreshWithin /\ answer[c].age \in Nat /\ now \in Nat
    BY DEF IInv, TypeOK, ServedAgeBound, Answer
  <2>2. changedAt[o] \in Nat /\ FreshWithin \in Nat
    BY TimesAssumption DEF PickerInv, PickerTyped, FreshWithin
  <2>3. changedAt[o] < now - answer[c].age
    BY <2>1, <2>2
  <2>4. Accurate([orgs |-> answer[c].orgs, at |-> now - answer[c].age])
    BY DEF PickerInv, AnswersAccurate, Compose
  <2>5. o \in answer[c].orgs <=> o \in oam
    BY <2>3, <2>4 DEF Accurate
  <2>6. reply'[c].orgs = Narrow(Picker(answer[c]).orgs, ask[c].ctx)
    BY DEF Compose, PickerInv, PickerTyped
  <2>7. Narrow(Picker(answer[c]).orgs, ask[c].ctx) = DirectoryList(answer[c].orgs)
    BY DEF Narrow, Picker
  <2>8. (\E e \in DirectoryList(answer[c].orgs) : e.id = o) <=> o \in answer[c].orgs
    BY ListIsOfIds
  <2> QED BY <2>5, <2>6, <2>7, <2>8
<1> QED
  BY <1>1, CopiesStayAccurate, PickerRefinesDirectory, Invariance, PTL DEF PickerSpec, EstablishedOrgsListed

=============================================================================
