------------------------- MODULE IdentityHomeProofs -------------------------
(***************************************************************************)
(* Proofs about IdentityHome, for every set of users, every set of         *)
(* configurations and any number of restarts.                              *)
(***************************************************************************)
EXTENDS IdentityHome, TLAPS

\* Roles that may be handed on: the seed's, and those OAM has given.
SourcesGranted ==
  /\ <<"admin", "admin">> \in granted
  /\ \A u \in DOMAIN oamUsers : <<u, oamUsers[u]>> \in granted

\* Beside OAM no user is added, and every start begins with the seed alone.
SeedOnly == OamAuthConfigured => users = Seeded

\* A key that was drawn was drawn by a process up to this one.
KeysDrawn == \A t \in tokens : t.key \in 0..MaxBoots => t.key \in 0..boot

IInv == TypeOK /\ RolesAreGranted /\ SourcesGranted /\ SeedOnly /\ KeysDrawn

LEMMA InitIInv == Init => IInv
<1> SUFFICES ASSUME Init PROVE IInv
  OBVIOUS
<1> USE IdentityAssumption DEF Init
<1>1. TypeOK
  BY DEF TypeOK, Seeded, Roles
<1>2. RolesAreGranted /\ SourcesGranted /\ SeedOnly /\ KeysDrawn
  BY DEF RolesAreGranted, SourcesGranted, SeedOnly, KeysDrawn, Seeded
<1> QED
  BY <1>1, <1>2 DEF IInv

\* The key tokens are signed with is the process's own draw or none of the draws.
LEMMA SecretIsOwn ==
  ASSUME TypeOK
  PROVE  Secret \in 0..MaxBoots => Secret \in 0..boot
BY IdentityAssumption DEF TypeOK, Secret

\* A token is minted, for a user whose role was granted.
LEMMA IssueStep ==
  ASSUME IInv, NEW u \in User, Login(u) \/ \E iss \in {"oam-api", NoIssuer} : ProxyLogin(u, iss)
  PROVE  IInv'
<1> USE IdentityAssumption DEF IInv
<1>1. PICK t : /\ tokens' = tokens \cup {t}
               /\ t.user \in User /\ t.role \in Roles /\ t.iss \in {"opa-hub", "oam-api", NoIssuer}
               /\ <<t.user, t.role>> \in granted
               /\ t.key \in 0..MaxBoots => t.key \in 0..boot
  <2>1. CASE Login(u)
    BY <2>1, SecretIsOwn DEF Login, Issue, Token, TypeOK, RolesAreGranted
  <2>2. CASE \E iss \in {"oam-api", NoIssuer} : ProxyLogin(u, iss)
    BY <2>2 DEF ProxyLogin, Issue, Token, TypeOK, SourcesGranted
  <2> QED
    BY <2>1, <2>2
<1>2. UNCHANGED <<cfg, boot, users, oamUsers, reply, granted>>
  BY DEF Login, ProxyLogin
<1>3. TypeOK'
  BY <1>1, <1>2 DEF TypeOK
<1>4. RolesAreGranted' /\ SourcesGranted' /\ SeedOnly' /\ KeysDrawn'
  BY <1>1, <1>2 DEF RolesAreGranted, SourcesGranted, SeedOnly, KeysDrawn, OamAuthConfigured, Seeded
<1> QED
  BY <1>3, <1>4

\* A registration adds a viewer, or what an administrator asked for, and only when
\* the hub is alone.
LEMMA RegisterStep ==
  ASSUME IInv, NEW t \in tokens \cup {NoToken}, NEW u \in User, NEW r \in Roles \cup {NoRole},
         Register(t, u, r)
  PROVE  IInv'
<1> USE IdentityAssumption DEF IInv
<1>1. ~ OamAuthConfigured /\ UNCHANGED <<cfg, boot, oamUsers, tokens>>
  BY DEF Register
<1>2. CASE u \in DOMAIN users
  <2>1. reply' = "conflict" /\ UNCHANGED <<users, granted>>
    BY <1>2 DEF Register
  <2> QED
    BY <1>1, <2>1 DEF TypeOK, RolesAreGranted, SourcesGranted, SeedOnly, KeysDrawn, OamAuthConfigured, Seeded
<1>3. CASE u \notin DOMAIN users
  <2>1. /\ reply' = "registered"
        /\ users' = [v \in DOMAIN users \cup {u} |-> IF v = u THEN RoleGiven(t, r) ELSE users[v]]
        /\ granted' = granted \cup {<<u, "viewer">>} \cup
                        (IF IsAdmin(t) THEN {<<u, r>>} \cap (User \X Roles) ELSE {})
    BY <1>3 DEF Register
  <2>2. /\ RoleGiven(t, r) \in Roles
        /\ <<u, RoleGiven(t, r)>> \in granted'
    BY <2>1 DEF RoleGiven, Roles, NoRole
  <2>3. TypeOK'
    BY <1>1, <2>1, <2>2 DEF TypeOK, Roles
  <2>4. RolesAreGranted' /\ SourcesGranted'
    BY <1>1, <2>1, <2>2 DEF RolesAreGranted, SourcesGranted
  <2>5. SeedOnly' /\ KeysDrawn'
    BY <1>1 DEF SeedOnly, KeysDrawn, OamAuthConfigured
  <2> QED
    BY <2>3, <2>4, <2>5
<1> QED
  BY <1>2, <1>3

\* A registration that is refused changes nothing but the answer.
LEMMA RefusalStep ==
  ASSUME IInv, NEW t \in tokens \cup {NoToken}, RegisterDenied(t) \/ RegisterUnavailable
  PROVE  IInv'
BY DEF IInv, RegisterDenied, RegisterUnavailable, TypeOK, RolesAreGranted, SourcesGranted, SeedOnly,
       KeysDrawn, OamAuthConfigured, Seeded

LEMMA RestartStep ==
  ASSUME IInv, NEW c \in Config, Restart(c)
  PROVE  IInv'
<1> USE IdentityAssumption DEF IInv, Restart
<1>1. TypeOK'
  BY DEF TypeOK, Seeded, Roles
<1>2. RolesAreGranted' /\ SourcesGranted' /\ SeedOnly'
  BY DEF RolesAreGranted, SourcesGranted, SeedOnly, Seeded
<1>3. KeysDrawn'
  BY DEF KeysDrawn, TypeOK
<1> QED
  BY <1>1, <1>2, <1>3

LEMMA OamStep ==
  ASSUME IInv, NEW u \in User, NEW r \in Roles, OamGrants(u, r)
  PROVE  IInv'
<1> USE DEF IInv, OamGrants
<1>1. TypeOK'
  BY DEF TypeOK
<1>2. RolesAreGranted' /\ SourcesGranted'
  BY DEF RolesAreGranted, SourcesGranted
<1>3. SeedOnly' /\ KeysDrawn'
  BY DEF SeedOnly, KeysDrawn, OamAuthConfigured, Seeded
<1> QED
  BY <1>1, <1>2, <1>3

LEMMA ExpireStep ==
  ASSUME IInv, NEW t \in tokens, Expire(t)
  PROVE  IInv'
BY DEF IInv, Expire, TypeOK, RolesAreGranted, SourcesGranted, SeedOnly, KeysDrawn, OamAuthConfigured, Seeded

LEMMA NextIInv == IInv /\ [Next]_vars => IInv'
<1> SUFFICES ASSUME IInv, [Next]_vars PROVE IInv'
  OBVIOUS
<1>1. CASE \E u \in User : Login(u) \/ \E iss \in {"oam-api", NoIssuer} : ProxyLogin(u, iss)
  BY <1>1, IssueStep
<1>2. CASE \E t \in tokens \cup {NoToken}, u \in User, r \in Roles \cup {NoRole} : Register(t, u, r)
  BY <1>2, RegisterStep
<1>3. CASE (\E t \in tokens \cup {NoToken} : RegisterDenied(t)) \/ RegisterUnavailable
  BY <1>3, RefusalStep
<1>4. CASE \E c \in Config : Restart(c)
  BY <1>4, RestartStep
<1>5. CASE \E u \in User, r \in Roles : OamGrants(u, r)
  BY <1>5, OamStep
<1>6. CASE \E t \in tokens : Expire(t)
  BY <1>6, ExpireStep
<1>7. CASE UNCHANGED vars
  BY <1>7 DEF vars, IInv, TypeOK, RolesAreGranted, SourcesGranted, SeedOnly, KeysDrawn, OamAuthConfigured, Seeded
<1> QED
  BY <1>1, <1>2, <1>3, <1>4, <1>5, <1>6, <1>7 DEF Next

LEMMA Invariance == Spec => []IInv
<1> QED
  BY InitIInv, NextIInv, PTL DEF Spec

-----------------------------------------------------------------------------
\* TYPE CORRECTNESS.
THEOREM TypeCorrect == Spec => []TypeOK
<1>1. IInv => TypeOK
  BY DEF IInv
<1> QED
  BY <1>1, Invariance, PTL

\* SAFETY.  Every user and every outstanding token holds a role that the seed, OAM
\* or an administrator gave (ServeRegister's cap, RoleGiven).
THEOREM RolesGranted == Spec => []RolesAreGranted
<1>1. IInv => RolesAreGranted
  BY DEF IInv
<1> QED
  BY <1>1, Invariance, PTL

\* SAFETY.  Beside OAM the hub has no users but the seed and accepts no token of its
\* own, whatever key signed it (parseToken's issuer check).
THEOREM HomesApart == Spec => []OamIsOnlyHome
<1>1. IInv => OamIsOnlyHome
  BY DEF IInv, SeedOnly, OamIsOnlyHome, Parses, NoIssuer
<1> QED
  BY <1>1, Invariance, PTL

\* ACTION PROPERTY.  A start without JWT_SECRET accepts no token issued before it
\* (New draws a secret nobody else has).
THEOREM RestartsForget == Spec => EphemeralTokensEnd
<1>1. IInv /\ [Next]_vars
        => [boot' # boot /\ cfg'.key = NoKey => \A t \in tokens : ~Parses(t)']_vars
  <2> SUFFICES ASSUME IInv, Next, boot' # boot, cfg'.key = NoKey, NEW t \in tokens
               PROVE  ~ Parses(t)'
    OBVIOUS
  <2>1. PICK c \in Config : Restart(c)
    BY DEF Next, Login, ProxyLogin, Register, RegisterDenied, RegisterUnavailable, OamGrants, Expire
  <2>2. boot' = boot + 1 /\ boot \in 0..MaxBoots /\ boot' \in 0..MaxBoots
    BY <2>1, IdentityAssumption DEF Restart, IInv, TypeOK
  <2>3. Secret' = boot'
    BY DEF Secret
  <2>4. t.key # boot'
    BY <2>2 DEF IInv, KeysDrawn
  <2> QED
    BY <2>3, <2>4 DEF Parses
<1> QED
  BY <1>1, Invariance, PTL DEF Spec, EphemeralTokensEnd
=============================================================================
