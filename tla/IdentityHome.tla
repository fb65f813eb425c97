---------------------------- MODULE IdentityHome ----------------------------
(***************************************************************************)
(* internal/auth: who is who to the hub.  Alone, the hub keeps its users   *)
(* in memory and mints their tokens; beside OAM it forwards logins to OAM, *)
(* refuses registrations and accepts OAM's tokens.  Which of the two holds *)
(* is decided by the environment at each start, while tokens live on in    *)
(* browsers across restarts and changes of configuration.                  *)
(*                                                                         *)
(* A configuration is [peer, mode, key, required]: PEER_OAM_URL set or not,*)
(* AUTH_MODE, JWT_SECRET (or NoKey) and OPA_AUTH_REQUIRED.  A token is     *)
(* [user, role, iss, key], signed with key.  Passwords, tenants and        *)
(* project allowlists are left out: a login is one with the right password.*)
(***************************************************************************)
EXTENDS Integers, FiniteSets

CONSTANTS
  User,      \* user names, the seed "admin" among them
  FamilyKey, \* the secret OAM signs with
  NoKey,     \* JWT_SECRET is empty
  Config,    \* configurations the hub may start with
  MaxBoots,  \* bound on the restarts
  MaxTokens  \* bound on the tokens outstanding

\* What a process draws is nobody's configured secret.
ASSUME IdentityAssumption ==
  /\ "admin" \in User
  /\ MaxBoots \in Nat /\ MaxTokens \in Nat
  /\ FamilyKey \notin 0..MaxBoots /\ \A c \in Config : c.key \notin 0..MaxBoots

VARIABLES
  cfg,      \* the configuration of this process
  boot,     \* which process this is
  users,    \* LocalIssuer's users and their roles, in memory
  oamUsers, \* OAM's users and their roles
  tokens,   \* tokens that have been issued and have not expired
  reply,    \* the answer to the last registration
  granted   \* history: <<user, role>> pairs that OAM, the seed or an administrator gave

vars == <<cfg, boot, users, oamUsers, tokens, reply, granted>>

-----------------------------------------------------------------------------
Roles == {"viewer", "editor", "admin"}
Rank == [viewer |-> 1, editor |-> 2, admin |-> 3]
NoRole == ""  \* a registration that names no role
HasPermission(role, needed) == Rank[role] >= Rank[needed]

Token(u, r, i, k) == [user |-> u, role |-> r, iss |-> i, key |-> k]
NoToken == [iss |-> "none"]
NoIssuer == ""  \* a token that names none

\* OAM is the identity home, unless AUTH_MODE keeps the hub alone.
OamAuthConfigured == cfg.peer /\ cfg.mode # "standalone"

\* Mutant: an empty secret stays empty.
SecretAsConfigured == cfg.key

\* The secret tokens are signed with and checked against: an empty one is replaced
\* by one this process draws.
Secret == IF cfg.key = NoKey THEN boot ELSE cfg.key

\* parseToken accepts the token.
Parses(t) == t # NoToken /\ t.key = Secret /\ (OamAuthConfigured => t.iss \in {"oam-api", NoIssuer})

IsAdmin(t) == Parses(t) /\ HasPermission(t.role, "admin")

\* Require(needed): what the middleware lets through.
Admits(t, needed) == cfg.required => Parses(t) /\ HasPermission(t.role, needed)

\* A new token, within the bound.
Issue(t) ==
  /\ tokens' = tokens \cup {t}
  /\ Cardinality(tokens') <= MaxTokens

Seeded == [u \in {"admin"} |-> "admin"]

TypeOK ==
  /\ cfg \in Config
  /\ boot \in 0..MaxBoots
  /\ DOMAIN users \subseteq User /\ \A u \in DOMAIN users : users[u] \in Roles
  /\ DOMAIN oamUsers \subseteq User /\ \A u \in DOMAIN oamUsers : oamUsers[u] \in Roles
  /\ \A t \in tokens : t.user \in User /\ t.role \in Roles /\ t.iss \in {"opa-hub", "oam-api", NoIssuer}
  /\ reply \in {"none", "registered", "conflict", "unauthorized", "forbidden", "oam_identity_home"}
  /\ granted \subseteq User \X Roles

Init ==
  /\ cfg \in Config
  /\ boot = 0
  /\ users = Seeded
  /\ oamUsers = [u \in {} |-> "viewer"]
  /\ tokens = {}
  /\ reply = "none"
  /\ granted = {<<"admin", "admin">>}

-----------------------------------------------------------------------------
\* ServeLogin, the hub being the home.
Login(u) ==
  /\ ~OamAuthConfigured
  /\ u \in DOMAIN users
  /\ Issue(Token(u, users[u], "opa-hub", Secret))
  /\ UNCHANGED <<cfg, boot, users, oamUsers, reply, granted>>

\* ServeLogin, forwarded: OAM mints the token, and may leave itself unnamed.
ProxyLogin(u, iss) ==
  /\ OamAuthConfigured
  /\ u \in DOMAIN oamUsers /\ iss \in {"oam-api", NoIssuer}
  /\ Issue(Token(u, oamUsers[u], iss, FamilyKey))
  /\ UNCHANGED <<cfg, boot, users, oamUsers, reply, granted>>

\* Mutant: the role asked for is the role given.
RoleAsked(t, asked) == asked

\* The role a registration gives: viewer, unless an administrator asks for another.
RoleGiven(t, asked) == IF IsAdmin(t) /\ asked # NoRole THEN asked ELSE "viewer"

\* ServeRegister, the hub being the home.
Register(t, u, asked) ==
  /\ ~OamAuthConfigured
  /\ Admits(t, "admin")
  /\ IF u \in DOMAIN users
     THEN reply' = "conflict" /\ UNCHANGED <<users, granted>>
     ELSE /\ reply' = "registered"
          /\ users' = [v \in DOMAIN users \cup {u} |-> IF v = u THEN RoleGiven(t, asked) ELSE users[v]]
          /\ granted' = granted \cup {<<u, "viewer">>} \cup
                          (IF IsAdmin(t) THEN {<<u, asked>>} \cap (User \X Roles) ELSE {})
  /\ UNCHANGED <<cfg, boot, oamUsers, tokens>>

RegisterDenied(t) ==
  /\ ~OamAuthConfigured
  /\ ~Admits(t, "admin")
  /\ reply' = IF Parses(t) THEN "forbidden" ELSE "unauthorized"
  /\ UNCHANGED <<cfg, boot, users, oamUsers, tokens, granted>>

\* ServeRegister beside OAM.
RegisterUnavailable ==
  /\ OamAuthConfigured
  /\ reply' = "oam_identity_home"
  /\ UNCHANGED <<cfg, boot, users, oamUsers, tokens, granted>>

-----------------------------------------------------------------------------
\* The hub restarts with another environment.
Restart(c) ==
  /\ boot < MaxBoots
  /\ boot' = boot + 1
  /\ cfg' = c
  /\ users' = Seeded
  /\ reply' = "none"
  /\ UNCHANGED <<oamUsers, tokens, granted>>

\* An administrator of OAM adds a user, or changes a role.
OamGrants(u, r) ==
  /\ oamUsers' = [v \in DOMAIN oamUsers \cup {u} |-> IF v = u THEN r ELSE oamUsers[v]]
  /\ granted' = granted \cup {<<u, r>>}
  /\ UNCHANGED <<cfg, boot, users, tokens, reply>>

\* A token's 24 hours pass.
Expire(t) ==
  /\ tokens' = tokens \ {t}
  /\ UNCHANGED <<cfg, boot, users, oamUsers, reply, granted>>

Next ==
  \/ \E u \in User : Login(u) \/ \E iss \in {"oam-api", NoIssuer} : ProxyLogin(u, iss)
  \/ \E t \in tokens \cup {NoToken} :
       RegisterDenied(t) \/ \E u \in User, r \in Roles \cup {NoRole} : Register(t, u, r)
  \/ RegisterUnavailable
  \/ \E c \in Config : Restart(c)
  \/ \E u \in User, r \in Roles : OamGrants(u, r)
  \/ \E t \in tokens : Expire(t)

Spec == Init /\ [][Next]_vars

-----------------------------------------------------------------------------
(* Properties. *)

\* SAFETY.  No chain of registrations, logins, restarts and changes of home gives
\* anyone a role that the seed, OAM or an administrator did not give: every user
\* and every outstanding token holds a granted role ("self-registration is capped
\* to viewer", ServeRegister).
RolesAreGranted ==
  /\ \A u \in DOMAIN users : <<u, users[u]>> \in granted
  /\ \A t \in tokens : <<t.user, t.role>> \in granted

\* SAFETY.  While OAM is the identity home nobody gets in on a token the hub minted
\* when it was alone, even if it was signed with the shared secret, and the hub
\* keeps no users of its own beyond the seed.
OamIsOnlyHome ==
  OamAuthConfigured =>
    /\ users = Seeded
    /\ \A t \in tokens : Parses(t) => t.iss # "opa-hub"

\* ACTION PROPERTY.  Without JWT_SECRET a token ends with the process that minted
\* it: after a restart without it, no token issued before is accepted ("issued
\* tokens use a process-local ephemeral secret", New).
EphemeralTokensEnd ==
  [][boot' # boot /\ cfg'.key = NoKey => \A t \in tokens : ~Parses(t)']_vars
=============================================================================
