--------------------------- MODULE MCIdentityHome ---------------------------
EXTENDS IdentityHome, TLC

Users == {"admin", "eve"}

\* Alone, alone by AUTH_MODE, beside OAM.
Homes == {[peer |-> FALSE, mode |-> "codeployed"], [peer |-> TRUE, mode |-> "standalone"],
          [peer |-> TRUE, mode |-> "codeployed"]}
Environments ==
  {[peer |-> h.peer, mode |-> h.mode, key |-> k, required |-> b] :
     h \in Homes, k \in {FamilyKey, NoKey}, b \in BOOLEAN}
=============================================================================
