\* Two users, every environment, restarts between them.
SPECIFICATION Spec
CONSTANTS
  User <- Users
  FamilyKey = family
  NoKey = nokey
  Config <- Environments
  MaxBoots = 2
  MaxTokens = 2
INVARIANT RolesAreGranted
PROPERTY EphemeralTokensEnd
