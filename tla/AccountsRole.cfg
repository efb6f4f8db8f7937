SPECIFICATION Spec
CONSTANTS
    Browser = {b1}
    ada = ada
    adaTyped = adaTyped
    bob = bob
    Email = {ada}
    Canonical <- MCCanonical
    Lower <- MCLower
    None = None
    MaxUsers = 1
    MaxInvites = 1
    MaxTokens = 2
INVARIANT RoleAsInvited
CHECK_DEADLOCK FALSE
