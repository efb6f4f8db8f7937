SPECIFICATION Spec
CONSTANTS
    Browser = {b1, b2}
    ada = ada
    adaTyped = adaTyped
    bob = bob
    Email = {ada, adaTyped}
    Canonical <- MCCanonical
    Lower <- MCLower
    None = None
    MaxUsers = 3
    MaxInvites = 2
    MaxTokens = 3
SYMMETRY BrowserSymmetry
INVARIANTS TypeOK OneAccountPerInvitation AccountsMatchInvitations UsedLinkIsDead
PROPERTIES AdminRemains
CHECK_DEADLOCK FALSE
