CONSTANTS
    alice = alice
    bob = bob
    charlie = charlie
    none = none
    Accounts = {alice, bob, charlie}
    Spenders = {bob, charlie}
    Values = {1, 2}
    U128Max = 2
    Deployer = alice
    InitSupply = 1
    InitMinterBurner = charlie
    NoAccount = none
SPECIFICATION TokenSpec
INVARIANTS
    TokenTypeOK
PROPERTIES
    NoUnauthorisedDebit
    SupplyOnlyByMinterBurner
    OwnershipOnlyByHandover
