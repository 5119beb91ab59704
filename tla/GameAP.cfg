SPECIFICATION FairSpec
CONSTANTS
    r1 = r1
    r2 = r2
    Runs = {r1, r2}
    Seeds = {r1, r2}
    Helpers = {r1, r2}
    Convergences = {r1, r2}
    Scenarios <- MCScenarios
INVARIANTS
    TypeOK
    SecretIsGuarded
    SignalIsHeeded
    VendorIsOwned
    OneRegistration
    RegistrationIsNoted
PROPERTIES
    PartialIsKept
    EverythingEnds
CHECK_DEADLOCK FALSE
