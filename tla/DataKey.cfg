\* One caller besides the opening and the onboarding; two accounts one after
\* the other, two refusals of the Keychain, one death, one disposed service.
CONSTANTS
    Caller = {a}
    Attempts = 3
    MaxAccounts = 2
    MaxChance = 2
    MaxRefusals = 2
    MaxKills = 1
    MaxForgets = 1
SPECIFICATION Spec
INVARIANTS
    Recoverable
    StartPossible
    WipedStaysWiped
CHECK_DEADLOCK FALSE
