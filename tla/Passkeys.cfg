\* Three registrations for two e-mails, two logins, one restart.
CONSTANTS
    Emails = {a, b}
    Registrations = {r1, r2, r3}
    Logins = {l1, l2}
    NoKey = NoKey  NoEmail = NoEmail  NoSession = NoSession
    Counting <- AllCount
    MaxCount = 2  MaxRestarts = 1
SPECIFICATION Spec
SYMMETRY AllAlike
INVARIANTS TypeOK SessionSingleUse
PROPERTIES RefusalHasReason ImplementsKeyBook CountFallsOnlyOvertaken
CHECK_DEADLOCK FALSE
