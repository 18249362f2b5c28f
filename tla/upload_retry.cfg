\* Redirects, broken ones too, and a file that is edited or removed meanwhile.
SPECIFICATION FairSpec
CONSTANTS
    Edits = {"edit", "vanish"}
    Answers = {"noEtag", "refused", "broken", "brokenRedirect"}
    MaxVersion = 3
    MaxRedirects = 2
    RetryFailAfter = 3
INVARIANTS
    TypeOK
    RowIsObject
    LimitHolds
PROPERTIES
    CallReturns
CHECK_DEADLOCK FALSE
