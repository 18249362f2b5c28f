\* A file that disappears after Amazon asked for another place.
SPECIFICATION Spec
CONSTANTS
    Edits = {"vanish"}
    Answers = {"noEtag", "refused", "broken", "brokenRedirect"}
    MaxVersion = 1
    MaxRedirects = 1
    RetryFailAfter = 3
INVARIANTS
    TriesAreBounded
CHECK_DEADLOCK FALSE
