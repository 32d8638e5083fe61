\* Two requests at a time, three tokens, one change of the password; everything may
\* fail.
CONSTANTS
    Requests = {r1, r2}
    MaxTokens = 3
    MaxPasswords = 1
    Failures = TRUE
SPECIFICATION FairSpec
INVARIANTS
    TypeOK
    SessionConsistent
PROPERTY
    RevokedEventually
