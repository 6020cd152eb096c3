SPECIFICATION FairSpec
CONSTANTS
    Request = {r1}
    Session = {s1}
    Call = {c1, c2}
    Target = {t1, t2}
    MaxErrors = 1
INVARIANTS TypeOK Usable Released
PROPERTY Stops
CHECK_DEADLOCK FALSE
