CONSTANTS
    a1 = a1  a2 = a2  a3 = a3  r1 = r1  r2 = r2
    Attempt = {a1, a2}
    Posted = {}
    Recipient = {r1, r2}
    Mentioned = {r1}
    Threaded = FALSE
    Days = 1
    Failing = {"route"}
SYMMETRY Symm
SPECIFICATION MCSpec
CHECK_DEADLOCK FALSE
INVARIANT ConfirmedIsSent
