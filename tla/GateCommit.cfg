SPECIFICATION Spec
CONSTANTS
    t1 = t1 t2 = t2 t3 = t3 p1 = p1 p2 = p2
    Trees = {t1, t2, t3}
    Policies = {p1, p2}
    PolicyOf <- PolicyOfTree
    Strict = {p2}
    Soft = {p1}
    Runs = {r1, r2}
    Brokers = {b1}
    NULL = NULL
    MaxCommits = 3
    RunCost = 2
    MaxEvents = 5
SYMMETRY Alike
INVARIANTS SealedBytesWereTested CommittedUnderItsPolicy ReceiptLandsOnce 
CHECK_DEADLOCK FALSE
