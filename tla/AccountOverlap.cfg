SPECIFICATION Spec
CONSTANTS
    r1 = r1  r2 = r2  u1 = u1  u2 = u2  m1 = m1  m2 = m2
    i1 = i1  i2 = i2  p1 = p1  p2 = p2
    Request = {r1, r2}
    User = {u1}
    Mail = {m1}
    Instance = {i1}
    Password = {p1}
    Endpoint = {"register", "activate", "hold", "unlock", "deactivate"}
    MaxFailed = 2  LockTime = 1  MailTtl = 1  Grace = 0  MaxTime = 1
    Null = Null  Unissued = Unissued  Deleted = Deleted
CONSTRAINT MCBound
VIEW MCOverlapView
SYMMETRY MCSymmetry
INVARIANTS IInv LocksAndHoldsEarned ApprovalBeforeLogin
PROPERTIES SweepSpares
