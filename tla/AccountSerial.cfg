SPECIFICATION Spec
CONSTANTS
    r1 = r1  r2 = r2  u1 = u1  u2 = u2  m1 = m1  m2 = m2
    i1 = i1  i2 = i2  p1 = p1  p2 = p2
    Request = {r1, r2}
    User = {u1}
    Mail = {m1}
    Instance = {i1}
    Password = {p1}
    Endpoint = {"create", "register", "external", "activate", "hold", "lock", "unlock", "update", "profile", "password", "deactivate", "delete", "reset"}
    MaxFailed = 3  LockTime = 1  MailTtl = 1  Grace = 1  MaxTime = 2
    Null = Null  Unissued = Unissued  Deleted = Deleted
CONSTRAINT SaversApart
VIEW MCSerialView
SYMMETRY MCSymmetry
INVARIANTS ReactivationCancels LockedAfterMaxFailed ApprovedNotCounted
PROPERTIES ResetTokenOnce
