SPECIFICATION Spec
CONSTANTS
    r1 = r1  r2 = r2  u1 = u1  u2 = u2  m1 = m1  m2 = m2
    i1 = i1  i2 = i2  p1 = p1  p2 = p2
    Request = {r1}
    User = {u1}
    Mail = {}
    Instance = {}
    Password = {p1}
    Endpoint = {"register", "hold", "unlock"}
    MaxFailed = 1  LockTime = 0  MailTtl = 0  Grace = 0  MaxTime = 0
    Null = Null  Unissued = Unissued  Deleted = Deleted
SYMMETRY MCSymmetry
INVARIANTS HeldStaysOut
