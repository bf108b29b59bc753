SPECIFICATION MCSpec
CONSTANTS
    r1 = r1  u1 = u1   i1 = i1  i2 = i2  p1 = p1  t1 = t1  t2 = t2
    Request = {r1}  User = {u1}  Mail = {}  Instance = {i1, i2}  Password = {p1}
    Endpoint = {"create", "deactivate", "update"}
    MaxFailed = 1  LockTime = 0  MailTtl = 1  Grace = 0  MaxTime = 1
    Null = Null  Unissued = Unissued  Deleted = Deleted
    Room = {t1, t2}  Reachable = {t1}  Server = {i1, i2}  MaxOutages = 1
INVARIANTS RefusedOnlyIfDisturbed GoneButLoose
PROPERTIES ExpiredIsDeleted WaitingIsAnnounced
