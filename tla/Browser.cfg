SPECIFICATION MCSpec
CONSTANTS
    r1 = r1  r2 = r2  x1 = x1  c1 = c1  d1 = d1  u1 = u1  p1 = p1  k1 = k1  k2 = k2
    s1 = s1  i1 = i1  q1 = q1  q2 = q2  l1 = l1  l2 = l2  v1 = v1  v2 = v2  v3 = v3
    t1 = t1  t2 = t2
    Provider = {x1}  Client = {c1}  Domain = {d1}  Request = {r1, r2}  Pending = {p1}
    User = {u1}  Password = {k1, k2}  Scope = {s1}  MaxCodes = 2
    AnyClient = AnyClient  NoUser = NoUser  Unissued = Unissued  Deleted = Deleted  Keep = Keep
    DomainOf <- MCDomainOf  Allowed <- MCAllowed  Asked <- MCAsked  AdminRows <- MCAdminRows
    Item = {i1}  Query = {q1, q2}  AllQuery = q1  Load = {l1, l2}
    Content = {v1, v2, v3}  Blank = v3  Save = {l1, l2}
    MaxDraw = 4
    Tab = {r1, r2}  Room = {k1, k2}  Ticket = {t1, t2}  Nothing = Nothing
    MaxLogin = 2  Exchange = {l1, l2}
SYMMETRY MCSymmetry
CHECK_DEADLOCK FALSE
INVARIANTS MCTypeOK CodeIsBacked ListIsTrue SavedAsSeen SecretInSightIsLive LocationIsAllowed SessionIsOwn GivenUpStaysOut AnswersFit
PROPERTIES FallbackIsCurrent
