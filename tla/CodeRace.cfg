SPECIFICATION Spec
CONSTANTS
    r1 = r1  r2 = r2  u1 = u1  u2 = u2  c1 = c1  c2 = c2  s1 = s1  s2 = s2
    a1 = a1  a2 = a2  t1 = t1  t2 = t2  t3 = t3  t4 = t4
    Request = {r1, r2}
    User = {u1}
    Client = {c1}
    Scope = {}
    Code = {a1}
    TokenId = {t1, t2, t3}
    AllowedScopes <- MCAllowedScopes
    CodeTtl = 0  AccessTtl = 1  RefreshTtl = 0  MaxTime = 0
    NoUser = NoUser  Unissued = Unissued  Deleted = Deleted
SYMMETRY MCSymmetry
INVARIANTS CodeIsOneTime
