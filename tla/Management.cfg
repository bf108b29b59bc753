SPECIFICATION MCSpec
CONSTANTS
    r1 = r1  r2 = r2  x1 = x1  x2 = x2  c1 = c1  d1 = d1  u1 = u1  o1 = o1  e1 = e1  e2 = e2
    s1 = s1  v1 = v1  k1 = k1  k2 = k2  k3 = k3  t1 = t1
    Request = {r1, r2}
    Account = {x1, x2}  Tenant = {t1}  Change <- MCChange
    Provider = {x1, x2}  Client = {c1}  Domain = {d1}  AnyClient = AnyClient
    User = {u1}  TenantRole = {o1}  Permission = {e1, e2}
    ClientId = {c1}  Scope = {s1}  DefaultScope = {}  Uri = {v1}  MaxSecret = 2
    Schema = {x1, x2, k1}  MaxVersion = 3
    SigningKey = {k1, k2, k3}
    Unissued = Unissued  Deleted = Deleted  Keep = Keep  Sent <- MCSent  SentClient <- MCSentClient
CONSTRAINT MCBound
SYMMETRY MCSymmetry
CHECK_DEADLOCK FALSE
INVARIANTS MCTypeOK TenantsAsDecided AssignmentsFit ScopesApart SettingsStick VersionsGapless SignerStaysVerifier
PROPERTIES RolesAsAsked
