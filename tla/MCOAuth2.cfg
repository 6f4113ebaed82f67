CONSTANTS
    k1 = k1 k2 = k2 u1 = u1 uri1 = uri1 s1 = s1 s2 = s2 v1 = v1
    c1 = c1 c2 = c2 a1 = a1 a2 = a2 a3 = a3 r1 = r1 r2 = r2 r3 = r3
    None = None
    ClientIds = {k1, k2}
    UserIds = {u1}
    RedirectUris = {uri1}
    Scopes = {s1}
    Verifiers = {v1}
    CodeIds = {c1, c2}
    AccessIds = {a1, a2}
    RefreshIds = {r1, r2}
    Registrations <- BothRegistrations
    CodeLifetime = 1
    TokenLifetime = 2
    RefreshLifetime = 1
    EnablePkce = TRUE
    RotationModes <- WithAndWithoutRotation
    MaxTime = 2
CONSTRAINT WithinSlices
SYMMETRY Identifiers
SPECIFICATION Spec
INVARIANTS
    TypeOK
    OneRefreshTokenPerConsent
    AuthorityWithinConsent
    AccessTokenBoundToRefreshToken
    ConsentInv
PROPERTIES
    CleanupIsInvisible
    ImplementsConsentLifecycle
