SPECIFICATION Spec
CONSTANTS
    c1 = c1
    c2 = c2
    Contexts = {c1, c2}
    Extensions <- Built
    LastIdentity = 5
    LastContextId = 4
    Blobs = {b1, b2}
    Uuids = {u1, u2}
    Zero = Zero
    Attempts = 2
    Files = {f1}
    Hosted <- HostedGlobals
    Loose = FALSE
    None = None
INVARIANTS
    HandleIsTheExtensions
    UrlsLeadHome
    ShutdownReleases
PROPERTIES
    RegistersWhole
CHECK_DEADLOCK FALSE
