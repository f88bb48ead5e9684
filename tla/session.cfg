\* Two tabs of a browser, two accounts and two logins.
CONSTANTS
    a1 = a1
    a2 = a2
    c1 = c1
    c2 = c2
    Accounts = {a1, a2}
    Codes = {c1, c2}
    Owner <- OwnerOf
    Tabs = {t1, t2}
    Logins = {l1, l2}
    Nobody = Nobody
    NoCode = NoCode
    NoTab = NoTab
SPECIFICATION FairSpec
INVARIANTS
    TypeOK
    IdentityIsOwner
    SessionsAreSaved
    OnlyCallbackTabsCrash
PROPERTIES
    AppStarts
