SPECIFICATION Spec
CONSTANTS
    a1 = a1
    a2 = a2
    m1 = m1
    m2 = m2
    k1 = k1
    k2 = k2
    k3 = k3
    r1 = r1
    r2 = r2
    r3 = r3
    s1 = s1
    s2 = s2
    None = None
    Torn = Torn
    Absent = Absent
    Accounts = {a1, a2}
    Models = {m1, m2}
    KeyOf <- MCKeyOf
    Keyless = {a2}
    Secrets = {s1, s2}
    Refs = {r1, r2, r3}
    FirstRef <- MCFirstRef
    FirstSecret = s1
    Workers = {1, 2}
    Mixes <- MCMixes
    Offers <- MCOffers
    ManualSupports = {{"compression"}}
    FirstRows <- MCRows
    Payloads <- MCPayloads
CHECK_DEADLOCK FALSE
INVARIANTS
    KeyStands
    FallbackIsSound
PROPERTIES
    OptionsAreTheUsers
