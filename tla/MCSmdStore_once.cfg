CONSTANTS
    m1 = m1  m2 = m2  m3 = m3  m4 = m4
    Metas <- MCMetas
    Bad = Bad
    NoMeta = NoMeta
    RetryAfterError = FALSE
SPECIFICATION Spec
INVARIANTS StoreInv OneGoodCopy
PROPERTIES IsCell
