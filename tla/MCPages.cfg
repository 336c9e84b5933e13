SPECIFICATION Spec
CONSTANTS
    Requests = {r1, r2}
    Ops = {"products", "product", "license", "create_product", "create_license", "api"}
    Devices = {d1}
    LicenseKeys = {k1, k2}
    MaxProducts = 1
    MaxLicenses = 2
    NoRequest = NoRequest
INVARIANTS
    TypeOK
    CountAgreesUnlessWritten
PROPERTIES
    NobodyWritesUnderAList
    EveryRequestEnds
