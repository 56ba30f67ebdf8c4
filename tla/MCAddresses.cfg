SPECIFICATION Spec
CONSTANTS
    Base <- MCBase
    Named <- MCNamed
    Ids <- MCIds
    Targets <- MCTargets
    Minted <- MCMinted
    Encoded <- MCEncoded
    Decoded <- MCDecoded
    ReservedCollections = {"meta", "export", "import", "backends", "quotas", "policy", "linkset", "replicas", "zcaps", "collections"}
    OriginRootReserved = {"service", "spaces", "space"}
    ReservedResources = {"policy", "linkset", "backend", "quota", "meta", "query"}
    None = None
    MaxGrants = 2
INVARIANTS NamesWhatItMeans CapabilitiesStayInPlace
