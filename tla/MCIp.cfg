SPECIFICATION FairSpec
CONSTANTS
    Addresses <- GuestAddresses
    Gateways <- BehindNat
    IPGetters <- AllGetters
    MaxMoves = 3
INVARIANTS
    TypeOK
    AddressStays
    BagFollowsGetter
PROPERTIES
    KnownIsFound
    GetterConverges
CHECK_DEADLOCK FALSE
