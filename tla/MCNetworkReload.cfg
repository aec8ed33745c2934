SPECIFICATION ReloadSpec
CONSTANTS
    Lists <- MCLists
    Names <- MCNames
    Endpoints <- MCEndpoints
    BadPorts <- MCBadPorts
INVARIANTS
    Converges
PROPERTIES
    UntouchedStaysOpen
