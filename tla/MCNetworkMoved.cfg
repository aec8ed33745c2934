SPECIFICATION ReloadSpec
CONSTANTS
    Lists <- MCLists
    Names <- MCNames
    Endpoints <- MCEndpoints
    BadPorts <- MCBadPorts
INVARIANTS
    AddsNewlyEnabled
