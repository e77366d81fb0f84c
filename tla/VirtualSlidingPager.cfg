\* Two clients, two blocks of one page, a device for one of them; clients also
\* move blocks onto the device, only the worker moves them off it.
SPECIFICATION PagerSpec
CONSTANTS
    PAGE = 1
    Base = 1
    MaxAddr = 3
    Sizes = {1}
    device_capacity_bytes = 1
    Clients = {c1, c2}
    Layers = {1, 2}
    MaxWindow = 1
    MaxCalls = 1
    AppDomains = {"LocalDevice"}
INVARIANTS
    DrainedAtExit
    
PROPERTIES
    CommandsTakeEffect
    DropTerminates
