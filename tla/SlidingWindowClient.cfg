\* Three layers of one or two pages, a device of two pages, windows of up to
\* two evictions and two prefetches, two windows ahead of the worker.
SPECIFICATION ClientSpec
CONSTANTS
    PAGE = 1
    Base = 1
    MaxAddr = 5
    Sizes = {1, 2}
    device_capacity_bytes = 2
    Clients = {c1}
    client = c1
    Layers = {1, 2, 3, 4}
    MaxWindow = 2
    MaxCalls = 2
    AppDomains = {}
INVARIANTS
    DeviceWithinCapacity
    PlanReached
CHECK_DEADLOCK FALSE
