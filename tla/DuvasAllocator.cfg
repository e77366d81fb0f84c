\* Pages of 4 bytes, a device of eleven bytes, and room for four
\* pages of addresses.  Every size is positive.
SPECIFICATION Spec
CONSTANTS
    PAGE = 4
    Base = 16
    MaxAddr = 32
    Sizes = {3, 4, 7}
    device_capacity_bytes = 11
INVARIANTS
    Accounting
PROPERTIES
    NoReuse
    AllocRespectsCapacity
    ImplementsAddressSpace
