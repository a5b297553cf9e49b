\* Three blocks, so that two events fall into one scan; one fault.
CONSTANTS
    Scans = {1, 2}
    Markets = {1, 2}
    MaxBlock = 3
    MaxFaults = 1
SPECIFICATION FairSpec
INVARIANTS
    CyclesExclusive
PROPERTIES
    PricesNoticed
    HeadReached
