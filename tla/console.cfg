CONSTANTS
    RingSize = 4
    MaxBytes = 4
    BannerBytes = 1
    MaxRx = 1
SPECIFICATION Spec
INVARIANTS
    TypeOK
PROPERTIES
    
    RingDrains
CHECK_DEADLOCK FALSE
