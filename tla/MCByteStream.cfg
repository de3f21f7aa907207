SPECIFICATION Spec
CONSTANTS
    b0 = b0
    b1 = b1
    Byte <- MCByte
    Blank = b0
    Capacity = 3
    MaxLen = 4
    MaxBytes = 5
INVARIANTS TypeOK RingHoldsUnreadBytes
PROPERTIES EofIsFinal ImplementsFifo
