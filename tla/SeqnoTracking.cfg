SPECIFICATION Spec
CONSTANTS
    U32 = 10
    Blocks = 3
    Window = 3
    Lifetime = 4
INVARIANTS UnwrapIsClosest NumbersAreRecovered
