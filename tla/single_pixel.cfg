SPECIFICATION Spec
CONSTANTS
    Worker = {w1, w2}
    Runs <- PixelRuns
INVARIANTS RunComputed
