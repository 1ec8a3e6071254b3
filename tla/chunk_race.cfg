SPECIFICATION Spec
CONSTANTS
    Worker = {w1, w2}
    Runs <- RaceRuns
INVARIANTS RunComputed
