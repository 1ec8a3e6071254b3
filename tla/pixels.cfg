SPECIFICATION FairSpec
CONSTANTS
    Worker = {w1, w2}
    Runs <- MCRuns
INVARIANTS TypeOK EachOnce RunComputed LinesWhole LinesWritten OneCpuPerLine
PROPERTIES AllReturn
