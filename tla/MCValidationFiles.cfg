\* Two files, one of which may not be saved to the end; two sweeps and a cleanup
\* in other threads or processes; a load.
SPECIFICATION Spec
CONSTANTS
    Files = {f1, f2}
    Sweeps = {s1, s2}
    Cleans = {c1}
    Loads = {l1}
    MaxStops = 1
SYMMETRY Symmetric
INVARIANTS
    TypeOK
    YoungFilesSurvive
    PairsStayTogether
    SweptFilesAreGone
CHECK_DEADLOCK FALSE
