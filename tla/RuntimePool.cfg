\* Two sessions, two worker threads and a reaper, children that may exit at any
\* time, and three of them: one to crash, one to replace it, one to race. Two
\* runtimes started in one workspace, on each platform, and a self-test.
SPECIFICATION MCSpec
CONSTANTS
    Ids = {i1, i2}
    Procs = {p1, p2, p3}
    Workers = {w1, w2}
    Reapers = {r1}
    Dirs = {d1}
    MayExit = TRUE
    None = None
    Runtimes = {h1, h2}
    Probe = probe
    NoRuntime = NoRuntime
    Platforms <- AllPlatforms
    Ceilings <- MemoryOnly
SYMMETRY Symmetry
INVARIANTS  OnePlace  
 
