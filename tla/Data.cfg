\* Two connections and two imports at once, two loads in all: enough for an
\* import to be overtaken by another, by an upload, a removal or a rename. A
\* source of up to four rows, where an import takes two and an object may have
\* three.
SPECIFICATION MCSpec
CONSTANTS
    Uploads = {"sales.csv"}
    ConnNames = {"n1", "n2"}
    Conns = {c1, c2}
    Imports = {i1, i2}
    MaxLoads = 2
    ImportName <- MCImportName
    TableKey <- MCTableKey
    Workers = {w1}
    Settings <- MCSettings
    RowLimit = 2
    ObjectLimit = 3
    MaxRows = 4
    FrameRows = 2
    MaxWrites = 1
SYMMETRY Symmetry
INVARIANTS
    
    ProvenanceIsTrue
    
    ImportsAreHonest
    
\* Bounded loads and ids run out.
CHECK_DEADLOCK FALSE
