------------------------------ MODULE DataProofs ------------------------------
(***************************************************************************)
(* What SessionData and Connectors promise for every set of files,         *)
(* connections, imports, drivers' threads and settings, and every limit.   *)
(*                                                                         *)
(* The properties of a session's tables speak of moments when no import is *)
(* under way, so they say too little of the steps in between: the          *)
(* inductive invariant follows every import from the row it reads to the   *)
(* schema it registers, and says of each what it has done so far or that   *)
(* it was overtaken. That of a source says what a driver's thread may      *)
(* assume of the copy of the connection it works with.                     *)
(***************************************************************************)
EXTENDS SessionData, Connectors, TLAPS

(***************************************************************************)
(* The source of a connection.                                             *)
(***************************************************************************)

\* What each thread was told when it began, and has checked since.
WorkAgrees ==
    \A w \in Workers :
        work[w].at \in {"open", "connected", "sized"} =>
            LET job == work[w] IN
            /\ job \in Busy
            /\ job.local => ~ReachesNetwork(job.spec.of)
            /\ job.doing = "write" /\ ~job.spec.readOnly => job.agreed
            /\ job.at # "open" => /\ ~(job.doing = "write" /\ job.spec.readOnly)
                                  /\ DriverAddress(job.spec.of) # "refused"

\* A connection is writable only when the user said so last.
WriteBackAgrees == conn # NoConn /\ ~conn.readOnly => optedIn

SourceInv == ConnectorTypeOK /\ WorkAgrees /\ WriteBackAgrees /\ ImportsAreHonest

\* What an import records of the rows that were there and the rows it took (ImportedFrom).
LEMMA ImportIsHonest ==
    ASSUME NEW n \in Nat
    PROVE  LET f == ImportedFrom(n) IN
           /\ f \in Imported /\ f.at = "imported"
           /\ f.rows <= RowLimit /\ f.rows <= f.had
           /\ f.truncated <=> f.rows < f.had
           /\ f.original \subseteq {f.had} /\ (f.original = {} <=> f.truncated)
<1>1. RowLimit \in Nat
  BY ConnectorsAssumption
<1>2. CASE n > RowLimit
  <2>1. (n > RowLimit) = TRUE
    BY <1>2
  <2>2. ImportedFrom(n) = [at |-> "imported", had |-> n, rows |-> RowLimit,
                           truncated |-> TRUE, original |-> {}]
    BY <2>1 DEF ImportedFrom
  <2> QED BY <1>1, <1>2, <2>2 DEF Imported
<1>3. CASE ~(n > RowLimit)
  <2>1. (n > RowLimit) = FALSE
    BY <1>3
  <2>2. ImportedFrom(n) = [at |-> "imported", had |-> n, rows |-> n,
                           truncated |-> FALSE, original |-> {n}]
    BY <2>1 DEF ImportedFrom
  <2> QED BY <1>1, <1>3, <2>2 DEF Imported
<1> QED BY <1>2, <1>3

\* A connection that reaches no network takes its driver to this machine.
LEMMA OnlyLoopback ==
    ASSUME NEW s \in Settings, ~ReachesNetwork(s), DriverAddress(s) # "refused"
    PROVE  DriverAddress(s) = "loopback"
<1>1. s \in [kind : Kinds, dsn : Addresses, host : Addresses, endpoint : Addresses,
             bucket : BOOLEAN]
  BY ConnectorsAssumption
<1>2. CASE s.kind = "object"
  BY <1>1, <1>2, ConnectorsAssumption DEF ReachesNetwork, DriverAddress, ObjectAddress, Addresses
<1>3. CASE s.kind = "document"
  BY <1>1, <1>3, ConnectorsAssumption
     DEF ReachesNetwork, DriverAddress, DocumentAddress, Addresses
<1>4. CASE s.kind = "relational"
  BY <1>1, <1>4, ConnectorsAssumption
     DEF ReachesNetwork, DriverAddress, RelationalAddress, Addresses
<1> QED BY <1>1, <1>2, <1>3, <1>4 DEF Kinds

\* The initial states satisfy the invariant of connections.
LEMMA SourceInit == ConnectorInit => SourceInv
<1> SUFFICES ASSUME ConnectorInit PROVE SourceInv
  OBVIOUS
<1> USE DEF ConnectorInit
<1>1. \A w \in Workers : work[w] = Free /\ work[w].at = "free"
  BY DEF Free
<1>2. MaxRows \in Nat /\ MaxWrites \in Nat
  BY ConnectorsAssumption
<1>3. ConnectorTypeOK
  <2>1. work \in [Workers -> {Free} \cup Busy \cup Imported]
    OBVIOUS
  <2>2. conn \in Specs \cup {NoConn}
    OBVIOUS
  <2>3. others \in 0 .. MaxRows /\ ours \in Nat /\ writes \in 0 .. MaxWrites
    BY <1>2
  <2>4. stored \in BOOLEAN /\ optedIn \in BOOLEAN /\ mode \in {"local-only", "other"}
    OBVIOUS
  <2> QED BY ONLY <2>1, <2>2, <2>3, <2>4 DEF ConnectorTypeOK
<1>4. WorkAgrees /\ WriteBackAgrees /\ ImportsAreHonest
  BY <1>1 DEF WorkAgrees, WriteBackAgrees, ImportsAreHonest
<1> QED BY <1>3, <1>4 DEF SourceInv

\* A thread comes to `job`, the others go on as they are.
LEMMA ThreadGoes ==
    ASSUME SourceInv, NEW w \in Workers, NEW job, work' = [work EXCEPT ![w] = job],
           \/ job = Free
           \/ /\ job \in Busy
              /\ job.local => ~ReachesNetwork(job.spec.of)
              /\ job.doing = "write" /\ ~job.spec.readOnly => job.agreed
              /\ job.at # "open" => /\ ~(job.doing = "write" /\ job.spec.readOnly)
                                    /\ DriverAddress(job.spec.of) # "refused"
           \/ \E n \in Nat : job = ImportedFrom(n)
    PROVE  /\ work' \in [Workers -> {Free} \cup Busy \cup Imported]
           /\ WorkAgrees' /\ ImportsAreHonest'
<1>1. /\ work \in [Workers -> {Free} \cup Busy \cup Imported]
      /\ WorkAgrees /\ ImportsAreHonest
  BY DEF SourceInv, ConnectorTypeOK
<1>2. job \in {Free} \cup Busy \cup Imported
  BY ImportIsHonest
<1>3. work' \in [Workers -> {Free} \cup Busy \cup Imported]
  BY <1>1, <1>2
<1>4. \A u \in Workers : work'[u] = IF u = w THEN job ELSE work[u]
  BY <1>1
<1>5. WorkAgrees'
  <2>1. job.at \in {"open", "connected", "sized"} => job \in Busy
    BY ImportIsHonest DEF Free
  <2>2. job \in Busy => job # Free /\ ~\E n \in Nat : job = ImportedFrom(n)
    BY ImportIsHonest DEF Free, Busy
  <2> QED BY <1>1, <1>4, <2>1, <2>2 DEF WorkAgrees
<1>6. ImportsAreHonest'
  <2>1. job.at = "imported" => \E n \in Nat : job = ImportedFrom(n)
    BY DEF Free, Busy
  <2> QED BY <1>1, <1>4, <2>1, ImportIsHonest DEF ImportsAreHonest
<1> QED BY <1>3, <1>5, <1>6

\* Every step of a connection, a driver's thread or another writer keeps the invariant.
LEMMA SourceNext == SourceInv /\ [ConnectorNext]_connectorVars => SourceInv'
<1> SUFFICES ASSUME SourceInv, [ConnectorNext]_connectorVars
             PROVE  SourceInv'
  OBVIOUS
<1>0. ConnectorTypeOK /\ WorkAgrees /\ WriteBackAgrees /\ ImportsAreHonest
  BY DEF SourceInv
<1>a. ASSUME work' = work, conn' \in Specs \cup {NoConn}, WriteBackAgrees',
             stored' \in BOOLEAN, mode' \in {"local-only", "other"},
             others' \in 0 .. MaxRows, ours' \in Nat, writes' \in 0 .. MaxWrites,
             optedIn' \in BOOLEAN
      PROVE  SourceInv'
  BY <1>a, <1>0 DEF SourceInv, ConnectorTypeOK, WorkAgrees, ImportsAreHonest
<1>b. ASSUME /\ work' \in [Workers -> {Free} \cup Busy \cup Imported]
             /\ WorkAgrees' /\ ImportsAreHonest',
             UNCHANGED <<conn, stored, mode, optedIn>>,
             others' \in 0 .. MaxRows, ours' \in Nat, writes' \in 0 .. MaxWrites
      PROVE  SourceInv'
  BY <1>b, <1>0 DEF SourceInv, ConnectorTypeOK, WriteBackAgrees
<1>t. /\ conn \in Specs \cup {NoConn} /\ stored \in BOOLEAN /\ mode \in {"local-only", "other"}
      /\ others \in 0 .. MaxRows /\ ours \in Nat /\ writes \in 0 .. MaxWrites
      /\ optedIn \in BOOLEAN /\ work \in [Workers -> {Free} \cup Busy \cup Imported]
  BY <1>0 DEF ConnectorTypeOK
<1>c. InSource \in Nat
  BY <1>t, ConnectorsAssumption DEF InSource
<1>1. ASSUME NEW s \in Settings, SavesNew(s) PROVE SourceInv'
  BY <1>1, <1>t, <1>a
     DEF SavesNew, SavesSecret, SplitsSecret, StoresKey, DropsKey, Specs, WriteBackAgrees
<1>2. ASSUME NEW s \in Settings, Edits(s) PROVE SourceInv'
  BY <1>2, <1>0, <1>t, <1>a
     DEF Edits, SavesSecret, SplitsSecret, StoresKey, DropsKey, Specs, WriteBackAgrees
<1>3. CASE DeletesConnection
  BY <1>3, <1>t, <1>a DEF DeletesConnection, DropsKey, WriteBackAgrees
<1>4. CASE SetsMode \/ OthersWrite
  BY <1>4, <1>0, <1>t, <1>a DEF SetsMode, OthersWrite, WriteBackAgrees
<1>5. ASSUME NEW enable \in BOOLEAN, SetsWriteBack(enable) PROVE SourceInv'
  BY <1>5, <1>t, <1>a DEF SetsWriteBack, Specs, WriteBackAgrees
<1>6. ASSUME NEW w \in Workers, NEW what \in {"test", "schema", "import", "write"},
             Begins(w, what)
      PROVE  SourceInv'
  <2> DEFINE job == [at |-> "open", doing |-> what, spec |-> conn, had |-> 0,
                     local |-> mode = "local-only", agreed |-> optedIn]
  <2>1. job \in Busy
    BY <1>6, <1>t DEF Begins, Busy
  <2>2. /\ job.local => ~ReachesNetwork(job.spec.of)
        /\ job.doing = "write" /\ ~job.spec.readOnly => job.agreed
    BY <1>6, <1>0 DEF Begins, WriteBackAgrees
  <2>3. /\ work' = [work EXCEPT ![w] = job] /\ writes' \in 0 .. MaxWrites
        /\ UNCHANGED <<conn, stored, mode, others, ours, optedIn>>
    BY <1>6, <1>t, ConnectorsAssumption DEF Begins
  <2>4. /\ work' \in [Workers -> {Free} \cup Busy \cup Imported]
        /\ WorkAgrees' /\ ImportsAreHonest'
    BY <2>1, <2>2, <2>3, ThreadGoes
  <2> QED BY <2>3, <2>4, <1>t, <1>b
<1>7. ASSUME NEW w \in Workers, Connects(w) PROVE SourceInv'
  <2> DEFINE job == [work[w] EXCEPT !.at = "connected"]
  <2>1. work[w] \in Busy /\ job \in Busy
    BY <1>7, <1>0 DEF Connects, WorkAgrees, Busy
  <2>2. /\ job.local => ~ReachesNetwork(job.spec.of)
        /\ job.doing = "write" /\ ~job.spec.readOnly => job.agreed
        /\ ~(job.doing = "write" /\ job.spec.readOnly)
        /\ DriverAddress(job.spec.of) # "refused"
    BY <1>7, <1>0, <2>1 DEF Connects, WorkAgrees, Busy, RefusesWrite
  <2>3. /\ work' = [work EXCEPT ![w] = job]
        /\ UNCHANGED <<conn, stored, mode, others, ours, writes, optedIn>>
    BY <1>7, <1>t DEF Connects, Goes
  <2>4. /\ work' \in [Workers -> {Free} \cup Busy \cup Imported]
        /\ WorkAgrees' /\ ImportsAreHonest'
    BY <2>1, <2>2, <2>3, ThreadGoes
  <2> QED BY <2>3, <2>4, <1>t, <1>b
<1>8. ASSUME NEW w \in Workers, SizesObject(w) PROVE SourceInv'
  <2> DEFINE job == [work[w] EXCEPT !.at = "sized", !.had = InSource]
  <2>1. work[w] \in Busy /\ job \in Busy
    BY <1>8, <1>0, <1>c DEF SizesObject, Doing, WorkAgrees, Busy
  <2>2. /\ job.local => ~ReachesNetwork(job.spec.of)
        /\ job.doing = "write" /\ ~job.spec.readOnly => job.agreed
        /\ ~(job.doing = "write" /\ job.spec.readOnly)
        /\ DriverAddress(job.spec.of) # "refused"
    BY <1>8, <1>0, <2>1 DEF SizesObject, Doing, WorkAgrees, Busy
  <2>3. /\ work' = [work EXCEPT ![w] = job]
        /\ UNCHANGED <<conn, stored, mode, others, ours, writes, optedIn>>
    BY <1>8, <1>t DEF SizesObject
  <2>4. /\ work' \in [Workers -> {Free} \cup Busy \cup Imported]
        /\ WorkAgrees' /\ ImportsAreHonest'
    BY <2>1, <2>2, <2>3, ThreadGoes
  <2> QED BY <2>3, <2>4, <1>t, <1>b
<1>9. ASSUME NEW w \in Workers,
             SamplesTable(w) \/ SamplesCollection(w) \/ ReadsObject(w)
      PROVE  SourceInv'
  <2>1. /\ work' = [work EXCEPT ![w] = ImportedFrom(InSource)]
        /\ UNCHANGED <<conn, stored, mode, others, ours, writes, optedIn>>
    BY <1>9 DEF SamplesTable, SamplesCollection, Samples, ReadsObject
  <2>2. /\ work' \in [Workers -> {Free} \cup Busy \cup Imported]
        /\ WorkAgrees' /\ ImportsAreHonest'
    BY <2>1, <1>c, ThreadGoes
  <2> QED BY <2>1, <2>2, <1>t, <1>b
<1>10. ASSUME NEW w \in Workers,
              \/ DriverFails(w) \/ Tests(w) \/ Discovers(w) \/ Answers(w)
              \/ WritesRows(w) \/ WritesDocuments(w) \/ WritesObject(w)
       PROVE  SourceInv'
  <2>1. /\ work' = [work EXCEPT ![w] = Free]
        /\ UNCHANGED <<conn, stored, mode, writes, optedIn>>
        /\ others' \in {others, 0} /\ ours' \in Nat
    BY <1>10, <1>t, ConnectorsAssumption
       DEF DriverFails, Tests, Discovers, Answers, Over, Frees, WritesRows, WritesDocuments,
           WritesObject, WritesAs
  <2>2. /\ work' \in [Workers -> {Free} \cup Busy \cup Imported]
        /\ WorkAgrees' /\ ImportsAreHonest'
    BY <2>1, ThreadGoes
  <2> QED BY <2>1, <2>2, <1>t, <1>b, ConnectorsAssumption
<1>11. CASE UNCHANGED connectorVars
  BY <1>11, <1>0, <1>t, <1>a DEF connectorVars, WriteBackAgrees
<1> QED
  BY <1>1, <1>2, <1>3, <1>4, <1>5, <1>6, <1>7, <1>8, <1>9, <1>10, <1>11 DEF ConnectorNext

\* The inductive invariant of connections and their drivers holds for ever.
THEOREM SourceInvariance == ConnectorSpec => []SourceInv
  BY SourceInit, SourceNext, PTL DEF ConnectorSpec

\* The connection, its source and what each thread does are well typed
\* (core/connectors/spec.py and the drivers).
THEOREM SourceTypeCorrect == ConnectorSpec => []ConnectorTypeOK
<1>1. SourceInv => ConnectorTypeOK
  BY DEF SourceInv
<1> QED BY SourceInvariance, <1>1, PTL

\* An import says of itself only what it saw (import_target, _profile).
THEOREM ImportsTellTheTruth == ConnectorSpec => []ImportsAreHonest
<1>1. SourceInv => ImportsAreHonest
  BY DEF SourceInv
<1> QED BY SourceInvariance, <1>1, PTL

\* Nothing connects to another machine under local-only or writes without the
\* user's word (_check_data_mode, require_writable, refuse_write).
THEOREM NothingUnsanctioned == ConnectorSpec => []SourcesAreSanctioned
<1>1. SourceInv => SourcesAreSanctioned
  <2> SUFFICES ASSUME SourceInv, NEW w \in Workers, work[w].at \in {"connected", "sized"}
               PROVE  /\ work[w].local => DriverAddress(work[w].spec.of) = "loopback"
                      /\ work[w].doing = "write" => work[w].agreed
    BY DEF SourcesAreSanctioned
  <2>1. /\ work[w] \in Busy
        /\ work[w].local => ~ReachesNetwork(work[w].spec.of)
        /\ work[w].doing = "write" /\ ~work[w].spec.readOnly => work[w].agreed
        /\ ~(work[w].doing = "write" /\ work[w].spec.readOnly)
        /\ DriverAddress(work[w].spec.of) # "refused"
    BY DEF SourceInv, WorkAgrees
  <2>2. work[w].spec.of \in Settings
    BY <2>1 DEF Busy, Specs
  <2> QED BY <2>1, <2>2, OnlyLoopback
<1> QED BY SourceInvariance, <1>1, PTL

(***************************************************************************)
(* The tables of a session.                                                *)
(***************************************************************************)
Overtaken(i) == <<Target(i), calls[i].frame>> \in stray

\* The session's table is the one import i brought.
Holds(i) == datasets[Target(i)].frame = calls[i].frame

\* What an import under way has done so far, unless it was overtaken.
CallAgrees(i) ==
    /\ calls[i].frame \in 1 .. loads
    /\ calls[i].conn \in Conns /\ calls[i].spec \in ConnNames
    /\ \A j \in Imports \ {i} : calls[j].at # "idle" => calls[j].frame # calls[i].frame
    /\ saved[calls[i].conn] = calls[i].spec \/ Overtaken(i)
    /\ \A n \in Names : datasets[n].frame = calls[i].frame =>
          n = Target(i) /\ datasets[n].of = calls[i].conn /\ calls[i].at # "sampling"
    /\ calls[i].at # "sampling" => Holds(i) \/ Overtaken(i)
    /\ calls[i].at \in {"owned", "registered"} /\ Holds(i) =>
          datasets[Target(i)].origin = saved[calls[i].conn] \/ Overtaken(i)
    /\ calls[i].at = "registered" /\ Holds(i) => Target(i) \in schemas

CallsAgree == \A i \in Imports : calls[i].at # "idle" => CallAgrees(i)

\* Frames are numbered as they are loaded, and names given to ids that exist.
NumbersAgree ==
    /\ \A n \in Names : datasets[n].frame \in 0 .. loads
    /\ \A c \in Conns : saved[c] # None => c \in created

\* The file of a table is its own but for an import that has yet to write it.
FilesAgree ==
    \A n \in Names : Alone(n) =>
        \/ files[TableKey(n)] = datasets[n].frame
        \/ \E i \in Imports : calls[i].at = "added" /\ Target(i) = n /\ Holds(i)
        \/ <<n, files[TableKey(n)]>> \in stray

TablesInv ==
    /\ DataTypeOK
    /\ CallsAgree
    /\ NumbersAgree
    /\ FilesAgree
    /\ KernelHoldsWhatIsLoaded
    /\ ProvenanceIsTrue
    /\ PolicyIsNotInherited

\* The initial states satisfy the invariant of a session's tables.
LEMMA TablesInit == DataInit => TablesInv
<1> SUFFICES ASSUME DataInit PROVE TablesInv
  OBVIOUS
<1> USE DataAssumption DEF DataInit, NoTable, Idle
<1>1. Loaded = {}
  BY DEF Loaded
<1>2. DataTypeOK
  <2>1. 0 \in Frames
    BY DEF Frames
  <2>2. datasets \in [Names -> Handle]
    BY <2>1 DEF Handle
  <2>3. calls \in [Imports -> [at : Steps, conn : Conns \cup {None},
                               spec : ConnNames \cup {None}, frame : Frames,
                               activate : BOOLEAN]]
    BY <2>1 DEF Steps
  <2>4. files \in [Keys -> Frames] /\ kernel \in [df : Frames, tables : [Keys -> Frames]]
    BY <2>1
  <2>5. saved \in [Conns -> ConnNames \cup {None}]
    OBVIOUS
  <2> QED BY <1>1, <2>1, <2>2, <2>3, <2>4, <2>5 DEF DataTypeOK
<1>3. CallsAgree /\ NumbersAgree
  BY DEF CallsAgree, NumbersAgree
<1>4. FilesAgree /\ KernelHoldsWhatIsLoaded
  <2>1. \A n \in Names : TableKey(n) \in Keys
    BY DEF Keys
  <2> QED BY <1>1, <2>1 DEF FilesAgree, KernelHoldsWhatIsLoaded
<1>5. ProvenanceIsTrue /\ PolicyIsNotInherited
  BY <1>1 DEF ProvenanceIsTrue, PolicyIsNotInherited
<1> QED BY <1>2, <1>3, <1>4, <1>5 DEF TablesInv

-----------------------------------------------------------------------------
\* What removing tables does, whoever asks for it.
LEMMA RemovesEffect ==
    ASSUME DataTypeOK, NEW ns \in SUBSET Names, NEW names, Removes(ns, names)
    PROVE  /\ datasets' \in [Names -> Handle]
           /\ \A n \in Names : datasets'[n] = IF n \in ns THEN NoTable ELSE datasets[n]
           /\ Loaded' = Loaded \ ns
           /\ older' \subseteq Loaded' \X Loaded' /\ active' \in {None} \cup Loaded'
           /\ \A n \in Names : files'[TableKey(n)] =
                 IF \E m \in ns : TableKey(m) = TableKey(n) THEN 0 ELSE files[TableKey(n)]
           /\ files' \in [Keys -> Frames] /\ dfFile' \in Frames /\ kernel'.tables = files'
           /\ kernel' \in [df : Frames, tables : [Keys -> Frames]]
           /\ schemas' = schemas \ ns /\ overrides' = overrides \ names
           /\ schemas' \subseteq Names /\ overrides' \subseteq Names \cup ConnNames
<1> USE DEF Removes, Pops
<1>1. NoTable \in Handle /\ NoTable.frame = 0
  BY DataAssumption DEF NoTable, Handle, Frames
<1>2. /\ datasets' \in [Names -> Handle]
      /\ \A n \in Names : datasets'[n] = IF n \in ns THEN NoTable ELSE datasets[n]
  BY <1>1 DEF DataTypeOK
<1>3. Loaded' = Loaded \ ns
  BY <1>1, <1>2 DEF Loaded
<1>4. older' \subseteq Loaded' \X Loaded'
  BY <1>3 DEF DataTypeOK
<1>5. active' \in {None} \cup Loaded'
  BY <1>3 DEF DataTypeOK, Oldest
<1>6. files' \in [Keys -> Frames] /\ dfFile' \in Frames
  BY DataAssumption DEF DataTypeOK, Frames
<1>7. \A n \in Names : files'[TableKey(n)] =
         IF \E m \in ns : TableKey(m) = TableKey(n) THEN 0 ELSE files[TableKey(n)]
  BY DEF Keys
<1>8. kernel' = [tables |-> files', df |-> IF dfFile = 0 THEN kernel.df ELSE dfFile]
  BY DEF Reloads
<1>9. kernel'.tables = files' /\ kernel' \in [df : Frames, tables : [Keys -> Frames]]
  BY <1>6, <1>8 DEF DataTypeOK
<1>10. /\ schemas' = schemas \ ns /\ overrides' = overrides \ names
       /\ schemas' \subseteq Names /\ overrides' \subseteq Names \cup ConnNames
  BY DEF DataTypeOK
<1> QED BY <1>2, <1>3, <1>4, <1>5, <1>6, <1>7, <1>9, <1>10

\* The names of imports are names, and the names of tables have keys.
LEMMA NamesAndKeys ==
    /\ \A c \in ConnNames : ImportName(c) \in Names
    /\ \A n \in Uploads : n \in Names
    /\ \A n \in Names : TableKey(n) \in Keys /\ n # None
    /\ None \notin Conns /\ None \notin ConnNames /\ MaxLoads \in Nat
  BY DataAssumption DEF Names, Keys

\* Every step keeps the type invariant of a session's data.
LEMMA NextDataType == TablesInv /\ [DataNext]_dataVars => DataTypeOK'
<1> SUFFICES ASSUME TablesInv, [DataNext]_dataVars
             PROVE  DataTypeOK'
  OBVIOUS
<1>0. DataTypeOK /\ CallsAgree /\ NumbersAgree
  BY DEF TablesInv
<1>i. \A i \in Imports : calls[i].at # "idle" => Target(i) \in Names /\ calls[i].conn \in Conns
                                                 /\ calls[i].frame \in Frames /\ calls[i].frame # 0
                                                 /\ calls[i].spec \in ConnNames
  BY <1>0, NamesAndKeys DEF CallsAgree, CallAgrees, Target, DataTypeOK, Frames
<1>s. ASSUME NEW changed, Overtakes(changed),
             (\E n \in Names : changed = Landed(n)) \/ (\E c \in Conns : changed = Reading(c))
      PROVE  stray' \subseteq Names \X Frames
  <2>1. \A i \in changed : i \in Imports /\ calls[i].at # "idle"
    BY <1>s DEF Landed, Reading
  <2>2. \A i \in changed : <<Target(i), calls[i].frame>> \in Names \X Frames
    BY <2>1, <1>i
  <2> QED BY <1>0, <1>s, <2>2 DEF Overtakes, DataTypeOK
<1>v. ASSUME NEW c \in Conns, NEW name \in ConnNames, Saves(c, name)
      PROVE  /\ saved' \in [Conns -> ConnNames \cup {None}]
             /\ \A d, e \in Conns : saved'[d] = saved'[e] /\ saved'[d] # None => d = e
  BY <1>0, <1>v DEF Saves, DataTypeOK
<1> USE NamesAndKeys DEF DataTypeOK, tableVars, connVars
<1>1. ASSUME NEW n \in Uploads, UploadsFile(n) PROVE DataTypeOK'
  BY <1>0, <1>1 DEF UploadsFile, Registers, Materialises, Reloads, Overtakes, Landed, Handle, Frames, Loaded
<1>2. ASSUME NEW n \in Names, Activates(n) PROVE DataTypeOK'
  BY <1>0, <1>2 DEF Activates, Materialises, Reloads, Handle, Frames, Loaded
<1>3. ASSUME NEW n \in Names, Deletes(n) PROVE DataTypeOK'
  <2>1. Removes({n}, {n}) /\ {n} \in SUBSET Names
    BY <1>3 DEF Deletes
  <2>2. stray' \subseteq Names \X Frames /\ UNCHANGED <<connVars, calls, loads>>
    BY <1>3, <1>s DEF Deletes
  <2> HIDE DEF DataTypeOK
  <2>3. /\ datasets' \in [Names -> Handle] /\ older' \subseteq Loaded' \X Loaded'
        /\ active' \in {None} \cup Loaded' /\ files' \in [Keys -> Frames] /\ dfFile' \in Frames
        /\ kernel' \in [df : Frames, tables : [Keys -> Frames]]
        /\ overrides' \subseteq Names \cup ConnNames /\ schemas' \subseteq Names
    BY <1>0, <2>1, RemovesEffect
  <2> QED BY <1>0, <2>2, <2>3 DEF DataTypeOK
<1>4. ASSUME NEW n \in Names, SetsPolicy(n) PROVE DataTypeOK'
  BY <1>0, <1>4 DEF SetsPolicy, Loaded
<1>5. ASSUME NEW c \in Conns, NEW name \in ConnNames, Creates(c, name) PROVE DataTypeOK'
  BY <1>0, <1>5 DEF Creates, Saves, Loaded
<1>6. ASSUME NEW c \in Conns, NEW name \in ConnNames, Renames(c, name) PROVE DataTypeOK'
  <2>1. datasets' \in [Names -> Handle] /\ \A n \in Names : datasets'[n].frame = datasets[n].frame
    <3>1. \A h \in Handle : /\ [h EXCEPT !.origin = name] \in Handle
                            /\ [h EXCEPT !.origin = name].frame = h.frame
      BY DEF Handle
    <3> QED BY <1>0, <1>6, <3>1 DEF Renames
  <2>2. Loaded' = Loaded
    BY <2>1 DEF Loaded
  <2>3. overrides' \subseteq Names \cup ConnNames
    BY <1>0, <1>6 DEF Renames
  <2> QED BY <1>0, <1>6, <1>s, <1>v, <2>1, <2>2, <2>3 DEF Renames
<1>7. ASSUME NEW c \in Conns, Disconnects(c) PROVE DataTypeOK'
  <2> DEFINE gone == {n \in Names : datasets[n].origin = saved[c]}
  <2>1. /\ saved' \in [Conns -> ConnNames \cup {None}]
        /\ \A d, e \in Conns : saved'[d] = saved'[e] /\ saved'[d] # None => d = e
        /\ stray' \subseteq Names \X Frames /\ UNCHANGED <<created, calls, loads>>
    BY <1>0, <1>7, <1>s DEF Disconnects
  <2>2. CASE Removes(gone, gone \cup {saved[c]})
    <3> HIDE DEF DataTypeOK
    <3>1. /\ datasets' \in [Names -> Handle] /\ older' \subseteq Loaded' \X Loaded'
          /\ active' \in {None} \cup Loaded' /\ files' \in [Keys -> Frames] /\ dfFile' \in Frames
          /\ kernel' \in [df : Frames, tables : [Keys -> Frames]]
          /\ overrides' \subseteq Names \cup ConnNames /\ schemas' \subseteq Names
      BY <1>0, <2>2, RemovesEffect
    <3> QED BY <1>0, <2>1, <3>1 DEF DataTypeOK
  <2>3. CASE /\ overrides' = overrides \ {saved[c]}
             /\ UNCHANGED <<datasets, older, active, schemas, files, dfFile, kernel>>
    <3>1. Loaded' = Loaded
      BY <2>3 DEF Loaded
    <3> QED BY <1>0, <2>1, <2>3, <3>1
  <2> QED BY <1>7, <2>2, <2>3 DEF Disconnects
<1>8. ASSUME NEW c \in Conns, NEW i \in Imports, ImportBegins(i, c) PROVE DataTypeOK'
  BY <1>0, <1>8 DEF ImportBegins, Loaded, Frames, Steps
<1>9. ASSUME NEW i \in Imports, ImportFails(i) PROVE DataTypeOK'
  BY <1>0, <1>9 DEF ImportFails, Loaded, Frames, Steps, Idle
<1>10. ASSUME NEW i \in Imports, ImportAdds(i) PROVE DataTypeOK'
  <2> DEFINE h == [frame |-> calls[i].frame, origin |-> None, of |-> calls[i].conn]
  <2>1. calls[i].at # "idle"
    BY <1>10 DEF ImportAdds, At
  <2>2. h \in Handle /\ h.frame # 0 /\ Target(i) \in Names
    BY <2>1, <1>i DEF Handle
  <2>3. datasets' = [datasets EXCEPT ![Target(i)] = h]
    BY <1>10 DEF ImportAdds, Registers
  <2>4. datasets' \in [Names -> Handle] /\ Loaded' = Loaded \cup {Target(i)}
    BY <1>0, <2>2, <2>3 DEF Loaded
  <2>5. older' \subseteq Loaded' \X Loaded' /\ active' \in Loaded' \cup {None}
    BY <1>0, <1>10, <2>4 DEF ImportAdds, Registers
  <2>6. stray' \subseteq Names \X Frames
    BY <1>10, <2>2, <1>s DEF ImportAdds
  <2>7. calls' \in [Imports -> [at : Steps, conn : Conns \cup {None}, spec : ConnNames \cup {None},
                               frame : Frames, activate : BOOLEAN]]
    BY <1>0, <1>10 DEF ImportAdds, Moves, Steps
  <2> QED BY <1>0, <1>10, <2>4, <2>5, <2>6, <2>7 DEF ImportAdds
<1>11. ASSUME NEW i \in Imports, ImportWrites(i) PROVE DataTypeOK'
  BY <1>0, <1>i, <1>11 DEF ImportWrites, At, Moves, Materialises, Loaded, Steps
<1>12. ASSUME NEW i \in Imports, ImportOwns(i) PROVE DataTypeOK'
  <2>1. calls[i].spec \in ConnNames
    BY <1>12, <1>i DEF ImportOwns, At
  <2>2. datasets' \in [Names -> Handle] /\ \A n \in Names : datasets'[n].frame = datasets[n].frame
    BY <1>0, <1>12, <2>1 DEF ImportOwns, Handle
  <2>3. Loaded' = Loaded
    BY <2>2 DEF Loaded
  <2>4. calls' \in [Imports -> [at : Steps, conn : Conns \cup {None}, spec : ConnNames \cup {None},
                               frame : Frames, activate : BOOLEAN]]
    <3>1. calls' = [calls EXCEPT ![i].at = "owned"] /\ "owned" \in Steps
      BY <1>12 DEF ImportOwns, Moves, Steps
    <3> QED BY <1>0, <3>1 DEF DataTypeOK
  <2> QED BY <1>0, <1>12, <2>2, <2>3, <2>4 DEF ImportOwns
<1>13. ASSUME NEW i \in Imports, ImportRegisters(i) PROVE DataTypeOK'
  BY <1>0, <1>i, <1>13 DEF ImportRegisters, At, Moves, Loaded, Steps
<1>14. ASSUME NEW i \in Imports, ImportReloads(i) PROVE DataTypeOK'
  BY <1>0, <1>14 DEF ImportReloads, At, Reloads, Loaded, Steps, Idle, Frames
<1>15. CASE UNCHANGED dataVars
  BY <1>0, <1>15 DEF dataVars, Loaded
<1> QED
  BY <1>1, <1>2, <1>3, <1>4, <1>5, <1>6, <1>7, <1>8, <1>9, <1>10, <1>11, <1>12, <1>13, <1>14,
     <1>15 DEF DataNext

-----------------------------------------------------------------------------
\* An import that a step does not touch goes on as it was: what it agreed to it
\* still does when its table, its connection and its frame are left alone, or
\* it is overtaken.
LEMMA CallGoesOn ==
    ASSUME DataTypeOK, DataTypeOK', NumbersAgree, NEW i \in Imports, CallAgrees(i),
           calls[i].at # "idle",
           calls'[i] = calls[i], stray \subseteq stray', loads <= loads',
           \A j \in Imports \ {i} : calls'[j].at # "idle" =>
               \/ calls'[j].frame = loads' /\ loads' > loads
               \/ calls[j].at # "idle" /\ calls'[j].frame = calls[j].frame,
           \/ saved'[calls[i].conn] = saved[calls[i].conn]
           \/ <<Target(i), calls[i].frame>> \in stray',
           \A n \in Names : datasets'[n].frame = calls[i].frame =>
               datasets[n].frame = calls[i].frame /\ datasets'[n].of = datasets[n].of,
           \/ <<Target(i), calls[i].frame>> \in stray'
           \/ datasets'[Target(i)].frame = datasets[Target(i)].frame
           \/ datasets[Target(i)].frame # calls[i].frame,
           \/ <<Target(i), calls[i].frame>> \in stray'
           \/ datasets'[Target(i)].frame # calls[i].frame
           \/ datasets'[Target(i)].origin = datasets[Target(i)].origin,
           datasets'[Target(i)].frame = calls[i].frame /\ Target(i) \in schemas
               => Target(i) \in schemas'
    PROVE  CallAgrees(i)'
<1>1. Target(i)' = Target(i)
  BY DEF Target
<1>2. Overtaken(i)' <=> <<Target(i), calls[i].frame>> \in stray'
  BY <1>1 DEF Overtaken
<1>3. Overtaken(i) => Overtaken(i)'
  BY <1>2 DEF Overtaken
<1>4. calls[i].frame \in 1 .. loads' /\ calls[i].frame <= loads
  BY DEF CallAgrees, DataTypeOK, Frames
<1>5. \A j \in Imports \ {i} : calls'[j].at # "idle" => calls'[j].frame # calls[i].frame
  BY <1>4 DEF CallAgrees, DataTypeOK, Frames
<1>6. Holds(i)' <=> datasets'[Target(i)].frame = calls[i].frame
  BY <1>1 DEF Holds
<1>7. Target(i) \in Names
  BY NamesAndKeys DEF CallAgrees, Target
<1>8. Holds(i)' => Holds(i)
  BY <1>6, <1>7 DEF Holds
<1>9. calls[i].at # "sampling" => Holds(i)' \/ Overtaken(i)'
  BY <1>2, <1>3, <1>6 DEF CallAgrees, Holds
<1>10. saved'[calls[i].conn] = calls[i].spec \/ Overtaken(i)'
  BY <1>2, <1>3 DEF CallAgrees
<1>11. \A n \in Names : datasets'[n].frame = calls[i].frame =>
          n = Target(i) /\ datasets'[n].of = calls[i].conn /\ calls[i].at # "sampling"
  BY DEF CallAgrees
<1>12. calls[i].at \in {"owned", "registered"} /\ Holds(i)' =>
          datasets'[Target(i)].origin = saved'[calls[i].conn] \/ Overtaken(i)'
  BY <1>2, <1>3, <1>6, <1>8 DEF CallAgrees
<1>13. calls[i].at = "registered" /\ Holds(i)' => Target(i) \in schemas'
  BY <1>6, <1>8 DEF CallAgrees
<1> QED
  BY <1>1, <1>4, <1>5, <1>9, <1>10, <1>11, <1>12, <1>13 DEF CallAgrees

\* Every step keeps what each import has done so far.
LEMMA NextCalls == TablesInv /\ [DataNext]_dataVars => CallsAgree'
<1> SUFFICES ASSUME TablesInv, [DataNext]_dataVars
             PROVE  CallsAgree'
  OBVIOUS
<1>0. DataTypeOK /\ CallsAgree /\ NumbersAgree /\ ProvenanceIsTrue /\ DataTypeOK'
  BY NextDataType DEF TablesInv
<1>l. loads \in Nat
  BY <1>0, NamesAndKeys DEF DataTypeOK, Frames
<1>f. \A n \in Names : datasets[n].frame \in Nat /\ datasets[n].frame <= loads
  BY <1>0, <1>l DEF NumbersAgree
<1>i. \A i \in Imports : calls[i].at # "idle" =>
         /\ CallAgrees(i) /\ Target(i) \in Names /\ calls[i].conn \in Conns
         /\ calls[i].frame \in Nat /\ calls[i].frame # 0 /\ calls[i].frame <= loads
  BY <1>0, <1>l, NamesAndKeys DEF CallsAgree, CallAgrees, Target
<1> SUFFICES ASSUME NEW i \in Imports, calls'[i].at # "idle" PROVE CallAgrees(i)'
  BY DEF CallsAgree
<1>k. calls[i].at # "idle" =>
         /\ calls[i].at = "sampling" => datasets[Target(i)].frame # calls[i].frame
         /\ datasets[Target(i)].frame = calls[i].frame => datasets[Target(i)].of = calls[i].conn
  BY <1>i DEF CallAgrees
<1>1. ASSUME NEW n \in Uploads, UploadsFile(n) PROVE CallAgrees(i)'
  <2>1. calls' = calls /\ saved' = saved /\ loads' = loads + 1 /\ schemas \subseteq schemas'
    BY <1>1 DEF UploadsFile, connVars
  <2>2. n \in Names
    BY NamesAndKeys
  <2>3. /\ datasets'[n].frame = loads + 1
        /\ \A m \in Names \ {n} : datasets'[m] = datasets[m]
    BY <1>0, <1>1, <2>2 DEF UploadsFile, Registers, DataTypeOK
  <2>4. /\ stray \subseteq stray'
        /\ calls[i].at # "sampling" /\ Target(i) = n => <<Target(i), calls[i].frame>> \in stray'
    BY <1>1, <2>1 DEF UploadsFile, Overtakes, Landed
  <2> QED BY <1>0, <1>l, <1>i, <1>k, <2>1, <2>2, <2>3, <2>4, CallGoesOn
<1>2. ASSUME NEW n \in Names, Activates(n) \/ SetsPolicy(n) PROVE CallAgrees(i)'
  <2>1. UNCHANGED <<calls, saved, loads, schemas, datasets, stray>>
    BY <1>2 DEF Activates, SetsPolicy, connVars
  <2> QED BY <1>0, <1>l, <1>i, <2>1, CallGoesOn
<1>3. ASSUME NEW n \in Names, Deletes(n) PROVE CallAgrees(i)'
  <2>1. /\ calls' = calls /\ saved' = saved /\ loads' = loads
        /\ Removes({n}, {n}) /\ {n} \in SUBSET Names
    BY <1>3 DEF Deletes, connVars
  <2>2. /\ \A m \in Names : datasets'[m] = IF m \in {n} THEN NoTable ELSE datasets[m]
        /\ schemas' = schemas \ {n}
    BY <1>0, <2>1, RemovesEffect
  <2>3. /\ stray \subseteq stray'
        /\ calls[i].at # "sampling" /\ Target(i) = n => <<Target(i), calls[i].frame>> \in stray'
    BY <1>3, <2>1 DEF Deletes, Overtakes, Landed
  <2> QED BY <1>0, <1>l, <1>i, <1>k, <2>1, <2>2, <2>3, CallGoesOn DEF NoTable
<1>4. ASSUME NEW c \in Conns, NEW name \in ConnNames, Creates(c, name) PROVE CallAgrees(i)'
  <2>1. UNCHANGED <<calls, loads, schemas, datasets, stray>>
    BY <1>4 DEF Creates, tableVars
  <2>2. saved[c] = None /\ \A d \in Conns \ {c} : saved'[d] = saved[d]
    BY <1>0, <1>4 DEF Creates, Saves, NumbersAgree, DataTypeOK
  <2>3. calls[i].conn = c => <<Target(i), calls[i].frame>> \in stray
    BY <1>i, <2>1, <2>2, NamesAndKeys DEF CallAgrees, Overtaken
  <2> QED BY <1>0, <1>l, <1>i, <2>1, <2>2, <2>3, CallGoesOn
<1>n. ASSUME NEW c \in Conns, saved[c] # None, calls[i].at # "idle", calls[i].conn # c,
             datasets[Target(i)].origin = saved[c]
      PROVE  datasets[Target(i)].frame # calls[i].frame \/ <<Target(i), calls[i].frame>> \in stray
  <2>1. SUFFICES ASSUME datasets[Target(i)].frame = calls[i].frame
                 PROVE  <<Target(i), calls[i].frame>> \in stray
    OBVIOUS
  <2>2. datasets[Target(i)].of = calls[i].conn /\ Target(i) \in Loaded
    BY <1>n, <1>i, <1>k, <2>1 DEF Loaded
  <2>3. saved[calls[i].conn] # saved[c] \/ saved[calls[i].conn] = None
    BY <1>0, <1>n, <1>i DEF DataTypeOK
  <2> QED BY <1>0, <1>n, <1>i, <2>1, <2>2, <2>3, NamesAndKeys DEF ProvenanceIsTrue
<1>5. ASSUME NEW c \in Conns, NEW name \in ConnNames, Renames(c, name) PROVE CallAgrees(i)'
  <2>1. UNCHANGED <<calls, loads, schemas>> /\ saved[c] # None
    BY <1>5 DEF Renames
  <2>2. \A d \in Conns \ {c} : saved'[d] = saved[d]
    BY <1>0, <1>5 DEF Renames, Saves, DataTypeOK
  <2>3. stray \subseteq stray' /\ (calls[i].conn = c => <<Target(i), calls[i].frame>> \in stray')
    BY <1>5, <2>1 DEF Renames, Overtakes, Reading
  <2>4. \A h \in Handle : /\ [h EXCEPT !.origin = name].frame = h.frame
                          /\ [h EXCEPT !.origin = name].of = h.of
    BY DEF Handle
  <2>5. \A n \in Names : /\ datasets'[n].frame = datasets[n].frame
                         /\ datasets'[n].of = datasets[n].of
                         /\ datasets[n].origin # saved[c] => datasets'[n] = datasets[n]
    BY <1>0, <1>5, <2>4 DEF Renames, DataTypeOK
  <2> QED BY <1>0, <1>l, <1>i, <1>n, <2>1, <2>2, <2>3, <2>5, CallGoesOn
<1>6. ASSUME NEW c \in Conns, Disconnects(c) PROVE CallAgrees(i)'
  <2> DEFINE gone == {n \in Names : datasets[n].origin = saved[c]}
  <2>1. UNCHANGED <<calls, loads>> /\ saved[c] # None
    BY <1>6 DEF Disconnects
  <2>2. \A d \in Conns \ {c} : saved'[d] = saved[d]
    BY <1>0, <1>6 DEF Disconnects, DataTypeOK
  <2>3. stray \subseteq stray' /\ (calls[i].conn = c => <<Target(i), calls[i].frame>> \in stray')
    BY <1>6, <2>1 DEF Disconnects, Overtakes, Reading
  <2>4. /\ \A n \in Names : datasets'[n] = IF n \in gone THEN NoTable ELSE datasets[n]
        /\ schemas' = schemas \ gone
    <3>1. \/ Removes(gone, gone \cup {saved[c]})
          \/ gone = {} /\ UNCHANGED <<datasets, schemas>>
      BY <1>6 DEF Disconnects
    <3>2. gone \in SUBSET Names
      OBVIOUS
    <3> HIDE DEF gone
    <3>3. CASE Removes(gone, gone \cup {saved[c]})
      BY <1>0, <3>2, <3>3, RemovesEffect
    <3>4. CASE gone = {} /\ UNCHANGED <<datasets, schemas>>
      BY <3>4
    <3> QED BY <3>1, <3>3, <3>4
  <2> QED BY <1>0, <1>l, <1>i, <1>n, <2>1, <2>2, <2>3, <2>4, CallGoesOn DEF NoTable
<1>t. calls \in [Imports -> [at : Steps, conn : Conns \cup {None}, spec : ConnNames \cup {None},
                             frame : Frames, activate : BOOLEAN]]
  BY <1>0 DEF DataTypeOK
<1>7. ASSUME NEW j \in Imports, NEW c \in Conns, ImportBegins(j, c) PROVE CallAgrees(i)'
  <2>1. /\ UNCHANGED <<datasets, schemas, saved, stray>> /\ loads' = loads + 1
        /\ calls[j].at = "idle" /\ saved[c] # None
        /\ calls'[j].at = "sampling" /\ calls'[j].conn = c /\ calls'[j].spec = saved[c]
        /\ calls'[j].frame = loads'
        /\ \A k \in Imports \ {j} : calls'[k] = calls[k]
    BY <1>7, <1>t DEF ImportBegins, At, tableVars, connVars
  <2>2. CASE i # j
    BY <1>0, <1>l, <1>i, <2>1, <2>2, CallGoesOn
  <2>3. CASE i = j
    <3>1. saved[c] \in ConnNames
      BY <1>0, <2>1 DEF DataTypeOK
    <3>2. \A k \in Imports \ {i} : calls'[k].at # "idle" => calls'[k].frame # loads'
      BY <1>i, <1>l, <2>1, <2>3
    <3>3. \A n \in Names : datasets'[n].frame # loads'
      BY <1>f, <1>l, <2>1
    <3> QED BY <1>l, <2>1, <2>3, <3>1, <3>2, <3>3 DEF CallAgrees
  <2> QED BY <2>2, <2>3
<1>8. ASSUME NEW j \in Imports, ImportFails(j) \/ ImportReloads(j) PROVE CallAgrees(i)'
  <2>1. /\ UNCHANGED <<datasets, schemas, saved, stray, loads>> /\ calls'[j].at = "idle"
        /\ \A k \in Imports \ {j} : calls'[k] = calls[k]
    BY <1>8, <1>t DEF ImportFails, ImportReloads, Idle, tableVars, connVars
  <2> QED BY <1>0, <1>l, <1>i, <2>1, CallGoesOn
<1>m. ASSUME NEW j \in Imports, NEW at, Moves(j, at)
      PROVE  /\ calls'[j] = [calls[j] EXCEPT !.at = at]
             /\ calls'[j].at = at /\ calls'[j].frame = calls[j].frame
             /\ calls'[j].conn = calls[j].conn /\ calls'[j].spec = calls[j].spec
             /\ \A k \in Imports \ {j} : calls'[k] = calls[k]
  BY <1>m, <1>t DEF Moves
<1>9. ASSUME NEW j \in Imports, ImportAdds(j) PROVE CallAgrees(i)'
  <2>1. /\ UNCHANGED <<schemas, saved, loads>> /\ calls[j].at = "sampling"
        /\ calls'[j].at = "added" /\ calls'[j].frame = calls[j].frame
        /\ calls'[j].conn = calls[j].conn /\ calls'[j].spec = calls[j].spec
        /\ \A k \in Imports \ {j} : calls'[k] = calls[k]
    BY <1>9, <1>m DEF ImportAdds, At, connVars
  <2>2. /\ datasets'[Target(j)].frame = calls[j].frame /\ datasets'[Target(j)].of = calls[j].conn
        /\ \A n \in Names \ {Target(j)} : datasets'[n] = datasets[n]
    BY <1>0, <1>9, <1>i, <2>1 DEF ImportAdds, Registers, DataTypeOK
  <2>3. /\ stray \subseteq stray'
        /\ calls[i].at \notin {"idle", "sampling"} /\ Target(i) = Target(j)
              => <<Target(i), calls[i].frame>> \in stray'
    BY <1>9 DEF ImportAdds, Overtakes, Landed
  <2>4. CASE i # j
    <3>1. calls[i].at # "idle" /\ calls[i].frame # calls[j].frame
      BY <1>i, <2>1, <2>4 DEF CallAgrees
    <3> QED BY <1>0, <1>l, <1>i, <1>k, <2>1, <2>2, <2>3, <2>4, <3>1, CallGoesOn
  <2>5. CASE i = j
    <3>1. CallAgrees(j) /\ Target(j)' = Target(j)
      BY <1>i, <2>1 DEF Target
    <3>2. \A n \in Names \ {Target(j)} : datasets'[n].frame # calls[j].frame
      BY <2>1, <2>2, <3>1 DEF CallAgrees
    <3>3. \A k \in Imports \ {j} : calls'[k].at # "idle" => calls'[k].frame # calls[j].frame
      BY <2>1, <3>1 DEF CallAgrees
    <3> QED BY <2>1, <2>2, <2>3, <2>5, <3>1, <3>2, <3>3 DEF CallAgrees, Holds, Overtaken
  <2> QED BY <2>4, <2>5
<1>10. ASSUME NEW j \in Imports, ImportWrites(j) PROVE CallAgrees(i)'
  <2>1. /\ UNCHANGED <<datasets, schemas, saved, loads, stray>> /\ calls[j].at = "added"
        /\ calls'[j].at = "written" /\ calls'[j].frame = calls[j].frame
        /\ calls'[j].conn = calls[j].conn /\ calls'[j].spec = calls[j].spec
        /\ \A k \in Imports \ {j} : calls'[k] = calls[k]
    BY <1>10, <1>m DEF ImportWrites, At, connVars
  <2>2. CASE i # j
    BY <1>0, <1>l, <1>i, <2>1, <2>2, CallGoesOn
  <2>3. CASE i = j
    <3>1. CallAgrees(j) /\ Target(j)' = Target(j)
      BY <1>i, <2>1 DEF Target
    <3> QED BY <2>1, <2>3, <3>1 DEF CallAgrees, Holds, Overtaken
  <2> QED BY <2>2, <2>3
<1>11. ASSUME NEW j \in Imports, ImportOwns(j) PROVE CallAgrees(i)'
  <2>1. /\ UNCHANGED <<schemas, saved, loads, stray>> /\ calls[j].at = "written"
        /\ calls'[j].at = "owned" /\ calls'[j].frame = calls[j].frame
        /\ calls'[j].conn = calls[j].conn /\ calls'[j].spec = calls[j].spec
        /\ \A k \in Imports \ {j} : calls'[k] = calls[k]
    BY <1>11, <1>m DEF ImportOwns, At, connVars
  <2>2. \A h \in Handle : LET own == [h EXCEPT !.origin = calls[j].spec] IN
           own.frame = h.frame /\ own.of = h.of /\ own.origin = calls[j].spec
    BY DEF Handle
  <2>3. \A n \in Names : /\ datasets'[n].frame = datasets[n].frame
                         /\ datasets'[n].of = datasets[n].of
                         /\ datasets'[n].origin = IF datasets[n].frame = calls[j].frame
                                                  THEN calls[j].spec ELSE datasets[n].origin
    BY <1>0, <1>11, <2>2 DEF ImportOwns, DataTypeOK
  <2>4. CASE i # j
    <3>1. calls[i].at # "idle" /\ calls[i].frame # calls[j].frame
      BY <1>i, <2>1, <2>4 DEF CallAgrees
    <3>2. /\ datasets'[Target(i)].frame = datasets[Target(i)].frame
          /\ \/ datasets'[Target(i)].frame # calls[i].frame
             \/ datasets'[Target(i)].origin = datasets[Target(i)].origin
      BY <1>i, <2>3, <3>1
    <3>3. calls'[i] = calls[i]
      BY <2>1, <2>4
    <3>4. \A k \in Imports \ {i} : calls'[k].at # "idle" =>
             calls[k].at # "idle" /\ calls'[k].frame = calls[k].frame
      BY <2>1
    <3>5. loads <= loads'
      BY <1>l, <2>1
    <3> QED BY <1>0, <1>i, <2>1, <2>3, <3>1, <3>2, <3>3, <3>4, <3>5, CallGoesOn
  <2>5. CASE i = j
    <3>1. CallAgrees(j) /\ Target(j)' = Target(j) /\ Target(j) \in Names
      BY <1>i, <2>1 DEF Target
    <3> QED BY <2>1, <2>3, <2>5, <3>1 DEF CallAgrees, Holds, Overtaken
  <2> QED BY <2>4, <2>5
<1>12. ASSUME NEW j \in Imports, ImportRegisters(j) PROVE CallAgrees(i)'
  <2>1. /\ UNCHANGED <<datasets, saved, loads, stray>> /\ calls[j].at = "owned"
        /\ schemas' = schemas \cup {Target(j)}
        /\ calls'[j].at = "registered" /\ calls'[j].frame = calls[j].frame
        /\ calls'[j].conn = calls[j].conn /\ calls'[j].spec = calls[j].spec
        /\ \A k \in Imports \ {j} : calls'[k] = calls[k]
    BY <1>12, <1>m DEF ImportRegisters, At, connVars
  <2>2. CASE i # j
    BY <1>0, <1>l, <1>i, <2>1, <2>2, CallGoesOn
  <2>3. CASE i = j
    <3>1. CallAgrees(j) /\ Target(j)' = Target(j)
      BY <1>i, <2>1 DEF Target
    <3> QED BY <2>1, <2>3, <3>1 DEF CallAgrees, Holds, Overtaken
  <2> QED BY <2>2, <2>3
<1>13. CASE UNCHANGED dataVars
  BY <1>0, <1>l, <1>i, <1>13, CallGoesOn DEF dataVars
<1> QED
  BY <1>1, <1>2, <1>3, <1>4, <1>5, <1>6, <1>7, <1>8, <1>9, <1>10, <1>11, <1>12, <1>13
     DEF DataNext

-----------------------------------------------------------------------------
\* Every step keeps frames numbered as they are loaded, and names given to saved ids.
LEMMA NextNumbers == TablesInv /\ [DataNext]_dataVars => NumbersAgree'
<1> SUFFICES ASSUME TablesInv, [DataNext]_dataVars
             PROVE  NumbersAgree'
  OBVIOUS
<1>0. DataTypeOK /\ CallsAgree /\ NumbersAgree
  BY DEF TablesInv
<1>l. loads \in Nat
  BY <1>0, NamesAndKeys DEF DataTypeOK, Frames
<1>a. ASSUME loads' = loads \/ loads' = loads + 1,
             \A n \in Names : \/ datasets'[n].frame = datasets[n].frame
                              \/ datasets'[n].frame = 0 \/ datasets'[n].frame = loads'
                              \/ \E i \in Imports : calls[i].at # "idle"
                                                   /\ datasets'[n].frame = calls[i].frame,
             created \subseteq created',
             \A c \in Conns : saved'[c] # None => saved[c] # None \/ c \in created'
      PROVE  NumbersAgree'
  <2>1. \A i \in Imports : calls[i].at # "idle" => calls[i].frame \in 0 .. loads
    BY <1>0, <1>l DEF CallsAgree, CallAgrees
  <2> QED BY <1>0, <1>a, <1>l, <2>1 DEF NumbersAgree
<1> USE DEF tableVars, connVars
<1>1. ASSUME NEW n \in Uploads, UploadsFile(n) PROVE NumbersAgree'
  BY <1>0, <1>1, <1>a, NamesAndKeys DEF UploadsFile, Registers, DataTypeOK
<1>2. ASSUME NEW n \in Names, Activates(n) \/ SetsPolicy(n) PROVE NumbersAgree'
  BY <1>2, <1>a DEF Activates, SetsPolicy
<1>3. ASSUME NEW n \in Names, Deletes(n) PROVE NumbersAgree'
  <2>1. UNCHANGED <<saved, created, loads>> /\ Removes({n}, {n}) /\ {n} \in SUBSET Names
    BY <1>3 DEF Deletes
  <2>2. \A m \in Names : datasets'[m] = IF m \in {n} THEN NoTable ELSE datasets[m]
    BY <1>0, <2>1, RemovesEffect
  <2> QED BY <1>a, <2>1, <2>2 DEF NoTable
<1>4. ASSUME NEW c \in Conns, NEW name \in ConnNames, Creates(c, name) PROVE NumbersAgree'
  BY <1>0, <1>4, <1>a DEF Creates, Saves, DataTypeOK
<1>5. ASSUME NEW c \in Conns, NEW name \in ConnNames, Renames(c, name) PROVE NumbersAgree'
  <2>1. \A h \in Handle : [h EXCEPT !.origin = name].frame = h.frame
    BY DEF Handle
  <2>2. \A n \in Names : datasets'[n].frame = datasets[n].frame
    BY <1>0, <1>5, <2>1 DEF Renames, DataTypeOK
  <2> QED BY <1>0, <1>5, <1>a, <2>2 DEF Renames, Saves, DataTypeOK
<1>6. ASSUME NEW c \in Conns, Disconnects(c) PROVE NumbersAgree'
  <2> DEFINE gone == {n \in Names : datasets[n].origin = saved[c]}
  <2>1. /\ UNCHANGED <<created, loads>>
        /\ \A d \in Conns : saved'[d] # None => saved[d] # None
    BY <1>0, <1>6 DEF Disconnects, DataTypeOK
  <2>2. \/ Removes(gone, gone \cup {saved[c]})
        \/ UNCHANGED datasets
    BY <1>6 DEF Disconnects
  <2>3. gone \in SUBSET Names
    OBVIOUS
  <2> HIDE DEF gone
  <2>4. CASE Removes(gone, gone \cup {saved[c]})
    <3>1. \A m \in Names : datasets'[m] = IF m \in gone THEN NoTable ELSE datasets[m]
      BY <1>0, <2>3, <2>4, RemovesEffect
    <3> QED BY <1>a, <2>1, <3>1 DEF NoTable
  <2>5. CASE UNCHANGED datasets
    BY <1>a, <2>1, <2>5
  <2> QED BY <2>2, <2>4, <2>5
<1>7. ASSUME NEW i \in Imports, NEW c \in Conns, ImportBegins(i, c) PROVE NumbersAgree'
  BY <1>7, <1>a DEF ImportBegins
<1>8. ASSUME NEW i \in Imports,
             \/ ImportFails(i) \/ ImportWrites(i) \/ ImportRegisters(i) \/ ImportReloads(i)
      PROVE  NumbersAgree'
  BY <1>8, <1>a DEF ImportFails, ImportWrites, ImportRegisters, ImportReloads
<1>9. ASSUME NEW i \in Imports, ImportAdds(i) PROVE NumbersAgree'
  BY <1>0, <1>9, <1>a DEF ImportAdds, At, Registers, DataTypeOK
<1>10. ASSUME NEW i \in Imports, ImportOwns(i) PROVE NumbersAgree'
  <2>1. \A h \in Handle : [h EXCEPT !.origin = calls[i].spec].frame = h.frame
    BY DEF Handle
  <2>2. \A n \in Names : datasets'[n].frame = datasets[n].frame
    BY <1>0, <1>10, <2>1 DEF ImportOwns, DataTypeOK
  <2> QED BY <1>10, <1>a, <2>2 DEF ImportOwns
<1>11. CASE UNCHANGED dataVars
  BY <1>11, <1>a DEF dataVars
<1> QED
  BY <1>1, <1>2, <1>3, <1>4, <1>5, <1>6, <1>7, <1>8, <1>9, <1>10, <1>11 DEF DataNext

-----------------------------------------------------------------------------
\* What a step does to the tables, their files and the frames of the kernel, in
\* the terms the rest needs: it registers or removes and reloads, or reloads
\* alone, or one import goes on, or it touches none of them.
LEMMA FilesEffect ==
    ASSUME DataTypeOK, CallsAgree, [DataNext]_dataVars,
           NEW n \in Names, Alone(n)
    PROVE  \/ /\ datasets'[n].frame = datasets[n].frame
              /\ files'[TableKey(n)] = files[TableKey(n)]
              /\ stray \subseteq stray'
              /\ \A i \in Imports : calls[i].at = "added" /\ Target(i) = n =>
                    calls'[i].at = "added" /\ Target(i)' = n /\ calls'[i].frame = calls[i].frame
           \/ files'[TableKey(n)] = datasets'[n].frame
           \/ \E i \in Imports : /\ ImportAdds(i) /\ Target(i)' = n /\ calls'[i].at = "added"
                                 /\ datasets'[n].frame = calls'[i].frame
           \/ \E i \in Imports : /\ ImportWrites(i) /\ Target(i) = n
                                 /\ files'[TableKey(n)] = calls[i].frame
                                 /\ datasets'[n].frame = datasets[n].frame /\ stray' = stray
<1> DEFINE Kept == /\ datasets'[n].frame = datasets[n].frame
                   /\ files'[TableKey(n)] = files[TableKey(n)]
                   /\ stray \subseteq stray'
                   /\ \A i \in Imports : calls[i].at = "added" /\ Target(i) = n =>
                         /\ calls'[i].at = "added" /\ Target(i)' = n
                         /\ calls'[i].frame = calls[i].frame
           Fresh == files'[TableKey(n)] = datasets'[n].frame
           Added == \E i \in Imports : /\ ImportAdds(i) /\ Target(i)' = n /\ calls'[i].at = "added"
                                       /\ datasets'[n].frame = calls'[i].frame
           Written == \E i \in Imports : /\ ImportWrites(i) /\ Target(i) = n
                                         /\ files'[TableKey(n)] = calls[i].frame
                                         /\ datasets'[n].frame = datasets[n].frame
                                         /\ stray' = stray
<1> SUFFICES Kept \/ Fresh \/ Added \/ Written
  OBVIOUS
<1> USE NamesAndKeys DEF tableVars, connVars
<1>k. \A m \in Names \ {n} : TableKey(m) # TableKey(n)
  BY DEF Alone
<1>f. files \in [Keys -> Frames] /\ datasets \in [Names -> Handle]
  BY DEF DataTypeOK
<1>t. calls \in [Imports -> [at : Steps, conn : Conns \cup {None}, spec : ConnNames \cup {None},
                             frame : Frames, activate : BOOLEAN]]
  BY DEF DataTypeOK
<1>i. \A i \in Imports : calls[i].at # "idle" => Target(i) \in Names
  BY DEF CallsAgree, CallAgrees, Target
<1>1. ASSUME NEW m \in Uploads, UploadsFile(m) PROVE Kept \/ Fresh
  BY <1>1, <1>f, <1>k DEF UploadsFile, Registers, Materialises, Overtakes, Target
<1>2. ASSUME NEW m \in Names, Activates(m) PROVE Kept \/ Fresh
  BY <1>2, <1>f, <1>k DEF Activates, Materialises, Target
<1>3. ASSUME NEW ns \in SUBSET Names, NEW names, Removes(ns, names), calls' = calls,
             stray \subseteq stray'
      PROVE  Kept \/ Fresh
  <2> HIDE DEF Kept, Fresh
  <2>1. /\ \A m \in Names : datasets'[m] = IF m \in ns THEN NoTable ELSE datasets[m]
        /\ \A l \in Names : files'[TableKey(l)] =
              IF \E m \in ns : TableKey(m) = TableKey(l) THEN 0 ELSE files[TableKey(l)]
    BY <1>3, RemovesEffect
  <2> USE DEF Kept, Fresh
  <2>2. CASE n \in ns
    BY <2>1, <2>2 DEF NoTable
  <2>3. CASE n \notin ns
    <3>1. ~\E m \in ns : TableKey(m) = TableKey(n)
      BY <1>k, <2>3
    <3> QED BY <1>3, <2>1, <2>3, <3>1 DEF Target
  <2> QED BY <2>2, <2>3
<1>4. ASSUME NEW m \in Names, Deletes(m) PROVE Kept \/ Fresh
  <2>1. Removes({m}, {m}) /\ {m} \in SUBSET Names /\ calls' = calls /\ stray \subseteq stray'
    BY <1>4 DEF Deletes, Overtakes
  <2> HIDE DEF Kept, Fresh
  <2> QED BY <1>3, <2>1
<1>5. ASSUME UNCHANGED <<datasets, files, stray, calls>> PROVE Kept
  BY <1>5 DEF Target
<1>6. ASSUME NEW m \in Names, SetsPolicy(m) PROVE Kept
  BY <1>5, <1>6 DEF SetsPolicy
<1>7. ASSUME NEW c \in Conns, NEW name \in ConnNames, Creates(c, name) PROVE Kept
  BY <1>5, <1>7 DEF Creates
<1>8. ASSUME NEW c \in Conns, NEW name \in ConnNames, Renames(c, name) PROVE Kept
  <2>1. \A h \in Handle : [h EXCEPT !.origin = name].frame = h.frame
    BY DEF Handle
  <2>2. datasets'[n].frame = datasets[n].frame
    BY <1>8, <1>f, <2>1 DEF Renames
  <2> QED BY <1>8, <2>2 DEF Renames, Overtakes, Target
<1>9. ASSUME NEW c \in Conns, Disconnects(c) PROVE Kept \/ Fresh
  <2> DEFINE gone == {m \in Names : datasets[m].origin = saved[c]}
  <2>1. \/ Removes(gone, gone \cup {saved[c]})
        \/ UNCHANGED <<datasets, files>>
    BY <1>9 DEF Disconnects
  <2>2. gone \in SUBSET Names
    OBVIOUS
  <2>3. calls' = calls /\ stray \subseteq stray'
    BY <1>9 DEF Disconnects, Overtakes
  <2>4. ASSUME UNCHANGED <<datasets, files>> PROVE Kept
    BY <2>3, <2>4 DEF Target
  <2> HIDE DEF gone, Kept, Fresh
  <2> QED BY <1>3, <2>1, <2>2, <2>3, <2>4
<1>10. ASSUME NEW i \in Imports, NEW c \in Conns, ImportBegins(i, c) PROVE Kept
  BY <1>10, <1>t DEF ImportBegins, At, Target
<1>11. ASSUME NEW i \in Imports, ImportFails(i) \/ ImportReloads(i) PROVE Kept
  BY <1>11, <1>t DEF ImportFails, ImportReloads, At, Target
<1>m. ASSUME NEW j \in Imports, NEW at, Moves(j, at)
      PROVE  /\ calls'[j].at = at /\ calls'[j].frame = calls[j].frame
             /\ calls'[j].spec = calls[j].spec
             /\ \A k \in Imports \ {j} : calls'[k] = calls[k]
  BY <1>m, <1>t DEF Moves
<1>12. ASSUME NEW i \in Imports, ImportAdds(i) PROVE Kept \/ Added
  <2>1. /\ calls[i].at = "sampling" /\ calls'[i].at = "added"
        /\ calls'[i].frame = calls[i].frame /\ Target(i)' = Target(i)
        /\ \A k \in Imports \ {i} : calls'[k] = calls[k]
    BY <1>12, <1>m DEF ImportAdds, At, Target
  <2>2. /\ datasets'[Target(i)].frame = calls[i].frame
        /\ \A m \in Names \ {Target(i)} : datasets'[m] = datasets[m]
        /\ files' = files /\ stray \subseteq stray'
    BY <1>12, <1>f, <1>i, <2>1 DEF ImportAdds, Registers, Overtakes
  <2>3. CASE Target(i) = n
    BY <1>12, <2>1, <2>2, <2>3
  <2>4. CASE Target(i) # n
    BY <2>1, <2>2, <2>4 DEF Target
  <2> QED BY <2>3, <2>4
<1>13. ASSUME NEW i \in Imports, ImportWrites(i) PROVE Kept \/ Written
  <2>1. /\ calls[i].at = "added" /\ \A k \in Imports \ {i} : calls'[k] = calls[k]
        /\ datasets' = datasets /\ stray' = stray
    BY <1>13, <1>m DEF ImportWrites, At
  <2>2. files' = [files EXCEPT ![TableKey(Target(i))] = calls[i].frame] /\ Target(i) \in Names
    BY <1>13, <1>i, <2>1 DEF ImportWrites, Materialises
  <2>3. CASE Target(i) = n
    BY <1>13, <1>f, <2>1, <2>2, <2>3
  <2>4. CASE Target(i) # n
    BY <1>f, <1>k, <2>1, <2>2, <2>4 DEF Target
  <2> QED BY <2>3, <2>4
<1>14. ASSUME NEW i \in Imports, ImportOwns(i) PROVE Kept
  <2>1. \A h \in Handle : [h EXCEPT !.origin = calls[i].spec].frame = h.frame
    BY DEF Handle
  <2>2. datasets'[n].frame = datasets[n].frame
    BY <1>14, <1>f, <2>1 DEF ImportOwns
  <2>3. calls[i].at = "written" /\ \A k \in Imports \ {i} : calls'[k] = calls[k]
    BY <1>14, <1>m DEF ImportOwns, At
  <2> QED BY <1>14, <2>2, <2>3 DEF ImportOwns, Target
<1>15. ASSUME NEW i \in Imports, ImportRegisters(i) PROVE Kept
  <2>1. calls[i].at = "owned" /\ \A k \in Imports \ {i} : calls'[k] = calls[k]
    BY <1>15, <1>m DEF ImportRegisters, At
  <2> QED BY <1>15, <2>1 DEF ImportRegisters, Target
<1>16. CASE UNCHANGED dataVars
  BY <1>5, <1>16 DEF dataVars
<1> HIDE DEF Kept, Fresh, Added, Written
<1> QED
  BY <1>1, <1>2, <1>4, <1>6, <1>7, <1>8, <1>9, <1>10, <1>11, <1>12, <1>13, <1>14, <1>15, <1>16
     DEF DataNext

\* Every step keeps the workspace's files those of the tables.
LEMMA NextFiles == TablesInv /\ [DataNext]_dataVars => FilesAgree'
<1> SUFFICES ASSUME TablesInv, [DataNext]_dataVars, NEW n \in Names, Alone(n)
             PROVE  \/ files'[TableKey(n)] = datasets'[n].frame
                    \/ \E i \in Imports : calls'[i].at = "added" /\ Target(i)' = n /\ Holds(i)'
                    \/ <<n, files'[TableKey(n)]>> \in stray'
  BY DEF FilesAgree, Alone
<1>0. DataTypeOK /\ CallsAgree
  BY DEF TablesInv
<1>1. \/ files[TableKey(n)] = datasets[n].frame
      \/ \E i \in Imports : calls[i].at = "added" /\ Target(i) = n /\ Holds(i)
      \/ <<n, files[TableKey(n)]>> \in stray
  BY DEF TablesInv, FilesAgree
<1>2. \A i \in Imports : calls[i].at = "added" => Holds(i) \/ Overtaken(i)
  BY <1>0 DEF CallsAgree, CallAgrees
<1> QED BY <1>0, <1>1, <1>2, FilesEffect DEF Holds, Overtaken, ImportWrites, At

-----------------------------------------------------------------------------
\* The frame of an import stays in flight until it has been reloaded, and then
\* the table that has it has a schema and says where it is from.
LEMMA FlightEffect ==
    ASSUME DataTypeOK, CallsAgree, [DataNext]_dataVars, NEW n \in Names,
           InFlight(datasets[n].frame)
    PROVE  \/ InFlight(datasets[n].frame)'
           \/ datasets'[n].frame # datasets[n].frame
           \/ \E i \in Imports : /\ ImportReloads(i) /\ calls[i].at = "registered"
                                 /\ calls[i].frame = datasets[n].frame /\ n = Target(i)
<1>t. calls \in [Imports -> [at : Steps, conn : Conns \cup {None}, spec : ConnNames \cup {None},
                             frame : Frames, activate : BOOLEAN]]
  BY DEF DataTypeOK
<1>1. PICK i \in Imports : calls[i].at # "idle" /\ calls[i].frame = datasets[n].frame
  BY DEF InFlight
<1>2. n = Target(i) /\ calls[i].at # "sampling"
  BY <1>1 DEF CallsAgree, CallAgrees
<1>3. ASSUME calls'[i].at # "idle", calls'[i].frame = calls[i].frame
      PROVE  InFlight(datasets[n].frame)' \/ datasets'[n].frame # datasets[n].frame
  BY <1>1, <1>3 DEF InFlight
<1>m. ASSUME NEW j \in Imports, NEW at, Moves(j, at), at # "idle"
      PROVE  calls'[i].at # "idle" /\ calls'[i].frame = calls[i].frame
  BY <1>m, <1>t, <1>1 DEF Moves
<1>4. ASSUME NEW j \in Imports,
             ImportAdds(j) \/ ImportWrites(j) \/ ImportOwns(j) \/ ImportRegisters(j)
      PROVE  calls'[i].at # "idle" /\ calls'[i].frame = calls[i].frame
  BY <1>4, <1>m DEF ImportAdds, ImportWrites, ImportOwns, ImportRegisters
<1>5. ASSUME NEW j \in Imports, NEW c \in Conns, ImportBegins(j, c)
      PROVE  calls'[i].at # "idle" /\ calls'[i].frame = calls[i].frame
  BY <1>5, <1>t, <1>1 DEF ImportBegins, At
<1>6. ASSUME NEW j \in Imports, ImportFails(j)
      PROVE  calls'[i].at # "idle" /\ calls'[i].frame = calls[i].frame
  BY <1>6, <1>t, <1>1, <1>2 DEF ImportFails, At
<1>7. ASSUME NEW j \in Imports, ImportReloads(j), j # i
      PROVE  calls'[i].at # "idle" /\ calls'[i].frame = calls[i].frame
  BY <1>7, <1>t, <1>1 DEF ImportReloads
<1>8. ImportReloads(i) => calls[i].at = "registered"
  BY DEF ImportReloads, At
<1>9. ASSUME \/ \E m \in Uploads : UploadsFile(m)
             \/ \E m \in Names : Activates(m) \/ Deletes(m) \/ SetsPolicy(m)
             \/ \E c \in Conns, name \in ConnNames : Creates(c, name) \/ Renames(c, name)
             \/ \E c \in Conns : Disconnects(c)
             \/ UNCHANGED dataVars
      PROVE  calls'[i].at # "idle" /\ calls'[i].frame = calls[i].frame
  BY <1>9, <1>1
     DEF UploadsFile, Activates, Deletes, SetsPolicy, Creates, Renames, Disconnects, dataVars
<1> QED
  BY <1>1, <1>2, <1>3, <1>4, <1>5, <1>6, <1>7, <1>8, <1>9 DEF DataNext

\* The kernel reloads what there is, or a step leaves what it holds alone; a
\* table changes under it only while the import that brings it is in flight.
LEMMA KernelEffect ==
    ASSUME DataTypeOK, CallsAgree, [DataNext]_dataVars
    PROVE  \/ kernel'.tables = files'
           \/ /\ kernel' = kernel /\ stray \subseteq stray'
              /\ \A n \in Names : \/ datasets'[n].frame = datasets[n].frame
                                  \/ InFlight(datasets[n].frame)'
<1> DEFINE Reloaded == kernel'.tables = files'
           Same == /\ kernel' = kernel /\ stray \subseteq stray'
                   /\ \A n \in Names : \/ datasets'[n].frame = datasets[n].frame
                                       \/ InFlight(datasets[n].frame)'
<1> SUFFICES Reloaded \/ Same
  OBVIOUS
<1>f. datasets \in [Names -> Handle]
  BY DEF DataTypeOK
<1> USE DEF tableVars, connVars
<1>1. ASSUME NEW m \in Uploads, UploadsFile(m) PROVE Reloaded
  BY <1>1 DEF UploadsFile, Reloads
<1>2. ASSUME NEW m \in Names, Activates(m) PROVE Reloaded
  BY <1>2 DEF Activates, Reloads
<1>3. ASSUME NEW m \in Names, Deletes(m) PROVE Reloaded
  BY <1>3 DEF Deletes, Removes, Reloads
<1>4. ASSUME NEW m \in Names, SetsPolicy(m) PROVE Same
  BY <1>4 DEF SetsPolicy
<1>5. ASSUME NEW c \in Conns, NEW name \in ConnNames, Creates(c, name) PROVE Same
  BY <1>5 DEF Creates
<1>6. ASSUME NEW c \in Conns, NEW name \in ConnNames, Renames(c, name) PROVE Same
  <2>1. \A h \in Handle : [h EXCEPT !.origin = name].frame = h.frame
    BY DEF Handle
  <2>2. \A n \in Names : datasets'[n].frame = datasets[n].frame
    BY <1>6, <1>f, <2>1 DEF Renames
  <2> QED BY <1>6, <2>2 DEF Renames, Overtakes
<1>7. ASSUME NEW c \in Conns, Disconnects(c) PROVE Reloaded \/ Same
  BY <1>7 DEF Disconnects, Removes, Reloads, Overtakes
<1>8. ASSUME NEW i \in Imports, NEW c \in Conns, ImportBegins(i, c) PROVE Same
  BY <1>8 DEF ImportBegins
<1>9. ASSUME NEW i \in Imports, ImportFails(i) \/ ImportWrites(i) \/ ImportRegisters(i)
      PROVE  Same
  BY <1>9 DEF ImportFails, ImportWrites, ImportRegisters
<1>10. ASSUME NEW i \in Imports, ImportReloads(i) PROVE Reloaded
  BY <1>10 DEF ImportReloads, Reloads
<1>11. ASSUME NEW i \in Imports, ImportOwns(i) PROVE Same
  <2>1. \A h \in Handle : [h EXCEPT !.origin = calls[i].spec].frame = h.frame
    BY DEF Handle
  <2>2. \A n \in Names : datasets'[n].frame = datasets[n].frame
    BY <1>11, <1>f, <2>1 DEF ImportOwns
  <2> QED BY <1>11, <2>2 DEF ImportOwns
<1>12. ASSUME NEW i \in Imports, ImportAdds(i) PROVE Same
  <2>1. calls'[i].at = "added" /\ calls'[i].frame = calls[i].frame
    BY <1>12 DEF ImportAdds, Moves, DataTypeOK
  <2>2. \A n \in Names : \/ datasets'[n].frame = datasets[n].frame
                         \/ datasets'[n].frame = calls[i].frame
    BY <1>12, <1>f DEF ImportAdds, Registers
  <2>3. kernel' = kernel /\ stray \subseteq stray'
    BY <1>12 DEF ImportAdds, Overtakes
  <2> QED BY <2>1, <2>2, <2>3 DEF InFlight
<1>13. CASE UNCHANGED dataVars
  BY <1>13 DEF dataVars
<1> HIDE DEF Reloaded, Same
<1> QED
  BY <1>1, <1>2, <1>3, <1>4, <1>5, <1>6, <1>7, <1>8, <1>9, <1>10, <1>11, <1>12, <1>13 DEF DataNext

\* The registry's schemas.
LEMMA SchemasEffect ==
    ASSUME DataTypeOK, CallsAgree, [DataNext]_dataVars
    PROVE  /\ stray \subseteq stray'
           /\ \A n \in schemas' : \/ n \in Loaded' \/ \E s \in stray' : s[1] = n
                                  \/ n \in schemas /\ n \notin Loaded
           /\ \A n \in Loaded' : \/ n \in schemas'
                                 \/ InFlight(datasets[n].frame)'
                                 \/ n \notin schemas /\ datasets'[n].frame = datasets[n].frame
<1> DEFINE Known == \A n \in schemas' : \/ n \in Loaded' \/ \E s \in stray' : s[1] = n
                                        \/ n \in schemas /\ n \notin Loaded
           Registered == \A n \in Loaded' : \/ n \in schemas'
                                            \/ InFlight(datasets[n].frame)'
                                            \/ /\ n \notin schemas
                                               /\ datasets'[n].frame = datasets[n].frame
<1> SUFFICES stray \subseteq stray' /\ Known /\ Registered
  OBVIOUS
<1> USE NamesAndKeys DEF tableVars, connVars
<1>f. datasets \in [Names -> Handle] /\ loads \in Nat
  BY DEF DataTypeOK, Frames
<1>a. ASSUME schemas' = schemas, \A n \in Names : datasets'[n].frame = datasets[n].frame
      PROVE  Known /\ Registered
  BY <1>a DEF Loaded
<1>1. ASSUME NEW m \in Uploads, UploadsFile(m) PROVE stray \subseteq stray' /\ Known /\ Registered
  BY <1>1, <1>f DEF UploadsFile, Registers, Overtakes, Loaded
<1>2. ASSUME NEW m \in Names, Activates(m) \/ SetsPolicy(m)
      PROVE  stray \subseteq stray' /\ Known /\ Registered
  BY <1>2, <1>a DEF Activates, SetsPolicy
<1>3. ASSUME NEW ns \in SUBSET Names, NEW names, Removes(ns, names) PROVE Known /\ Registered
  <2> HIDE DEF Known, Registered
  <2>1. /\ \A m \in Names : datasets'[m] = IF m \in ns THEN NoTable ELSE datasets[m]
        /\ Loaded' = Loaded \ ns /\ schemas' = schemas \ ns
    BY <1>3, RemovesEffect
  <2> USE DEF Known, Registered
  <2> QED BY <2>1 DEF Loaded
<1>4. ASSUME NEW m \in Names, Deletes(m) PROVE stray \subseteq stray' /\ Known /\ Registered
  <2>1. Removes({m}, {m}) /\ {m} \in SUBSET Names /\ stray \subseteq stray'
    BY <1>4 DEF Deletes, Overtakes
  <2> HIDE DEF Known, Registered
  <2> QED BY <1>3, <2>1
<1>5. ASSUME NEW c \in Conns, NEW name \in ConnNames, Creates(c, name)
      PROVE  stray \subseteq stray' /\ Known /\ Registered
  BY <1>5, <1>a DEF Creates
<1>6. ASSUME NEW c \in Conns, NEW name \in ConnNames, Renames(c, name)
      PROVE  stray \subseteq stray' /\ Known /\ Registered
  <2>1. \A h \in Handle : [h EXCEPT !.origin = name].frame = h.frame
    BY DEF Handle
  <2>2. \A n \in Names : datasets'[n].frame = datasets[n].frame
    BY <1>6, <1>f, <2>1 DEF Renames
  <2> QED BY <1>6, <1>a, <2>2 DEF Renames, Overtakes
<1>7. ASSUME NEW c \in Conns, Disconnects(c) PROVE stray \subseteq stray' /\ Known /\ Registered
  <2> DEFINE gone == {m \in Names : datasets[m].origin = saved[c]}
  <2>1. \/ Removes(gone, gone \cup {saved[c]})
        \/ UNCHANGED <<datasets, schemas>>
    BY <1>7 DEF Disconnects
  <2>2. gone \in SUBSET Names /\ stray \subseteq stray'
    BY <1>7 DEF Disconnects, Overtakes
  <2>3. ASSUME UNCHANGED <<datasets, schemas>> PROVE Known /\ Registered
    BY <1>a, <2>3
  <2> HIDE DEF gone, Known, Registered
  <2> QED BY <1>3, <2>1, <2>2, <2>3
<1>8. ASSUME NEW i \in Imports, NEW c \in Conns, ImportBegins(i, c)
      PROVE  stray \subseteq stray' /\ Known /\ Registered
  BY <1>8, <1>a DEF ImportBegins
<1>9. ASSUME NEW i \in Imports, ImportFails(i) \/ ImportWrites(i) \/ ImportReloads(i)
      PROVE  stray \subseteq stray' /\ Known /\ Registered
  BY <1>9, <1>a DEF ImportFails, ImportWrites, ImportReloads
<1>10. ASSUME NEW i \in Imports, ImportOwns(i) PROVE stray \subseteq stray' /\ Known /\ Registered
  <2>1. \A h \in Handle : [h EXCEPT !.origin = calls[i].spec].frame = h.frame
    BY DEF Handle
  <2>2. \A n \in Names : datasets'[n].frame = datasets[n].frame
    BY <1>10, <1>f, <2>1 DEF ImportOwns
  <2> QED BY <1>10, <1>a, <2>2 DEF ImportOwns
<1>11. ASSUME NEW i \in Imports, ImportAdds(i) PROVE stray \subseteq stray' /\ Known /\ Registered
  <2>1. calls'[i].at = "added" /\ calls'[i].frame = calls[i].frame
    BY <1>11 DEF ImportAdds, Moves, DataTypeOK
  <2>2. Target(i) \in Names /\ calls[i].frame # 0
    BY <1>11 DEF ImportAdds, At, CallsAgree, CallAgrees, Target
  <2>3. /\ datasets'[Target(i)].frame = calls[i].frame
        /\ \A n \in Names \ {Target(i)} : datasets'[n] = datasets[n]
        /\ schemas' = schemas /\ stray \subseteq stray'
    BY <1>11, <1>f, <2>2 DEF ImportAdds, Registers, Overtakes
  <2>4. InFlight(calls[i].frame)'
    BY <2>1 DEF InFlight
  <2> QED BY <2>1, <2>2, <2>3, <2>4 DEF InFlight, Loaded
<1>12. ASSUME NEW i \in Imports, ImportRegisters(i)
       PROVE  stray \subseteq stray' /\ Known /\ Registered
  <2>1. /\ Target(i) \in Names /\ calls[i].frame # 0
        /\ Holds(i) \/ Overtaken(i)
    BY <1>12 DEF ImportRegisters, At, CallsAgree, CallAgrees, Target
  <2>2. UNCHANGED <<datasets, stray>> /\ schemas' = schemas \cup {Target(i)}
    BY <1>12 DEF ImportRegisters
  <2>3. Target(i) \in Loaded \/ \E s \in stray : s[1] = Target(i)
    BY <2>1 DEF Holds, Overtaken, Loaded
  <2>4. Loaded' = Loaded
    BY <2>2 DEF Loaded
  <2> QED BY <2>2, <2>3, <2>4
<1>13. CASE UNCHANGED dataVars
  BY <1>13, <1>a DEF dataVars
<1> HIDE DEF Known, Registered
<1> QED
  BY <1>1, <1>2, <1>4, <1>5, <1>6, <1>7, <1>8, <1>9, <1>10, <1>11, <1>12, <1>13 DEF DataNext

\* Every step keeps the runtime's frames those of the loaded tables.
LEMMA NextKernel == TablesInv /\ [DataNext]_dataVars => KernelHoldsWhatIsLoaded'
<1> SUFFICES ASSUME TablesInv, [DataNext]_dataVars
             PROVE  KernelHoldsWhatIsLoaded'
  OBVIOUS
<1>0. DataTypeOK /\ CallsAgree /\ KernelHoldsWhatIsLoaded /\ FilesAgree'
  BY NextFiles DEF TablesInv
<1>1. ASSUME NEW n \in Names, Alone(n)
      PROVE  \/ kernel'.tables[TableKey(n)] = datasets'[n].frame
             \/ InFlight(datasets[n].frame)'
             \/ <<n, kernel'.tables[TableKey(n)]>> \in stray'
  <2>1. CASE kernel'.tables = files'
    <3>1. \/ files'[TableKey(n)] = datasets'[n].frame
          \/ \E i \in Imports : calls'[i].at = "added" /\ Target(i)' = n /\ Holds(i)'
          \/ <<n, files'[TableKey(n)]>> \in stray'
      BY <1>0, <1>1 DEF FilesAgree, Alone
    <3> QED BY <2>1, <3>1 DEF Holds, InFlight
  <2>2. CASE /\ kernel' = kernel /\ stray \subseteq stray'
             /\ \A m \in Names : \/ datasets'[m].frame = datasets[m].frame
                                 \/ InFlight(datasets[m].frame)'
    <3>1. \/ kernel.tables[TableKey(n)] = datasets[n].frame
          \/ InFlight(datasets[n].frame)
          \/ <<n, kernel.tables[TableKey(n)]>> \in stray
      BY <1>0, <1>1 DEF KernelHoldsWhatIsLoaded
    <3>2. CASE InFlight(datasets[n].frame)
      <4>1. (\E i \in Imports : ImportReloads(i)) => kernel'.tables = files'
        BY DEF ImportReloads, Reloads
      <4> QED BY <1>0, <2>1, <2>2, <3>2, <4>1, FlightEffect
    <3> QED BY <2>2, <3>1, <3>2
  <2> QED BY <1>0, <2>1, <2>2, KernelEffect
<1>2. \A n \in schemas' : n \in Loaded' \/ \E s \in stray' : s[1] = n
  BY <1>0, SchemasEffect DEF KernelHoldsWhatIsLoaded
<1>3. ASSUME NEW n \in Loaded' PROVE n \in schemas' \/ InFlight(datasets[n].frame)'
  <2>1. n \in Names /\ datasets'[n].frame # 0
    BY DEF Loaded
  <2>2. CASE n \notin schemas /\ datasets'[n].frame = datasets[n].frame
    <3>1. InFlight(datasets[n].frame)
      BY <1>0, <2>1, <2>2 DEF KernelHoldsWhatIsLoaded, Loaded
    <3>2. ASSUME NEW i \in Imports, calls[i].at = "registered",
                 calls[i].frame = datasets[n].frame, n = Target(i)
          PROVE  FALSE
      BY <1>0, <2>2, <3>2 DEF CallsAgree, CallAgrees, Holds
    <3> QED BY <1>0, <2>1, <2>2, <3>1, <3>2, FlightEffect
  <2> QED BY <1>0, <2>2, SchemasEffect
<1> QED BY <1>1, <1>2, <1>3 DEF KernelHoldsWhatIsLoaded, Alone

-----------------------------------------------------------------------------
\* Every step keeps a table's policy its own.
LEMMA NextPolicy == TablesInv /\ [DataNext]_dataVars => PolicyIsNotInherited'
<1> SUFFICES ASSUME TablesInv, [DataNext]_dataVars
             PROVE  overrides' \subseteq Loaded'
  BY DEF PolicyIsNotInherited
<1>0. DataTypeOK /\ CallsAgree /\ overrides \subseteq Loaded
  BY DEF TablesInv, PolicyIsNotInherited
<1>f. datasets \in [Names -> Handle] /\ saved \in [Conns -> ConnNames \cup {None}]
  BY <1>0 DEF DataTypeOK
<1>l. loads \in Nat
  BY <1>0, NamesAndKeys DEF DataTypeOK, Frames
<1>a. ASSUME overrides' = overrides,
             \A n \in Names : datasets[n].frame # 0 => datasets'[n].frame # 0
      PROVE  overrides' \subseteq Loaded'
  BY <1>0, <1>a DEF Loaded
<1> USE DEF tableVars, connVars
<1>1. ASSUME NEW m \in Uploads, UploadsFile(m) PROVE overrides' \subseteq Loaded'
  <2>1. /\ \A n \in Names : datasets'[n] = datasets[n] \/ datasets'[n].frame = loads + 1
        /\ overrides' = overrides
    BY <1>1, <1>f, NamesAndKeys DEF UploadsFile, Registers
  <2> QED BY <1>a, <1>l, <2>1
<1>2. ASSUME NEW m \in Names, Activates(m) PROVE overrides' \subseteq Loaded'
  BY <1>2, <1>a DEF Activates
<1>3. ASSUME NEW m \in Names, SetsPolicy(m) PROVE overrides' \subseteq Loaded'
  BY <1>0, <1>3 DEF SetsPolicy, Loaded
<1>4. ASSUME NEW m \in Names, Deletes(m) PROVE overrides' \subseteq Loaded'
  <2>1. Removes({m}, {m}) /\ {m} \in SUBSET Names
    BY <1>4 DEF Deletes
  <2>2. Loaded' = Loaded \ {m} /\ overrides' = overrides \ {m}
    BY <1>0, <2>1, RemovesEffect
  <2> QED BY <1>0, <2>2
<1>5. ASSUME NEW c \in Conns, NEW name \in ConnNames, Creates(c, name)
      PROVE  overrides' \subseteq Loaded'
  BY <1>5, <1>a DEF Creates
<1>6. ASSUME NEW c \in Conns, NEW name \in ConnNames, Renames(c, name)
      PROVE  overrides' \subseteq Loaded'
  <2>1. \A h \in Handle : [h EXCEPT !.origin = name].frame = h.frame
    BY DEF Handle
  <2>2. \A n \in Names : datasets'[n].frame = datasets[n].frame
    BY <1>6, <1>f, <2>1 DEF Renames
  <2>3. saved[c] \in ConnNames
    BY <1>6, <1>f DEF Renames
  <2>4. saved[c] \notin overrides
    BY <1>0, <2>3, DataAssumption DEF Loaded
  <2> QED BY <1>6, <1>a, <2>2, <2>4 DEF Renames
<1>7. ASSUME NEW c \in Conns, Disconnects(c) PROVE overrides' \subseteq Loaded'
  <2> DEFINE gone == {m \in Names : datasets[m].origin = saved[c]}
  <2>1. \/ Removes(gone, gone \cup {saved[c]})
        \/ UNCHANGED datasets /\ overrides' = overrides \ {saved[c]}
    BY <1>7 DEF Disconnects
  <2>2. gone \in SUBSET Names
    OBVIOUS
  <2> HIDE DEF gone
  <2>3. CASE Removes(gone, gone \cup {saved[c]})
    <3> DEFINE names == gone \cup {saved[c]}
    <3>1. gone \subseteq names
      OBVIOUS
    <3> HIDE DEF names
    <3>2. Removes(gone, names)
      BY <2>3 DEF names
    <3>3. Loaded' = Loaded \ gone /\ overrides' = overrides \ names
      BY <1>0, <2>2, <3>2, RemovesEffect
    <3> QED BY <1>0, <3>1, <3>3
  <2>4. CASE UNCHANGED datasets /\ overrides' = overrides \ {saved[c]}
    BY <1>0, <2>4 DEF Loaded
  <2> QED BY <2>1, <2>3, <2>4
<1>8. ASSUME NEW i \in Imports, NEW c \in Conns, ImportBegins(i, c)
      PROVE  overrides' \subseteq Loaded'
  BY <1>8, <1>a DEF ImportBegins
<1>9. ASSUME NEW i \in Imports,
             \/ ImportFails(i) \/ ImportWrites(i) \/ ImportRegisters(i) \/ ImportReloads(i)
      PROVE  overrides' \subseteq Loaded'
  BY <1>9, <1>a DEF ImportFails, ImportWrites, ImportRegisters, ImportReloads
<1>10. ASSUME NEW i \in Imports, ImportAdds(i) PROVE overrides' \subseteq Loaded'
  <2>1. Target(i) \in Names /\ calls[i].frame # 0
    BY <1>0, <1>10, NamesAndKeys DEF ImportAdds, At, CallsAgree, CallAgrees, Target
  <2>2. /\ \A n \in Names : datasets'[n] = datasets[n] \/ datasets'[n].frame = calls[i].frame
        /\ overrides' = overrides
    BY <1>10, <1>f, <2>1 DEF ImportAdds, Registers
  <2> QED BY <1>a, <2>1, <2>2
<1>11. ASSUME NEW i \in Imports, ImportOwns(i) PROVE overrides' \subseteq Loaded'
  <2>1. \A h \in Handle : [h EXCEPT !.origin = calls[i].spec].frame = h.frame
    BY DEF Handle
  <2>2. \A n \in Names : datasets'[n].frame = datasets[n].frame
    BY <1>11, <1>f, <2>1 DEF ImportOwns
  <2> QED BY <1>11, <1>a, <2>2 DEF ImportOwns
<1>12. CASE UNCHANGED dataVars
  BY <1>12, <1>a DEF dataVars
<1> QED
  BY <1>1, <1>2, <1>3, <1>4, <1>5, <1>6, <1>7, <1>8, <1>9, <1>10, <1>11, <1>12 DEF DataNext

-----------------------------------------------------------------------------
\* Every step keeps a table's origin true.
LEMMA NextProvenance == TablesInv /\ [DataNext]_dataVars => ProvenanceIsTrue'
<1> DEFINE True(n) == LET h == datasets[n] IN
                      \/ (h.of = None /\ h.origin = None)
                      \/ /\ h.of # None /\ saved[h.of] # None
                         /\ h.origin = saved[h.of] \/ (h.origin = None /\ InFlight(h.frame))
                      \/ <<n, h.frame>> \in stray
<1> SUFFICES ASSUME TablesInv, [DataNext]_dataVars, NEW n \in Names, datasets'[n].frame # 0
             PROVE  True(n)'
  BY DEF ProvenanceIsTrue, Loaded
<1>0. DataTypeOK /\ CallsAgree /\ NumbersAgree /\ ProvenanceIsTrue
  BY DEF TablesInv
<1>f. /\ datasets \in [Names -> Handle] /\ saved \in [Conns -> ConnNames \cup {None}]
      /\ \A c, d \in Conns : saved[c] = saved[d] /\ saved[c] # None => c = d
  BY <1>0 DEF DataTypeOK
<1>h. datasets[n] \in Handle /\ datasets[n].of \in Conns \cup {None}
  BY <1>f DEF Handle
<1>s. stray \subseteq stray'
  BY <1>0, SchemasEffect
<1>1. datasets[n].frame # 0 => True(n)
  BY <1>0 DEF ProvenanceIsTrue, Loaded
\* A table in flight has the connection of the import that brings it.
<1>i. ASSUME InFlight(datasets[n].frame)
      PROVE  \E i \in Imports : /\ calls[i].at # "idle" /\ calls[i].conn = datasets[n].of
                                /\ Target(i) = n /\ calls[i].frame = datasets[n].frame
  <2>1. PICK i \in Imports : calls[i].at # "idle" /\ calls[i].frame = datasets[n].frame
    BY <1>i DEF InFlight
  <2> QED BY <1>0, <2>1 DEF CallsAgree, CallAgrees
\* It stays in flight, or was brought in full.
<1>a. ASSUME datasets'[n] = datasets[n], saved' = saved PROVE True(n)'
  <2>1. datasets[n].frame # 0
    BY <1>a
  <2>2. CASE <<n, datasets[n].frame>> \in stray
    BY <1>a, <1>s, <2>2
  <2>3. CASE datasets[n].of = None /\ datasets[n].origin = None
    BY <1>a, <2>3
  <2>4. CASE /\ datasets[n].of # None /\ saved[datasets[n].of] # None
             /\ datasets[n].origin = saved[datasets[n].of]
    BY <1>a, <2>4
  <2>5. CASE /\ datasets[n].of # None /\ saved[datasets[n].of] # None
             /\ datasets[n].origin = None /\ InFlight(datasets[n].frame)
    <3>1. CASE InFlight(datasets[n].frame)'
      BY <1>a, <2>5, <3>1
    <3>2. ASSUME NEW i \in Imports, calls[i].at = "registered",
                 calls[i].frame = datasets[n].frame, n = Target(i)
          PROVE  \/ datasets[n].origin = saved[calls[i].conn] /\ calls[i].conn = datasets[n].of
                 \/ <<n, datasets[n].frame>> \in stray
      BY <1>0, <3>2 DEF CallsAgree, CallAgrees, Holds, Overtaken
    <3> QED BY <1>0, <1>a, <1>s, <2>5, <3>1, <3>2, FlightEffect
  <2> QED BY <1>1, <2>1, <2>2, <2>3, <2>4, <2>5
<1> USE DEF tableVars, connVars
<1>2. ASSUME NEW m \in Uploads, UploadsFile(m) PROVE True(n)'
  <2>1. /\ m # n => datasets'[n] = datasets[n]
        /\ m = n => datasets'[n].of = None /\ datasets'[n].origin = None
        /\ saved' = saved
    BY <1>2, <1>f, NamesAndKeys DEF UploadsFile, Registers
  <2> QED BY <1>a, <2>1
<1>3. ASSUME NEW m \in Names, Activates(m) \/ SetsPolicy(m) PROVE True(n)'
  BY <1>3, <1>a DEF Activates, SetsPolicy
<1>4. ASSUME NEW m \in Names, Deletes(m) PROVE True(n)'
  <2>1. Removes({m}, {m}) /\ {m} \in SUBSET Names /\ saved' = saved
    BY <1>4 DEF Deletes
  <2>2. \A k \in Names : datasets'[k] = IF k \in {m} THEN NoTable ELSE datasets[k]
    BY <1>0, <2>1, RemovesEffect
  <2> QED BY <1>a, <2>1, <2>2 DEF NoTable
<1>5. ASSUME NEW c \in Conns, NEW name \in ConnNames, Creates(c, name) PROVE True(n)'
  <2>1. /\ UNCHANGED <<datasets, calls, stray>>
        /\ saved[c] = None /\ \A d \in Conns \ {c} : saved'[d] = saved[d]
    BY <1>0, <1>f, <1>5 DEF Creates, Saves, NumbersAgree
  <2>2. InFlight(datasets[n].frame) => InFlight(datasets[n].frame)'
    BY <2>1 DEF InFlight
  <2> QED BY <1>1, <1>h, <2>1, <2>2
\* Where a connection is renamed or removed, the tables it brought are its own,
\* and what it is still bringing is overtaken.
<1>o. ASSUME NEW c \in Conns, saved[c] # None, Overtakes(Reading(c)), datasets[n].frame # 0,
             calls' = calls, <<n, datasets[n].frame>> \notin stray',
             datasets'[n].frame = datasets[n].frame, datasets'[n].of = datasets[n].of,
             \A d \in Conns \ {c} : saved'[d] = saved[d],
             datasets[n].origin # saved[c] => datasets'[n].origin = datasets[n].origin,
             datasets[n].origin = saved[c] => saved'[c] # None /\ datasets'[n].origin = saved'[c]
      PROVE  True(n)'
  <2>1. \/ (datasets[n].of = None /\ datasets[n].origin = None)
        \/ /\ datasets[n].of # None /\ saved[datasets[n].of] # None
           /\ \/ datasets[n].origin = saved[datasets[n].of]
              \/ datasets[n].origin = None /\ InFlight(datasets[n].frame)
    BY <1>1, <1>o, <1>s
  <2>2. CASE datasets[n].of = None /\ datasets[n].origin = None
    BY <1>o, <2>2
  <2>3. CASE datasets[n].of # None /\ saved[datasets[n].of] # None
    <3>1. datasets[n].of \in Conns
      BY <1>h, <2>3
    <3>2. CASE datasets[n].of # c
      <4>1. saved[datasets[n].of] # saved[c] /\ saved'[datasets[n].of] = saved[datasets[n].of]
        BY <1>f, <1>o, <3>1, <3>2
      <4>2. datasets'[n].origin = datasets[n].origin
        BY <1>o, <2>1, <2>3, <4>1
      <4>3. InFlight(datasets[n].frame) => InFlight(datasets[n].frame)'
        BY <1>o DEF InFlight
      <4> QED BY <1>o, <2>1, <2>3, <4>1, <4>2, <4>3
    <3>3. CASE datasets[n].of = c
      <4>1. ~InFlight(datasets[n].frame)
        BY <1>i, <1>o, <3>3 DEF Overtakes, Reading
      <4>2. datasets[n].origin = saved[c]
        BY <2>1, <2>3, <3>3, <4>1
      <4> QED BY <1>o, <2>3, <3>3, <4>2
    <3> QED BY <3>2, <3>3
  <2> QED BY <2>1, <2>2, <2>3
<1>6. ASSUME NEW c \in Conns, NEW name \in ConnNames, Renames(c, name) PROVE True(n)'
  <2>1. \A h \in Handle : /\ [h EXCEPT !.origin = name].frame = h.frame
                          /\ [h EXCEPT !.origin = name].of = h.of
                          /\ [h EXCEPT !.origin = name].origin = name
    BY DEF Handle
  <2>2. /\ datasets'[n].frame = datasets[n].frame /\ datasets'[n].of = datasets[n].of
        /\ datasets'[n].origin = IF datasets[n].origin = saved[c] THEN name
                                 ELSE datasets[n].origin
    BY <1>6, <1>h, <2>1 DEF Renames
  <2>3. /\ saved[c] # None /\ saved'[c] = name /\ name # None /\ calls' = calls
        /\ \A d \in Conns \ {c} : saved'[d] = saved[d]
        /\ Overtakes(Reading(c))
    BY <1>6, <1>f, NamesAndKeys DEF Renames, Saves
  <2>4. CASE <<n, datasets[n].frame>> \in stray'
    BY <2>2, <2>4
  <2> HIDE DEF True
  <2> QED BY <1>o, <2>2, <2>3, <2>4
<1>7. ASSUME NEW c \in Conns, Disconnects(c) PROVE True(n)'
  <2> DEFINE gone == {m \in Names : datasets[m].origin = saved[c]}
  <2>1. \/ Removes(gone, gone \cup {saved[c]})
        \/ gone = {} /\ UNCHANGED datasets
    BY <1>7 DEF Disconnects
  <2>2. /\ saved[c] # None /\ calls' = calls /\ Overtakes(Reading(c))
        /\ \A d \in Conns \ {c} : saved'[d] = saved[d]
    BY <1>7, <1>f DEF Disconnects
  <2>3. gone \in SUBSET Names /\ (n \in gone <=> datasets[n].origin = saved[c])
    OBVIOUS
  <2> HIDE DEF gone, True
  <2>4. n \notin gone /\ datasets'[n] = datasets[n]
    <3>1. CASE Removes(gone, gone \cup {saved[c]})
      <4> DEFINE names == gone \cup {saved[c]}
      <4>1. Removes(gone, names) /\ gone \in SUBSET Names
        BY <2>3, <3>1
      <4> HIDE DEF names
      <4>2. \A k \in Names : datasets'[k] = IF k \in gone THEN NoTable ELSE datasets[k]
        BY <1>0, <4>1, RemovesEffect
      <4> QED BY <4>2 DEF NoTable
    <3>2. CASE gone = {} /\ UNCHANGED datasets
      BY <3>2
    <3> QED BY <2>1, <3>1, <3>2
  <2>5. CASE <<n, datasets[n].frame>> \in stray'
    BY <2>4, <2>5 DEF True
  <2> QED BY <1>o, <2>2, <2>3, <2>4, <2>5
<1>8. ASSUME NEW i \in Imports, NEW c \in Conns, ImportBegins(i, c) PROVE True(n)'
  BY <1>8, <1>a DEF ImportBegins
<1>9. ASSUME NEW i \in Imports,
             \/ ImportFails(i) \/ ImportWrites(i) \/ ImportRegisters(i) \/ ImportReloads(i)
      PROVE  True(n)'
  BY <1>9, <1>a DEF ImportFails, ImportWrites, ImportRegisters, ImportReloads
<1>10. ASSUME NEW i \in Imports, ImportAdds(i) PROVE True(n)'
  <2>1. /\ Target(i) \in Names /\ calls[i].conn \in Conns /\ calls[i].spec # None
        /\ saved[calls[i].conn] = calls[i].spec \/ Overtaken(i)
    BY <1>0, <1>10, NamesAndKeys DEF ImportAdds, At, CallsAgree, CallAgrees, Target
  <2>2. /\ datasets'[Target(i)] = [frame |-> calls[i].frame, origin |-> None,
                                  of |-> calls[i].conn]
        /\ \A m \in Names \ {Target(i)} : datasets'[m] = datasets[m]
        /\ saved' = saved
    BY <1>10, <1>f, <2>1 DEF ImportAdds, Registers
  <2>3. CASE Target(i) # n
    BY <1>a, <2>2, <2>3
  <2>4. CASE Target(i) = n
    <3>1. calls'[i].at = "added" /\ calls'[i].frame = calls[i].frame
      BY <1>0, <1>10 DEF ImportAdds, Moves, DataTypeOK
    <3>2. InFlight(datasets[n].frame)'
      BY <2>2, <2>4, <3>1 DEF InFlight
    <3> QED BY <1>s, <2>1, <2>2, <2>4, <3>2, NamesAndKeys DEF Overtaken
  <2> QED BY <2>3, <2>4
<1>11. ASSUME NEW i \in Imports, ImportOwns(i) PROVE True(n)'
  <2>1. CallAgrees(i)
    BY <1>0, <1>11 DEF ImportOwns, At, CallsAgree
  <2>2. saved' = saved /\ stray' = stray
    BY <1>11 DEF ImportOwns
  <2>3. CASE datasets[n].frame # calls[i].frame
    BY <1>11, <1>a, <2>3 DEF ImportOwns
  <2>4. CASE datasets[n].frame = calls[i].frame
    <3>1. n = Target(i) /\ datasets[n].of = calls[i].conn
      BY <2>1, <2>4 DEF CallAgrees
    <3>2. \A h \in Handle : LET own == [h EXCEPT !.origin = calls[i].spec] IN
             own.frame = h.frame /\ own.of = h.of /\ own.origin = calls[i].spec
      BY DEF Handle
    <3>3. /\ datasets'[n].frame = datasets[n].frame /\ datasets'[n].of = datasets[n].of
          /\ datasets'[n].origin = calls[i].spec
      BY <1>11, <1>h, <2>4, <3>2 DEF ImportOwns
    <3>4. /\ calls[i].spec # None /\ calls[i].conn # None
          /\ saved[calls[i].conn] = calls[i].spec \/ <<n, datasets[n].frame>> \in stray
      BY <2>1, <2>4, <3>1, NamesAndKeys DEF CallAgrees, Overtaken
    <3> QED BY <2>2, <3>1, <3>3, <3>4
  <2> QED BY <2>3, <2>4
<1>12. CASE UNCHANGED dataVars
  BY <1>12, <1>a DEF dataVars
<1> HIDE DEF True
<1> QED
  BY <1>2, <1>3, <1>4, <1>5, <1>6, <1>7, <1>8, <1>9, <1>10, <1>11, <1>12 DEF DataNext

-----------------------------------------------------------------------------
\* The inductive invariant of a session's tables holds for ever (add, import, rename, remove).
THEOREM TablesInvariance == DataSpec => []TablesInv
<1>1. TablesInv /\ [DataNext]_dataVars => TablesInv'
  BY NextDataType, NextCalls, NextNumbers, NextFiles, NextKernel, NextProvenance, NextPolicy
     DEF TablesInv
<1> QED BY TablesInit, <1>1, PTL DEF DataSpec

\* The tables of a session, their files, policies and imports are well typed
\* (core/session.py, core/connectors/ingest.py).
THEOREM TablesTypeCorrect == DataSpec => []DataTypeOK
<1>1. TablesInv => DataTypeOK
  BY DEF TablesInv
<1> QED BY TablesInvariance, <1>1, PTL

\* Generated code sees exactly the session's tables, whichever handlers and
\* imports interleave (_materialize, remove_dataset, import_target).
THEOREM TheKernelHoldsTheTables == DataSpec => []KernelHoldsWhatIsLoaded
<1>1. TablesInv => KernelHoldsWhatIsLoaded
  BY DEF TablesInv
<1> QED BY TablesInvariance, <1>1, PTL

\* A table's origin is the connection it was read from, under its present name
\* (import_target, update_connection, delete_connection).
THEOREM OriginsAreTrue == DataSpec => []ProvenanceIsTrue
<1>1. TablesInv => ProvenanceIsTrue
  BY DEF TablesInv
<1> QED BY TablesInvariance, <1>1, PTL

\* A policy goes with its table (remove_dataset, DataPolicy.forget).
THEOREM NoInheritedPolicy == DataSpec => []PolicyIsNotInherited
<1>1. TablesInv => PolicyIsNotInherited
  BY DEF TablesInv
<1> QED BY TablesInvariance, <1>1, PTL
=============================================================================
