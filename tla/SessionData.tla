----------------------------- MODULE SessionData -----------------------------
(***************************************************************************)
(* The tables of one session in the places that hold them: the session's   *)
(* handles, the files of its workspace, the registered schemas, the data   *)
(* policy, and the namespace of the runtime that reads the files; and the  *)
(* saved connections tables are imported from. The handlers of the API run *)
(* on the event loop, one at a time up to their next await; an import runs *)
(* on a worker thread beside them.                                         *)
(*                                                                         *)
(* A frame is the number of the load that read it; 0 is no frame, and the  *)
(* handle of a name the session has no table of has frame 0.               *)
(***************************************************************************)
EXTENDS Naturals

CONSTANTS
    Uploads,        \* names of files to upload: they have an extension
    ConnNames,      \* names a connection may be given
    Conns,          \* the ids of the connections ever created
    Imports,        \* the imports that may run at once
    ImportName(_),  \* ConnectionSpec.dataset_name of the one table there is
    TableKey(_),    \* DatasetHandle.table_key
    MaxLoads        \* bound: uploads and imports begun

None == "none"
Names == Uploads \cup {ImportName(c) : c \in ConnNames}

(* An imported name has no dot and an uploaded one has: the two never meet. *)
ASSUME DataAssumption ==
    /\ MaxLoads \in Nat
    /\ Uploads \cap {ImportName(c) : c \in ConnNames} = {}
    /\ Names \cap ConnNames = {}
    /\ None \notin ConnNames \cup Names \cup Conns

VARIABLES
    datasets,   \* Session.datasets, a dict: the handle of each name
    older,      \* its order: <<m, n>> where m was first inserted before n
    active,     \* Session.active_dataset
    overrides,  \* the keys of DataPolicy.per_dataset
    schemas,    \* the names registered in the schema registry
    files,      \* tables/<key>.feather, by key
    dfFile,     \* dataset.feather and dataset.csv
    kernel,     \* df and tables as the runtime last loaded them
    saved,      \* connections.json: the name each connection has
    created,    \* the ids ever saved
    calls,      \* the imports in flight
    loads,      \* the loads begun
    stray       \* what imports brought whose target or source changed under them

dataVars == <<datasets, older, active, overrides, schemas, files, dfFile, kernel, saved,
              created, calls, loads, stray>>
connVars == <<saved, created>>
tableVars == <<datasets, older, active, overrides, schemas, files, dfFile, kernel>>

Frames == 0 .. MaxLoads
Keys == {TableKey(n) : n \in Names}
Handle == [frame : Frames, origin : ConnNames \cup {None}, of : Conns \cup {None}]
NoTable == [frame |-> 0, origin |-> None, of |-> None]
Loaded == {n \in Names : datasets[n].frame # 0}
Steps == {"idle", "sampling", "added", "written", "owned", "registered"}
Idle == [at |-> "idle", conn |-> None, spec |-> None, frame |-> 0, activate |-> FALSE]

DataTypeOK ==
    /\ datasets \in [Names -> Handle] /\ older \subseteq Loaded \X Loaded
    /\ active \in {None} \cup Loaded
    /\ overrides \subseteq Names \cup ConnNames /\ schemas \subseteq Names
    /\ files \in [Keys -> Frames] /\ dfFile \in Frames
    /\ kernel \in [df : Frames, tables : [Keys -> Frames]]
    /\ saved \in [Conns -> ConnNames \cup {None}]
    /\ \A c, d \in Conns : saved[c] = saved[d] /\ saved[c] # None => c = d
    /\ created \subseteq Conns
    /\ calls \in [Imports -> [at : Steps, conn : Conns \cup {None},
                              spec : ConnNames \cup {None}, frame : Frames,
                              activate : BOOLEAN]]
    /\ loads \in Frames
    /\ stray \subseteq Names \X Frames

DataInit ==
    /\ datasets = [n \in Names |-> NoTable] /\ older = {} /\ active = None
    /\ overrides = {} /\ schemas = {}
    /\ files = [k \in Keys |-> 0] /\ dfFile = 0
    /\ kernel = [df |-> 0, tables |-> [k \in Keys |-> 0]]
    /\ saved = [c \in Conns |-> None] /\ created = {}
    /\ calls = [i \in Imports |-> Idle]
    /\ loads = 0 /\ stray = {}

(* Whose frames a change overtakes: the imports for which `changed` holds.  *)
Target(i) == ImportName(calls[i].spec)
Overtakes(changed) == stray' = stray \cup {<<Target(i), calls[i].frame>> : i \in changed}
Landed(n) == {i \in Imports : calls[i].at \notin {"idle", "sampling"} /\ Target(i) = n}
Reading(c) == {i \in Imports : calls[i].at # "idle" /\ calls[i].conn = c}

-----------------------------------------------------------------------------
(* add_dataset under the session's lock; reload_dataset: the daemon reads   *)
(* every table there is, and binds df if there is a file for it.            *)
Registers(n, h, activate) ==
    /\ datasets' = [datasets EXCEPT ![n] = h]
    /\ older' = older \cup IF n \in Loaded THEN {} ELSE Loaded \X {n}
    /\ active' = IF activate \/ active = None THEN n ELSE active

Materialises(n, frame, isActive) ==
    /\ files' = [files EXCEPT ![TableKey(n)] = frame]
    /\ dfFile' = IF isActive THEN frame ELSE dfFile

Reloads(tables, df) ==
    kernel' = [tables |-> tables, df |-> IF df = 0 THEN kernel.df ELSE df]

UploadsFile(n) ==
    /\ loads < MaxLoads
    /\ loads' = loads + 1
    /\ Registers(n, [frame |-> loads', origin |-> None, of |-> None], TRUE)
    /\ Materialises(n, loads', TRUE)
    /\ schemas' = schemas \cup {n}
    /\ Reloads(files', dfFile')
    /\ Overtakes(Landed(n))
    /\ UNCHANGED <<overrides, connVars, calls>>

Activates(n) ==
    /\ n \in Loaded
    /\ active' = n
    /\ Materialises(n, datasets[n].frame, TRUE)
    /\ Reloads(files', dfFile')
    /\ UNCHANGED <<datasets, older, overrides, schemas, connVars, calls, loads, stray>>

(* The table inserted first of those that stay. *)
Oldest(stay) ==
    IF stay = {} THEN {None}
    ELSE {n \in stay : \A m \in stay \ {n} : <<n, m>> \in older}

Pops(ns) ==
    /\ datasets' = [n \in Names |-> IF n \in ns THEN NoTable ELSE datasets[n]]
    /\ older' = {p \in older : p[1] \notin ns /\ p[2] \notin ns}
    /\ active' \in IF active \in ns THEN Oldest(Loaded \ ns) ELSE {active}

(* remove_dataset for each of `ns`, and the policy of `names` forgotten: the *)
(* file df is bound from stays.                                             *)
RemovesKeepingPolicy(ns, names) ==
    /\ Pops(ns)
    /\ overrides' = overrides
    /\ schemas' = schemas \ ns
    /\ files' = [k \in Keys |-> IF \E n \in ns : TableKey(n) = k THEN 0 ELSE files[k]]
    /\ Reloads(files', dfFile)
    /\ UNCHANGED dfFile

Removes(ns, names) ==
    /\ Pops(ns)
    /\ overrides' = overrides \ names
    /\ schemas' = schemas \ ns
    /\ files' = [k \in Keys |-> IF \E n \in ns : TableKey(n) = k THEN 0 ELSE files[k]]
    /\ Reloads(files', dfFile)
    /\ UNCHANGED dfFile

Deletes(n) ==
    /\ n \in Loaded
    /\ Removes({n}, {n})
    /\ Overtakes(Landed(n))
    /\ UNCHANGED <<connVars, calls, loads>>

SetsPolicy(n) ==
    /\ n \in Loaded
    /\ overrides' \in {overrides \cup {n}, overrides \ {n}}
    /\ UNCHANGED <<datasets, older, active, schemas, files, dfFile, kernel, connVars,
                   calls, loads, stray>>

-----------------------------------------------------------------------------
(* Connections: names are unique; an id is never used twice. *)
SavesAnyName(c, name) == saved' = [saved EXCEPT ![c] = name]

Saves(c, name) ==
    /\ \A d \in Conns \ {c} : saved[d] # name
    /\ saved' = [saved EXCEPT ![c] = name]

Creates(c, name) ==
    /\ c \notin created
    /\ Saves(c, name)
    /\ created' = created \cup {c}
    /\ UNCHANGED <<tableVars, calls, loads, stray>>

(* update_connection under another name: the tables in the session and the  *)
(* override follow it, an import in flight does not.                        *)
RenamesNothingElse(c, name) ==
    /\ saved[c] \notin {None, name}
    /\ Saves(c, name)
    /\ Overtakes(Reading(c))
    /\ UNCHANGED <<tableVars, created, calls, loads>>

Renames(c, name) ==
    /\ saved[c] \notin {None, name}
    /\ Saves(c, name)
    /\ datasets' = [n \in Names |->
                      IF datasets[n].origin = saved[c] THEN [datasets[n] EXCEPT !.origin = name]
                                                       ELSE datasets[n]]
    /\ overrides' = IF saved[c] \in overrides THEN (overrides \ {saved[c]}) \cup {name}
                                              ELSE overrides
    /\ Overtakes(Reading(c))
    /\ UNCHANGED <<older, active, schemas, files, dfFile, kernel, created, calls, loads>>

(* delete_connection removes what it finds imported from it; a connection   *)
(* that cannot be removed from the file answers 500 after that.             *)
Disconnects(c) ==
    /\ saved[c] # None
    /\ LET gone == {n \in Names : datasets[n].origin = saved[c]}
       IN  \/ /\ gone = {} /\ overrides' = overrides \ {saved[c]}
              /\ UNCHANGED <<datasets, older, active, schemas, files, dfFile, kernel>>
           \/ gone # {} /\ Removes(gone, gone \cup {saved[c]})
    /\ saved' \in {[saved EXCEPT ![c] = None], saved}
    /\ Overtakes(Reading(c))
    /\ UNCHANGED <<created, calls, loads>>

-----------------------------------------------------------------------------
(* import_target, with the spec as it was when the request was checked. *)
Moves(i, at) == calls' = [calls EXCEPT ![i].at = at]
At(i, at) == calls[i].at = at

ImportBegins(i, c) ==
    /\ At(i, "idle") /\ saved[c] # None /\ loads < MaxLoads
    /\ loads' = loads + 1
    /\ \E activate \in BOOLEAN :
          calls' = [calls EXCEPT ![i] = [at |-> "sampling", conn |-> c, spec |-> saved[c],
                                         frame |-> loads', activate |-> activate]]
    /\ UNCHANGED <<tableVars, connVars, stray>>

ImportFails(i) ==
    /\ At(i, "sampling")
    /\ calls' = [calls EXCEPT ![i] = Idle]
    /\ UNCHANGED <<tableVars, connVars, loads, stray>>

ImportAdds(i) ==
    /\ At(i, "sampling")
    /\ Moves(i, "added")
    /\ Registers(Target(i), [frame |-> calls[i].frame, origin |-> None,
                             of |-> calls[i].conn], calls[i].activate)
    /\ Overtakes(Landed(Target(i)))
    /\ UNCHANGED <<overrides, schemas, files, dfFile, kernel, connVars, loads>>

ImportWrites(i) ==
    /\ At(i, "added")
    /\ Moves(i, "written")
    /\ Materialises(Target(i), calls[i].frame, active = Target(i))
    /\ UNCHANGED <<datasets, older, active, overrides, schemas, kernel, connVars, loads, stray>>

ImportOwns(i) ==
    /\ At(i, "written")
    /\ Moves(i, "owned")
    /\ datasets' = [n \in Names |->
                      IF datasets[n].frame = calls[i].frame
                      THEN [datasets[n] EXCEPT !.origin = calls[i].spec] ELSE datasets[n]]
    /\ UNCHANGED <<older, active, overrides, schemas, files, dfFile, kernel, connVars, loads,
                   stray>>

ImportRegisters(i) ==
    /\ At(i, "owned")
    /\ Moves(i, "registered")
    /\ schemas' = schemas \cup {Target(i)}
    /\ UNCHANGED <<datasets, older, active, overrides, files, dfFile, kernel, connVars, loads,
                   stray>>

ImportReloadsNot(i) ==
    /\ At(i, "registered")
    /\ calls' = [calls EXCEPT ![i] = Idle]
    /\ UNCHANGED <<tableVars, connVars, loads, stray>>

ImportReloads(i) ==
    /\ At(i, "registered")
    /\ calls' = [calls EXCEPT ![i] = Idle]
    /\ Reloads(files, dfFile)
    /\ UNCHANGED <<datasets, older, active, overrides, schemas, files, dfFile, connVars, loads,
                   stray>>

DataNext ==
    \/ \E n \in Uploads : UploadsFile(n)
    \/ \E n \in Names : Activates(n) \/ Deletes(n) \/ SetsPolicy(n)
    \/ \E c \in Conns, name \in ConnNames : Creates(c, name) \/ Renames(c, name)
    \/ \E c \in Conns : Disconnects(c) \/ \E i \in Imports : ImportBegins(i, c)
    \/ \E i \in Imports :
          \/ ImportFails(i) \/ ImportAdds(i) \/ ImportWrites(i) \/ ImportOwns(i)
          \/ ImportRegisters(i) \/ ImportReloads(i)

DataSpec == DataInit /\ [][DataNext]_dataVars

-----------------------------------------------------------------------------
InFlight(f) == \E i \in Imports : calls[i].at # "idle" /\ calls[i].frame = f
Alone(n) == \A m \in Names \ {n} : TableKey(m) # TableKey(n)

(* Generated code sees exactly the session's tables, and the registry knows *)
(* their schemas and no other's, once no import of them is under way: a     *)
(* removed table is out of reach and a replaced one is replaced, whichever  *)
(* handlers and imports came in between. What an import brought after its   *)
(* target was removed or replaced is exempt, and so are tables whose names  *)
(* share a key (Session.tables, _materialize, remove_dataset).              *)
KernelHoldsWhatIsLoaded ==
    /\ \A n \in Names :
          LET inKernel == kernel.tables[TableKey(n)] IN
          Alone(n) => \/ inKernel = datasets[n].frame
                      \/ InFlight(datasets[n].frame) \/ <<n, inKernel>> \in stray
    /\ \A n \in schemas : n \in Loaded \/ \E s \in stray : s[1] = n
    /\ \A n \in Loaded : n \in schemas \/ InFlight(datasets[n].frame)

(* Where a table says it comes from is the connection its rows were read    *)
(* from, under the name it has now, and when that is removed so are its     *)
(* tables; an import still in flight when its connection was removed or     *)
(* renamed is exempt (import_target, update_connection, delete_connection). *)
ProvenanceIsTrue ==
    \A n \in Loaded :
       LET h == datasets[n] IN
       \/ (h.of = None /\ h.origin = None)
       \/ /\ h.of # None /\ saved[h.of] # None
          /\ h.origin = saved[h.of] \/ (h.origin = None /\ InFlight(h.frame))
       \/ <<n, h.frame>> \in stray

(* A policy set for one table is not inherited by another that comes later  *)
(* under its name (remove_dataset, DataPolicy.forget).                      *)
PolicyIsNotInherited == overrides \subseteq Loaded

(* The frame bound to df is one of a table the session still holds          *)
(* (session.py:236).                                                        *)
DfIsOfALoadedTable ==
    \/ kernel.df \in {datasets[n].frame : n \in Loaded} \cup {0}
    \/ \E s \in stray : s[2] = kernel.df
    \/ \E i \in Imports : calls[i].at # "idle"
=============================================================================
