------------------------------ MODULE Connectors ------------------------------
(***************************************************************************)
(* One saved connection and the source its drivers reach: the routes that  *)
(* save, edit and delete it, turn its write-back on and off, test it,      *)
(* import a table from it and write one back. Each of them checks what was *)
(* saved when it began; the driver then works on a thread of its own, with *)
(* that copy, while the connection, the mode and the source change.        *)
(*                                                                         *)
(* The source is the number of rows in its one table: what other people    *)
(* put there and what write-backs did. An address is where a setting       *)
(* of the connection points.                                               *)
(***************************************************************************)
EXTENDS Naturals

CONSTANTS
    Workers,        \* the threads drivers work on
    Settings,       \* the connections a user may describe
    RowLimit,       \* CONNECTOR_MAX_ROWS
    ObjectLimit,    \* CONNECTOR_MAX_OBJECT_BYTES, in rows
    MaxRows,        \* bound: rows others put in the source
    FrameRows,      \* the length of the frame that is written back
    MaxWrites       \* bound: write-backs begun

Kinds == {"relational", "document", "object"}
Addresses == {"none", "loopback", "remote"}

(* The form of a kind has the fields of that kind only. *)
ASSUME ConnectorsAssumption ==
    /\ Settings \subseteq [kind : Kinds, dsn : Addresses, host : Addresses,
                           endpoint : Addresses, bucket : BOOLEAN]
    /\ \A s \in Settings : IF s.kind = "object" THEN s.dsn = "none" /\ s.host = "none"
                                                ELSE s.endpoint = "none" /\ ~s.bucket
    /\ {RowLimit, ObjectLimit, MaxRows, FrameRows, MaxWrites} \subseteq Nat

VARIABLES
    conn,       \* the spec in connections.json, NoConn when there is none
    stored,     \* whether the credential store has a secret under its key
    mode,       \* Session.data_mode
    others,     \* the rows other people put in the source
    ours,       \* the rows write-backs put there
    work,       \* what each thread does
    writes,     \* the write-backs begun
    optedIn     \* what the user last said about write-back

connectorVars == <<conn, stored, mode, others, ours, work, writes, optedIn>>

NoConn == [kind |-> "none"]
Free == [at |-> "free"]
Specs == [of : Settings, readOnly : BOOLEAN]
InSource == others + ours
Busy == [at : {"open", "connected", "sized"}, doing : {"test", "schema", "import", "write"},
         spec : Specs,
         local : BOOLEAN, agreed : BOOLEAN, had : Nat]
(* profile["original_rows"] is a set of at most one number: None is {}.       *)
Imported == [at : {"imported"}, had : Nat, rows : 0 .. RowLimit,
             truncated : BOOLEAN, original : SUBSET Nat]

ConnectorTypeOK ==
    /\ conn \in Specs \cup {NoConn} /\ stored \in BOOLEAN
    /\ mode \in {"local-only", "other"}
    /\ others \in 0 .. MaxRows /\ ours \in Nat
    /\ work \in [Workers -> {Free} \cup Busy \cup Imported]
    /\ writes \in 0 .. MaxWrites /\ optedIn \in BOOLEAN

ConnectorInit ==
    /\ conn = NoConn /\ stored = FALSE /\ mode = "other"
    /\ others = 0 /\ ours = 0
    /\ work = [w \in Workers |-> Free]
    /\ writes = 0 /\ optedIn = FALSE

(* reaches_network judges by the endpoint, the DSN and the host, in that     *)
(* order; a driver goes where _url, _uri and _connect send it.               *)
ReachesNetworkByHost(s) ==
    IF s.endpoint # "none" THEN s.endpoint = "remote"
    ELSE IF s.host # "none" THEN s.host = "remote"
    ELSE s.dsn = "remote" \/ s.bucket

ReachesNetwork(s) ==
    IF s.endpoint # "none" THEN s.endpoint = "remote"
    ELSE IF s.dsn # "none" THEN s.dsn = "remote"
    ELSE s.host = "remote" \/ s.bucket

ObjectAddress(s) ==
    IF ~s.bucket THEN "refused" ELSE IF s.endpoint = "none" THEN "remote" ELSE s.endpoint
DocumentAddress(s) ==
    IF s.dsn # "none" THEN s.dsn ELSE IF s.host # "none" THEN s.host ELSE "refused"
RelationalAddress(s) ==
    IF s.dsn # "none" THEN s.dsn ELSE IF s.host # "none" THEN s.host ELSE "loopback"
DriverAddress(s) ==
    CASE s.kind = "object" -> ObjectAddress(s)
      [] s.kind = "document" -> DocumentAddress(s)
      [] s.kind = "relational" -> RelationalAddress(s)

-----------------------------------------------------------------------------
(* The store and the routes over it. A secret comes in its own field or in   *)
(* the DSN; none given leaves the one there is and an empty one drops it,    *)
(* and where credentials.json cannot be written nothing is changed in it.    *)
StoresKey == stored' \in {TRUE, stored}
DropsKey == stored' \in {FALSE, stored}
SplitsSecret == StoresKey \/ UNCHANGED stored
SavesSecret == SplitsSecret \/ DropsKey

SavesNew(s) ==
    /\ conn = NoConn
    /\ conn' = [of |-> s, readOnly |-> TRUE]
    /\ SavesSecret
    /\ optedIn' = FALSE
    /\ UNCHANGED <<mode, others, ours, work, writes>>

EditsOpening(s) ==
    /\ conn # NoConn
    /\ conn' = [of |-> s, readOnly |-> FALSE]
    /\ SavesSecret
    /\ UNCHANGED <<mode, others, ours, work, writes, optedIn>>

Edits(s) ==
    /\ conn # NoConn
    /\ conn' = [of |-> s, readOnly |-> conn.readOnly]
    /\ SavesSecret
    /\ UNCHANGED <<mode, others, ours, work, writes, optedIn>>

DeletesConnection ==
    /\ conn # NoConn
    /\ conn' = NoConn
    /\ DropsKey
    /\ optedIn' = FALSE
    /\ UNCHANGED <<mode, others, ours, work, writes>>

(* To enable it the user types the name of the connection. *)
SetsWriteBack(enable) ==
    /\ conn # NoConn
    /\ conn' = [conn EXCEPT !.readOnly = ~enable]
    /\ optedIn' = enable
    /\ UNCHANGED <<stored, mode, others, ours, work, writes>>

SetsMode ==
    /\ mode' \in {"local-only", "other"} \ {mode}
    /\ UNCHANGED <<conn, stored, others, ours, work, writes, optedIn>>

OthersWrite ==
    /\ others' \in (0 .. MaxRows) \ {others}
    /\ UNCHANGED <<conn, stored, mode, ours, work, writes, optedIn>>

-----------------------------------------------------------------------------
RefusesWrite(spec) == spec.readOnly
Frees(w) == work' = [work EXCEPT ![w] = Free]
Goes(w, at) == work' = [work EXCEPT ![w].at = at]
Doing(w, at, what) == work[w].at = at /\ work[w].doing = what
Over(w) == /\ Frees(w) /\ UNCHANGED <<conn, stored, mode, others, ours, writes, optedIn>>

(* The part of a route that runs on the event loop: the mode, then the opt-in, *)
(* then the profile, then the driver.                                          *)
Begins(w, what) ==
    /\ work[w] = Free /\ conn # NoConn
    /\ ~(mode = "local-only" /\ ReachesNetwork(conn.of))
    /\ what = "write" => ~RefusesWrite(conn) /\ writes < MaxWrites
    /\ writes' = IF what = "write" THEN writes + 1 ELSE writes
    /\ work' = [work EXCEPT ![w] =
                  [at |-> "open", doing |-> what, spec |-> conn, had |-> 0,
                   local |-> mode = "local-only", agreed |-> optedIn]]
    /\ UNCHANGED <<conn, stored, mode, others, ours, optedIn>>

(* On the thread: the driver refuses to write before it connects, and a       *)
(* connection or a source may fail at every step.                             *)
Connects(w) ==
    /\ work[w].at = "open"
    /\ ~(work[w].doing = "write" /\ RefusesWrite(work[w].spec))
    /\ DriverAddress(work[w].spec.of) # "refused"
    /\ Goes(w, "connected")
    /\ UNCHANGED <<conn, stored, mode, others, ours, writes, optedIn>>

DriverFails(w) == work[w].at \in {"open", "connected", "sized"} /\ Over(w)

Tests(w) == Doing(w, "connected", "test") /\ Over(w)
Discovers(w) == Doing(w, "connected", "schema") /\ Over(w)

(* One row past the limit is asked for, to know whether there was more.       *)
ImportedExactly(n) ==
    LET kept == IF n > RowLimit THEN RowLimit ELSE n IN
    [at |-> "imported", had |-> n, rows |-> kept, truncated |-> FALSE, original |-> {kept}]

ImportedFrom(n) ==
    LET more == n > RowLimit IN
    [at |-> "imported", had |-> n, rows |-> IF more THEN RowLimit ELSE n, truncated |-> more,
     original |-> IF more THEN {} ELSE {n}]

Samples(w, kind) ==
    /\ Doing(w, "connected", "import") /\ work[w].spec.of.kind = kind
    /\ work' = [work EXCEPT ![w] = ImportedFrom(InSource)]
    /\ UNCHANGED <<conn, stored, mode, others, ours, writes, optedIn>>
SamplesTable(w) == Samples(w, "relational")
SamplesCollection(w) == Samples(w, "document")

(* An object is sized in one request and read in the next. *)
SizesObject(w) ==
    /\ Doing(w, "connected", "import") /\ work[w].spec.of.kind = "object"
    /\ InSource <= ObjectLimit
    /\ work' = [work EXCEPT ![w].at = "sized", ![w].had = InSource]
    /\ UNCHANGED <<conn, stored, mode, others, ours, writes, optedIn>>

ReadsObject(w) ==
    /\ work[w].at = "sized"
    /\ work' = [work EXCEPT ![w] = ImportedFrom(InSource)]
    /\ UNCHANGED <<conn, stored, mode, others, ours, writes, optedIn>>

Answers(w) == work[w].at = "imported" /\ Over(w)

(* to_sql in one transaction; insert_many, which may stop in the middle; and *)
(* put_object, which replaces what is there. The answer may get lost.        *)
WritesAs(w, kind) ==
    /\ Doing(w, "connected", "write") /\ work[w].spec.of.kind = kind
    /\ Frees(w)
    /\ UNCHANGED <<conn, stored, mode, writes, optedIn>>
WritesRows(w) ==
    /\ WritesAs(w, "relational")
    /\ ours' = ours + FrameRows /\ UNCHANGED others
WritesDocuments(w) ==
    /\ WritesAs(w, "document")
    /\ \E n \in 0 .. FrameRows : ours' = ours + n
    /\ UNCHANGED others
WritesObject(w) ==
    /\ WritesAs(w, "object")
    /\ ours' = FrameRows
    /\ others' = 0

ConnectorNext ==
    \/ \E s \in Settings : SavesNew(s) \/ Edits(s)
    \/ DeletesConnection \/ SetsMode \/ OthersWrite
    \/ \E enable \in BOOLEAN : SetsWriteBack(enable)
    \/ \E w \in Workers :
          \/ \E what \in {"test", "schema", "import", "write"} : Begins(w, what)
          \/ Connects(w) \/ DriverFails(w) \/ Tests(w) \/ Discovers(w)
          \/ SamplesTable(w) \/ SamplesCollection(w) \/ SizesObject(w) \/ ReadsObject(w)
          \/ Answers(w) \/ WritesRows(w) \/ WritesDocuments(w) \/ WritesObject(w)

ConnectorSpec == ConnectorInit /\ [][ConnectorNext]_connectorVars

-----------------------------------------------------------------------------
(* What an import says of itself is so: its rows are the source's or the      *)
(* first RowLimit of them, it says there were more exactly when there were,   *)
(* and it names no total it did not see, however the source changed between   *)
(* the size of an object and its content (import_target, _profile).           *)
ImportsAreHonest ==
    \A w \in Workers : work[w].at = "imported" =>
       LET f == work[w] IN
       /\ f.rows <= RowLimit /\ f.rows <= f.had
       /\ f.truncated <=> f.rows < f.had
       /\ f.original \subseteq {f.had} /\ (f.original = {} <=> f.truncated)

(* Under local-only nothing connects to another machine, and nothing writes   *)
(* to a source without the user's word for that connection, whatever edits,   *)
(* removals and changes of the mode came before it (_check_data_mode,         *)
(* require_writable, refuse_write, update_connection).                        *)
SourcesAreSanctioned ==
    \A w \in Workers : work[w].at \in {"connected", "sized"} =>
       /\ work[w].local => DriverAddress(work[w].spec.of) = "loopback"
       /\ work[w].doing = "write" => work[w].agreed
=============================================================================
