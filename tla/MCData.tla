-------------------------------- MODULE MCData --------------------------------
(***************************************************************************)
(* A session's data for TLC. Its tables: one uploaded name, two            *)
(* connections of two names with one table each, two imports at a time.    *)
(* The source of a connection: one driver's thread and other people. The   *)
(* two share nothing here, so a behaviour is one of either and the state   *)
(* spaces add up instead of multiplying.                                   *)
(***************************************************************************)
EXTENDS SessionData, Connectors, TLC

MCImportName(c) == IF c = "n1" THEN "n1_t" ELSE "n2_t"
MCTableKey(n) == IF n = "sales.csv" THEN "sales" ELSE n

Described(kind, dsn, host, endpoint, bucket) ==
    [kind |-> kind, dsn |-> dsn, host |-> host, endpoint |-> endpoint, bucket |-> bucket]
MCSettings == {
    Described("relational", "loopback", "remote", "none", FALSE),
    Described("relational", "remote", "loopback", "none", FALSE),
    Described("relational", "none", "none", "none", FALSE),
    Described("document", "none", "remote", "none", FALSE),
    Described("document", "loopback", "none", "none", FALSE),
    Described("document", "none", "none", "none", FALSE),
    Described("object", "none", "none", "none", TRUE),
    Described("object", "none", "none", "loopback", TRUE),
    Described("object", "none", "none", "none", FALSE)}

VARIABLE part
vars == <<dataVars, connectorVars, part>>

MCInit == DataInit /\ ConnectorInit /\ part \in {"tables", "source"}
MCNext ==
    /\ UNCHANGED part
    /\ \/ part = "tables" /\ DataNext /\ UNCHANGED connectorVars
       \/ part = "source" /\ ConnectorNext /\ UNCHANGED dataVars
MCSpec == MCInit /\ [][MCNext]_vars

Symmetry == Permutations(Conns) \cup Permutations(Imports)
=============================================================================
