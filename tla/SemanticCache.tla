---------------------------- MODULE SemanticCache ----------------------------
(***************************************************************************)
(* The semantic cache in two layers, a table in the database and a hot     *)
(* layer in memory that forgets, and the turns that look their question up *)
(* in it when they begin and store their code in it when they end well.    *)
(* Code is named by the question and the schema it was written for.        *)
(***************************************************************************)

CONSTANTS
    Questions,      \* normalized questions
    Schemas,        \* sets of column names
    Alike,          \* pairs of questions that rank over the threshold
    Askers          \* turns that may run at once

VARIABLES
    columns,    \* the columns of the session's frame
    cacheRows,  \* semantic_cache: the code stored for a question, with its schema
    hot,        \* the cache in memory, by exact key
    asker       \* what each turn is doing

cacheVars == <<columns, cacheRows, hot, asker>>

Code == [for : Questions, columns : Schemas]
Row == [code : Code, schema : Schemas]
ExactKey(q, s) == <<q, s>>
Keys == Questions \X Schemas
AtMostOne(S) == {{}} \cup {{x} : x \in S}
NotAsking == [at |-> "idle"]

CacheTypeOK ==
    /\ columns \in Schemas
    /\ cacheRows \in [Questions -> AtMostOne(Row)]
    /\ hot \in [Keys -> AtMostOne(Row)]
    /\ asker \in [Askers -> {NotAsking}
         \cup [at : {"asked", "missed"}, question : Questions, schema : Schemas]
         \cup [at : {"ranked", "reuses"}, question : Questions, schema : Schemas, row : Row]
         \cup [at : {"answered"}, question : Questions, code : Code]
         \cup [at : {"saved"}, question : Questions, row : Row]]

CacheInit ==
    /\ columns \in Schemas
    /\ cacheRows = [q \in Questions |-> {}]
    /\ hot = [key \in Keys |-> {}]
    /\ asker = [t \in Askers |-> NotAsking]

Becomes(t, state) == asker' = [asker EXCEPT ![t] = state]

-----------------------------------------------------------------------------
AsksQuestion(t, q) ==
    /\ asker[t] = NotAsking
    /\ Becomes(t, [at |-> "asked", question |-> q, schema |-> columns])
    /\ UNCHANGED <<columns, cacheRows, hot>>

(* lookup: the hot layer, or the best of the rows of this schema.            *)
HitsExactly(t) ==
    /\ asker[t].at = "asked"
    /\ \E row \in hot[ExactKey(asker[t].question, asker[t].schema)] :
         Becomes(t, [at |-> "reuses", question |-> asker[t].question, schema |-> asker[t].schema,
                     row |-> row])
    /\ UNCHANGED <<columns, cacheRows, hot>>

RowsLike(q, s) ==
    {row \in UNION {cacheRows[p] : p \in {p \in Questions : <<p, q>> \in Alike}} : row.schema = s}

RanksRows(t) ==
    /\ asker[t].at = "asked"
    /\ hot[ExactKey(asker[t].question, asker[t].schema)] = {}
    /\ LET found == RowsLike(asker[t].question, asker[t].schema) IN
         IF found = {} THEN Becomes(t, [asker[t] EXCEPT !.at = "missed"])
         ELSE \E row \in found :
                Becomes(t, [at |-> "ranked", question |-> asker[t].question,
                            schema |-> asker[t].schema, row |-> row])
    /\ UNCHANGED <<columns, cacheRows, hot>>

KeepsHot(t) ==
    /\ asker[t].at = "ranked"
    /\ hot' = [hot EXCEPT ![ExactKey(asker[t].question, asker[t].schema)] = {asker[t].row}]
    /\ Becomes(t, [asker[t] EXCEPT !.at = "reuses"])
    /\ UNCHANGED <<columns, cacheRows>>

(* The code that was found is run, or new code when none was found or what   *)
(* was found failed; it is written for the columns of that moment.           *)
Answers(t) ==
    /\ \/ asker[t].at = "reuses"
          /\ Becomes(t, [at |-> "answered", question |-> asker[t].question,
                         code |-> asker[t].row.code])
       \/ asker[t].at \in {"reuses", "missed"}
          /\ Becomes(t, [at |-> "answered", question |-> asker[t].question,
                         code |-> [for |-> asker[t].question, columns |-> columns]])
    /\ UNCHANGED <<columns, cacheRows, hot>>

(* _finalize reads the columns again, then add stores a row, replacing the   *)
(* question's row of any schema, and the hot entry. The row may fail to be   *)
(* written. A turn that failed stores nothing.                               *)
SavesRow(t) ==
    /\ asker[t].at = "answered"
    /\ LET row == [code |-> asker[t].code, schema |-> columns] IN
        /\ cacheRows' \in {cacheRows, [cacheRows EXCEPT ![asker[t].question] = {row}]}
        /\ Becomes(t, [at |-> "saved", question |-> asker[t].question, row |-> row])
    /\ UNCHANGED <<columns, hot>>

SavesHot(t) ==
    /\ asker[t].at = "saved"
    /\ hot' = [hot EXCEPT ![ExactKey(asker[t].question, asker[t].row.schema)] = {asker[t].row}]
    /\ Becomes(t, NotAsking)
    /\ UNCHANGED <<columns, cacheRows>>

FailsToAnswer(t) ==
    /\ asker[t].at \in {"reuses", "missed"}
    /\ Becomes(t, NotAsking)
    /\ UNCHANGED <<columns, cacheRows, hot>>

-----------------------------------------------------------------------------
(* The time to live, the capacity or a restart.                              *)
ForgetsHot(key) ==
    /\ hot[key] # {}
    /\ hot' = [hot EXCEPT ![key] = {}]
    /\ UNCHANGED <<columns, cacheRows, asker>>

LoadsFrame(s) ==
    /\ s # columns
    /\ columns' = s
    /\ UNCHANGED <<cacheRows, hot, asker>>

CacheNext ==
    \/ \E t \in Askers :
         \/ HitsExactly(t) \/ RanksRows(t) \/ KeepsHot(t) \/ Answers(t)
         \/ SavesRow(t) \/ SavesHot(t) \/ FailsToAnswer(t)
         \/ \E q \in Questions : AsksQuestion(t, q)
    \/ \E key \in Keys : ForgetsHot(key)
    \/ \E s \in Schemas : LoadsFrame(s)

CacheSpec == CacheInit /\ [][CacheNext]_cacheVars

-----------------------------------------------------------------------------
(* "Schema equality is a hard precondition": code is reused only on the      *)
(* schema it was stored for, through either layer and whatever other         *)
(* sessions and frames store meanwhile (lookup, add).                        *)
ReusedOnItsSchema ==
    \A t \in Askers : asker[t].at = "reuses" => asker[t].row.schema = asker[t].schema

(* What is stored for a schema was written for it.                           *)
StoredForItsSchema ==
    \A q \in Questions : \A row \in cacheRows[q] : row.code.columns = row.schema

(* "cached code for a semantically equivalent query": what is reused was     *)
(* written for a question like the one that is asked.                        *)
ReusedForItsQuestion ==
    \A t \in Askers :
        asker[t].at = "reuses" => <<asker[t].row.code.for, asker[t].question>> \in Alike
=============================================================================
