----------------------------- MODULE Promotion -----------------------------
(***************************************************************************)
(* Recurring analyses and their promotion into skills: the candidates in   *)
(* the database, the turns that count one more occurrence of a question    *)
(* each on a thread of its own, and the user who dismisses a candidate or  *)
(* saves it as a skill. One question is asked by every turn; a candidate   *)
(* is a row for it.                                                        *)
(***************************************************************************)
EXTENDS Naturals, FiniteSets, Sequences

CONSTANTS
    Turns,          \* turns that end in success
    Threshold,      \* SKILL_PROMOTION_THRESHOLD
    MaxWrites       \* bound: requests that save or dismiss

ASSUME PromotionAssumption == Threshold \in Nat

VARIABLES
    candidates,     \* skill_candidates, by id
    turn,           \* how far each turn's record() has come
    shown,          \* the offers the turns made: the row of each, 0 for none
    page,           \* the request the user's page has made
    written,        \* the skill's file exists
    writes,         \* requests made so far
    late            \* ghost: turns that ended after the user had settled the question

promotionVars == <<candidates, turn, shown, page, written, writes, late>>

Ids == DOMAIN candidates
NoRow == 0
Rows == 1 .. Cardinality(Turns)

PromotionTypeOK ==
    /\ candidates \in UNION {[1 .. n -> [occurrences : 1 .. Cardinality(Turns),
                                          promoted : BOOLEAN, dismissed : BOOLEAN]] :
                              n \in 0 .. Cardinality(Turns)}
    /\ turn \in [Turns -> {[at |-> "answered"], [at |-> "over"]}
                  \cup [at : {"matched"}, row : {NoRow} \cup Rows, settled : BOOLEAN]
                  \cup [at : {"counted"}, row : {NoRow} \cup Rows, count : 0 .. Cardinality(Turns)]]
    /\ shown \in [Turns -> {NoRow} \cup Rows]
    /\ page \in {[at |-> "idle"]} \cup [at : {"write", "settle"}, row : {NoRow} \cup Rows]
    /\ written \in BOOLEAN
    /\ writes \in 0 .. MaxWrites
    /\ late \subseteq Turns

PromotionInit ==
    /\ candidates = <<>>
    /\ turn = [t \in Turns |-> [at |-> "answered"]]
    /\ shown = [t \in Turns |-> NoRow]
    /\ page = [at |-> "idle"]
    /\ written = FALSE
    /\ writes = 0
    /\ late = {}

Settled(id) == candidates[id].promoted \/ candidates[id].dismissed
AsksLate(t) == IF Ids # {} /\ (\A id \in Ids : Settled(id)) THEN late \cup {t} ELSE late

-----------------------------------------------------------------------------
(* _match looks at settled rows too. Rows that rank alike are taken in any   *)
(* order; a database that fails is a question nobody has asked.              *)
Matches(t) ==
    /\ turn[t].at = "answered"
    /\ \E row \in IF Ids = {} THEN {NoRow} ELSE Ids :
         turn' = [turn EXCEPT ![t] = [at |-> "matched", row |-> row,
                                      settled |-> row # NoRow /\ Settled(row)]]
    /\ late' = AsksLate(t)
    /\ UNCHANGED <<candidates, shown, page, written, writes>>

(* The count is read in the transaction that raised it. A write that fails   *)
(* counts nothing.                                                           *)
Counts(t) ==
    /\ turn[t].at = "matched"
    /\ \/ /\ turn[t].row = NoRow
          /\ candidates' = Append(candidates,
                                   [occurrences |-> 1, promoted |-> FALSE, dismissed |-> FALSE])
          /\ turn' = [turn EXCEPT ![t] = [at |-> "counted", row |-> Len(candidates'), count |-> 1]]
       \/ /\ turn[t].row # NoRow
          /\ candidates' = [candidates EXCEPT ![turn[t].row].occurrences = @ + 1]
          /\ turn' = [turn EXCEPT ![t] =
               IF turn[t].settled THEN [at |-> "over"]
               ELSE [at |-> "counted", row |-> turn[t].row,
                     count |-> candidates'[turn[t].row].occurrences]]
    /\ UNCHANGED <<shown, page, written, writes, late>>

CountFails(t) ==
    /\ turn[t].at = "matched"
    /\ turn' = [turn EXCEPT ![t] = [at |-> "over"]]
    /\ UNCHANGED <<candidates, shown, page, written, writes, late>>

(* Offered only when it has just reached the threshold.                      *)
Offers(t) ==
    /\ turn[t].at = "counted"
    /\ shown' = [shown EXCEPT ![t] = IF turn[t].count = Threshold THEN turn[t].row ELSE NoRow]
    /\ turn' = [turn EXCEPT ![t] = [at |-> "over"]]
    /\ UNCHANGED <<candidates, page, written, writes, late>>

-----------------------------------------------------------------------------
(* create_skill writes the file and then settles the candidate it was given, *)
(* if any; either step may fail.                                             *)
Saves(row) ==
    /\ page.at = "idle" /\ writes < MaxWrites
    /\ page' = [at |-> "write", row |-> row]
    /\ writes' = writes + 1
    /\ UNCHANGED <<candidates, turn, shown, written, late>>

WritesSkill ==
    /\ page.at = "write"
    /\ \/ written' = TRUE
          /\ page' = IF page.row = NoRow THEN [at |-> "idle"] ELSE [page EXCEPT !.at = "settle"]
       \/ written' = written /\ page' = [at |-> "idle"]
    /\ UNCHANGED <<candidates, turn, shown, writes, late>>

SettlesPromoted ==
    /\ page.at = "settle"
    /\ candidates' \in {candidates, [candidates EXCEPT ![page.row].promoted = TRUE]}
    /\ page' = [at |-> "idle"]
    /\ UNCHANGED <<turn, shown, written, writes, late>>

Dismisses(row) ==
    /\ page.at = "idle" /\ writes < MaxWrites
    /\ candidates' = [candidates EXCEPT ![row].dismissed = TRUE]
    /\ writes' = writes + 1
    /\ UNCHANGED <<turn, shown, page, written, late>>

PromotionNext ==
    \/ \E t \in Turns : Matches(t) \/ Counts(t) \/ CountFails(t) \/ Offers(t)
    \/ \E row \in Ids : Saves(row) \/ Dismisses(row)
    \/ Saves(NoRow) \/ WritesSkill \/ SettlesPromoted

PromotionSpec == PromotionInit /\ [][PromotionNext]_promotionVars

-----------------------------------------------------------------------------
(* A candidate is offered in the chat once, by the turn that brought it to   *)
(* the threshold, however many turns end at the same time (record).          *)
OfferedOnce ==
    \A t, u \in Turns : t # u /\ shown[t] # NoRow => shown[t] # shown[u]

(* A question the user has declined or saved is not offered again: a turn    *)
(* that ends afterwards offers neither that row nor a new one made for the   *)
(* same question (_match, record).                                           *)
DeclinedIsNotOffered == \A t \in late : shown[t] = NoRow

(* "You keep doing this": a question asked again is one candidate.           *)
OneCandidate == Cardinality(Ids) <= 1
=============================================================================
