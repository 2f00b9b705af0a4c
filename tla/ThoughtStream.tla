---------------------------- MODULE ThoughtStream ----------------------------
(***************************************************************************)
(* core/llm/reasoning.py: a response of the model arrives in pieces cut    *)
(* anywhere, and ReasoningStream tells the model's thinking from what it   *)
(* says as it arrives; split_reasoning does the same to a whole response.  *)
(* One letter stands for the names of the tags and one for other text.     *)
(***************************************************************************)
EXTENDS Naturals, FiniteSets, SequencesExt

CONSTANTS
    MaxPieces,      \* bound: pieces of a response
    MaxTagChars     \* as in the code: a longest tag and some slack

Open == <<"<", "t", ">">>
Close == <<"<", "/", "t", ">">>
Pieces == {<<"a">>, <<"<">>, <<"<", "a", ">">>, Open, Close}

VARIABLES
    pieces,     \* the response, as it was made up
    rest,       \* what has not arrived yet
    pc,         \* waits for the model, scans what has arrived, is over or broke off
    pending,    \* ReasoningStream._pending
    inside,     \* ReasoningStream._inside
    thought,    \* what has been sent as reasoning
    visible,    \* what has been sent as content
    answer      \* state.answer, in _answer

thoughtVars == <<pieces, rest, pc, pending, inside, thought, visible, answer>>

Responses == UNION {[1 .. n -> Pieces] : n \in 0 .. MaxPieces}
Output == <<"o">>   \* state.output

ThoughtInit ==
    /\ pieces \in Responses /\ rest = FlattenSeq(pieces)
    /\ pc = "waits"
    /\ pending = <<>> /\ inside = FALSE
    /\ thought = <<>> /\ visible = <<>> /\ answer = <<>>

ThoughtTypeOK ==
    /\ pc \in {"waits", "scans", "over", "broke"}
    /\ inside \in BOOLEAN
    /\ Len(pending) + Len(rest) <= Len(FlattenSeq(pieces))

-----------------------------------------------------------------------------
(* The tags, as the regular expressions find them: <<first, last>>.          *)
IsLetter(c) == c \in {"a", "t"}
First(spans) == CHOOSE span \in spans : \A other \in spans : span[1] <= other[1]

Openings(s) ==
    {<<i, j>> \in (1 .. Len(s)) \X (1 .. Len(s)) :
        /\ i + 2 <= j /\ s[i] = "<" /\ s[i + 1] = "t" /\ ~IsLetter(s[i + 2])
        /\ s[j] = ">" /\ \A k \in i .. j - 1 : s[k] # ">"}

Closings(s) == {<<i, i + 3>> : i \in {n \in 1 .. Len(s) - 3 : SubSeq(s, n, n + 3) = Close}}

Before(s, span) == SubSeq(s, 1, span[1] - 1)
After(s, span) == SubSeq(s, span[2] + 1, Len(s))

(* BLOCK.sub: <<the thoughts, what is left>>.                                *)
RECURSIVE Blocks(_)
Blocks(s) ==
    IF Openings(s) = {} THEN <<<<>>, s>>
    ELSE LET opening == First(Openings(s))
             body == After(s, opening)
         IN  IF Closings(body) = {} THEN <<<<>>, s>>
             ELSE LET closing == First(Closings(body))
                      others == Blocks(After(body, closing))
                  IN  <<Before(body, closing) \o others[1], Before(s, opening) \o others[2]>>

SplitReasoning(s) ==
    IF Closings(s) # {} /\ Openings(s) = {}
    THEN LET orphan == First(Closings(s)) IN <<Before(s, orphan), After(s, orphan)>>
    ELSE LET split == Blocks(s)
         IN  IF Openings(split[2]) = {} THEN split
             ELSE LET dangling == First(Openings(split[2]))
                  IN  <<split[1] \o After(split[2], dangling), Before(split[2], dangling)>>

-----------------------------------------------------------------------------
Sends(reasoning, text) ==
    IF reasoning THEN thought' = thought \o text /\ UNCHANGED visible
    ELSE visible' = visible \o text /\ UNCHANGED thought

(* astream's next chunk, to feed.                                            *)
Arrives(n) ==
    /\ pc = "waits" /\ n \in 1 .. Len(rest)
    /\ pending' = pending \o SubSeq(rest, 1, n)
    /\ rest' = SubSeq(rest, n + 1, Len(rest))
    /\ pc' = "scans"
    /\ UNCHANGED <<pieces, inside, thought, visible, answer>>

OpensThought ==
    /\ pc = "scans" /\ ~inside /\ Openings(pending) # {}
    /\ LET opening == First(Openings(pending))
       IN  /\ Sends(FALSE, Before(pending, opening))
           /\ pending' = After(pending, opening)
    /\ inside' = TRUE
    /\ UNCHANGED <<pieces, rest, pc, answer>>

(* A close with no open: the response began in the middle of a thought.      *)
ClosesUnopened ==
    /\ pc = "scans" /\ ~inside /\ Openings(pending) = {} /\ Closings(pending) # {}
    /\ LET orphan == First(Closings(pending))
       IN  /\ Sends(TRUE, Before(pending, orphan))
           /\ pending' = After(pending, orphan)
    /\ UNCHANGED <<pieces, rest, pc, inside, answer>>

ClosesThought ==
    /\ pc = "scans" /\ inside /\ Closings(pending) # {}
    /\ LET closing == First(Closings(pending))
       IN  /\ Sends(TRUE, Before(pending, closing))
           /\ pending' = After(pending, closing)
    /\ inside' = FALSE
    /\ UNCHANGED <<pieces, rest, pc, answer>>

\* Mutant of HeldFrom: everything that is no tag yet is sent at once.
HeldFromNowhere == Len(pending) + 1

(* What may still turn out to be a tag is held: from the last "<", unless a  *)
(* ">" has come after it, or more than a tag is long.                        *)
HeldFrom ==
    LET begun == {i \in 1 .. Len(pending) :
                    /\ pending[i] = "<"
                    /\ \A j \in i + 1 .. Len(pending) : pending[j] \notin {"<", ">"}
                    /\ Len(pending) - i + 1 < MaxTagChars}
    IN  IF begun = {} THEN Len(pending) + 1 ELSE CHOOSE i \in begun : TRUE

Drains ==
    /\ pc = "scans"
    /\ IF inside THEN Closings(pending) = {} ELSE Openings(pending) = {} /\ Closings(pending) = {}
    /\ Sends(inside, SubSeq(pending, 1, HeldFrom - 1))
    /\ pending' = SubSeq(pending, HeldFrom, Len(pending))
    /\ pc' = "waits"
    /\ UNCHANGED <<pieces, rest, inside, answer>>

(* The stream ends: what was held is sent, and what was shown is the answer. *)
Flushes ==
    /\ pc = "waits" /\ rest = <<>>
    /\ Sends(inside, pending)
    /\ pending' = <<>>
    /\ answer' = visible'
    /\ pc' = "over"
    /\ UNCHANGED <<pieces, rest, inside>>

(* The provider fails: the output of the code is the answer, and is sent.    *)
BreaksOff ==
    /\ pc = "waits"
    /\ Sends(FALSE, Output) /\ answer' = Output
    /\ pc' = "broke"
    /\ UNCHANGED <<pieces, rest, pending, inside>>

ThoughtNext ==
    \/ \E n \in 1 .. Len(rest) : Arrives(n)
    \/ OpensThought \/ ClosesUnopened \/ ClosesThought \/ Drains
    \/ Flushes \/ BreaksOff

-----------------------------------------------------------------------------
(* A response whose tags are opened before they are closed, the last one     *)
(* perhaps not closed at all.                                                *)
WellFormed ==
    LET tags == SelectSeq(pieces, LAMBDA p : p \in {Open, Close})
    IN  \A i \in DOMAIN tags : tags[i] = IF i % 2 = 1 THEN Open ELSE Close

(* However a well-formed response is cut into deltas, inside its tags too,   *)
(* the stream sends nothing it would have to take back, and in the end what  *)
(* split_reasoning makes of the whole ("classifies the same way as the whole *)
(* string", test_reasoning.py).                                              *)
StreamFollowsSplit ==
    WellFormed =>
        LET whole == SplitReasoning(FlattenSeq(pieces))
        IN  /\ pc # "broke" => IsPrefix(visible, whole[2])
            /\ IsPrefix(thought, whole[1])
            /\ pc = "over" => thought = whole[1] /\ visible = whole[2]

(* Nothing a model says is swallowed with a tag, however ill-formed it is.   *)
Letters(s) == Cardinality({i \in DOMAIN s : s[i] = "a"})
NothingIsSwallowed ==
    Letters(thought) + Letters(visible) + Letters(pending) + Letters(rest) = Letters(FlattenSeq(pieces))

(* "Shown in the thinking panel, never as the answer" (orchestrator.py:1936):*)
(* nor does the thinking of a model whose opening tag was prefilled become   *)
(* its answer.                                                               *)
ThinkingIsNoAnswer ==
    pc = "over" => answer = SplitReasoning(FlattenSeq(pieces))[2]

(* What was streamed is the answer that is recorded, also when the provider  *)
(* broke off.                                                                *)
ShownIsRecorded == pc \in {"over", "broke"} => visible = answer
=============================================================================
