----------------------------- MODULE DaemonLogs -----------------------------
(***************************************************************************)
(* A child's log: the RotatingWriter its output is copied into and the     *)
(* follower of `wizard attach`, which polls the same path. A chunk is what *)
(* one Write carries; <<n, "head">> is a line still without its newline    *)
(* and <<n, "tail">> the rest of it. Files keep their identity when they   *)
(* are renamed, which is what os.SameFile looks at.                        *)
(***************************************************************************)
EXTENDS Integers, Sequences

CONSTANTS MaxChunks,   \* DefaultMaxBytes, in chunks
          Backups,     \* DefaultBackups
          LastLine     \* bound: lines the child prints

ASSUME LogAssumption == MaxChunks \in Nat \ {0} /\ Backups \in Nat \ {0} /\ LastLine \in Nat

VARIABLES
    paths,     \* the file at path (0) and at path.1 .. path.N; NoFile if none
    content,   \* what each file holds
    written,   \* the chunks the child has written, the lost ones included
    copying,   \* whether os/exec still copies the child's output
    seen,      \* the follower's lastFile and offset
    printed    \* what the follower has printed

logVars == <<paths, content, written, copying, seen, printed>>

NoFile == 0
Files == 1 .. 2 * LastLine + 1
Chunks == (1 .. LastLine) \X {"head", "tail"}
Order(c) == 2 * c[1] + (IF c[2] = "tail" THEN 1 ELSE 0)

LogTypeOK ==
    /\ paths \in [0 .. Backups -> Files \cup {NoFile}]
    /\ \A f \in DOMAIN content : content[f] \in Seq(Chunks)
    /\ written \in Seq(Chunks)
    /\ copying \in BOOLEAN
    /\ seen \in [file : Files \cup {NoFile}, offset : 0 .. Len(written)]
    /\ printed \in Seq(Chunks)

LogInit ==
    /\ paths = [i \in 0 .. Backups |-> IF i = 0 THEN 1 ELSE NoFile]
    /\ content = <<<<>>>>
    /\ written = <<>>
    /\ copying = TRUE
    /\ seen = [file |-> NoFile, offset |-> 0]
    /\ printed = <<>>

Active == content[paths[0]]
NextChunk ==
    IF written = <<>> THEN <<1, "head">>
    ELSE LET c == written[Len(written)] IN
         IF c[2] = "head" THEN <<c[1], "tail">> ELSE <<c[1] + 1, "head">>

RotatedUpwards(failed) ==
    [i \in 0 .. Backups |-> IF i = 0 \/ paths[0] = NoFile \/ 0 \in failed
                            THEN IF i = 0 /\ 0 \notin failed THEN NoFile ELSE paths[i]
                            ELSE IF i = Backups THEN paths[0] ELSE NoFile]

(* rotate: the oldest is removed and every file moves up one place, each   *)
(* rename on its own; where one fails its file stays, and a later one may  *)
(* overwrite it. `failed` are the places whose rename fails.               *)
Rotated(failed) ==
    LET moves == {i \in 0 .. Backups - 1 : i \notin failed /\ paths[i] # NoFile}
    IN  [i \in 0 .. Backups |->
            IF i > 0 /\ i - 1 \in moves THEN paths[i - 1]
            ELSE IF i \in moves \/ i = Backups THEN NoFile
            ELSE paths[i]]

(* Write: the size is checked first. A rotation that met an error has left *)
(* the writer usable, but Write returns the error without writing, and the *)
(* copy of os/exec ends at a write error.                                  *)
Writes ==
    /\ copying
    /\ NextChunk[1] <= LastLine
    /\ written' = Append(written, NextChunk)
    /\ UNCHANGED <<seen, printed>>
    /\ IF Len(Active) + 1 <= MaxChunks
       THEN /\ content' = [content EXCEPT ![paths[0]] = Append(@, NextChunk)]
            /\ UNCHANGED <<paths, copying>>
       ELSE \E failed \in SUBSET {i \in 0 .. Backups - 1 : paths[i] # NoFile} :
              LET at == Rotated(failed)
                  fresh == at[0] = NoFile
                  first == IF failed = {} THEN <<NextChunk>> ELSE <<>>
              IN  /\ paths' = IF fresh THEN [at EXCEPT ![0] = Len(content) + 1] ELSE at
                  /\ content' = IF fresh THEN Append(content, first) ELSE content
                  /\ copying' = (failed = {})

WholeUpToTheEnd(chunks, offset) == Len(chunks)

WholeUpTo(chunks, offset) ==
    CHOOSE last \in offset .. Len(chunks) :
       /\ last = offset \/ chunks[last][2] = "tail"
       /\ \A i \in last + 1 .. Len(chunks) : chunks[i][2] = "head"

(* followFile at a tick: another file at the path starts over; whole lines *)
(* are printed, an unterminated one is left for the next tick.             *)
Polls ==
    LET file == paths[0]
        offset == IF file # seen.file \/ Len(content[file]) < seen.offset THEN 0
                                                                          ELSE seen.offset
        upto == WholeUpTo(content[file], offset)
    IN  /\ seen' = [file |-> file, offset |-> upto]
        /\ printed' = printed \o SubSeq(content[file], offset + 1, upto)
        /\ seen' # seen
        /\ UNCHANGED <<paths, content, written, copying>>

LogNext == Writes \/ Polls
LogSpec == LogInit /\ [][LogNext]_logVars

-----------------------------------------------------------------------------
Ascending(s) == \A i \in 1 .. Len(s) - 1 : Order(s[i]) < Order(s[i + 1])

(* However ticks and rotations interleave, attach prints nothing twice and *)
(* nothing out of order, and a line's beginning only together with its end *)
(* (followFile's two cautions, attach.go:44).                              *)
FollowedOnce ==
    /\ Ascending(printed)
    /\ printed # <<>> => printed[Len(printed)][2] = "tail"
    /\ \A i \in 1 .. Len(printed) - 1 :
          printed[i][2] = "head" => printed[i + 1] = <<printed[i][1], "tail">>

Present == {i \in 0 .. Backups : paths[i] # NoFile}
Keeps(c) == \E i \in Present : \E n \in DOMAIN content[paths[i]] : content[paths[i]][n] = c

(* Whatever renames fail, the files read from the oldest backup to the     *)
(* active one are the child's output in order. While none has failed they  *)
(* are its most recent output without a gap: what was written after        *)
(* something that is kept is kept, and so are the last chunks, as many as  *)
(* the backups hold (RotatingWriter.rotate).                               *)
LogsStayInOrder ==
    /\ \A i \in Present : Ascending(content[paths[i]])
    /\ \A older, newer \in Present : newer < older =>
          \A m \in DOMAIN content[paths[older]], n \in DOMAIN content[paths[newer]] :
             Order(content[paths[older]][m]) < Order(content[paths[newer]][n])
    /\ copying =>
          /\ \A c \in Chunks : Keeps(c) => \E k \in DOMAIN written : written[k] = c
          /\ \A k \in DOMAIN written :
                \/ k > Len(written) - Backups * MaxChunks
                \/ k > 1 /\ Keeps(written[k - 1])
                => Keeps(written[k])

(* attach and the log files keep the child's words in order (RotatingWriter, *)
(* followFile).                                                              *)
LogsAreInOrder == FollowedOnce /\ LogsStayInOrder
=============================================================================
