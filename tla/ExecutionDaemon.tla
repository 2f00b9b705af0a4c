--------------------------- MODULE ExecutionDaemon ---------------------------
(***************************************************************************)
(* core/tools/daemon.py: one session's execution daemon and the client in  *)
(* the API process, with HostSession.interrupt.                            *)
(*                                                                         *)
(* The daemon serves one connection at a time.  The client holds the       *)
(* session's lock from before it connects until it has a reply or a        *)
(* timeout; a request whose client has given up stays in the backlog and   *)
(* is served later all the same.  Cells are executed from worker threads,  *)
(* while the dataset and reset routes call the daemon from the event loop, *)
(* which then reads no frame.                                              *)
(***************************************************************************)
EXTENDS Naturals, Sequences, FiniteSets

CONSTANTS
    Cells,    \* the execute requests, each sent once
    Endless,  \* the cells that do not end by themselves
    Chatty,   \* those of them that print now and then
    Reloads,  \* the reload_dataset and reset requests, each sent once
    Nobody

Calls == Cells \cup Reloads

ASSUME DaemonAssumption ==
    /\ Endless \subseteq Cells
    /\ Chatty \subseteq Endless
    /\ Cells \cap Reloads = {}
    /\ Nobody \notin Calls

VARIABLES
    up,      \* the process is alive
    daemon,  \* where its loop is
    serving, \* the request of its current connection
    backlog, \* the connections it has not accepted yet
    frames,  \* the version of the tables in its namespace
    disk,    \* the version of the tables in the workspace
    call,    \* where each request is, for its caller
    lock,    \* the request whose caller holds _lock
    loop,    \* the request the event loop is blocked in
    wanted,  \* the version of the tables when a reload was asked for
    signal   \* a thread is about to interrupt the process

daemonVars == <<up, daemon, serving, backlog, frames, disk, call, lock, loop, wanted, signal>>
serverVars == <<up, daemon, serving, backlog, frames>>

DaemonInit ==
    /\ up = TRUE
    /\ daemon = "accepting" /\ serving = Nobody /\ backlog = <<>>
    /\ frames = 0 /\ disk = 0
    /\ call = [c \in Calls |-> "unused"]
    /\ lock = Nobody /\ loop = Nobody
    /\ wanted = [c \in Reloads |-> 0]
    /\ signal = FALSE

(***************************************************************************)
(* The callers.                                                            *)
(***************************************************************************)

\* run_code, on a worker thread.
CallsCell(c) ==
    /\ call[c] = "unused"
    /\ call' = [call EXCEPT ![c] = "waiting"]
    /\ UNCHANGED <<serverVars, disk, lock, loop, wanted, signal>>

\* A route that has changed the workspace, or resets the namespace, calls the
\* daemon on the event loop.
CallsReload(c, changes) ==
    /\ call[c] = "unused"
    /\ loop = Nobody
    /\ disk' = IF changes THEN disk + 1 ELSE disk
    /\ wanted' = [wanted EXCEPT ![c] = disk']
    /\ call' = [call EXCEPT ![c] = "waiting"]
    /\ loop' = c
    /\ UNCHANGED <<serverVars, lock, signal>>

\* The call is over for its caller, one way or another.
Ends(c, how) ==
    /\ call' = [call EXCEPT ![c] = how]
    /\ lock' = Nobody
    /\ loop' = IF loop = c THEN Nobody ELSE loop

\* Mutant of Sends: the lock is not taken.
SendsUnlocked(c) ==
    /\ call[c] = "waiting"
    /\ up
    /\ lock' = c
    /\ call' = [call EXCEPT ![c] = "sent"]
    /\ backlog' = Append(backlog, c)
    /\ UNCHANGED <<up, daemon, serving, frames, disk, loop, wanted, signal>>

\* The lock is taken and the request sent on a connection of its own.
Sends(c) ==
    /\ call[c] = "waiting" /\ lock = Nobody
    /\ up
    /\ lock' = c
    /\ call' = [call EXCEPT ![c] = "sent"]
    /\ backlog' = Append(backlog, c)
    /\ UNCHANGED <<up, daemon, serving, frames, disk, loop, wanted, signal>>

\* The process is gone: nothing is sent, or the connection breaks.
Fails(c) ==
    /\ ~up
    /\ \/ call[c] = "waiting" /\ lock = Nobody
       \/ call[c] = "sent"
    /\ Ends(c, "failed")
    /\ UNCHANGED <<serverVars, disk, wanted, signal>>

\* Mutant of TimesOut: the socket has no timeout.
TimesOutNever(c) == FALSE /\ UNCHANGED daemonVars

\* Nothing arrived on the connection for SANDBOX_EXEC_TIMEOUT.  Every frame
\* of output starts the wait again, so a cell that prints is never cut off.
TimesOut(c) ==
    /\ up
    /\ call[c] = "sent"
    /\ ~(c \in Chatty /\ serving = c /\ daemon = "executing")
    /\ Ends(c, "timedout")
    /\ UNCHANGED <<serverVars, disk, wanted, signal>>

(***************************************************************************)
(* The daemon's loop.                                                      *)
(***************************************************************************)

\* accept, and read_message: what is in the socket is read, whether or not
\* its sender is still there.
Accepts ==
    /\ up /\ daemon = "accepting" /\ backlog # <<>>
    /\ serving' = Head(backlog)
    /\ backlog' = Tail(backlog)
    /\ daemon' = "handling"
    /\ UNCHANGED <<up, frames, disk, call, lock, loop, wanted, signal>>

\* A cell: from here KeyboardInterrupt is caught.
Executes ==
    /\ up /\ daemon = "handling" /\ serving \in Cells
    /\ daemon' = "executing"
    /\ UNCHANGED <<up, serving, backlog, frames, disk, call, lock, loop, wanted, signal>>

\* The cell comes to its end, in success or in an error.
CellEnds ==
    /\ up /\ daemon = "executing" /\ serving \notin Endless
    /\ daemon' = "replying"
    /\ UNCHANGED <<up, serving, backlog, frames, disk, call, lock, loop, wanted, signal>>

\* Mutant of Loads: the reply is sent without loading.
LoadsNothing ==
    /\ up /\ daemon = "handling" /\ serving \in Reloads
    /\ daemon' = "replying"
    /\ UNCHANGED <<up, serving, backlog, frames, disk, call, lock, loop, wanted, signal>>

\* reload_dataset or reset: load_dataset reads the workspace.
Loads ==
    /\ up /\ daemon = "handling" /\ serving \in Reloads
    /\ frames' = disk
    /\ daemon' = "replying"
    /\ UNCHANGED <<up, serving, backlog, disk, call, lock, loop, wanted, signal>>

\* The reply is sent, to nobody if the client has given up.
Replies ==
    /\ up /\ daemon = "replying"
    /\ daemon' = "accepting"
    /\ serving' = Nobody
    /\ IF call[serving] = "sent" THEN Ends(serving, "done")
       ELSE UNCHANGED <<call, lock, loop>>
    /\ UNCHANGED <<up, backlog, frames, disk, wanted, signal>>

\* A cancel frame, or POST /api/sandbox/interrupt: the event loop starts a
\* thread, whether or not a cell is executing.
Cancels ==
    /\ loop = Nobody /\ ~signal
    /\ signal' = TRUE
    /\ UNCHANGED <<serverVars, disk, call, lock, loop, wanted>>

\* interrupt, on that thread: SIGINT to the process if there is one.  exec
\* catches KeyboardInterrupt; nothing else in the daemon does.
Interrupts ==
    /\ signal
    /\ signal' = FALSE
    /\ IF ~up THEN UNCHANGED serverVars
       ELSE /\ IF daemon = "executing"
               THEN daemon' = "replying" /\ UNCHANGED <<up, serving, backlog>>
               ELSE up' = FALSE /\ daemon' = "dead" /\ serving' = Nobody /\ backlog' = <<>>
            /\ UNCHANGED frames
    /\ UNCHANGED <<disk, call, lock, loop, wanted>>

\* Every request has had its answer and no more come.
Finished ==
    /\ \A c \in Calls : call[c] \notin {"unused", "waiting", "sent"}
    /\ UNCHANGED daemonVars

DaemonNext ==
    \/ \E c \in Cells : CallsCell(c)
    \/ \E c \in Reloads, changes \in BOOLEAN : CallsReload(c, changes)
    \/ \E c \in Calls : Sends(c) \/ Fails(c) \/ TimesOut(c)
    \/ Accepts \/ Executes \/ CellEnds \/ Loads \/ Replies
    \/ Cancels \/ Interrupts
    \/ Finished

\* Threads and the daemon run, and time passes.  Nobody has to call, nor to
\* interrupt.
DaemonFairness ==
    /\ \A c \in Calls :
         WF_daemonVars(Sends(c)) /\ WF_daemonVars(Fails(c)) /\ WF_daemonVars(TimesOut(c))
    /\ WF_daemonVars(Accepts) /\ WF_daemonVars(Executes) /\ WF_daemonVars(CellEnds)
    /\ WF_daemonVars(Loads) /\ WF_daemonVars(Replies) /\ WF_daemonVars(Interrupts)

DaemonSpec == DaemonInit /\ [][DaemonNext]_daemonVars /\ DaemonFairness

(***************************************************************************)
(* Properties.                                                             *)
(***************************************************************************)

\* Type invariant of the daemon and its callers.
DaemonTypeOK ==
    /\ up \in BOOLEAN
    /\ daemon \in {"accepting", "handling", "executing", "replying", "dead"}
    /\ serving \in Calls \cup {Nobody}
    /\ backlog \in Seq(Calls)
    /\ frames \in Nat /\ disk \in Nat
    /\ call \in [Calls -> {"unused", "waiting", "sent", "done", "failed", "timedout"}]
    /\ lock \in Calls \cup {Nobody}
    /\ loop \in Reloads \cup {Nobody}
    /\ wanted \in [Reloads -> Nat]
    /\ signal \in BOOLEAN
    /\ \A c \in Calls : lock = c <=> call[c] = "sent"

\* The requests the daemon is serving or has yet to serve, in their order.
Line == IF serving = Nobody THEN backlog ELSE <<serving>> \o backlog

\* What the daemon is serving or has yet to serve is the request of the
\* caller that holds the lock, last in line, behind nothing but requests whose
\* callers were told of a timeout: no two callers share the namespace.
OnlyTimedOutLinger ==
    /\ \A n \in DOMAIN Line : call[Line[n]] = "timedout" \/ n = Len(Line)
    /\ \A c \in Calls :
          call[c] = "sent" /\ up => Line # <<>> /\ Line[Len(Line)] = c

\* "Without this it stays queryable after the user deleted it": a reload that
\* answered left the daemon with tables at least as new as the workspace had
\* when it was asked for, whatever timed out and lingered before it.
ReloadIsFresh ==
    \A c \in Reloads : call[c] = "done" => frames >= wanted[c]

\* .env.example:288: "SANDBOX_EXEC_TIMEOUT=180 # seconds per execution".  Every
\* request is over at some point.  The code's timeout is on each read of the
\* socket, so it holds only if the endless cells are silent.
EveryCallReturns == \A c \in Calls : call[c] = "waiting" ~> call[c] \in {"done", "failed", "timedout"}

\* host_runtime.py:229: "The daemon catches KeyboardInterrupt around exec and
\* reports the execution as interrupted, so the namespace and the loaded
\* frames survive".  The signal is sent whether or not a cell is executing.
RuntimeSurvives == up
=============================================================================
