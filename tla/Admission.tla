------------------------------ MODULE Admission ------------------------------
(***************************************************************************)
(* What the backend lets in: the sliding-window limiter that expensive     *)
(* requests pass, and the gate that caps the WebSockets of one client.     *)
(* Both are keyed by the client's address and guarded by a lock each.      *)
(***************************************************************************)
EXTENDS Naturals, FiniteSets, SequencesExt

CONSTANTS
    Hosts,          \* client addresses
    Sockets,        \* connections, one after another or at once
    MaxRequests,    \* RATE_LIMIT_MAX_REQUESTS
    Window,         \* RATE_LIMIT_WINDOW_SECONDS
    MaxKeys,        \* max_keys of the limiter
    MaxPerHost,     \* WS_MAX_CONCURRENT_PER_IP
    MaxTime         \* bound: the clock stops here

ASSUME AdmissionAssumption ==
    /\ IsFiniteSet(Hosts) /\ IsFiniteSet(Sockets)
    /\ MaxRequests \in Nat \ {0} /\ Window \in Nat /\ MaxKeys \in Nat
    /\ MaxPerHost \in Nat /\ MaxTime \in Nat

VARIABLES
    now,        \* the clock
    hits,       \* _hits: the times of a client's requests, oldest first
    granted,    \* ghost: all its requests let through since it was last forgotten
    active,     \* _active of the gate
    socket      \* each connection's client and how far it has come

admissionVars == <<now, hits, granted, active, socket>>

Unconnected == [at |-> "none"]

AdmissionTypeOK ==
    /\ now \in 0 .. MaxTime
    /\ hits \in [Hosts -> Seq(0 .. now)] /\ granted \in [Hosts -> Seq(0 .. now)]
    /\ active \in [Hosts -> 0 .. MaxPerHost]
    /\ socket \in [Sockets -> {Unconnected}
         \cup [host : Hosts, at : {"acquired", "accepted", "refused", "open", "gone"}]]

AdmissionInit ==
    /\ now = 0
    /\ hits = [h \in Hosts |-> <<>>]
    /\ granted = [h \in Hosts |-> <<>>]
    /\ active = [h \in Hosts |-> 0]
    /\ socket = [s \in Sockets |-> Unconnected]

Ticks ==
    /\ now < MaxTime
    /\ now' = now + 1
    /\ UNCHANGED <<hits, granted, active, socket>>

-----------------------------------------------------------------------------
(* SlidingWindowRateLimiter: the oldest k requests have left the window and  *)
(* are dropped, from the left and only so many.                              *)
Lapsed(times, k) ==
    /\ \A i \in 1 .. k : times[i] + Window < now
    /\ k < Len(times) => times[k + 1] + Window >= now
Recent(times, k) == SubSeq(times, k + 1, Len(times))
Known(table) == {h \in Hosts : table[h] # <<>>}

(* The stale keys go first, and then the least recently active ones.         *)
Evicted(table, gone) ==
    LET idle == {h \in Known(table) : Last(table[h]) + Window < now}
        excess == Cardinality(Known(table)) - MaxKeys
    IN  IF Cardinality(Known(table)) <= MaxKeys THEN gone = {}
        ELSE /\ idle \subseteq gone /\ gone \subseteq Known(table)
             /\ Cardinality(gone) = IF Cardinality(idle) > excess THEN Cardinality(idle) ELSE excess
             /\ \A h \in gone, kept \in Known(table) \ gone :
                    h \in idle \/ Last(table[h]) <= Last(table[kept])

Allows(h) ==
    /\ \E k \in 0 .. Len(hits[h]), gone \in SUBSET Hosts :
        LET table == [hits EXCEPT ![h] = Append(Recent(hits[h], k), now)] IN
            /\ Lapsed(hits[h], k) /\ Len(hits[h]) - k < MaxRequests
            /\ Evicted(table, gone)
            /\ hits' = [c \in Hosts |-> IF c \in gone THEN <<>> ELSE table[c]]
            /\ granted' = [c \in Hosts |-> IF c \in gone THEN <<>>
                                            ELSE IF c = h THEN Append(granted[c], now)
                                            ELSE granted[c]]
    /\ UNCHANGED <<now, active, socket>>

Refuses(h) ==
    /\ \E k \in 0 .. Len(hits[h]) :
        /\ Lapsed(hits[h], k) /\ Len(hits[h]) - k >= MaxRequests
        /\ hits' = [hits EXCEPT ![h] = Recent(hits[h], k)]
    /\ UNCHANGED <<now, granted, active, socket>>

-----------------------------------------------------------------------------
(* ConnectionGate, and the chat route around it. A client over the cap is    *)
(* closed and keeps nothing.                                                 *)
Acquires(s, h) ==
    /\ socket[s].at \in {"none", "gone"}
    /\ active[h] < MaxPerHost
    /\ active' = [active EXCEPT ![h] = @ + 1]
    /\ socket' = [socket EXCEPT ![s] = [host |-> h, at |-> "acquired"]]
    /\ UNCHANGED <<now, hits, granted>>

FreesSlot(h) == active' = [active EXCEPT ![h] = IF @ > 0 THEN @ - 1 ELSE 0]

(* accept, then the API key.                                                 *)
Accepts(s) ==
    /\ \/ socket[s].at = "acquired" /\ socket' = [socket EXCEPT ![s].at = "accepted"]
       \/ socket[s].at = "accepted"
           /\ \E at \in {"open", "refused"} : socket' = [socket EXCEPT ![s].at = at]
    /\ UNCHANGED <<now, hits, granted, active>>

(* The refusal is sent and the socket closed before the gate is told.        *)
ClosesRefused(s) ==
    /\ socket[s].at = "refused"
    /\ FreesSlot(socket[s].host)
    /\ socket' = [socket EXCEPT ![s].at = "gone"]
    /\ UNCHANGED <<now, hits, granted>>

(* A client that leaves before the receive loop is entered, or while its     *)
(* refusal is sent, is never released.                                       *)
BreaksEarly(s) ==
    /\ socket[s].at \in {"acquired", "accepted", "refused"}
    /\ socket' = [socket EXCEPT ![s].at = "gone"]
    /\ UNCHANGED <<now, hits, granted, active>>

Closes(s) ==
    /\ socket[s].at = "open"
    /\ FreesSlot(socket[s].host)
    /\ socket' = [socket EXCEPT ![s].at = "gone"]
    /\ UNCHANGED <<now, hits, granted>>

AdmissionNext ==
    \/ Ticks
    \/ \E h \in Hosts : Allows(h) \/ Refuses(h) \/ \E s \in Sockets : Acquires(s, h)
    \/ \E s \in Sockets : Accepts(s) \/ ClosesRefused(s) \/ BreaksEarly(s) \/ Closes(s)

AdmissionSpec == AdmissionInit /\ [][AdmissionNext]_admissionVars

-----------------------------------------------------------------------------
(* No client gets more than MaxRequests through in any Window, wherever it   *)
(* is laid: so many requests and one more take longer. The exception is a    *)
(* client that has been evicted in between (allow).                          *)
QuotaHolds ==
    \A h \in Hosts : \A i \in DOMAIN granted[h] :
        i + MaxRequests \in DOMAIN granted[h] =>
            granted[h][i + MaxRequests] > granted[h][i] + Window

(* What is remembered of clients is bounded, the one that asked last is      *)
(* among them (_evict_idle).                                                 *)
TableIsBounded == Cardinality(Known(hits)) <= MaxKeys

Living(h) == {s \in Sockets : socket[s].at \notin {"none", "gone"} /\ socket[s].host = h}

(* Every living socket is counted, so no client has more than its share.     *)
LivingAreCounted == \A h \in Hosts : Cardinality(Living(h)) <= active[h]

(* The gate counts living sockets only: a client whose sockets are all gone  *)
(* may connect again.                                                        *)
OnlyLivingAreCounted == \A h \in Hosts : active[h] <= Cardinality(Living(h))
=============================================================================
