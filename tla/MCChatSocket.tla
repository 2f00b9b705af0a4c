---------------------------- MODULE MCChatSocket ----------------------------
(* Bounded instances of ChatSocket.                                        *)
EXTENDS ChatSocket, TLC

\* Only the identity of these matters.
Symmetry ==
    Permutations(Sockets) \cup Permutations(Sessions)
        \cup Permutations(Turns) \cup Permutations(Requests)
=============================================================================
