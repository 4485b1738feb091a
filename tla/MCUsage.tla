------------------------------- MODULE MCUsage ------------------------------
(* A small instance of UsageSessions for TLC: everybody is on one channel. *)
EXTENDS UsageSessions

OneChannel == [s \in Subject |-> CHOOSE c \in Channel : TRUE]
=============================================================================
