---------------------------- MODULE MCEpollChat -----------------------------
(* EpollChat for TLC.                                                      *)
EXTENDS EpollChat, TLC

Symmetry == Permutations(Clients) \cup Permutations(Fds)
=============================================================================
