---------------------------- MODULE MCChatServer ----------------------------
(* ChatServer for TLC: clients and descriptors are interchangeable.        *)
EXTENDS ChatServer, TLC

Symmetry == Permutations(Clients) \cup Permutations(Fds)
==============================================================================
