----------------------------- MODULE MCMonitor -----------------------------
(* RServer and CsServer for TLC: a behaviour is one of the server picked at *)
(* its start; clients are interchangeable.                                  *)
EXTENDS LockTable, TLC

CONSTANT Languages  \* the servers to run, of "rs" and "cs"

VARIABLE lang

RS == INSTANCE RServer
CS == INSTANCE CsServer

AnyInit == lang \in Languages /\ Init

AnyNext ==
    /\ UNCHANGED lang
    /\ \/ lang = "rs" /\ RS!Next
       \/ lang = "cs" /\ CS!Next

Spec == AnyInit /\ [][AnyNext]_<<vars, lang>>

(* On condition that no broadcast overtakes a login response.              *)
OrderedSpec == AnyInit /\ [][InOrder(AnyNext)]_<<vars, lang>>

Symmetry == Permutations(Clients)
=============================================================================
