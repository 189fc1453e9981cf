--------------------------- MODULE PlayerRegistry ---------------------------
(***************************************************************************)
(* What the game servers of week 13 promise about player ids, without      *)
(* sockets, packets or events: a seat is given to a client that has none,  *)
(* stays with it while it wants to play, is taken back only from a client  *)
(* that logged out or went away, and is then free for the next one.        *)
(*                                                                         *)
(* The server may go down, but only while it still serves a client that    *)
(* is leaving (it writes to a connection the peer has closed).             *)
(***************************************************************************)
EXTENDS Integers

CONSTANTS Clients, NoClient, Slots

VARIABLES
    owner,      \* the client each seat belongs to
    leaving,    \* clients that logged out, closed or were killed
    up          \* the server runs

registryVars == <<owner, leaving, up>>

Seated(c) == \E i \in Slots : owner[i] = c

Init ==
    /\ owner = [i \in Slots |-> NoClient]
    /\ leaving = {}
    /\ up = TRUE

(* A step of the server ends well, or with somebody gone still seated.     *)
Settle ==
    \/ up' = TRUE
    \/ up' = FALSE /\ \E c \in leaving : Seated(c)'

Request(c) == leaving' = leaving \cup {c} /\ UNCHANGED <<owner, up>>

Join(c, i) ==
    /\ ~Seated(c)
    /\ owner[i] = NoClient
    /\ owner' = [owner EXCEPT ![i] = c]
    /\ UNCHANGED leaving
    /\ Settle

Leave(c, i) ==
    /\ c \in leaving
    /\ owner[i] = c
    /\ owner' = [owner EXCEPT ![i] = NoClient]
    /\ UNCHANGED leaving
    /\ Settle

Relay == UNCHANGED <<owner, leaving>> /\ Settle

Next ==
    /\ up
    /\ \/ \E c \in Clients : Request(c)
       \/ \E c \in Clients, i \in Slots : Join(c, i) \/ Leave(c, i)
       \/ Relay

Spec == Init /\ [][Next]_registryVars

(* A seat whose client is leaving does not stay taken.                     *)
Vacates ==
    \A c \in Clients : (c \in leaving /\ Seated(c)) ~> (~Seated(c) \/ ~up)
=============================================================================
