------------------------------ MODULE ChatRoom ------------------------------
(***************************************************************************)
(* What a chat server promises: a message is heard by everyone in the room *)
(* it is meant for at one instant, so all members hear the same messages   *)
(* in the same order from the moment they entered, and each message once.  *)
(***************************************************************************)
EXTENDS Integers, Sequences

CONSTANTS
    Clients, Messages,
    Hears(_, _)     \* Hears(c, m): m is also meant for c

VARIABLE view   \* what each member has heard since it entered

Members == DOMAIN view

Init == view = [c \in {} |-> <<>>]

Enter(c) ==
    /\ c \notin Members
    /\ view' = [d \in Members \cup {c} |-> IF d = c THEN <<>> ELSE view[d]]

Exit(c) ==
    /\ c \in Members
    /\ view' = [d \in Members \ {c} |-> view[d]]

Say(m) ==
    /\ \A c \in Members : \A k \in 1 .. Len(view[c]) : view[c][k] # m
    /\ view' = [c \in Members |->
                    IF Hears(c, m) THEN Append(view[c], m) ELSE view[c]]

Next ==
    \/ \E c \in Clients : Enter(c) \/ Exit(c)
    \/ \E m \in Messages : Say(m)

Spec == Init /\ [][Next]_view
=============================================================================
