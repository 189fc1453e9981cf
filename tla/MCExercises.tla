---------------------------- MODULE MCExercises -----------------------------
(* The exercises for TLC: what is typed.  One line of the echo clients is   *)
(* longer than a buffer of 3, and what an uninitialised one holds may be    *)
(* nothing, fill a buffer or be longer.                                     *)
EXTENDS Exercises

MCEchoLines == {<<"a", "b">>, <<"d">>, <<"e", "f", "g", "h">>}
MCCommandLines == {<<"TI", "ME\n">>, <<"NAME ", "x\n">>, <<"HEL", "LO\n">>}
MCGarbage == {<<>>, <<"k", "l", "m">>, <<"o", "p", "q", "r">>}
MCLong == {<<p, 2>> : p \in Peers}
=============================================================================
