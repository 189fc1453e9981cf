--------------------------- MODULE ExercisesProof ---------------------------
(***************************************************************************)
(* Proofs about the exercises of weeks 2, 3, 6 and 9 (Exercises), for all  *)
(* that may be typed, all sizes of buffers, messages and integers, and     *)
(* every number of UDP clients.                                            *)
(*                                                                         *)
(* IInv is the inductive invariant.  It has a part for each group of       *)
(* programs: Talk for the TCP clients that send lines, Message for the     *)
(* drawing messages, Network for UDP.                                      *)
(*                                                                         *)
(* What is computed from whole sequences (a stream is the concatenation of *)
(* the lines in it) is proved by induction over the natural numbers.  The  *)
(* set of the numbers a fact holds for stands for the fact.                *)
(***************************************************************************)
EXTENDS Exercises, SequencesExt, SequenceTheorems, FiniteSetTheorems,
        WellFoundedInduction, TLAPS

(* A set of natural numbers has a least one.                               *)
LEMMA LeastNumber ==
    ASSUME NEW T \in SUBSET Nat, T # {}
    PROVE  \E n \in T : \A m \in T : n <= m
<1> DEFINE R == OpToRel(<, Nat)
<1>1. IsWellFoundedOn(R, Nat)
  BY NatLessThanWellFounded
<1>2. \A m, n \in Nat : m < n => <<m, n>> \in R
  BY DEF OpToRel
<1> HIDE DEF R
<1>3. PICK n \in T : \A m \in T : ~(<<m, n>> \in R)
  BY <1>1, WFMin
<1>4. ASSUME NEW m \in T PROVE n <= m
  <2>1. ~(m < n)
    BY <1>2, <1>3
  <2> QED
    BY <2>1
<1> QED
  BY <1>4

(* Induction: T stands for what is shown of each number.                   *)
LEMMA Induction ==
    ASSUME NEW T, 0 \in T, \A n \in Nat : n \in T => n + 1 \in T
    PROVE  Nat \subseteq T
<1>1. SUFFICES ASSUME Nat \ T # {} PROVE FALSE
  OBVIOUS
<1>2. PICK n \in Nat \ T : \A m \in Nat \ T : n <= m
  BY <1>1, LeastNumber
<1>3. n # 0
  BY <1>2
<1>4. n - 1 \in Nat /\ n - 1 \in T
  BY <1>2, <1>3
<1> QED
  BY <1>2, <1>4

(* The least upper bound of a set of positions is one of them.             *)
LEMMA GreatestNumber ==
    ASSUME NEW n \in Nat, NEW T \in SUBSET (0 .. n), T # {}
    PROVE  \E m \in T : \A k \in T : k <= m
<1> DEFINE Below == {u \in Nat : n - u \in T}
<1>1. \A k \in T : k \in 0 .. n /\ n - k \in Nat /\ n - (n - k) = k
  OBVIOUS
<1>2. \A k \in T : n - k \in Below
  BY <1>1
<1>3. Below \in SUBSET Nat /\ Below # {}
  BY <1>2
<1>4. PICK u \in Below : \A v \in Below : u <= v
  <2> HIDE DEF Below
  <2> QED
    BY <1>3, LeastNumber
<1>5. PICK m \in T : m = n - u /\ u \in Nat
  BY <1>4
<1>6. ASSUME NEW k \in T PROVE k <= m
  <2>1. u <= n - k
    BY <1>2, <1>4
  <2> QED
    BY <1>1, <1>5, <2>1
<1> QED
  BY <1>6

-----------------------------------------------------------------------------
(* The concatenation of the first k sequences of s, for each k: what       *)
(* FlattenSeq goes through.                                                *)
Partial(s, f) ==
    f = [i \in 1 .. Len(s) |-> IF i = 1 THEN s[i] ELSE f[i - 1] \o s[i]]

LEMMA PartialExists ==
    ASSUME NEW S, NEW s \in Seq(Seq(S))
    PROVE  \E f \in [1 .. Len(s) -> Seq(S)] : Partial(s, f)
<1> DEFINE Up(k, f) == /\ f \in [1 .. k -> Seq(S)]
                       /\ \A i \in 1 .. k :
                             f[i] = IF i = 1 THEN s[i] ELSE f[i - 1] \o s[i]
           T == {k \in Nat : k <= Len(s) => \E f : Up(k, f)}
<1>1. Len(s) \in Nat /\ \A i \in 1 .. Len(s) : s[i] \in Seq(S)
  BY LenProperties, ElementOfSeq
<1>2. 0 \in T
  <2>1. PICK f : f = [i \in 1 .. 0 |-> <<>>]
    OBVIOUS
  <2>2. Up(0, f)
    BY <2>1
  <2> HIDE DEF Up
  <2> QED
    BY <2>2
<1>3. ASSUME NEW k \in Nat, k \in T PROVE k + 1 \in T
  <2>1. SUFFICES ASSUME k + 1 <= Len(s) PROVE \E g : Up(k + 1, g)
    <3> HIDE DEF Up
    <3> QED
      OBVIOUS
  <2>2. PICK f : Up(k, f)
    <3>1. k <= Len(s)
      BY <1>1, <2>1
    <3> HIDE DEF Up
    <3> QED
      BY <1>3, <3>1
  <2> DEFINE e == IF k = 0 THEN s[1] ELSE f[k] \o s[k + 1]
             g == [i \in 1 .. k + 1 |-> IF i <= k THEN f[i] ELSE e]
  <2>3. e \in Seq(S)
    <3>1. s[1] \in Seq(S) /\ s[k + 1] \in Seq(S)
      BY <1>1, <2>1
    <3>2. k # 0 => f[k] \in Seq(S)
      BY <2>2
    <3> QED
      BY <3>1, <3>2, ConcatProperties
  <2>4. g \in [1 .. k + 1 -> Seq(S)]
    BY <2>2, <2>3
  <2>5. ASSUME NEW i \in 1 .. k + 1
        PROVE  g[i] = IF i = 1 THEN s[i] ELSE g[i - 1] \o s[i]
    <3>1. CASE i <= k
      <4>1. i \in 1 .. k /\ g[i] = f[i] /\ (i # 1 => g[i - 1] = f[i - 1])
        BY <3>1
      <4> QED
        BY <2>2, <4>1
    <3>2. CASE i = k + 1
      <4>1. g[i] = e /\ (i # 1 => g[i - 1] = f[k]) /\ (i = 1 <=> k = 0)
        BY <3>2
      <4> QED
        BY <3>2, <4>1
    <3> QED
      BY <3>1, <3>2
  <2> QED
    BY <2>4, <2>5
<1>4. Len(s) \in T
  <2> HIDE DEF T, Up
  <2>1. Nat \subseteq T
    BY <1>2, <1>3, Induction
  <2> QED
    BY <1>1, <2>1
<1>5. PICK f : Up(Len(s), f)
  <2> HIDE DEF Up
  <2> QED
    BY <1>1, <1>4
<1> QED
  BY <1>5 DEF Partial

Alike(n, s, t, f, g) ==
    /\ n \in Nat
    /\ Len(s) \in Nat /\ n <= Len(s) /\ Len(t) \in Nat /\ n <= Len(t)
    /\ \A i \in 1 .. n : s[i] = t[i]
    /\ Partial(s, f) /\ Partial(t, g)

LEMMA PartialUnique ==
    ASSUME NEW n, NEW s, NEW t, NEW f, NEW g, Alike(n, s, t, f, g)
    PROVE  \A i \in 1 .. n : f[i] = g[i]
<1> DEFINE T == {i \in Nat : i \in 1 .. n => f[i] = g[i]}
<1>1. 0 \in T
  OBVIOUS
<1>2. \A i \in 1 .. n :
        /\ f[i] = IF i = 1 THEN s[i] ELSE f[i - 1] \o s[i]
        /\ g[i] = IF i = 1 THEN t[i] ELSE g[i - 1] \o t[i]
  <2>1. ASSUME NEW i \in 1 .. n
        PROVE  f[i] = IF i = 1 THEN s[i] ELSE f[i - 1] \o s[i]
    <3>1. i \in 1 .. Len(s)
      BY DEF Alike
    <3> QED
      BY <3>1 DEF Partial, Alike
  <2>2. ASSUME NEW i \in 1 .. n
        PROVE  g[i] = IF i = 1 THEN t[i] ELSE g[i - 1] \o t[i]
    <3>1. i \in 1 .. Len(t)
      BY DEF Alike
    <3> QED
      BY <3>1 DEF Partial, Alike
  <2> QED
    BY <2>1, <2>2
<1>3. ASSUME NEW i \in Nat, i \in T PROVE i + 1 \in T
  <2>1. SUFFICES ASSUME i + 1 \in 1 .. n PROVE f[i + 1] = g[i + 1]
    OBVIOUS
  <2>2. CASE i = 0
    <3>1. s[1] = t[1] /\ 1 \in 1 .. n /\ i + 1 = 1
      BY <2>1, <2>2 DEF Alike
    <3> QED
      BY <1>2, <3>1
  <2>3. CASE i # 0
    <3>1. /\ i \in 1 .. n /\ (i + 1) - 1 = i /\ f[i] = g[i] /\ i + 1 # 1
          /\ s[i + 1] = t[i + 1]
      BY <1>3, <2>1, <2>3 DEF Alike
    <3>2. f[i + 1] = f[i] \o s[i + 1] /\ g[i + 1] = g[i] \o t[i + 1]
      BY <1>2, <2>1, <3>1
    <3> QED
      BY <3>1, <3>2
  <2> QED
    BY <2>2, <2>3
<1>4. Nat \subseteq T
  <2> HIDE DEF T
  <2> QED
    BY <1>1, <1>3, Induction
<1> QED
  BY <1>4 DEF Alike

(* FlattenSeq, unfolded.                                                   *)
LEMMA Flat ==
    ASSUME NEW S, NEW s \in Seq(Seq(S)), NEW f, Partial(s, f)
    PROVE  FlattenSeq(s) = IF s = <<>> THEN <<>> ELSE f[Len(s)]
<1>1. FlattenSeq(s) = IF Len(s) = 0 THEN s
                      ELSE (CHOOSE g : Partial(s, g))[Len(s)]
  BY Zenon DEF FlattenSeq, Partial
<1>2. Partial(s, CHOOSE g : Partial(s, g))
  BY Zenon
<1>3. PICK g : g = CHOOSE h : Partial(s, h)
  OBVIOUS
<1>4. Len(s) \in Nat /\ (Len(s) = 0 <=> s = <<>>)
  BY LenProperties, EmptySeq
<1>5. s # <<>> => g[Len(s)] = f[Len(s)]
  <2>1. Partial(s, g)
    BY <1>2, <1>3, Zenon
  <2>2. Alike(Len(s), s, s, g, f)
    BY <1>4, <2>1 DEF Alike
  <2>3. \A i \in 1 .. Len(s) : g[i] = f[i]
    BY <2>2, PartialUnique
  <2> QED
    BY <1>4, <2>3
<1> QED
  BY <1>1, <1>3, <1>4, <1>5

(* What is flattened is a sequence, and one more sequence comes last.      *)
LEMMA FlatAppend ==
    ASSUME NEW S, NEW s \in Seq(Seq(S)), NEW e \in Seq(S)
    PROVE  /\ FlattenSeq(s) \in Seq(S)
           /\ FlattenSeq(Append(s, e)) = FlattenSeq(s) \o e
<1>1. PICK n \in Nat : n = Len(s) /\ (n = 0 <=> s = <<>>)
  BY LenProperties, EmptySeq
<1>2. PICK t \in Seq(Seq(S)) :
            /\ t = Append(s, e) /\ t # <<>> /\ Len(t) = n + 1
            /\ \A i \in 1 .. n : t[i] = s[i]
            /\ t[n + 1] = e
  <2>1. /\ Append(s, e) \in Seq(Seq(S)) /\ Append(s, e) # <<>>
        /\ Len(Append(s, e)) = Len(s) + 1
        /\ \A i \in 1 .. Len(s) : Append(s, e)[i] = s[i]
        /\ Append(s, e)[Len(s) + 1] = e
    BY AppendProperties
  <2> QED
    BY <1>1, <2>1
<1>3. PICK f : f \in [1 .. n -> Seq(S)] /\ Partial(s, f)
  BY <1>1, PartialExists
<1>4. PICK g : g \in [1 .. n + 1 -> Seq(S)] /\ Partial(t, g)
  BY <1>2, PartialExists
<1>5. FlattenSeq(s) = IF n = 0 THEN <<>> ELSE f[n]
  BY <1>1, <1>3, Flat
<1>6. FlattenSeq(t) = g[n + 1]
  BY <1>2, <1>4, Flat
<1>7. \A i \in 1 .. n : g[i] = f[i]
  <2>1. /\ Len(s) \in Nat /\ n <= Len(s) /\ Len(t) \in Nat /\ n <= Len(t)
        /\ \A i \in 1 .. n : s[i] = t[i]
    BY <1>1, <1>2
  <2>2. \A i \in 1 .. n : f[i] = g[i]
    <3>1. Alike(n, s, t, f, g)
      BY <1>3, <1>4, <2>1 DEF Alike
    <3> QED
      BY <3>1, PartialUnique
  <2> QED
    BY <2>2
<1>8. g[n + 1] = IF n = 0 THEN e ELSE g[n] \o e
  <2>1. n + 1 \in 1 .. Len(t) /\ (n + 1) - 1 = n /\ (n + 1 = 1 <=> n = 0)
    BY <1>2
  <2>2. g[n + 1] = IF n + 1 = 1 THEN t[n + 1] ELSE g[(n + 1) - 1] \o t[n + 1]
    BY <1>4, <2>1 DEF Partial
  <2> QED
    BY <1>2, <2>1, <2>2
<1>9. CASE n = 0
  BY <1>2, <1>5, <1>6, <1>8, <1>9, ConcatEmptySeq, EmptySeq
<1>10. CASE n # 0
  <2>1. n \in 1 .. n
    BY <1>10
  <2> QED
    BY <1>2, <1>3, <1>5, <1>6, <1>7, <1>8, <1>10, <2>1
<1> QED
  BY <1>9, <1>10

-----------------------------------------------------------------------------
(* The clients of TcpEcho and of CommandServer are the same LineClient; L  *)
(* stands for either.                                                      *)
L == INSTANCE LineClient WITH Lines <- EchoLines \cup CommandLines

LinePrograms == E!Programs \cup C!Programs

(* What the server says to a chunk.                                        *)
Said(chunk) ==
    IF program \in C!Programs THEN C!Answer(chunk) ELSE E!Echo(chunk)

(* What streams consist of.                                                *)
Piece == STRING \cup {"2026-", "01-01\n", "My name is ", " Server\n",
                      "x Server\n", "Unknown ", "Command\n"}
Text == Seq(Piece)

LEMMA Sizes ==
    /\ Cap \in Nat /\ 2 < Cap /\ MaxLines \in Nat
    /\ \A l \in EchoLines \cup CommandLines \cup Garbage : l \in Text
<1>1. ASSUME NEW l \in EchoLines \cup CommandLines \cup Garbage
      PROVE  l \in Text
  <2>1. l \in Seq(STRING)
    BY ExerciseAssumption
       DEF ExerciseAssumption, E!LineAssumption, C!CommandAssumption,
           C!LineAssumption
  <2>2. STRING \subseteq Piece
    BY DEF Piece
  <2> QED
    BY <2>1, <2>2, SeqMonotonic DEF Text
<1> QED
  BY <1>1, ExerciseAssumption
     DEF ExerciseAssumption, E!LineAssumption, C!CommandAssumption,
         C!LineAssumption

(* A read() cuts a stream in two.                                          *)
LEMMA Cut ==
    ASSUME NEW S, NEW s \in Seq(S), NEW n \in 1 .. Len(s)
    PROVE  /\ L!Prefix(s, n) \in Seq(S) /\ Len(L!Prefix(s, n)) = n
           /\ L!Rest(s, n) \in Seq(S)
           /\ L!Prefix(s, n) \o L!Rest(s, n) = s
           /\ n = Len(s) => L!Prefix(s, n) = s /\ L!Rest(s, n) = <<>>
<1>1. PICK m \in Nat : m = Len(s) /\ n \in 1 .. m
  BY LenProperties
<1>2. \A i \in 1 .. m : s[i] \in S
  BY <1>1, ElementOfSeq
<1>3. SubSeq(s, 1, n) \in Seq(S) /\ Len(SubSeq(s, 1, n)) = n
  <2>1. \A i \in 1 .. n : s[i] \in S
    BY <1>1, <1>2
  <2> QED
    BY <1>1, <2>1, SubSeqProperties
<1>4. SubSeq(s, n + 1, m) \in Seq(S)
  <2>1. \A i \in n + 1 .. m : s[i] \in S
    BY <1>1, <1>2
  <2> QED
    BY <1>1, <2>1, SubSeqProperties
<1>5. SubSeq(s, 1, n) \o SubSeq(s, n + 1, m) = SubSeq(s, 1, m)
  <2>1. /\ 1 \in 1 .. m + 1 /\ n \in 1 - 1 .. m /\ m \in n .. m
    BY <1>1
  <2> QED
    BY <1>1, <2>1, ConcatAdjacentSubSeq
<1>6. SubSeq(s, 1, m) = s
  BY <1>1, SubSeqFull
<1>7. n = m => SubSeq(s, n + 1, m) = <<>>
  BY <1>1, SubSeqEmpty
<1> QED
  BY <1>1, <1>3, <1>4, <1>5, <1>6, <1>7 DEF L!Prefix, L!Rest

(* Triple names its arguments for the provers.                             *)
Triple(a, b, c) == a \in Text /\ b \in Text /\ c \in Text

LEMMA Joined ==
    ASSUME NEW a, NEW b, NEW c, Triple(a, b, c)
    PROVE  /\ a \o b \in Text /\ b \o c \in Text
           /\ (a \o b) \o c = a \o (b \o c)
           /\ a \o <<>> = a /\ <<>> \o a = a
<1>1. PICK S : Text = Seq(S)
  BY DEF Text
<1>2. a \in Seq(S) /\ b \in Seq(S) /\ c \in Seq(S)
  BY <1>1 DEF Triple
<1>3. /\ a \o b \in Seq(S) /\ b \o c \in Seq(S)
      /\ (a \o b) \o c = a \o (b \o c)
  BY <1>2, ConcatProperties, ConcatAssociative
<1> QED
  BY <1>1, <1>2, <1>3, ConcatEmptySeq

LEMMA Pair ==
    ASSUME NEW S, NEW a \in S, NEW b \in S
    PROVE  <<a, b>> \in Seq(S) /\ Len(<<a, b>>) = 2
OBVIOUS

(* A server answers with text, and to a command with two pieces at most.   *)
LEMMA SaidType ==
    ASSUME NEW s \in Text, s # <<>>
    PROVE  /\ Said(s) \in Text
           /\ IF program \in C!Programs THEN Len(Said(s)) <= 2 ELSE Said(s) = s
<1>1. <<>> \in Text /\ Len(<<>>) = 0
  BY EmptySeq DEF Text
<1>2. /\ C!Answer(s) \in Text /\ Len(C!Answer(s)) <= 2
  <2>1. \/ C!Answer(s) = <<>>
        \/ \E a \in Piece, b \in Piece : C!Answer(s) = <<a, b>>
    <3>1. CASE s = C!Time
      <4>1. C!Answer(s) = <<"2026-", "01-01\n">>
        BY <3>1 DEF C!Answer, C!Time
      <4> QED
        BY <4>1 DEF Piece
    <3>2. CASE s # C!Time /\ s[1] = "NAME "
      <4>1. PICK b \in Piece :
                b = IF Len(s) = 1 THEN " Server\n" ELSE "x Server\n"
        BY DEF Piece
      <4>2. C!Answer(s) = <<"My name is ", b>>
        BY <3>2, <4>1 DEF C!Answer
      <4> QED
        BY <4>2 DEF Piece
    <3>3. CASE s # C!Time /\ s[1] # "NAME "
      <4>1. C!Answer(s) = IF program = "c3" THEN <<"Unknown ", "Command\n">>
                          ELSE <<>>
        BY <3>3 DEF C!Answer
      <4> QED
        BY <4>1 DEF Piece
    <3> QED
      BY <3>1, <3>2, <3>3
  <2>2. CASE C!Answer(s) = <<>>
    BY <1>1, <2>2
  <2>3. CASE \E a \in Piece, b \in Piece : C!Answer(s) = <<a, b>>
    <3>1. PICK a \in Piece, b \in Piece : C!Answer(s) = <<a, b>>
      BY <2>3
    <3>2. PICK t : t = <<a, b>>
      OBVIOUS
    <3>3. t \in Text /\ Len(t) = 2
      BY <3>2, Pair DEF Text
    <3>4. C!Answer(s) = t
      BY <3>1, <3>2
    <3>5. C!Answer(s) \in Text /\ Len(C!Answer(s)) = 2
      BY <3>3, <3>4, Zenon
    <3> QED
      BY <3>5
  <2> QED
    BY <2>1, <2>2, <2>3
<1> QED
  BY <1>2 DEF Said, E!Echo

(* A step of one of these programs.                                        *)
LEMMA LineStep ==
    ASSUME program \in LinePrograms, AnyNext
    PROVE  /\ ~overrun /\ program' = program /\ cut' = cut
           /\ \/ L!ClientNext
              \/ \E n \in L!Chunks(toServer, Cap) :
                    L!Serve(n, Said(L!Prefix(toServer, n)))
              \/ L!EndConnection
              \/ L!KillServer
<1>1. CASE OfEcho(E!Next)
  <2>1. program \in E!Programs /\ program \notin C!Programs /\ E!Next
    BY <1>1 DEF OfEcho, E!Programs, C!Programs
  <2>2. CASE E!ClientNext
    BY <2>1, <2>2
       DEF E!Next, E!ClientNext, E!TypeLine, E!Quit, E!EndOfInput, E!ClientRuns,
           E!ReadAnswer, E!ReadEnd, E!WriteStale, E!WriteNothing, E!Write,
           E!Chunks, E!Room, E!Prefix, E!Rest, E!Outside, E!KillClient,
           E!choiceVars, E!clientVars, E!connVars,
           L!ClientNext, L!TypeLine, L!Quit, L!EndOfInput, L!ClientRuns,
           L!ReadAnswer, L!ReadEnd, L!WriteStale, L!WriteNothing, L!Write,
           L!Chunks, L!Room, L!Prefix, L!Rest, L!Outside, L!KillClient,
           L!choiceVars, L!clientVars, L!connVars
  <2>3. CASE E!ServerRuns
    BY <2>1, <2>3
       DEF E!Next, E!ServerRuns, E!Serve, E!EndConnection, E!Outside, E!Chunks,
           E!Prefix, E!Rest, E!choiceVars, E!clientVars, Said,
           L!Serve, L!EndConnection, L!Outside, L!Chunks, L!Prefix, L!Rest,
           L!choiceVars, L!clientVars
  <2>4. CASE E!KillServer
    BY <2>1, <2>4
       DEF E!Next, E!KillServer, E!choiceVars, E!clientVars,
           L!KillServer, L!choiceVars, L!clientVars
  <2> QED
    BY <2>1, <2>2, <2>3, <2>4 DEF E!Next
<1>2. CASE OfCommand(C!Next)
  <2>1. program \in C!Programs /\ C!Next
    BY <1>2 DEF OfCommand
  <2>2. CASE C!ClientNext
    BY <2>1, <2>2
       DEF C!Next, C!ClientNext, C!TypeLine, C!Quit, C!EndOfInput, C!ClientRuns,
           C!ReadAnswer, C!ReadEnd, C!WriteStale, C!WriteNothing, C!Write,
           C!Chunks, C!Room, C!Prefix, C!Rest, C!Outside, C!KillClient,
           C!choiceVars, C!clientVars, C!connVars,
           L!ClientNext, L!TypeLine, L!Quit, L!EndOfInput, L!ClientRuns,
           L!ReadAnswer, L!ReadEnd, L!WriteStale, L!WriteNothing, L!Write,
           L!Chunks, L!Room, L!Prefix, L!Rest, L!Outside, L!KillClient,
           L!choiceVars, L!clientVars, L!connVars
  <2>3. CASE C!ServerRuns
    BY <2>1, <2>3
       DEF C!Next, C!ServerRuns, C!Serve, C!EndConnection, C!Outside, C!Chunks,
           C!Prefix, C!Rest, C!choiceVars, C!clientVars, Said,
           L!Serve, L!EndConnection, L!Outside, L!Chunks, L!Prefix, L!Rest,
           L!choiceVars, L!clientVars
  <2>4. CASE C!KillServer
    BY <2>1, <2>4
       DEF C!Next, C!KillServer, C!choiceVars, C!clientVars,
           L!KillServer, L!choiceVars, L!clientVars
  <2> QED
    BY <2>1, <2>2, <2>3, <2>4 DEF C!Next
<1>3. program \notin D!Programs /\ program \notin U!Programs
  BY DEF LinePrograms, E!Programs, C!Programs, D!Programs, U!Programs
<1> QED
  BY <1>1, <1>2, <1>3 DEF AnyNext, OfDrawing, OfUdp

-----------------------------------------------------------------------------
LineType ==
    /\ program \in LinePrograms /\ cut \in BOOLEAN
    /\ client \in {"typing", "waiting", "ended"}
    /\ stdin \in BOOLEAN /\ overrun \in BOOLEAN
    /\ server \in {"reading", "ended", "killed"}
    /\ asked \in Seq(Text) /\ Len(asked) <= MaxLines
    /\ shown \in Seq(Text)
    /\ \A k \in 1 .. Len(shown) : Len(shown[k]) <= Cap
    /\ toServer \in Text /\ toClient \in Text

(* While reads are not cut, the server lives and each line fits a buffer,  *)
(* at most one line, or the answer to it, is on its way, and it is the one *)
(* of the last question.                                                   *)
OneLine ==
    /\ Len(shown) <= Len(asked)
    /\ \A k \in 1 .. Len(shown) : shown[k] = Said(asked[k])
    /\ client = "typing" =>
            toServer = <<>> /\ toClient = <<>> /\ Len(shown) = Len(asked)
    /\ server = "ended" => client = "ended"
    /\ toServer # <<>> =>
            /\ toClient = <<>> /\ Len(asked) = Len(shown) + 1
            /\ toServer = asked[Len(asked)]
    /\ toClient # <<>> =>
            /\ Len(asked) = Len(shown) + 1 /\ asked[Len(asked)] # <<>>
            /\ toClient = Said(asked[Len(asked)])

Fit == \A k \in 1 .. Len(asked) : Len(asked[k]) <= Cap

Orderly == ~cut /\ server # "killed" /\ Fit => OneLine

(* The echoes are bytes that were written, in order; while the server runs *)
(* the others are on their way to it.                                      *)
Echoed ==
    LET returned == FlattenSeq(shown) \o toClient
    IN  /\ \E s \in Text : returned \o s = FlattenSeq(asked)
        /\ server = "reading" => returned \o toServer = FlattenSeq(asked)

Talk ==
    /\ LineType /\ Orderly /\ L!TerminatorInside
    /\ program \in E!Programs => Echoed

(* No line that was written is longer than a buffer, or leaves no place    *)
(* for its terminator.                                                     *)
LEMMA Fits ==
    ASSUME LineType, \A k \in 1 .. Len(asked) : ~(Len(asked[k]) >= Cap)
    PROVE  Fit /\ \A k \in 1 .. Len(asked) : Len(asked[k]) < Cap
<1>1. ASSUME NEW k \in 1 .. Len(asked) PROVE Len(asked[k]) < Cap
  <2>1. PICK a \in Nat : a = Len(asked)
    BY LenProperties DEF LineType
  <2>2. asked[k] \in Text
    BY <2>1, ElementOfSeq DEF LineType
  <2>3. PICK x \in Nat : x = Len(asked[k])
    BY <2>2, LenProperties DEF Text
  <2>4. ~(x >= Cap)
    BY <2>3
  <2> QED
    BY <2>3, <2>4, Sizes
<1>2. PICK a \in Nat : a = Len(asked)
  BY LenProperties DEF LineType
<1>3. ASSUME NEW k \in 1 .. Len(asked) PROVE Len(asked[k]) <= Cap
  <2>1. asked[k] \in Text
    BY <1>2, ElementOfSeq DEF LineType
  <2>2. PICK x \in Nat : x = Len(asked[k])
    BY <2>1, LenProperties DEF Text
  <2>3. x < Cap
    BY <1>1, <2>2
  <2> QED
    BY <2>2, <2>3, Sizes
<1> QED
  BY <1>1, <1>3 DEF Fit

(* What the user or, in week 2, the buffer offers as the next line.        *)
LEMMA WriteTalk ==
    ASSUME Talk, ~overrun, NEW l \in Text, L!Write(l), client = "typing",
           stdin' = stdin
    PROVE  Talk'
<1>1. PICK a \in Nat, b \in Nat : a = Len(asked) /\ b = Len(shown)
  BY LenProperties DEF Talk, LineType
<1>2. /\ a < MaxLines /\ asked' = Append(asked, l) /\ ~overrun' = ~overrun
      /\ program' = program /\ cut' = cut /\ shown' = shown
      /\ server' = server /\ toClient' = toClient /\ overrun' = overrun
      /\ toServer' = IF server = "reading" THEN toServer \o l ELSE toServer
      /\ \/ client' = "waiting"
         \/ server = "killed" /\ client' = "ended"
  BY <1>1 DEF L!Write, L!choiceVars
<1>3. /\ asked' \in Seq(Text) /\ Len(asked') = a + 1
      /\ \A k \in 1 .. a : asked'[k] = asked[k]
      /\ asked'[a + 1] = l
  BY <1>1, <1>2, AppendProperties DEF Talk, LineType
<1>4. toServer \o l \in Text /\ toServer' \in Text
  BY <1>2, ConcatProperties DEF Talk, LineType, Text
<1>5. LineType'
  BY <1>1, <1>2, <1>3, <1>4, Sizes DEF Talk, LineType, LinePrograms
<1>6. Orderly'
  <2>1. SUFFICES ASSUME ~cut, server # "killed", Fit' PROVE OneLine'
    BY <1>2 DEF Orderly
  <2>2. OneLine
    <3>1. \A k \in 1 .. a : k \in 1 .. a + 1
      OBVIOUS
    <3>2. Fit
      BY <1>1, <1>3, <2>1, <3>1 DEF Fit
    <3> QED
      BY <2>1, <3>2 DEF Talk, Orderly
  <2>3. /\ server = "reading" /\ toServer = <<>> /\ toClient = <<>> /\ a = b
        /\ client' = "waiting"
    BY <1>1, <1>2, <2>1, <2>2 DEF OneLine, Talk, LineType
  <2>4. toServer' = l
    BY <1>2, <2>3, ConcatEmptySeq DEF Text
  <2>5. \A k \in 1 .. b : shown'[k] = Said(asked[k])'
    <3>1. \A k \in 1 .. b : shown[k] = Said(asked[k]) /\ asked'[k] = asked[k]
      BY <1>1, <1>3, <2>2, <2>3 DEF OneLine
    <3> QED
      BY <1>2, <3>1 DEF Said, C!Answer, E!Echo
  <2> QED
    BY <1>1, <1>2, <1>3, <2>2, <2>3, <2>4, <2>5 DEF OneLine
<1>7. ASSUME program \in E!Programs PROVE Echoed'
  <2>1. /\ FlattenSeq(asked) \in Text /\ FlattenSeq(shown) \in Text
        /\ FlattenSeq(asked') = FlattenSeq(asked) \o l
    BY <1>2, FlatAppend DEF Talk, LineType, Text
  <2>2. PICK r \in Text : r = FlattenSeq(shown) \o toClient
    BY <2>1, ConcatProperties DEF Talk, LineType, Text
  <2>3. PICK s \in Text : r \o s = FlattenSeq(asked)
    BY <1>7, <2>2 DEF Talk, Echoed
  <2>4. r \o (s \o l) = FlattenSeq(asked') /\ s \o l \in Text
    <3>1. Triple(r, s, l)
      BY DEF Triple
    <3>2. s \o l \in Text /\ (r \o s) \o l = r \o (s \o l)
      BY <3>1, Joined
    <3> QED
      BY <2>1, <2>3, <3>2
  <2>5. server = "reading" => r \o toServer' = FlattenSeq(asked')
    <3>1. SUFFICES ASSUME server = "reading"
                   PROVE  r \o toServer' = FlattenSeq(asked')
      OBVIOUS
    <3>2. r \o toServer = FlattenSeq(asked)
      BY <1>7, <2>2, <3>1 DEF Talk, Echoed
    <3>3. r \o (toServer \o l) = (r \o toServer) \o l
      <4>1. Triple(r, toServer, l)
        BY DEF Talk, LineType, Triple
      <4> QED
        BY <4>1, Joined
    <3> QED
      BY <1>2, <2>1, <3>1, <3>2, <3>3
  <2> QED
    BY <1>2, <2>2, <2>4, <2>5 DEF Echoed
<1>8. L!TerminatorInside'
  BY <1>2 DEF L!TerminatorInside
<1> QED
  BY <1>2, <1>5, <1>6, <1>7, <1>8 DEF Talk

(* What the client does without writing or reading.                        *)
LEMMA IdleTalk ==
    ASSUME Talk, ~overrun,
           L!Quit \/ L!EndOfInput \/ L!KillClient \/ L!WriteNothing
    PROVE  Talk'
<1>1. /\ program' = program /\ cut' = cut /\ asked' = asked /\ shown' = shown
      /\ server' = server /\ toServer' = toServer /\ toClient' = toClient
      /\ overrun' = overrun /\ stdin' \in {stdin, FALSE}
      /\ \/ client' \in {client, "ended"}
         \/ client = "typing" /\ client' = "waiting"
  BY DEF L!Quit, L!EndOfInput, L!KillClient, L!WriteNothing, L!choiceVars,
         L!connVars
<1>2. LineType'
  BY <1>1 DEF Talk, LineType, LinePrograms
<1>3. Orderly'
  BY <1>1 DEF Talk, Orderly, OneLine, Fit, Said, C!Answer, E!Echo
<1>4. program \in E!Programs => Echoed'
  BY <1>1 DEF Talk, Echoed
<1>5. L!TerminatorInside'
  BY <1>1 DEF L!TerminatorInside
<1> QED
  BY <1>1, <1>2, <1>3, <1>4, <1>5 DEF Talk

LEMMA TypeTalk ==
    ASSUME Talk, ~overrun, L!TypeLine \/ L!WriteStale
    PROVE  Talk'
<1>1. PICK b \in Nat : b = Len(shown)
  BY LenProperties DEF Talk, LineType
<1>2. /\ client = "typing" /\ stdin' = stdin
      /\ \E l \in Text : L!Write(l)
  <2>1. CASE L!TypeLine
    <3>1. PICK l \in EchoLines \cup CommandLines : L!Write(l)
      BY <2>1 DEF L!TypeLine
    <3>2. l \in Text
      BY Sizes
    <3> QED
      BY <2>1, <3>1, <3>2 DEF L!TypeLine
  <2>2. CASE L!WriteStale /\ shown # <<>>
    <3>1. L!Write(shown[b]) /\ client = "typing" /\ stdin' = stdin
      BY <1>1, <2>2 DEF L!WriteStale
    <3>2. shown[b] \in Text
      <4>1. b # 0
        BY <1>1, <2>2, EmptySeq DEF Talk, LineType
      <4>2. b \in 1 .. b
        BY <4>1
      <4> QED
        BY <1>1, <4>2, ElementOfSeq DEF Talk, LineType
    <3> QED
      BY <3>1, <3>2
  <2>3. CASE L!WriteStale /\ shown = <<>>
    <3>1. PICK l \in Garbage : L!Write(l)
      BY <2>3 DEF L!WriteStale
    <3>2. l \in Text
      BY Sizes
    <3> QED
      BY <2>3, <3>1, <3>2 DEF L!WriteStale
  <2> QED
    BY <2>1, <2>2, <2>3
<1> QED
  BY <1>2, WriteTalk

(* A read of the client takes what is printed from its stream.             *)
LEMMA ReadTalk ==
    ASSUME Talk, ~overrun, L!ReadAnswer
    PROVE  Talk'
<1>1. PICK a \in Nat, b \in Nat, m \in Nat :
            a = Len(asked) /\ b = Len(shown) /\ m = Len(toClient)
  BY LenProperties DEF Talk, LineType, Text
<1>2. PICK n \in L!Chunks(toClient, L!Room) :
            /\ shown' = Append(shown, L!Prefix(toClient, n))
            /\ toClient' = L!Rest(toClient, n)
            /\ overrun' = L!Outside(n)
  BY DEF L!ReadAnswer
<1>3. /\ program' = program /\ cut' = cut /\ asked' = asked /\ stdin' = stdin
      /\ server' = server /\ toServer' = toServer
      /\ client = "waiting" /\ client' = "typing"
  BY DEF L!ReadAnswer, L!choiceVars
<1>4. /\ n \in 1 .. m /\ L!Room \in Nat /\ n <= L!Room /\ L!Room <= Cap
      /\ cut \/ n = L!Room \/ n = m
      /\ L!Room >= Cap - 1
  BY <1>1, Sizes DEF L!Chunks, L!Room
<1>5. PICK p \in Text, r \in Text :
            /\ p = L!Prefix(toClient, n) /\ r = L!Rest(toClient, n)
            /\ Len(p) = n /\ p \o r = toClient
            /\ n = m => p = toClient /\ r = <<>>
  <2>1. toClient \in Seq(Piece) /\ n \in 1 .. Len(toClient)
    BY <1>1, <1>4 DEF Talk, LineType, Text
  <2>2. /\ L!Prefix(toClient, n) \in Seq(Piece)
        /\ Len(L!Prefix(toClient, n)) = n
        /\ L!Rest(toClient, n) \in Seq(Piece)
        /\ L!Prefix(toClient, n) \o L!Rest(toClient, n) = toClient
        /\ n = Len(toClient) => /\ L!Prefix(toClient, n) = toClient
                                /\ L!Rest(toClient, n) = <<>>
    BY <2>1, Cut, Zenon
  <2> QED
    BY <1>1, <2>2, Zenon DEF Text
<1>6. /\ shown' \in Seq(Text) /\ Len(shown') = b + 1
      /\ \A k \in 1 .. b : shown'[k] = shown[k]
      /\ shown'[b + 1] = p
  BY <1>1, <1>2, <1>5, AppendProperties DEF Talk, LineType
<1>7. LineType'
  <2>1. \A k \in 1 .. b + 1 : Len(shown'[k]) <= Cap
    <3>1. ASSUME NEW k \in 1 .. b + 1 PROVE Len(shown'[k]) <= Cap
      <4>1. CASE k \in 1 .. b
        BY <1>1, <1>6, <4>1 DEF Talk, LineType
      <4>2. CASE k = b + 1
        BY <1>4, <1>5, <1>6, <4>2, Sizes
      <4> QED
        BY <4>1, <4>2
    <3> QED
      BY <3>1
  <2>2. overrun' \in BOOLEAN
    BY <1>2 DEF L!Outside
  <2> QED
    BY <1>2, <1>3, <1>5, <1>6, <2>1, <2>2 DEF Talk, LineType, LinePrograms
<1>10. ASSUME ~cut, server # "killed", Fit
       PROVE  /\ OneLine /\ a = b + 1 /\ asked[a] # <<>> /\ toServer = <<>>
              /\ toClient = Said(asked[a]) /\ n = m
              /\ IF program \in C!Programs THEN m <= 2 ELSE m = Len(asked[a])
  <2>1. OneLine
    BY <1>10 DEF Talk, Orderly
  <2>2. toClient # <<>>
    <3>1. m # 0
      BY <1>4
    <3> QED
      BY <1>1, <3>1, EmptySeq
  <2>3. /\ a = b + 1 /\ toClient = Said(asked[a]) /\ toServer = <<>>
        /\ asked[a] # <<>>
    BY <1>1, <2>1, <2>2 DEF OneLine
  <2>4. asked[a] \in Text /\ a \in 1 .. a
    <3>1. a \in 1 .. a
      BY <2>3
    <3> QED
      BY <1>1, <3>1, ElementOfSeq DEF Talk, LineType
  <2>5. IF program \in C!Programs THEN m <= 2 ELSE m = Len(asked[a])
    BY <1>1, <2>3, <2>4, SaidType
  <2>6. n = m
    <3>1. CASE program \in C!Programs
      BY <1>4, <1>10, <2>5, <3>1, Sizes
    <3>2. CASE program \notin C!Programs
      <4>1. L!Room = Cap
        BY <3>2 DEF L!Room, C!Programs
      <4>2. m <= Cap
        BY <1>1, <1>10, <2>4, <2>5, <3>2 DEF Fit
      <4> QED
        BY <1>4, <1>10, <4>1, <4>2, Sizes
    <3> QED
      BY <3>1, <3>2
  <2> QED
    BY <2>1, <2>3, <2>5, <2>6
<1>8. Orderly'
  <2>1. SUFFICES ASSUME ~cut, server # "killed", Fit PROVE OneLine'
    BY <1>3 DEF Orderly, Fit
  <2>2. OneLine
    BY <1>10, <2>1
  <2>4. /\ a = b + 1 /\ toClient = Said(asked[a]) /\ toServer = <<>>
        /\ asked[a] # <<>> /\ n = m
    BY <1>10, <2>1
  <2>7. p = Said(asked[a]) /\ toClient' = <<>>
    BY <1>2, <1>5, <2>4
  <2>9. \A k \in 1 .. b + 1 : shown'[k] = Said(asked[k])'
    <3>1. ASSUME NEW k \in 1 .. b + 1 PROVE shown'[k] = Said(asked[k])
      <4>1. CASE k \in 1 .. b
        BY <1>1, <1>6, <2>2, <4>1 DEF OneLine
      <4>2. CASE k = b + 1
        BY <1>6, <2>4, <2>7, <4>2
      <4> QED
        BY <4>1, <4>2
    <3> QED
      BY <1>3, <3>1 DEF Said, C!Answer, E!Echo
  <2> QED
    BY <1>1, <1>3, <1>6, <2>2, <2>4, <2>7, <2>9 DEF OneLine
<1>9. ASSUME program \in E!Programs PROVE Echoed'
  <2>1. /\ FlattenSeq(shown) \in Text
        /\ FlattenSeq(shown') = FlattenSeq(shown) \o p
    BY <1>2, <1>5, FlatAppend DEF Talk, LineType, Text
  <2>2. PICK f \in Text : f = FlattenSeq(shown)
    BY <2>1
  <2>3. Triple(f, p, r)
    BY DEF Triple
  <2>4. (f \o p) \o r = f \o toClient
    <3>1. (f \o p) \o r = f \o (p \o r)
      BY <2>3, Joined
    <3> QED
      BY <1>5, <3>1
  <2> QED
    BY <1>2, <1>3, <1>5, <1>9, <2>1, <2>2, <2>4 DEF Talk, Echoed
<1>11. L!TerminatorInside'
  <2>1. SUFFICES ASSUME ~cut, server # "killed",
                        \A k \in 1 .. Len(asked) : ~(Len(asked[k]) >= Cap)
                 PROVE  ~overrun'
    BY <1>3 DEF L!TerminatorInside
  <2>2. Fit /\ \A k \in 1 .. a : Len(asked[k]) < Cap
    BY <1>1, <2>1, Fits DEF Talk
  <2>3. /\ a = b + 1 /\ n = m
        /\ IF program \in C!Programs THEN m <= 2 ELSE m = Len(asked[a])
    BY <1>10, <2>1, <2>2
  <2>4. m < Cap
    <3>1. a \in 1 .. a
      BY <2>3
    <3> QED
      BY <2>2, <2>3, <3>1, Sizes
  <2>5. n \in 0 .. Cap - 1
    BY <1>4, <2>3, <2>4, Sizes
  <2>6. ~L!Outside(n)
    BY <2>5 DEF L!Outside
  <2> QED
    BY <1>2, <2>6, Zenon
<1> QED
  BY <1>3, <1>7, <1>8, <1>9, <1>11 DEF Talk

(* The server is gone: nothing is answered any more.                       *)
LEMMA ReadEndTalk ==
    ASSUME Talk, L!ReadEnd
    PROVE  Talk'
<1>1. PICK b \in Nat : b = Len(shown)
  BY LenProperties DEF Talk, LineType
<1>2. /\ program' = program /\ cut' = cut /\ asked' = asked /\ stdin' = stdin
      /\ server' = server /\ server = "killed"
      /\ toServer' = toServer /\ toClient' = toClient
      /\ client' \in {"ended", "typing"} /\ overrun' \in {overrun, TRUE, FALSE}
      /\ shown' = shown \/ shown' = Append(shown, <<>>)
  BY DEF L!ReadEnd, L!choiceVars, L!connVars
<1>3. /\ shown' \in Seq(Text)
      /\ \A k \in 1 .. Len(shown') : Len(shown'[k]) <= Cap
      /\ FlattenSeq(shown') = FlattenSeq(shown)
  <2>1. CASE shown' = shown
    BY <2>1 DEF Talk, LineType
  <2>2. CASE shown' = Append(shown, <<>>)
    <3>1. <<>> \in Text /\ Len(<<>>) = 0
      BY EmptySeq DEF Text
    <3>2. /\ shown' \in Seq(Text) /\ Len(shown') = b + 1
          /\ \A k \in 1 .. b : shown'[k] = shown[k]
          /\ shown'[b + 1] = <<>>
      BY <1>1, <2>2, <3>1, AppendProperties DEF Talk, LineType
    <3>3. ASSUME NEW k \in 1 .. b + 1 PROVE Len(shown'[k]) <= Cap
      <4>1. CASE k \in 1 .. b
        BY <1>1, <3>2, <4>1 DEF Talk, LineType
      <4>2. CASE k = b + 1
        BY <3>1, <3>2, <4>2, Sizes
      <4> QED
        BY <4>1, <4>2
    <3>4. /\ FlattenSeq(shown) \in Text
          /\ FlattenSeq(shown') = FlattenSeq(shown) \o <<>>
      BY <2>2, <3>1, FlatAppend DEF Talk, LineType, Text
    <3>5. PICK f \in Text : f = FlattenSeq(shown)
      BY <3>4
    <3>6. Triple(f, f, f)
      BY DEF Triple
    <3>7. f \o <<>> = f
      BY <3>6, Joined
    <3> QED
      BY <3>2, <3>3, <3>4, <3>5, <3>7
  <2> QED
    BY <1>2, <2>1, <2>2
<1>4. LineType'
  BY <1>2, <1>3 DEF Talk, LineType, LinePrograms
<1>5. Orderly'
  BY <1>2 DEF Orderly
<1>6. ASSUME program \in E!Programs PROVE Echoed'
  BY <1>2, <1>3, <1>6 DEF Talk, Echoed
<1>7. L!TerminatorInside'
  BY <1>2 DEF L!TerminatorInside
<1> QED
  BY <1>2, <1>4, <1>5, <1>6, <1>7 DEF Talk

(* Who is asked, and what, does not change what is said.                   *)
LEMMA SaidSame ==
    ASSUME program' = program, asked' = asked
    PROVE  \A k \in 1 .. Len(asked) : Said(asked[k])' = Said(asked[k])
BY DEF Said, C!Answer, E!Echo

(* A turn of the server: what it read is answered at once.                 *)
LEMMA ServeTalk ==
    ASSUME Talk, ~overrun, NEW n \in L!Chunks(toServer, Cap),
           L!Serve(n, Said(L!Prefix(toServer, n)))
    PROVE  Talk'
<1>1. PICK a \in Nat, b \in Nat, m \in Nat :
            a = Len(asked) /\ b = Len(shown) /\ m = Len(toServer)
  BY LenProperties DEF Talk, LineType, Text
<1>2. n \in 1 .. m /\ n <= Cap /\ (cut \/ n = Cap \/ n = m)
  BY <1>1 DEF L!Chunks
<1>3. PICK p \in Text, r \in Text :
            /\ p = L!Prefix(toServer, n) /\ r = L!Rest(toServer, n)
            /\ Len(p) = n /\ p \o r = toServer
            /\ n = m => p = toServer /\ r = <<>>
  <2>1. toServer \in Seq(Piece) /\ n \in 1 .. Len(toServer)
    BY <1>1, <1>2 DEF Talk, LineType, Text
  <2>2. /\ L!Prefix(toServer, n) \in Seq(Piece)
        /\ Len(L!Prefix(toServer, n)) = n
        /\ L!Rest(toServer, n) \in Seq(Piece)
        /\ L!Prefix(toServer, n) \o L!Rest(toServer, n) = toServer
        /\ n = Len(toServer) => /\ L!Prefix(toServer, n) = toServer
                                /\ L!Rest(toServer, n) = <<>>
    BY <2>1, Cut, Zenon
  <2> QED
    BY <1>1, <2>2, Zenon DEF Text
<1>4. p # <<>> /\ toServer # <<>>
  <2>1. Len(p) # 0 /\ m # 0
    BY <1>2, <1>3
  <2> QED
    BY <1>1, <2>1, EmptySeq
<1>5. Said(p) \in Text /\ (program \notin C!Programs => Said(p) = p)
  BY <1>4, SaidType
<1>6. PICK t \in Text : t = Said(p)
  BY <1>5
<1>7. /\ program' = program /\ cut' = cut /\ asked' = asked /\ stdin' = stdin
      /\ shown' = shown /\ client' = client
      /\ toServer' = r /\ toClient' = toClient \o t /\ overrun' = L!Outside(n)
      /\ server = "reading"
      /\ \/ server' = server
         \/ client = "ended" /\ server' = "ended"
  BY <1>3, <1>6 DEF L!Serve, L!choiceVars, L!clientVars
<1>8. Triple(toClient, t, r)
  BY DEF Talk, LineType, Triple
<1>9. toClient \o t \in Text
  BY <1>8, Joined
<1>10. LineType'
  <2>1. overrun' \in BOOLEAN
    BY <1>7 DEF L!Outside
  <2> QED
    BY <1>7, <1>9, <2>1 DEF Talk, LineType, LinePrograms
<1>13. ASSUME ~cut, Fit
       PROVE  /\ OneLine /\ toClient = <<>> /\ a = b + 1 /\ toServer = asked[a]
              /\ client # "typing" /\ n = m /\ m = Len(asked[a])
  <2>1. OneLine
    BY <1>7, <1>13 DEF Talk, Orderly
  <2>2. /\ toClient = <<>> /\ a = b + 1 /\ toServer = asked[a]
        /\ client # "typing"
    BY <1>1, <1>4, <2>1 DEF OneLine
  <2>3. m <= Cap
    <3>1. a \in 1 .. a
      BY <2>2
    <3> QED
      BY <1>1, <1>13, <2>2, <3>1 DEF Fit
  <2>4. n = m
    BY <1>2, <1>13, <2>3, Sizes
  <2> QED
    BY <1>1, <2>1, <2>2, <2>4
<1>11. Orderly'
  <2>1. SUFFICES ASSUME ~cut, Fit PROVE OneLine'
    BY <1>7 DEF Orderly, Fit
  <2>2. OneLine
    BY <1>13, <2>1
  <2>3. /\ toClient = <<>> /\ a = b + 1 /\ toServer = asked[a]
        /\ client # "typing"
    BY <1>13, <2>1
  <2>5. n = m
    BY <1>13, <2>1
  <2>6. r = <<>> /\ p = asked[a] /\ t = Said(asked[a])
    BY <1>3, <1>6, <2>3, <2>5
  <2>7. toClient' = t
    <3>1. <<>> \o t = t
      BY ConcatEmptySeq DEF Text
    <3> QED
      BY <1>7, <2>3, <3>1
  <2>9. \A k \in 1 .. a : Said(asked[k])' = Said(asked[k])
    BY <1>1, <1>7, SaidSame
  <2>10. asked[a] # <<>>
    BY <1>4, <2>3
  <2>11. \A k \in 1 .. b : k \in 1 .. a
    BY <2>3
  <2> QED
    BY <1>1, <1>7, <2>2, <2>3, <2>6, <2>7, <2>9, <2>10, <2>11 DEF OneLine
<1>12. ASSUME program \in E!Programs PROVE Echoed'
  <2>1. program \notin C!Programs /\ t = p
    BY <1>5, <1>6, <1>12 DEF E!Programs, C!Programs
  <2>2. PICK f \in Text : f = FlattenSeq(shown)
    BY FlatAppend, EmptySeq DEF Talk, LineType, Text
  <2>3. Triple(f, toClient, p)
    BY DEF Talk, LineType, Triple
  <2>4. PICK w \in Text : w = f \o toClient
    BY <2>3, Joined
  <2>5. Triple(w, p, r)
    BY DEF Triple
  <2>6. f \o (toClient \o p) = w \o p
    BY <2>3, <2>4, Joined
  <2>7. (w \o p) \o r = w \o (p \o r)
    BY <2>5, Joined
  <2>8. w \o toServer = FlattenSeq(asked)
    BY <1>7, <1>12, <2>2, <2>4 DEF Talk, Echoed
  <2>9. (w \o p) \o r = FlattenSeq(asked)
    BY <1>3, <2>7, <2>8
  <2> QED
    BY <1>7, <2>1, <2>2, <2>6, <2>9 DEF Echoed
<1>14. L!TerminatorInside'
  <2>1. SUFFICES ASSUME ~cut,
                        \A k \in 1 .. Len(asked) : ~(Len(asked[k]) >= Cap)
                 PROVE  ~overrun'
    BY <1>7 DEF L!TerminatorInside
  <2>2. Fit /\ \A k \in 1 .. a : Len(asked[k]) < Cap
    BY <1>1, <2>1, Fits DEF Talk
  <2>3. a = b + 1 /\ n = m /\ m = Len(asked[a])
    BY <1>13, <2>1, <2>2
  <2>4. m < Cap
    <3>1. a \in 1 .. a
      BY <2>3
    <3> QED
      BY <2>2, <2>3, <3>1
  <2>5. n \in 0 .. Cap - 1
    BY <1>2, <2>3, <2>4, Sizes
  <2>6. ~L!Outside(n)
    BY <2>5 DEF L!Outside
  <2> QED
    BY <1>7, <2>6, Zenon
<1> QED
  BY <1>7, <1>10, <1>11, <1>12, <1>14 DEF Talk

(* The connection ends, or the server.                                     *)
LEMMA EndTalk ==
    ASSUME Talk, ~overrun, L!EndConnection \/ L!KillServer
    PROVE  Talk'
<1>1. /\ program' = program /\ cut' = cut /\ asked' = asked /\ stdin' = stdin
      /\ shown' = shown /\ client' = client /\ toClient' = toClient
      /\ server' \in {"ended", "killed"} /\ overrun' \in BOOLEAN
      /\ toServer' \in {toServer, <<>>}
      /\ server' = "ended" =>
            /\ client = "ended" /\ toServer' = toServer /\ server = "reading"
            /\ overrun' => program = "c2" /\ toClient # <<>>
  <2>1. CASE L!EndConnection
    <3>1. /\ server' = "ended" /\ client = "ended" /\ server = "reading"
          /\ overrun' = (program = "c2" /\ toClient # <<>>)
          /\ program' = program /\ cut' = cut /\ asked' = asked
          /\ stdin' = stdin /\ shown' = shown /\ client' = client
          /\ toClient' = toClient /\ toServer' = toServer
      BY <2>1 DEF L!EndConnection, L!choiceVars, L!clientVars
    <3>2. overrun' \in BOOLEAN /\ (overrun' => program = "c2" /\ toClient # <<>>)
      BY <3>1
    <3> QED
      BY <3>1, <3>2
  <2>2. CASE L!KillServer
    <3>1. /\ server' = "killed" /\ toServer' = <<>> /\ overrun' = overrun
          /\ program' = program /\ cut' = cut /\ asked' = asked
          /\ stdin' = stdin /\ shown' = shown /\ client' = client
          /\ toClient' = toClient
      BY <2>2 DEF L!KillServer, L!choiceVars, L!clientVars
    <3>2. overrun' \in BOOLEAN
      BY <3>1, Zenon DEF Talk, LineType
    <3> QED
      BY <3>1, <3>2
  <2> QED
    BY <2>1, <2>2
<1>2. LineType'
  <2>1. toServer' \in Text
    BY <1>1, EmptySeq DEF Talk, LineType, Text
  <2> QED
    BY <1>1, <2>1 DEF Talk, LineType, LinePrograms
<1>3. Orderly'
  <2>1. SUFFICES ASSUME ~cut, server' = "ended", Fit PROVE OneLine'
    BY <1>1 DEF Orderly, Fit
  <2>2. OneLine
    BY <1>1, <2>1 DEF Talk, Orderly
  <2>4. \A k \in 1 .. Len(asked) : Said(asked[k])' = Said(asked[k])
    BY <1>1, SaidSame
  <2>5. PICK a \in Nat, b \in Nat : a = Len(asked) /\ b = Len(shown)
    BY LenProperties DEF Talk, LineType
  <2>6. b <= a /\ \A k \in 1 .. b : shown[k] = Said(asked[k])
    BY <2>2, <2>5 DEF OneLine
  <2>7. \A k \in 1 .. b : shown[k] = Said(asked[k])'
    BY <2>4, <2>5, <2>6
  <2> QED
    <3>1. toClient # <<>> => /\ a = b + 1 /\ asked[a] # <<>>
                             /\ toClient = Said(asked[a])'
      <4>1. SUFFICES ASSUME toClient # <<>>
                     PROVE  /\ a = b + 1 /\ asked[a] # <<>>
                            /\ toClient = Said(asked[a])'
        OBVIOUS
      <4>2. /\ a = b + 1 /\ asked[a] # <<>> /\ toClient = Said(asked[a])
            /\ a \in 1 .. a
        BY <2>2, <2>5, <4>1 DEF OneLine
      <4> QED
        BY <2>4, <2>5, <4>2
    <3>2. toServer # <<>> => /\ toClient = <<>> /\ a = b + 1
                             /\ toServer = asked[a]
      BY <2>2, <2>5 DEF OneLine
    <3> QED
      BY <1>1, <2>1, <2>5, <2>6, <2>7, <3>1, <3>2 DEF OneLine
<1>4. ASSUME program \in E!Programs PROVE Echoed'
  BY <1>1, <1>4 DEF Talk, Echoed
<1>5. L!TerminatorInside'
  <2>1. SUFFICES ASSUME ~cut, server' # "killed", overrun',
                        \A k \in 1 .. Len(asked) : ~(Len(asked[k]) >= Cap)
                 PROVE  /\ program = "c2" /\ client = "ended"
                        /\ Len(shown) < Len(asked)
    BY <1>1 DEF L!TerminatorInside
  <2>2. /\ server = "reading" /\ client = "ended" /\ program = "c2"
        /\ toClient # <<>>
    BY <1>1, <2>1
  <2>3. OneLine
    BY <2>1, <2>2, Fits DEF Talk, Orderly
  <2>4. PICK a \in Nat, b \in Nat : a = Len(asked) /\ b = Len(shown)
    BY LenProperties DEF Talk, LineType
  <2>5. a = b + 1
    BY <2>2, <2>3, <2>4 DEF OneLine
  <2> QED
    BY <2>2, <2>4, <2>5
<1> QED
  BY <1>1, <1>2, <1>3, <1>4, <1>5 DEF Talk

LEMMA NextTalk ==
    ASSUME Talk, AnyNext
    PROVE  Talk'
<1>1. /\ ~overrun
      /\ \/ L!ClientNext
         \/ \E n \in L!Chunks(toServer, Cap) :
               L!Serve(n, Said(L!Prefix(toServer, n)))
         \/ L!EndConnection
         \/ L!KillServer
  BY LineStep DEF Talk, LineType
<1> QED
  BY <1>1, TypeTalk, IdleTalk, ReadTalk, ReadEndTalk, ServeTalk, EndTalk
     DEF L!ClientNext, L!ClientRuns

LEMMA InitTalk ==
    ASSUME AnyInit, program \in LinePrograms
    PROVE  Talk
<1>1. /\ cut \in BOOLEAN /\ client = "typing" /\ stdin = TRUE
      /\ asked = <<>> /\ shown = <<>> /\ server = "reading"
      /\ toServer = <<>> /\ toClient = <<>> /\ overrun = FALSE
  BY DEF AnyInit, E!Init, LinePrograms, E!Programs, C!Programs, D!Programs,
         U!Programs
<1>2. <<>> \in Text /\ <<>> \in Seq(Text) /\ Len(<<>>) = 0
  BY EmptySeq DEF Text
<1>3. FlattenSeq(<<>>) = <<>> /\ <<>> \o <<>> = <<>>
  <2>1. FlattenSeq(<<>>) = <<>>
    BY <1>2 DEF FlattenSeq
  <2>2. Triple(<<>>, <<>>, <<>>)
    BY <1>2 DEF Triple
  <2> QED
    BY <2>1, <2>2, Joined
<1>4. LineType
  <2>1. stdin \in BOOLEAN /\ overrun \in BOOLEAN
    BY <1>1
  <2>2. Len(asked) <= MaxLines
    BY <1>1, <1>2, Sizes
  <2>3. \A k \in 1 .. Len(shown) : Len(shown[k]) <= Cap
    BY <1>1, <1>2
  <2> QED
    BY <1>1, <1>2, <2>1, <2>2, <2>3 DEF LineType
<1>5. Orderly
  BY <1>1, <1>2 DEF Orderly, OneLine
<1>6. Echoed
  BY <1>1, <1>2, <1>3 DEF Echoed
<1>7. L!TerminatorInside
  BY <1>1 DEF L!TerminatorInside
<1> QED
  BY <1>4, <1>5, <1>6, <1>7 DEF Talk

(* What Talk says of the checked properties.                               *)
LEMMA TalkProperties ==
    ASSUME Talk
    PROVE  /\ E!LineTypeOK
           /\ program \in E!Programs => E!EchoIntegrity /\ E!InStep(asked)
           /\ program \in C!Programs => C!InStep(C!Expected)
           /\ E!TerminatorInside
<1>1. E!LineTypeOK
  BY DEF Talk, LineType, E!LineTypeOK
<1>2. PICK a \in Nat, b \in Nat : a = Len(asked) /\ b = Len(shown)
  BY LenProperties DEF Talk, LineType
<1>3. DOMAIN asked = 1 .. a
  BY <1>2, LenProperties DEF Talk, LineType
<1>4. E!TerminatorInside
  BY DEF Talk, L!TerminatorInside, E!TerminatorInside
<1>5. ASSUME ~cut, server # "killed", Fit
      PROVE  b <= a /\ \A k \in 1 .. b : shown[k] = Said(asked[k])
  BY <1>2, <1>5 DEF Talk, Orderly, OneLine
<1>6. ASSUME program \in C!Programs PROVE C!InStep(C!Expected)
  <2>1. SUFFICES ASSUME ~cut, server # "killed", Fit, NEW k \in 1 .. b
                 PROVE  shown[k] = C!Expected[k]
    BY <1>2 DEF C!InStep, Fit
  <2>2. k \in 1 .. a /\ shown[k] = Said(asked[k])
    BY <1>5, <2>1
  <2>3. C!Expected[k] = C!Answer(asked[k])
    BY <1>3, <2>2 DEF C!Expected
  <2> QED
    BY <1>6, <2>2, <2>3 DEF Said
<1>7. ASSUME program \in E!Programs PROVE E!InStep(asked) /\ E!EchoIntegrity
  <2>1. program \notin C!Programs
    BY <1>7 DEF E!Programs, C!Programs
  <2>2. E!InStep(asked)
    BY <1>2, <1>5, <2>1 DEF E!InStep, Fit, Said, E!Echo
  <2>3. PICK w : w = FlattenSeq(shown) \o toClient
    OBVIOUS
  <2>4. PICK s \in Text : w \o s = FlattenSeq(asked)
    BY <1>7, <2>3 DEF Talk, Echoed
  <2>5. w \in Seq(Piece)
    <3>1. FlattenSeq(shown) \in Text
      BY FlatAppend, EmptySeq DEF Talk, LineType, Text
    <3>2. Triple(FlattenSeq(shown), toClient, toClient)
      BY <3>1 DEF Talk, LineType, Triple
    <3> QED
      BY <2>3, <3>2, Joined DEF Text
  <2>6. IsPrefix(w, w \o s)
    <3>1. PICK x \in Nat, y \in Nat : x = Len(w) /\ y = Len(s)
      BY <2>5, LenProperties DEF Text
    <3>2. PICK v \in Seq(Piece) : /\ v = w \o s /\ Len(v) = x + y
                                  /\ \A i \in 1 .. x : v[i] = w[i]
      <4>1. /\ w \o s \in Seq(Piece) /\ Len(w \o s) = Len(w) + Len(s)
            /\ \A i \in 1 .. Len(w) + Len(s) :
                 (w \o s)[i] = IF i <= Len(w) THEN w[i] ELSE s[i - Len(w)]
        BY <2>5, ConcatProperties DEF Text
      <4>2. PICK v : v = w \o s
        OBVIOUS
      <4>3. /\ v \in Seq(Piece) /\ Len(v) = x + y
            /\ \A i \in 1 .. x + y : v[i] = IF i <= x THEN w[i] ELSE s[i - x]
        BY <3>1, <4>1, <4>2, Zenon
      <4>4. \A i \in 1 .. x : v[i] = w[i]
        BY <4>3
      <4> QED
        BY <4>2, <4>3, <4>4
    <3>3. /\ SubSeq(w, 1, x) \in Seq(Piece) /\ Len(SubSeq(w, 1, x)) = x
          /\ \A i \in 1 .. x : SubSeq(w, 1, x)[i] = w[i]
      <4>1. \A i \in 1 .. x : w[i] \in Piece
        BY <2>5, <3>1, ElementOfSeq
      <4>2. SubSeq(w, 1, x) = w
        BY <2>5, <3>1, SubSeqFull
      <4> QED
        BY <2>5, <3>1, <4>2
    <3>4. /\ SubSeq(v, 1, x) \in Seq(Piece) /\ Len(SubSeq(v, 1, x)) = x
          /\ \A i \in 1 .. x : SubSeq(v, 1, x)[i] = v[i]
      <4>1. \A i \in 1 .. x : v[i] \in Piece
        BY <3>2, ElementOfSeq
      <4>2. /\ SubSeq(v, 1, x) \in Seq(Piece)
            /\ Len(SubSeq(v, 1, x)) = IF 1 <= x THEN x - 1 + 1 ELSE 0
            /\ \A i \in 1 .. x - 1 + 1 : SubSeq(v, 1, x)[i] = v[1 + i - 1]
        BY <4>1, SubSeqProperties
      <4> QED
        BY <4>2
    <3>5. SubSeq(w, 1, x) = SubSeq(v, 1, x)
      <4>1. PICK g \in Seq(Piece), h \in Seq(Piece) :
                /\ g = SubSeq(w, 1, x) /\ h = SubSeq(v, 1, x)
                /\ Len(g) = x /\ Len(h) = x
                /\ \A i \in 1 .. x : g[i] = h[i]
        BY <3>2, <3>3, <3>4
      <4>2. g = h
        BY <4>1, SeqEqual
      <4> QED
        BY <4>1, <4>2
    <3> QED
      BY <3>1, <3>2, <3>5 DEF IsPrefix
  <2>7. \A u : E!FlattenSeq(u) = FlattenSeq(u)
    BY Zenon DEF FlattenSeq, E!FlattenSeq
  <2>8. E!IsPrefix(w, FlattenSeq(asked))
    BY <2>4, <2>6 DEF IsPrefix, E!IsPrefix
  <2>9. server = "reading" => w \o toServer = FlattenSeq(asked)
    BY <1>7, <2>3 DEF Talk, Echoed
  <2> QED
    BY <2>2, <2>3, <2>7, <2>8, <2>9, Zenon DEF E!EchoIntegrity
<1> QED
  BY <1>1, <1>4, <1>6, <1>7

-----------------------------------------------------------------------------
(* The datagrams of a queue q: where those of p are, how many they are,    *)
(* and their numbers.                                                      *)
Data == Peers \X (1 .. MaxQuestions)
From(q, p) == {i \in 1 .. Len(q) : q[i][1] = p}
Pending(q, p) == Cardinality(From(q, p))
Numbers(q, p) == {q[i][2] : i \in From(q, p)}
Elements(s) == {s[i] : i \in 1 .. Len(s)}

LEMMA Removed ==
    ASSUME NEW S, NEW s \in Seq(S), NEW i \in 1 .. Len(s)
    PROVE  /\ U!RemoveAt(s, i) \in Seq(S)
           /\ Len(U!RemoveAt(s, i)) = Len(s) - 1
           /\ \A k \in 1 .. Len(s) - 1 :
                 U!RemoveAt(s, i)[k] = IF k < i THEN s[k] ELSE s[k + 1]
<1>1. PICK n \in Nat : n = Len(s) /\ i \in 1 .. n
  BY LenProperties
<1>2. \A k \in 1 .. n : s[k] \in S
  BY <1>1, ElementOfSeq
<1>3. PICK l \in Seq(S) :
            /\ l = SubSeq(s, 1, i - 1) /\ Len(l) = i - 1
            /\ \A k \in 1 .. i - 1 : l[k] = s[k]
  <2>1. /\ SubSeq(s, 1, i - 1) \in Seq(S)
        /\ Len(SubSeq(s, 1, i - 1)) = IF 1 <= i - 1 THEN i - 1 - 1 + 1 ELSE 0
        /\ \A k \in 1 .. i - 1 - 1 + 1 : SubSeq(s, 1, i - 1)[k] = s[1 + k - 1]
    <3>1. \A k \in 1 .. i - 1 : s[k] \in S
      BY <1>1, <1>2
    <3> QED
      BY <1>1, <3>1, SubSeqProperties
  <2>2. PICK l : l = SubSeq(s, 1, i - 1)
    OBVIOUS
  <2>3. /\ l \in Seq(S) /\ Len(l) = i - 1
        /\ \A k \in 1 .. i - 1 : l[k] = s[k]
    BY <1>1, <2>1, <2>2
  <2> QED
    BY <2>2, <2>3
<1>4. PICK r \in Seq(S) :
            /\ r = SubSeq(s, i + 1, n) /\ Len(r) = n - i
            /\ \A k \in 1 .. n - i : r[k] = s[i + k]
  <2>1. /\ SubSeq(s, i + 1, n) \in Seq(S)
        /\ Len(SubSeq(s, i + 1, n))
                = IF i + 1 <= n THEN n - (i + 1) + 1 ELSE 0
        /\ \A k \in 1 .. n - (i + 1) + 1 :
                SubSeq(s, i + 1, n)[k] = s[i + 1 + k - 1]
    <3>1. \A k \in i + 1 .. n : s[k] \in S
      BY <1>1, <1>2
    <3> QED
      BY <1>1, <3>1, SubSeqProperties
  <2>2. PICK r : r = SubSeq(s, i + 1, n)
    OBVIOUS
  <2>3. /\ r \in Seq(S) /\ Len(r) = n - i
        /\ \A k \in 1 .. n - i : r[k] = s[i + k]
    BY <1>1, <2>1, <2>2
  <2> QED
    BY <2>2, <2>3
<1>5. U!RemoveAt(s, i) = l \o r
  BY <1>1, <1>3, <1>4 DEF U!RemoveAt
<1>6. /\ l \o r \in Seq(S) /\ Len(l \o r) = Len(l) + Len(r)
      /\ \A k \in 1 .. Len(l) + Len(r) :
            (l \o r)[k] = IF k <= Len(l) THEN l[k] ELSE r[k - Len(l)]
  BY ConcatProperties
<1>7. PICK t : t = l \o r
  OBVIOUS
<1>8. /\ t \in Seq(S) /\ Len(t) = n - 1
      /\ \A k \in 1 .. n - 1 : t[k] = IF k <= i - 1 THEN l[k] ELSE r[k - (i - 1)]
  <2>1. /\ Len(t) = (i - 1) + (n - i)
        /\ \A k \in 1 .. (i - 1) + (n - i) :
                t[k] = IF k <= i - 1 THEN l[k] ELSE r[k - (i - 1)]
    BY <1>3, <1>4, <1>6, <1>7, Zenon
  <2>2. (i - 1) + (n - i) = n - 1
    BY <1>1
  <2> QED
    BY <1>6, <1>7, <2>1, <2>2
<1>9. ASSUME NEW k \in 1 .. n - 1
      PROVE  t[k] = IF k < i THEN s[k] ELSE s[k + 1]
  <2>1. CASE k < i
    <3>1. k \in 1 .. i - 1 /\ k <= i - 1
      BY <1>1, <2>1
    <3> QED
      BY <1>3, <1>8, <2>1, <3>1
  <2>2. CASE ~(k < i)
    <3>1. k - (i - 1) \in 1 .. n - i /\ ~(k <= i - 1) /\ i + (k - (i - 1)) = k + 1
      BY <1>1, <2>2
    <3> QED
      BY <1>4, <1>8, <2>2, <3>1
  <2> QED
    BY <2>1, <2>2
<1> QED
  BY <1>1, <1>5, <1>7, <1>8, <1>9

LEMMA FromFinite ==
    ASSUME NEW q \in Seq(Data), NEW p
    PROVE  IsFiniteSet(From(q, p)) /\ Pending(q, p) \in Nat
<1>1. Len(q) \in Int /\ 1 \in Int
  BY LenProperties
<1>2. IsFiniteSet(1 .. Len(q))
  BY <1>1, FS_Interval
<1>3. From(q, p) \in SUBSET (1 .. Len(q))
  BY DEF From
<1>4. IsFiniteSet(From(q, p))
  BY <1>2, <1>3, FS_Subset
<1> QED
  BY <1>4, FS_CardinalityType DEF Pending

(* One datagram less.                                                      *)
LEMMA QueueDrop ==
    ASSUME NEW q \in Seq(Data), NEW i \in 1 .. Len(q), NEW p
    PROVE  /\ Numbers(U!RemoveAt(q, i), p) \subseteq Numbers(q, p)
           /\ Pending(U!RemoveAt(q, i), p)
                <= Pending(q, p) - (IF q[i][1] = p THEN 1 ELSE 0)
<1>1. PICK n \in Nat : n = Len(q) /\ i \in 1 .. n
  BY LenProperties
<1>2. PICK t \in Seq(Data) :
            /\ t = U!RemoveAt(q, i) /\ Len(t) = n - 1
            /\ \A k \in 1 .. n - 1 : t[k] = IF k < i THEN q[k] ELSE q[k + 1]
  BY <1>1, Removed
<1> DEFINE f == [k \in From(t, p) |-> IF k < i THEN k ELSE k + 1]
<1>3. ASSUME NEW k \in From(t, p)
      PROVE  /\ k \in 1 .. n - 1 /\ f[k] \in From(q, p) \ {i}
             /\ t[k] = q[f[k]]
  <2>1. k \in 1 .. n - 1 /\ t[k][1] = p /\ n - 1 \in Int
    BY <1>1, <1>2 DEF From
  <2>2. f[k] \in 1 .. n /\ f[k] # i /\ t[k] = q[f[k]]
    BY <1>1, <1>2, <2>1
  <2> QED
    BY <1>1, <2>1, <2>2 DEF From
<1>4. f \in Injection(From(t, p), From(q, p) \ {i})
  <2>1. f \in [From(t, p) -> From(q, p) \ {i}]
    BY <1>3
  <2>2. ASSUME NEW j \in From(t, p), NEW k \in From(t, p), f[j] = f[k]
        PROVE  j = k
    <3>1. j \in Int /\ k \in Int
      BY <1>3
    <3> QED
      BY <2>2, <3>1
  <2> QED
    BY <2>1, <2>2 DEF Injection, IsInjective
<1>5. /\ IsFiniteSet(From(q, p) \ {i})
      /\ Cardinality(From(q, p) \ {i})
            = IF i \in From(q, p) THEN Pending(q, p) - 1 ELSE Pending(q, p)
  BY FromFinite, FS_RemoveElement DEF Pending
<1>6. Pending(t, p) <= Cardinality(From(q, p) \ {i})
  <2> HIDE DEF f
  <2> QED
    BY <1>4, <1>5, FS_Injection DEF Pending
<1>7. i \in From(q, p) <=> q[i][1] = p
  BY <1>1 DEF From
<1>8. Numbers(t, p) \subseteq Numbers(q, p)
  BY <1>3 DEF Numbers
<1>9. Pending(q, p) \in Nat
  BY FromFinite
<1> QED
  BY <1>2, <1>5, <1>6, <1>7, <1>8, <1>9

(* One datagram more.                                                      *)
LEMMA QueueAdd ==
    ASSUME NEW q \in Seq(Data), NEW d \in Data, NEW p
    PROVE  /\ Append(q, d) \in Seq(Data)
           /\ Numbers(Append(q, d), p)
                \subseteq Numbers(q, p) \cup (IF d[1] = p THEN {d[2]} ELSE {})
           /\ Pending(Append(q, d), p)
                = Pending(q, p) + (IF d[1] = p THEN 1 ELSE 0)
<1>1. PICK n \in Nat : n = Len(q)
  BY LenProperties
<1>2. PICK t \in Seq(Data) :
            /\ t = Append(q, d) /\ Len(t) = n + 1
            /\ \A k \in 1 .. n : t[k] = q[k]
            /\ t[n + 1] = d
  BY <1>1, AppendProperties
<1>3. From(t, p) = From(q, p) \cup (IF d[1] = p THEN {n + 1} ELSE {})
  <2>1. ASSUME NEW k
        PROVE  k \in From(t, p) <=>
                    k \in From(q, p) \/ (k = n + 1 /\ d[1] = p)
    <3>1. k \in 1 .. n + 1 <=> k \in 1 .. n \/ k = n + 1
      BY <1>1
    <3> QED
      BY <1>1, <1>2, <3>1 DEF From
  <2> QED
    BY <2>1
<1>4. n + 1 \notin From(q, p)
  BY <1>1 DEF From
<1>5. Pending(t, p) = Pending(q, p) + (IF d[1] = p THEN 1 ELSE 0)
  <2>1. CASE d[1] = p
    BY <1>3, <1>4, <2>1, FromFinite, FS_AddElement DEF Pending
  <2>2. CASE d[1] # p
    BY <1>3, <2>2, FromFinite DEF Pending
  <2> QED
    BY <2>1, <2>2
<1>6. ASSUME NEW k \in From(t, p)
      PROVE  t[k][2] \in Numbers(q, p) \cup (IF d[1] = p THEN {d[2]} ELSE {})
  <2>1. CASE k \in From(q, p)
    BY <1>1, <1>2, <2>1 DEF From, Numbers
  <2>2. CASE k \notin From(q, p)
    BY <1>2, <1>3, <2>2
  <2> QED
    BY <2>1, <2>2
<1> QED
  BY <1>2, <1>5, <1>6 DEF Numbers

LEMMA ListDrop ==
    ASSUME NEW S, NEW s \in Seq(S), NEW i \in 1 .. Len(s)
    PROVE  /\ Elements(U!RemoveAt(s, i)) \subseteq Elements(s)
           /\ s[i] \in Elements(s)
<1>1. PICK n \in Nat : n = Len(s) /\ i \in 1 .. n
  BY LenProperties
<1>2. PICK t \in Seq(S) :
            /\ t = U!RemoveAt(s, i) /\ Len(t) = n - 1
            /\ \A k \in 1 .. n - 1 : t[k] = IF k < i THEN s[k] ELSE s[k + 1]
  BY <1>1, Removed
<1>3. ASSUME NEW k \in 1 .. n - 1 PROVE t[k] \in Elements(s)
  <2>1. k \in 1 .. n /\ k + 1 \in 1 .. n
    BY <1>1
  <2> QED
    BY <1>1, <1>2, <2>1 DEF Elements
<1> QED
  BY <1>1, <1>2, <1>3 DEF Elements

LEMMA ListAdd ==
    ASSUME NEW S, NEW s \in Seq(S), NEW e \in S
    PROVE  /\ Append(s, e) \in Seq(S) /\ Len(Append(s, e)) = Len(s) + 1
           /\ Elements(Append(s, e)) \subseteq Elements(s) \cup {e}
<1>1. PICK n \in Nat : n = Len(s)
  BY LenProperties
<1>2. PICK t \in Seq(S) :
            /\ t = Append(s, e) /\ Len(t) = n + 1
            /\ \A k \in 1 .. n : t[k] = s[k]
            /\ t[n + 1] = e
  BY <1>1, AppendProperties
<1>3. ASSUME NEW k \in 1 .. n + 1 PROVE t[k] \in Elements(s) \cup {e}
  <2>1. k \in 1 .. n \/ k = n + 1
    BY <1>1
  <2> QED
    BY <1>1, <1>2, <2>1 DEF Elements
<1> QED
  BY <1>1, <1>2, <1>3 DEF Elements

(* Nothing is on its way: nothing has a number.                            *)
LEMMA NothingThere ==
    ASSUME NEW p
    PROVE  /\ <<>> \in Seq(Data) /\ Numbers(<<>>, p) = {} /\ Pending(<<>>, p) = 0
           /\ Elements(<<>>) = {} /\ Len(<<>>) = 0
           /\ \A q \in Seq(Data) :
                 (Pending(q, p) = 0 => Numbers(q, p) = {})
           /\ \A s : Len(s) = 0 => Elements(s) = {}
<1>1. <<>> \in Seq(Data) /\ Len(<<>>) = 0
  BY EmptySeq
<1>2. \A s : Len(s) = 0 => Elements(s) = {} /\ From(s, p) = {}
  BY DEF Elements, From
<1>3. \A q \in Seq(Data) : Pending(q, p) = 0 => From(q, p) = {}
  BY FromFinite, FS_EmptySet DEF Pending
<1>4. \A q : From(q, p) = {} => Numbers(q, p) = {}
  BY DEF Numbers
<1>5. Pending(<<>>, p) = 0
  BY <1>1, <1>2, FS_EmptySet DEF Pending
<1> QED
  BY <1>1, <1>2, <1>3, <1>4, <1>5

(* How many datagrams of p are on their way, and what is known of them.    *)
PeerSound(p) ==
    /\ \A n \in Numbers(toServer, p) \cup Elements(toClient[p]) : n <= asked[p]
    /\ client[p] # "gone" =>
        /\ Pending(toServer, p) + Len(toClient[p])
             <= copied
                + (IF client[p] = "waiting" /\ p \notin bounced THEN 1 ELSE 0)
        /\ copied = 0 =>
              \A n \in Numbers(toServer, p) \cup Elements(toClient[p]) :
                 n = asked[p]
    /\ copied = 0 /\ Pending(toServer, p) # 0 => shown[p] < asked[p]

(* p went away before its answer, or the network made a copy.              *)
Left(p) == client[p] = "gone" /\ (shown[p] < asked[p] \/ copied > 0)

(* A datagram of p was longer than the buffer of the server.               *)
Outsized(p) == \E k \in 1 .. asked[p] : <<p, k>> \in Long

Blamed(p) == Left(p) \/ Outsized(p)

(* Datagrams find the port of a running server, so that until it ends only *)
(* its own echoes are bounced; they were for somebody who left.  It ends   *)
(* for one of them, or for a long datagram.                                *)
ServerSound ==
    /\ server = "ended" => toServer = <<>>
    /\ server = "reading" => bounced \subseteq {Server}
    /\ server = "ended" \/ Server \in bounced =>
            program # "udp_c" /\ \E p \in Peers : Blamed(p)

Network ==
    /\ program \in U!Programs /\ U!UdpTypeOK
    /\ ServerSound
    /\ \A p \in Peers : PeerSound(p)

(* The types of what is counted.                                           *)
LEMMA Counted ==
    ASSUME U!UdpTypeOK, NEW p \in Peers
    PROVE  /\ toServer \in Seq(Data) /\ Pending(toServer, p) \in Nat
           /\ toClient[p] \in Seq(1 .. MaxQuestions) /\ Len(toClient[p]) \in Nat
           /\ asked[p] \in 0 .. MaxQuestions /\ shown[p] \in 0 .. asked[p]
           /\ MaxQuestions \in Nat /\ copied \in Nat /\ MaxFaults \in Nat
           /\ p # Server
           /\ Numbers(toServer, p) \subseteq Nat
           /\ Elements(toClient[p]) \subseteq Nat
<1>1. /\ toServer \in Seq(Data) /\ toClient[p] \in Seq(1 .. MaxQuestions)
      /\ asked[p] \in 0 .. MaxQuestions /\ shown[p] \in 0 .. asked[p]
      /\ copied \in 0 .. MaxFaults
  BY DEF U!UdpTypeOK, Data
<1>2. p # Server /\ MaxQuestions \in Nat /\ MaxFaults \in Nat
  BY ExerciseAssumption DEF ExerciseAssumption, U!UdpAssumption
<1>3. Pending(toServer, p) \in Nat /\ Len(toClient[p]) \in Nat
  BY <1>1, FromFinite, LenProperties
<1>4. Numbers(toServer, p) \subseteq Nat
  <2>1. \A i \in 1 .. Len(toServer) : toServer[i] \in Data
    BY <1>1, ElementOfSeq
  <2> QED
    BY <2>1 DEF Numbers, From, Data
<1>5. Elements(toClient[p]) \subseteq Nat
  <2>1. PICK s \in Seq(1 .. MaxQuestions) : s = toClient[p]
    BY <1>1
  <2>2. \A i \in 1 .. Len(s) : s[i] \in 1 .. MaxQuestions
    BY ElementOfSeq
  <2>3. Elements(s) \subseteq Nat
    BY <2>2 DEF Elements
  <2> QED
    BY <2>1, <2>3
<1> QED
  BY <1>1, <1>2, <1>3, <1>4, <1>5

(* What is on its way of q became less, but for c copies.                  *)
LEMMA Lighter ==
    ASSUME U!UdpTypeOK, U!UdpTypeOK', NEW q \in Peers, PeerSound(q),
           client'[q] = client[q], asked'[q] = asked[q], shown'[q] = shown[q],
           q \in bounced' <=> q \in bounced,
           NEW c \in {0, 1}, copied' = copied + c,
           Pending(toServer', q) + Len(toClient'[q])
              <= Pending(toServer, q) + Len(toClient[q]) + c,
           Pending(toServer', q) <= Pending(toServer, q) + c,
           Numbers(toServer', q) \cup Elements(toClient'[q])
              \subseteq Numbers(toServer, q) \cup Elements(toClient[q])
    PROVE  PeerSound(q)'
<1>1. PICK x \in Nat, y \in Nat : x = Pending(toServer, q) /\ y = Len(toClient[q])
  BY Counted
<1>2. PICK u \in Nat, v \in Nat : u = Pending(toServer', q) /\ v = Len(toClient'[q])
  <2>1. toServer' \in Seq(Data) /\ toClient'[q] \in Seq(1 .. MaxQuestions)
    BY DEF U!UdpTypeOK, Data
  <2> QED
    BY <2>1, FromFinite, LenProperties
<1>3. copied \in Nat
  BY Counted
<1>4. u + v <= x + y + c /\ u <= x + c
  BY <1>1, <1>2
<1>5. client'[q] # "gone" =>
         u + v <= copied'
                  + (IF client'[q] = "waiting" /\ q \notin bounced' THEN 1 ELSE 0)
  <2>1. SUFFICES ASSUME client[q] # "gone"
                 PROVE  u + v <= copied + c
                          + (IF client[q] = "waiting" /\ q \notin bounced
                             THEN 1 ELSE 0)
    OBVIOUS
  <2>2. x + y <= copied
                 + (IF client[q] = "waiting" /\ q \notin bounced THEN 1 ELSE 0)
    BY <1>1, <2>1 DEF PeerSound
  <2> QED
    BY <1>3, <1>4, <2>2
<1>6. copied' = 0 => copied = 0 /\ c = 0
  BY <1>3
<1>7. copied' = 0 /\ u # 0 => shown'[q] < asked'[q]
  BY <1>1, <1>4, <1>6 DEF PeerSound
<1>8. \A n \in Numbers(toServer', q) \cup Elements(toClient'[q]) :
            /\ n <= asked'[q]
            /\ client'[q] # "gone" /\ copied' = 0 => n = asked'[q]
  BY <1>6 DEF PeerSound
<1> QED
  BY <1>2, <1>5, <1>7, <1>8 DEF PeerSound

LEMMA AskNetwork ==
    ASSUME Network, NEW p \in Peers, U!Ask(p)
    PROVE  Network'
<1>1. /\ client[p] = "typing" /\ asked[p] < MaxQuestions
      /\ asked' = [asked EXCEPT ![p] = asked[p] + 1]
      /\ client' = [client EXCEPT ![p] = "waiting"]
      /\ program' = program /\ server' = server /\ shown' = shown
      /\ toClient' = toClient /\ lost' = lost /\ copied' = copied
      /\ \/ /\ server = "reading" /\ bounced' = bounced
            /\ toServer' = Append(toServer, <<p, asked'[p]>>)
         \/ /\ server = "ended" /\ toServer' = toServer
            /\ bounced' = bounced \/ bounced' = bounced \cup {p}
  BY DEF U!Ask, U!Bounce
<1>2. U!UdpTypeOK /\ ServerSound /\ \A q \in Peers : PeerSound(q)
  BY DEF Network
<1>3. asked[p] \in Nat /\ MaxQuestions \in Nat /\ p # Server
  BY <1>2, Counted
<1>4. asked' \in [Peers -> 0 .. MaxQuestions] /\ asked'[p] = asked[p] + 1
  BY <1>1, <1>2, <1>3 DEF U!UdpTypeOK
<1>5. <<p, asked'[p]>> \in Data
  BY <1>1, <1>3, <1>4 DEF Data
<1>6. \A q \in Peers : asked[q] <= asked'[q] /\ shown[q] \in 0 .. asked'[q]
  <2>1. ASSUME NEW q \in Peers
        PROVE  asked[q] <= asked'[q] /\ shown[q] \in 0 .. asked'[q]
    <3>1. asked[q] \in Nat /\ shown[q] \in 0 .. asked[q]
      BY <1>2, Counted
    <3>2. asked'[q] = IF q = p THEN asked[q] + 1 ELSE asked[q]
      BY <1>1, <1>2 DEF U!UdpTypeOK
    <3> QED
      BY <3>1, <3>2
  <2> QED
    BY <2>1
<1>7. U!UdpTypeOK'
  <2>1. toServer' \in Seq(Data)
    BY <1>1, <1>2, <1>5, Counted, QueueAdd
  <2>2. /\ client' \in [Peers -> {"typing", "waiting", "gone"}]
        /\ bounced' \in SUBSET (Peers \cup {Server})
    BY <1>1, <1>2 DEF U!UdpTypeOK
  <2> QED
    BY <1>1, <1>2, <1>4, <1>6, <2>1, <2>2 DEF U!UdpTypeOK, Data
<1>8. ServerSound'
  <2>1. \A q \in Peers : Blamed(q) => Blamed(q)'
    <3>1. \A q \in Peers : Left(q) => Left(q)'
      BY <1>1, <1>2 DEF Left, U!UdpTypeOK
    <3>2. \A q \in Peers : 1 .. asked[q] \subseteq 1 .. asked'[q]
      BY <1>1, <1>2, <1>3 DEF U!UdpTypeOK
    <3> QED
      BY <3>1, <3>2, Zenon DEF Blamed, Outsized
  <2> QED
    BY <1>1, <1>2, <1>3, <2>1 DEF ServerSound
<1>9. ASSUME NEW q \in Peers PROVE PeerSound(q)'
  <2>1. /\ Pending(toServer, q) \in Nat /\ Len(toClient[q]) \in Nat
        /\ asked[q] \in Nat /\ shown[q] \in 0 .. asked[q] /\ copied \in Nat
        /\ toServer \in Seq(Data)
        /\ Numbers(toServer, q) \subseteq Nat
        /\ Elements(toClient[q]) \subseteq Nat
    BY <1>2, Counted
  <2>2. /\ Numbers(toServer', q) \subseteq
              Numbers(toServer, q) \cup (IF p = q THEN {asked'[q]} ELSE {})
        /\ Pending(toServer', q)
              <= Pending(toServer, q)
                 + (IF p = q /\ server = "reading" THEN 1 ELSE 0)
    <3>1. CASE toServer' = toServer
      BY <2>1, <3>1
    <3>2. CASE server = "reading" /\ toServer' = Append(toServer, <<p, asked'[p]>>)
      <4>1. PICK d \in Data : d = <<p, asked'[p]>> /\ d[1] = p /\ d[2] = asked'[p]
        BY <1>5
      <4>2. /\ Numbers(Append(toServer, d), q) \subseteq
                    Numbers(toServer, q) \cup (IF d[1] = q THEN {d[2]} ELSE {})
            /\ Pending(Append(toServer, d), q)
                    = Pending(toServer, q) + (IF d[1] = q THEN 1 ELSE 0)
        BY <2>1, QueueAdd
      <4>3. toServer' = Append(toServer, d)
        BY <3>2, <4>1
      <4>4. p = q => d[2] = asked'[q]
        BY <4>1
      <4> QED
        <5>1. CASE p = q
          <6>1. /\ Numbers(Append(toServer, d), q)
                        \subseteq Numbers(toServer, q) \cup {asked'[q]}
                /\ Pending(Append(toServer, d), q) = Pending(toServer, q) + 1
            BY <4>1, <4>2, <4>4, <5>1
          <6>2. server = "reading"
            BY <3>2
          <6> QED
            BY <2>1, <4>3, <5>1, <6>1, <6>2
        <5>2. CASE p # q
          <6>1. /\ Numbers(Append(toServer, d), q) \subseteq Numbers(toServer, q)
                /\ Pending(Append(toServer, d), q) = Pending(toServer, q) + 0
            BY <4>1, <4>2, <5>2
          <6> QED
            BY <2>1, <4>3, <5>2, <6>1
        <5> QED
          BY <5>1, <5>2
    <3> QED
      BY <1>1, <3>1, <3>2
  <2>3. PICK x \in Int : x = Pending(toServer', q)
    <3>1. toServer' \in Seq(Data)
      BY <1>7 DEF U!UdpTypeOK, Data
    <3> QED
      BY <3>1, FromFinite
  <2>4. PeerSound(q)
    BY <1>2
  <2>5. CASE q # p
    <3>1. /\ asked'[q] = asked[q] /\ client'[q] = client[q]
          /\ (q \in bounced' <=> q \in bounced)
      BY <1>1, <2>5, <1>2 DEF U!UdpTypeOK
    <3>2. /\ Numbers(toServer', q) \subseteq Numbers(toServer, q)
          /\ Pending(toServer', q) <= Pending(toServer, q)
      BY <2>1, <2>2, <2>5
    <3>3. /\ shown'[q] = shown[q] /\ copied' = copied + 0
          /\ toClient' = toClient
      BY <1>1, <2>1
    <3>4. /\ Pending(toServer', q) + Len(toClient'[q])
                <= Pending(toServer, q) + Len(toClient[q]) + 0
          /\ Pending(toServer', q) <= Pending(toServer, q) + 0
      BY <2>1, <2>3, <3>2, <3>3
    <3>5. Numbers(toServer', q) \cup Elements(toClient'[q])
             \subseteq Numbers(toServer, q) \cup Elements(toClient[q])
      BY <3>2, <3>3
    <3>6. 0 \in {0, 1}
      OBVIOUS
    <3> QED
      BY <1>2, <1>7, <2>4, <3>1, <3>3, <3>4, <3>5, <3>6, Lighter
  <2>6. CASE q = p
    <3>1. /\ Pending(toServer, q) + Len(toClient[q]) <= copied
          /\ client'[q] = "waiting" /\ asked'[q] = asked[q] + 1
      BY <1>1, <1>2, <1>4, <2>4, <2>6 DEF PeerSound, U!UdpTypeOK
    <3>2. copied = 0 => Numbers(toServer, q) = {} /\ Elements(toClient[q]) = {}
      <4>1. copied = 0 => Pending(toServer, q) = 0 /\ Len(toClient[q]) = 0
        BY <2>1, <3>1
      <4> QED
        BY <2>1, <4>1, NothingThere
    <3>3. server = "reading" => q \notin bounced'
      BY <1>1, <1>2, <1>3, <2>6 DEF ServerSound
    <3>4. \A n \in Numbers(toServer', q) \cup Elements(toClient'[q]) :
            /\ n <= asked'[q]
            /\ copied' = 0 => n = asked'[q]
      <4>1. \A n \in Numbers(toServer, q) \cup Elements(toClient[q]) :
                n \in Nat /\ n <= asked[q]
        BY <2>1, <2>4 DEF PeerSound
      <4>2. \A n \in Numbers(toServer', q) \cup Elements(toClient'[q]) :
                \/ n \in Numbers(toServer, q) \cup Elements(toClient[q])
                \/ n = asked'[q]
        BY <1>1, <2>2, <2>6
      <4> QED
        BY <1>1, <2>1, <3>1, <3>2, <4>1, <4>2
    <3>5. /\ Pending(toServer', q) + Len(toClient'[q])
                <= copied' + (IF client'[q] = "waiting" /\ q \notin bounced'
                              THEN 1 ELSE 0)
          /\ shown'[q] < asked'[q]
      <4>1. shown'[q] = shown[q] /\ shown[q] \in Nat /\ asked[q] \in Nat
        BY <1>1, <2>1
      <4>2. shown[q] <= asked[q]
        BY <1>1, <1>2 DEF U!UdpTypeOK
      <4>3. copied' = copied /\ copied \in Nat /\ toClient'[q] = toClient[q]
        BY <1>1, <2>1
      <4>4. Pending(toServer', q)
                <= Pending(toServer, q) + (IF server = "reading" THEN 1 ELSE 0)
        BY <2>1, <2>2, <2>6
      <4>5. shown'[q] < asked'[q]
        BY <3>1, <4>1, <4>2
      <4>6. Pending(toServer', q) + Len(toClient[q])
                <= copied + (IF server = "reading" THEN 1 ELSE 0)
        BY <2>1, <2>3, <3>1, <4>3, <4>4
      <4> QED
        <5>1. CASE server = "reading"
          BY <3>1, <3>3, <4>3, <4>5, <4>6, <5>1
        <5>2. CASE server # "reading"
          <6>1. Pending(toServer', q) + Len(toClient'[q]) <= copied' + 0
            BY <4>3, <4>6, <5>2
          <6>2. Pending(toServer', q) + Len(toClient'[q]) \in Int
            BY <2>1, <2>3, <4>3
          <6> QED
            BY <4>3, <4>5, <6>1, <6>2
        <5> QED
          BY <5>1, <5>2
    <3> QED
      BY <3>4, <3>5 DEF PeerSound
  <2> QED
    BY <2>5, <2>6
<1> QED
  BY <1>1, <1>2, <1>7, <1>8, <1>9 DEF Network

LEMMA ReceiveNetwork ==
    ASSUME Network, NEW p \in Peers, U!Receive(p)
    PROVE  Network'
<1>1. U!UdpTypeOK /\ ServerSound /\ \A q \in Peers : PeerSound(q)
  BY DEF Network
<1>2. PICK s \in Seq(1 .. MaxQuestions) : s = toClient[p]
  BY <1>1, Counted
<1>3. PICK i \in 1 .. Len(s) :
            /\ shown' = [shown EXCEPT ![p] = s[i]]
            /\ toClient' = [toClient EXCEPT ![p] = U!RemoveAt(s, i)]
  BY <1>2 DEF U!Receive
<1>4. PICK t \in Seq(1 .. MaxQuestions) :
            /\ t = U!RemoveAt(s, i) /\ Len(t) = Len(s) - 1
            /\ Elements(t) \subseteq Elements(s) /\ s[i] \in Elements(s)
            /\ Len(s) \in Nat /\ Len(s) >= 1 /\ s[i] \in 1 .. MaxQuestions
  <2>1. Len(s) \in Nat /\ Len(s) >= 1
    BY LenProperties
  <2>2. s[i] \in 1 .. MaxQuestions
    BY ElementOfSeq
  <2>3. /\ Elements(U!RemoveAt(s, i)) \subseteq Elements(s)
        /\ s[i] \in Elements(s)
    BY ListDrop
  <2>4. /\ U!RemoveAt(s, i) \in Seq(1 .. MaxQuestions)
        /\ Len(U!RemoveAt(s, i)) = Len(s) - 1
    BY Removed
  <2> QED
    BY <2>1, <2>2, <2>3, <2>4
<1>5. /\ client[p] = "waiting"
      /\ client' = [client EXCEPT ![p] = "typing"]
      /\ program' = program /\ server' = server /\ asked' = asked
      /\ toServer' = toServer /\ bounced' = bounced
      /\ lost' = lost /\ copied' = copied
  BY DEF U!Receive
<1>6. /\ \A q \in Peers : q # p => /\ client'[q] = client[q]
                                   /\ toClient'[q] = toClient[q]
                                   /\ shown'[q] = shown[q]
      /\ client'[p] = "typing" /\ toClient'[p] = t /\ shown'[p] = s[i]
  BY <1>1, <1>3, <1>4, <1>5 DEF U!UdpTypeOK
<1>7. U!UdpTypeOK'
  <2>1. /\ client' \in [Peers -> {"typing", "waiting", "gone"}]
        /\ toClient' \in [Peers -> Seq(1 .. MaxQuestions)]
        /\ shown' \in [Peers -> 0 .. MaxQuestions]
    BY <1>1, <1>3, <1>4, <1>5 DEF U!UdpTypeOK
  <2>2. ASSUME NEW q \in Peers PROVE shown'[q] <= asked'[q]
    <3>1. CASE q # p
      BY <1>1, <1>5, <1>6, <3>1, Counted
    <3>2. CASE q = p
      <4>1. s[i] <= asked[p] /\ asked[p] \in Nat
        BY <1>1, <1>2, <1>4, Counted DEF PeerSound
      <4> QED
        BY <1>4, <1>5, <1>6, <3>2, <4>1
    <3> QED
      BY <3>1, <3>2
  <2> QED
    BY <1>1, <1>5, <2>1, <2>2 DEF U!UdpTypeOK
<1>8. ServerSound'
  <2>1. \A q \in Peers : Blamed(q) => Blamed(q)'
    BY <1>5, <1>6 DEF Blamed, Left, Outsized
  <2> QED
    BY <1>1, <1>5, <2>1 DEF ServerSound
<1>9. ASSUME NEW q \in Peers PROVE PeerSound(q)'
  <2>1. CASE q # p
    BY <1>1, <1>5, <1>6, <2>1 DEF PeerSound
  <2>2. CASE q = p
    <3>1. /\ Pending(toServer, p) \in Nat /\ copied \in Nat
      BY <1>1, Counted
    <3>2. Pending(toServer, p) + Len(s) <= copied + 1
      BY <1>1, <1>2, <1>5, <3>1 DEF PeerSound
    <3>3. /\ Pending(toServer, p) + Len(t) <= copied
          /\ copied = 0 => Pending(toServer, p) = 0
      BY <1>4, <3>1, <3>2
    <3>4. \A n \in Numbers(toServer, p) \cup Elements(t) :
            /\ n <= asked[p]
            /\ copied = 0 => n = asked[p]
      BY <1>1, <1>2, <1>4, <1>5 DEF PeerSound
    <3> QED
      BY <1>5, <1>6, <2>2, <3>1, <3>3, <3>4 DEF PeerSound
  <2> QED
    BY <2>1, <2>2
<1> QED
  BY <1>1, <1>5, <1>7, <1>8, <1>9 DEF Network

(* recvfrom() fails, or the client leaves.                                 *)
LEMMA LeaveNetwork ==
    ASSUME Network, NEW p \in Peers, U!ReceiveFails(p) \/ U!Leave(p)
    PROVE  Network'
<1>1. U!UdpTypeOK /\ ServerSound /\ \A q \in Peers : PeerSound(q)
  BY DEF Network
<1>2. PICK state \in {"typing", "gone"}, t \in Seq(1 .. MaxQuestions) :
            /\ client[p] # "gone"
            /\ client' = [client EXCEPT ![p] = state]
            /\ toClient' = [toClient EXCEPT ![p] = t]
            /\ \/ t = <<>> /\ state = "gone"
               \/ t = toClient[p] /\ p \in bounced
            /\ bounced' = bounced \ {p}
  <2>1. CASE U!Leave(p)
    <3>1. <<>> \in Seq(1 .. MaxQuestions)
      BY EmptySeq
    <3> QED
      BY <2>1, <3>1 DEF U!Leave
  <2>2. CASE U!ReceiveFails(p)
    <3>1. toClient[p] \in Seq(1 .. MaxQuestions)
      BY <1>1, Counted
    <3>2. toClient' = [toClient EXCEPT ![p] = toClient[p]]
      BY <1>1, <2>2 DEF U!ReceiveFails, U!UdpTypeOK
    <3>3. PICK state \in {"typing", "gone"} :
                client' = [client EXCEPT ![p] = state]
      BY <2>2 DEF U!ReceiveFails
    <3>4. client[p] # "gone" /\ p \in bounced /\ bounced' = bounced \ {p}
      BY <2>2 DEF U!ReceiveFails
    <3> QED
      BY <3>1, <3>2, <3>3, <3>4
  <2> QED
    BY <2>1, <2>2
<1>3. /\ program' = program /\ server' = server /\ asked' = asked
      /\ shown' = shown /\ toServer' = toServer
      /\ lost' = lost /\ copied' = copied
  BY DEF U!ReceiveFails, U!Leave
<1>4. /\ \A q \in Peers : q # p => /\ client'[q] = client[q]
                                   /\ toClient'[q] = toClient[q]
                                   /\ (q \in bounced' <=> q \in bounced)
      /\ client'[p] = state /\ toClient'[p] = t
      /\ p # Server /\ (Server \in bounced' <=> Server \in bounced)
  BY <1>1, <1>2, Counted DEF U!UdpTypeOK
<1>5. U!UdpTypeOK'
  <2>1. /\ client' \in [Peers -> {"typing", "waiting", "gone"}]
        /\ toClient' \in [Peers -> Seq(1 .. MaxQuestions)]
        /\ bounced' \in SUBSET (Peers \cup {Server})
    BY <1>1, <1>2 DEF U!UdpTypeOK
  <2> QED
    BY <1>1, <1>3, <2>1 DEF U!UdpTypeOK
<1>6. ServerSound'
  <2>1. \A q \in Peers : Blamed(q) => Blamed(q)'
    BY <1>2, <1>3, <1>4 DEF Blamed, Left, Outsized
  <2> QED
    BY <1>1, <1>2, <1>3, <1>4, <2>1 DEF ServerSound
<1>7. ASSUME NEW q \in Peers PROVE PeerSound(q)'
  <2>1. CASE q # p
    BY <1>1, <1>3, <1>4, <2>1 DEF PeerSound
  <2>2. CASE q = p
    <3>1. /\ Pending(toServer, p) \in Nat /\ copied \in Nat
          /\ Len(toClient[p]) \in Nat
      BY <1>1, Counted
    <3>2. /\ Elements(t) \subseteq Elements(toClient[p])
          /\ t = <<>> \/ Pending(toServer, p) + Len(t) <= copied
      <4>1. CASE t = <<>>
        BY <4>1, NothingThere
      <4>2. CASE t = toClient[p] /\ p \in bounced
        BY <1>1, <1>2, <3>1, <4>2 DEF PeerSound
      <4> QED
        BY <1>2, <4>1, <4>2
    <3>3. state # "gone" => Pending(toServer, p) + Len(t) <= copied
      <4>1. state # "gone" => t = toClient[p] /\ p \in bounced
        BY <1>2
      <4> QED
        BY <1>1, <1>2, <3>1, <4>1 DEF PeerSound
    <3>4. \A n \in Numbers(toServer, p) \cup Elements(t) :
            /\ n <= asked[p]
            /\ copied = 0 => n = asked[p]
      BY <1>1, <1>2, <3>2 DEF PeerSound
    <3>5. copied = 0 /\ Pending(toServer, p) # 0 => shown[p] < asked[p]
      BY <1>1 DEF PeerSound
    <3> QED
      BY <1>2, <1>3, <1>4, <2>2, <3>1, <3>3, <3>4, <3>5 DEF PeerSound
  <2> QED
    BY <2>1, <2>2
<1> QED
  BY <1>1, <1>3, <1>5, <1>6, <1>7 DEF Network

LEMMA EchoFailsNetwork ==
    ASSUME Network, U!EchoFails
    PROVE  Network'
<1>1. U!UdpTypeOK /\ ServerSound /\ \A q \in Peers : PeerSound(q)
  BY DEF Network
<1>2. /\ server = "reading"
      /\ \/ Server \in bounced
         \/ program # "udp_c" /\ U!ToSet(toServer) \cap Long # {}
      /\ server' = "ended" /\ toServer' = <<>>
      /\ bounced' = bounced \ {Server}
      /\ program' = program /\ client' = client /\ asked' = asked
      /\ shown' = shown /\ toClient' = toClient /\ lost' = lost
      /\ copied' = copied
  BY DEF U!EchoFails
<1>3. U!UdpTypeOK'
  <2>1. toServer' \in Seq(Data)
    BY <1>2, NothingThere
  <2> QED
    BY <1>1, <1>2, <2>1 DEF U!UdpTypeOK, Data
<1>4. ServerSound'
  <2>1. \A q \in Peers : Blamed(q) => Blamed(q)'
    BY <1>2 DEF Blamed, Left, Outsized
  <2>2. program # "udp_c" /\ \E q \in Peers : Blamed(q)
    <3>1. CASE Server \in bounced
      BY <1>1, <3>1 DEF ServerSound
    <3>2. CASE program # "udp_c" /\ U!ToSet(toServer) \cap Long # {}
      <4>1. toServer \in Seq(Data)
        BY <1>1 DEF U!UdpTypeOK, Data
      <4>2. PICK i \in 1 .. Len(toServer) : toServer[i] \in Long
        BY <3>2, <4>1, LenProperties DEF U!ToSet
      <4>3. PICK q \in Peers, k \in 1 .. MaxQuestions : toServer[i] = <<q, k>>
        BY <4>1, ElementOfSeq DEF Data
      <4>4. k \in Numbers(toServer, q)
        <5>1. i \in From(toServer, q)
          BY <4>3 DEF From
        <5> QED
          BY <4>3, <5>1 DEF Numbers
      <4>5. k <= asked[q] /\ asked[q] \in Nat
        BY <1>1, <4>4, Counted DEF PeerSound
      <4>6. k \in 1 .. asked[q] /\ <<q, k>> \in Long
        <5>1. k \in Nat /\ 1 <= k
          BY ExerciseAssumption DEF ExerciseAssumption, U!UdpAssumption
        <5> QED
          BY <4>2, <4>3, <4>5, <5>1
      <4> QED
        BY <3>2, <4>6 DEF Blamed, Outsized
    <3> QED
      BY <1>2, <3>1, <3>2
  <2> QED
    BY <1>1, <1>2, <2>1, <2>2 DEF ServerSound
<1>5. ASSUME NEW q \in Peers PROVE PeerSound(q)'
  <2>1. /\ q \in bounced' <=> q \in bounced
        /\ Pending(toServer, q) \in Nat /\ Len(toClient[q]) \in Nat
        /\ copied \in Nat
    BY <1>1, <1>2, Counted
  <2>2. /\ Pending(toServer', q) = 0 /\ Numbers(toServer', q) = {}
    BY <1>2, NothingThere
  <2>3. /\ Pending(toServer', q) + Len(toClient'[q])
             <= Pending(toServer, q) + Len(toClient[q]) + 0
        /\ Pending(toServer', q) <= Pending(toServer, q) + 0
        /\ Numbers(toServer', q) \cup Elements(toClient'[q])
             \subseteq Numbers(toServer, q) \cup Elements(toClient[q])
    BY <1>2, <2>1, <2>2
  <2>4. /\ client'[q] = client[q] /\ asked'[q] = asked[q]
        /\ shown'[q] = shown[q] /\ 0 \in {0, 1} /\ copied' = copied + 0
    BY <1>2, <2>1
  <2> QED
    BY <1>1, <1>3, <2>1, <2>3, <2>4, Lighter
<1> QED
  BY <1>1, <1>2, <1>3, <1>4, <1>5 DEF Network

LEMMA EchoNetwork ==
    ASSUME Network, U!Echo
    PROVE  Network'
<1>1. U!UdpTypeOK /\ ServerSound /\ \A q \in Peers : PeerSound(q)
  BY DEF Network
<1>2. toServer \in Seq(Data)
  BY <1>1 DEF U!UdpTypeOK, Data
<1>3. PICK i \in 1 .. Len(toServer), d \in Data :
            /\ d = toServer[i] /\ toServer' = U!RemoveAt(toServer, i)
            /\ \/ /\ client[d[1]] # "gone"
                  /\ toClient' = [toClient EXCEPT ![d[1]] =
                                      Append(toClient[d[1]], d[2])]
                  /\ bounced' = bounced
               \/ /\ client[d[1]] = "gone" /\ toClient' = toClient
                  /\ \/ bounced' = bounced
                     \/ /\ program # "udp_c"
                        /\ bounced' = bounced \cup {Server}
  BY <1>2, ElementOfSeq DEF U!Echo, U!Bounce
<1>4. PICK p \in Peers, k \in 1 .. MaxQuestions : p = d[1] /\ k = d[2]
  BY DEF Data
<1>5. /\ server = "reading" /\ program' = program /\ server' = server
      /\ client' = client /\ asked' = asked /\ shown' = shown
      /\ lost' = lost /\ copied' = copied
  BY DEF U!Echo
<1>6. PICK s \in Seq(1 .. MaxQuestions) : s = toClient[p]
  BY <1>1, Counted
<1>7. PICK t \in Seq(1 .. MaxQuestions) :
            /\ t = Append(s, k) /\ Len(t) = Len(s) + 1
            /\ Elements(t) \subseteq Elements(s) \cup {k}
  BY ListAdd
<1>8. /\ toServer' \in Seq(Data)
      /\ \A q \in Peers :
            /\ Numbers(toServer', q) \subseteq Numbers(toServer, q)
            /\ Pending(toServer', q)
                 <= Pending(toServer, q) - (IF d[1] = q THEN 1 ELSE 0)
  BY <1>2, <1>3, Removed, QueueDrop
<1>9. k \in Numbers(toServer, p)
  <2>1. i \in From(toServer, p)
    BY <1>3, <1>4 DEF From
  <2> QED
    BY <1>3, <1>4, <2>1 DEF Numbers
<1>10. /\ toClient' \in [Peers -> Seq(1 .. MaxQuestions)]
       /\ \A q \in Peers : toClient'[q] = IF q = p /\ client[p] # "gone"
                                          THEN t ELSE toClient[q]
  <2>1. toClient \in [Peers -> Seq(1 .. MaxQuestions)]
    BY <1>1 DEF U!UdpTypeOK
  <2>2. CASE client[p] = "gone"
    BY <1>3, <1>4, <2>1, <2>2
  <2>3. CASE client[p] # "gone"
    <3>1. toClient' = [toClient EXCEPT ![p] = t]
      <4>1. toClient' = [toClient EXCEPT ![d[1]] =
                            Append(toClient[d[1]], d[2])]
        BY <1>3, <1>4, <2>3
      <4> QED
        BY <1>4, <1>6, <1>7, <4>1
    <3> QED
      BY <2>1, <2>3, <3>1
  <2> QED
    BY <2>2, <2>3
<1>11. U!UdpTypeOK'
  <2>1. bounced' \in SUBSET (Peers \cup {Server})
    BY <1>1, <1>3 DEF U!UdpTypeOK
  <2> QED
    BY <1>1, <1>5, <1>8, <1>10, <2>1 DEF U!UdpTypeOK, Data
<1>12. ASSUME NEW q \in Peers
       PROVE  /\ Pending(toServer, q) \in Nat /\ Pending(toServer', q) \in Nat
              /\ Len(toClient[q]) \in Nat /\ copied \in Nat /\ q # Server
  BY <1>1, <1>8, FromFinite, Counted
<1>13. ServerSound'
  <2>1. \A q \in Peers : Blamed(q) => Blamed(q)'
    BY <1>5 DEF Blamed, Left, Outsized
  <2>2. bounced' = bounced \/ (program # "udp_c" /\ Left(p))
    <3>1. SUFFICES ASSUME client[p] = "gone" PROVE Left(p)
      BY <1>3, <1>4
    <3>2. Pending(toServer, p) # 0
      BY <1>4, <1>8, <1>12
    <3> QED
      BY <1>1, <1>12, <3>1, <3>2 DEF PeerSound, Left
  <2>3. bounced' \subseteq {Server}
    BY <1>1, <1>3, <1>5 DEF ServerSound
  <2> QED
    BY <1>1, <1>5, <2>1, <2>2, <2>3 DEF ServerSound, Blamed
<1>14. ASSUME NEW q \in Peers PROVE PeerSound(q)'
  <2>1. PeerSound(q) /\ (q \in bounced' <=> q \in bounced)
    BY <1>1, <1>3, <1>12
  <2>2. /\ client'[q] = client[q] /\ asked'[q] = asked[q]
        /\ shown'[q] = shown[q] /\ 0 \in {0, 1} /\ copied' = copied + 0
    BY <1>5, <1>12
  <2>3. Pending(toServer', q) <= Pending(toServer, q) + 0
    BY <1>8, <1>12
  <2>4. /\ Pending(toServer', q) + Len(toClient'[q])
             <= Pending(toServer, q) + Len(toClient[q]) + 0
        /\ Numbers(toServer', q) \cup Elements(toClient'[q])
             \subseteq Numbers(toServer, q) \cup Elements(toClient[q])
    <3>1. CASE q = p /\ client[p] # "gone"
      <4>1. toClient'[q] = t /\ toClient[q] = s
        BY <1>6, <1>10, <3>1
      <4>2. Len(t) = Len(toClient[q]) + 1
        BY <1>7, <4>1
      <4>3. Pending(toServer', q) <= Pending(toServer, q) - 1
        BY <1>4, <1>8, <3>1
      <4>4. Elements(t) \subseteq Numbers(toServer, q) \cup Elements(toClient[q])
        BY <1>7, <1>9, <3>1, <4>1
      <4>5. Pending(toServer', q) + Len(toClient'[q])
              <= Pending(toServer, q) + Len(toClient[q]) + 0
        BY <1>12, <4>1, <4>2, <4>3
      <4>6. Numbers(toServer', q) \subseteq Numbers(toServer, q)
        BY <1>8
      <4>7. Elements(toClient'[q])
              \subseteq Numbers(toServer, q) \cup Elements(toClient[q])
        BY <4>1, <4>4, Zenon
      <4> QED
        BY <4>5, <4>6, <4>7
    <3>2. CASE ~(q = p /\ client[p] # "gone")
      <4>1. toClient'[q] = toClient[q]
        BY <1>10, <3>2
      <4>2. Pending(toServer', q) + Len(toClient'[q])
              <= Pending(toServer, q) + Len(toClient[q]) + 0
        <5>1. \A a, b, m \in Nat : a <= b + 0 => a + m <= b + m + 0
          OBVIOUS
        <5>2. Pending(toServer', q) + Len(toClient[q])
                <= Pending(toServer, q) + Len(toClient[q]) + 0
          BY <1>12, <2>3, <5>1, Zenon
        <5> QED
          BY <4>1, <5>2, Zenon
      <4>3. Numbers(toServer', q) \cup Elements(toClient'[q])
              \subseteq Numbers(toServer, q) \cup Elements(toClient[q])
        BY <1>8, <4>1, Zenon
      <4> QED
        BY <4>2, <4>3
    <3> QED
      BY <3>1, <3>2
  <2> QED
    BY <1>1, <1>11, <2>1, <2>2, <2>3, <2>4, Lighter
<1> QED
  BY <1>1, <1>5, <1>11, <1>13, <1>14 DEF Network

(* A datagram is lost, or there is one more of it.                         *)
LEMMA FaultNetwork ==
    ASSUME Network, U!Lose \/ U!Copy
    PROVE  Network'
<1>1. U!UdpTypeOK /\ ServerSound /\ \A q \in Peers : PeerSound(q)
  BY DEF Network
<1>2. toServer \in Seq(Data) /\ lost \in Nat /\ copied \in Nat /\ MaxFaults \in Nat
  <2>1. MaxFaults \in Nat
    BY ExerciseAssumption DEF ExerciseAssumption, U!UdpAssumption
  <2> QED
    BY <1>1, <2>1 DEF U!UdpTypeOK, Data
<1>3. /\ program' = program /\ server' = server /\ client' = client
      /\ asked' = asked /\ shown' = shown /\ bounced' = bounced
  BY DEF U!Lose, U!Copy
<1>4. PICK c \in {0, 1} :
        /\ copied' = copied + c
        /\ lost' \in 0 .. MaxFaults /\ copied' \in 0 .. MaxFaults
        /\ U!Lose => c = 0
        /\ ~U!Lose => c = 1
  <2>1. CASE U!Lose
    <3>1. /\ lost' = lost + 1 /\ lost < MaxFaults /\ copied' = copied
          /\ copied <= MaxFaults
      BY <1>1, <1>2, <2>1 DEF U!Lose, U!UdpTypeOK
    <3>2. /\ copied' = copied + 0 /\ 0 \in {0, 1}
          /\ lost' \in 0 .. MaxFaults /\ copied' \in 0 .. MaxFaults
      BY <1>2, <3>1
    <3> QED
      BY <2>1, <3>2
  <2>2. CASE U!Copy /\ ~U!Lose
    <3>1. /\ copied' = copied + 1 /\ copied < MaxFaults /\ lost' = lost
          /\ lost <= MaxFaults
      BY <1>1, <1>2, <2>2 DEF U!Copy, U!UdpTypeOK
    <3>2. /\ 1 \in {0, 1}
          /\ lost' \in 0 .. MaxFaults /\ copied' \in 0 .. MaxFaults
      BY <1>2, <3>1
    <3> QED
      BY <2>2, <3>1, <3>2
  <2> QED
    BY <2>1, <2>2
<1>5. /\ toServer' \in Seq(Data)
      /\ toClient' \in [Peers -> Seq(1 .. MaxQuestions)]
      /\ toServer = <<>> => toServer' = <<>>
      /\ \A q \in Peers :
           /\ Pending(toServer', q) + Len(toClient'[q])
                <= Pending(toServer, q) + Len(toClient[q]) + c
           /\ Pending(toServer', q) <= Pending(toServer, q) + c
           /\ Numbers(toServer', q) \cup Elements(toClient'[q])
                \subseteq Numbers(toServer, q) \cup Elements(toClient[q])
  <2>1. CASE /\ toClient' = toClient
             /\ \E i \in 1 .. Len(toServer) :
                   \/ toServer' = U!RemoveAt(toServer, i)
                   \/ c = 1 /\ toServer' = Append(toServer, toServer[i])
    <3>1. PICK i \in 1 .. Len(toServer) :
                   \/ toServer' = U!RemoveAt(toServer, i)
                   \/ c = 1 /\ toServer' = Append(toServer, toServer[i])
      BY <2>1
    <3>2. toServer[i] \in Data /\ toServer # <<>>
      BY <1>2, ElementOfSeq, EmptySeq
    <3>3. PICK d \in Data : d = toServer[i]
      BY <3>2
    <3>4. /\ toServer' \in Seq(Data)
          /\ \A q \in Peers :
               /\ Numbers(toServer', q) \subseteq Numbers(toServer, q)
               /\ Pending(toServer', q) <= Pending(toServer, q) + c
      <4>1. CASE toServer' = U!RemoveAt(toServer, i)
        <5>1. toServer' \in Seq(Data)
          BY <1>2, <4>1, Removed
        <5>2. ASSUME NEW q \in Peers
              PROVE  /\ Numbers(toServer', q) \subseteq Numbers(toServer, q)
                     /\ Pending(toServer', q) <= Pending(toServer, q) + c
          <6>1. Pending(toServer, q) \in Nat /\ Pending(toServer', q) \in Nat
            BY <1>2, <5>1, FromFinite
          <6>2. /\ Numbers(toServer', q) \subseteq Numbers(toServer, q)
                /\ Pending(toServer', q)
                     <= Pending(toServer, q) - (IF d[1] = q THEN 1 ELSE 0)
            BY <1>2, <3>3, <4>1, QueueDrop
          <6> QED
            BY <6>1, <6>2
        <5> QED
          BY <5>1, <5>2
      <4>2. CASE c = 1 /\ toServer' = Append(toServer, d)
        <5>1. ASSUME NEW q \in Peers
              PROVE  /\ Numbers(toServer', q) \subseteq Numbers(toServer, q)
                     /\ Pending(toServer', q) <= Pending(toServer, q) + c
          <6>1. Pending(toServer, q) \in Nat
            BY <1>2, FromFinite
          <6>2. /\ Numbers(toServer', q) \subseteq
                     Numbers(toServer, q) \cup (IF d[1] = q THEN {d[2]} ELSE {})
                /\ Pending(toServer', q)
                     = Pending(toServer, q) + (IF d[1] = q THEN 1 ELSE 0)
            BY <1>2, <4>2, QueueAdd
          <6>3. d[1] = q => d[2] \in Numbers(toServer, q)
            BY <3>3 DEF Numbers, From
          <6>4. Numbers(toServer', q) \subseteq Numbers(toServer, q)
            BY <6>2, <6>3
          <6>5. Pending(toServer', q) <= Pending(toServer, q) + c
            BY <4>2, <6>1, <6>2
          <6> QED
            BY <6>4, <6>5
        <5>2. toServer' \in Seq(Data)
          BY <1>2, <4>2, QueueAdd
        <5> QED
          BY <5>1, <5>2
      <4> QED
        BY <3>1, <3>3, <4>1, <4>2
    <3>5. ASSUME NEW q \in Peers
          PROVE  /\ Pending(toServer', q) + Len(toClient'[q])
                      <= Pending(toServer, q) + Len(toClient[q]) + c
                 /\ Numbers(toServer', q) \cup Elements(toClient'[q])
                      \subseteq Numbers(toServer, q) \cup Elements(toClient[q])
      <4>1. /\ Pending(toServer, q) \in Nat /\ Pending(toServer', q) \in Nat
            /\ Len(toClient[q]) \in Nat
        BY <1>1, <1>2, <3>4, FromFinite, Counted
      <4> QED
        BY <2>1, <3>4, <4>1
    <3> QED
      BY <1>1, <2>1, <3>2, <3>4, <3>5 DEF U!UdpTypeOK
  <2>2. CASE /\ toServer' = toServer
             /\ \E p \in Peers : \E i \in 1 .. Len(toClient[p]) :
                   \/ toClient' = [toClient EXCEPT ![p] =
                                        U!RemoveAt(toClient[p], i)]
                   \/ /\ c = 1
                      /\ toClient' = [toClient EXCEPT ![p] =
                                        Append(toClient[p], toClient[p][i])]
    <3>1. PICK p \in Peers : \E i \in 1 .. Len(toClient[p]) :
                   \/ toClient' = [toClient EXCEPT ![p] =
                                        U!RemoveAt(toClient[p], i)]
                   \/ /\ c = 1
                      /\ toClient' = [toClient EXCEPT ![p] =
                                        Append(toClient[p], toClient[p][i])]
      BY <2>2
    <3>2. PICK s \in Seq(1 .. MaxQuestions) : s = toClient[p]
      BY <1>1, Counted
    <3>9. PICK i \in 1 .. Len(s) :
                   \/ toClient' = [toClient EXCEPT ![p] = U!RemoveAt(s, i)]
                   \/ /\ c = 1
                      /\ toClient' = [toClient EXCEPT ![p] = Append(s, s[i])]
      BY <3>1, <3>2
    <3>3. s[i] \in Elements(s) /\ s[i] \in 1 .. MaxQuestions /\ Len(s) \in Nat
      BY <3>2, ElementOfSeq, LenProperties DEF Elements
    <3>4. PICK t \in Seq(1 .. MaxQuestions) :
                /\ toClient' = [toClient EXCEPT ![p] = t]
                /\ Len(t) <= Len(s) + c /\ Len(t) \in Nat
                /\ Elements(t) \subseteq Elements(s)
      <4>1. CASE toClient' = [toClient EXCEPT ![p] = U!RemoveAt(s, i)]
        <5>1. /\ U!RemoveAt(s, i) \in Seq(1 .. MaxQuestions)
              /\ Len(U!RemoveAt(s, i)) = Len(s) - 1
          BY <3>2, Removed
        <5>2. Elements(U!RemoveAt(s, i)) \subseteq Elements(s)
          BY <3>2, ListDrop
        <5>3. Len(U!RemoveAt(s, i)) \in Nat
          BY <5>1, LenProperties
        <5>4. Len(U!RemoveAt(s, i)) <= Len(s) + c
          BY <3>3, <5>1
        <5> QED
          BY <4>1, <5>1, <5>2, <5>3, <5>4
      <4>2. CASE c = 1 /\ toClient' = [toClient EXCEPT ![p] = Append(s, s[i])]
        <5>1. PICK e \in 1 .. MaxQuestions : e = s[i]
          BY <3>3
        <5>2. /\ Append(s, e) \in Seq(1 .. MaxQuestions)
              /\ Len(Append(s, e)) = Len(s) + 1
              /\ Elements(Append(s, e)) \subseteq Elements(s) \cup {e}
          <6>1. PICK S : S = 1 .. MaxQuestions
            OBVIOUS
          <6>2. s \in Seq(S) /\ e \in S
            BY <6>1
          <6>3. /\ Append(s, e) \in Seq(S)
                /\ Len(Append(s, e)) = Len(s) + 1
                /\ Elements(Append(s, e)) \subseteq Elements(s) \cup {e}
            BY <6>2, ListAdd
          <6> QED
            BY <6>1, <6>3
        <5>3. Elements(Append(s, e)) \subseteq Elements(s)
          BY <3>3, <5>1, <5>2
        <5>4. Len(Append(s, e)) <= Len(s) + c /\ Len(Append(s, e)) \in Nat
          BY <3>3, <4>2, <5>2
        <5> QED
          BY <4>2, <5>1, <5>2, <5>3, <5>4
      <4> QED
        BY <3>9, <4>1, <4>2
    <3>5. /\ toClient' \in [Peers -> Seq(1 .. MaxQuestions)]
          /\ \A q \in Peers : toClient'[q] = IF q = p THEN t ELSE toClient[q]
      BY <1>1, <3>4 DEF U!UdpTypeOK
    <3>6. ASSUME NEW q \in Peers
          PROVE  /\ Pending(toServer', q) + Len(toClient'[q])
                      <= Pending(toServer, q) + Len(toClient[q]) + c
                 /\ Pending(toServer', q) <= Pending(toServer, q) + c
                 /\ Numbers(toServer', q) \cup Elements(toClient'[q])
                      \subseteq Numbers(toServer, q) \cup Elements(toClient[q])
      <4>1. /\ Pending(toServer, q) \in Nat /\ Len(toClient[q]) \in Nat
        BY <1>1, Counted
      <4>2. /\ Len(toClient'[q]) \in Nat /\ Len(toClient'[q]) <= Len(toClient[q]) + c
            /\ Elements(toClient'[q]) \subseteq Elements(toClient[q])
        BY <3>2, <3>4, <3>5, <4>1
      <4>3. /\ Pending(toServer', q) = Pending(toServer, q)
            /\ Numbers(toServer', q) = Numbers(toServer, q) /\ c \in Nat
        BY <2>2
      <4>4. Numbers(toServer', q) \cup Elements(toClient'[q])
              \subseteq Numbers(toServer, q) \cup Elements(toClient[q])
        BY <4>2, <4>3, Zenon
      <4> QED
        BY <4>1, <4>2, <4>3, <4>4
    <3> QED
      BY <1>2, <2>2, <3>5, <3>6
  <2>3. CASE U!Lose
    BY <2>1, <2>2, <2>3 DEF U!Lose
  <2>4. CASE U!Copy /\ ~U!Lose
    <3>1. c = 1
      BY <1>4, <2>4
    <3> QED
      BY <2>1, <2>2, <2>4, <3>1 DEF U!Copy
  <2> QED
    BY <2>3, <2>4
<1>6. U!UdpTypeOK'
  BY <1>1, <1>3, <1>4, <1>5 DEF U!UdpTypeOK, Data
<1>7. ServerSound'
  <2>1. \A q \in Peers : Blamed(q) => Blamed(q)'
    <3>1. copied > 0 => copied' > 0
      BY <1>2, <1>4
    <3> QED
      BY <1>3, <3>1 DEF Blamed, Left, Outsized
  <2> QED
    BY <1>1, <1>3, <1>5, <2>1 DEF ServerSound
<1>8. ASSUME NEW q \in Peers PROVE PeerSound(q)'
  <2>1. /\ client'[q] = client[q] /\ asked'[q] = asked[q]
        /\ shown'[q] = shown[q] /\ (q \in bounced' <=> q \in bounced)
    BY <1>3
  <2> QED
    BY <1>1, <1>4, <1>5, <1>6, <2>1, Lighter
<1> QED
  BY <1>1, <1>3, <1>6, <1>7, <1>8 DEF Network

LEMMA NextNetwork ==
    ASSUME Network, AnyNext
    PROVE  Network'
<1>1. program \notin E!Programs \cup C!Programs \cup D!Programs
  BY DEF Network, E!Programs, C!Programs, D!Programs, U!Programs
<1>2. U!Next
  BY <1>1 DEF AnyNext, OfEcho, OfCommand, OfDrawing, OfUdp
<1> QED
  BY <1>2, AskNetwork, ReceiveNetwork, LeaveNetwork, EchoNetwork,
     EchoFailsNetwork, FaultNetwork
     DEF U!Next, U!ClientRuns, U!ServerRuns

LEMMA InitNetwork ==
    ASSUME AnyInit, program \in U!Programs
    PROVE  Network
<1>1. U!Init
  BY DEF AnyInit, E!Programs, C!Programs, D!Programs, U!Programs
<1>2. /\ <<>> \in Seq(Data) /\ <<>> \in Seq(1 .. MaxQuestions)
      /\ MaxQuestions \in Nat /\ MaxFaults \in Nat
  BY EmptySeq, ExerciseAssumption DEF ExerciseAssumption, U!UdpAssumption
<1>3. U!UdpTypeOK
  BY <1>1, <1>2 DEF U!Init, U!UdpTypeOK, Data
<1>4. ServerSound
  BY <1>1 DEF U!Init, ServerSound
<1>5. ASSUME NEW p \in Peers PROVE PeerSound(p)
  <2>1. toServer = <<>> /\ toClient[p] = <<>> /\ copied = 0
    BY <1>1 DEF U!Init
  <2>2. /\ Pending(toServer, p) = 0 /\ Numbers(toServer, p) = {}
        /\ Len(toClient[p]) = 0 /\ Elements(toClient[p]) = {}
    BY <2>1, NothingThere
  <2> QED
    BY <2>1, <2>2 DEF PeerSound
<1> QED
  BY <1>3, <1>4, <1>5 DEF Network

(* What Network says of the checked properties.                            *)
LEMMA NetworkProperties ==
    ASSUME Network
    PROVE  U!UdpTypeOK /\ U!AnswersQuestion /\ U!ServerOutlives
<1>1. U!UdpTypeOK /\ ServerSound /\ \A q \in Peers : PeerSound(q)
  BY DEF Network
<1>2. U!ServerOutlives
  BY <1>1 DEF ServerSound, Blamed, Left, Outsized, U!ServerOutlives
<1>3. ASSUME NEW p \in Peers, client[p] # "gone"
      PROVE  /\ Cardinality(U!Questions(p)) + Len(toClient[p])
                   <= copied + (IF client[p] = "waiting" THEN 1 ELSE 0)
             /\ copied = 0 =>
                /\ \A i \in U!Questions(p) : toServer[i][2] = asked[p]
                /\ \A i \in 1 .. Len(toClient[p]) : toClient[p][i] = asked[p]
  <2>1. U!Questions(p) = From(toServer, p)
    BY DEF U!Questions, From
  <2>2. /\ Pending(toServer, p) \in Nat /\ Len(toClient[p]) \in Nat
        /\ copied \in Nat
    BY <1>1, Counted
  <2>3. Pending(toServer, p) + Len(toClient[p])
            <= copied + (IF client[p] = "waiting" THEN 1 ELSE 0)
    BY <1>1, <1>3, <2>2 DEF PeerSound
  <2>4. copied = 0 =>
            /\ \A i \in From(toServer, p) : toServer[i][2] = asked[p]
            /\ \A i \in 1 .. Len(toClient[p]) : toClient[p][i] = asked[p]
    <3>1. copied = 0 =>
            \A n \in Numbers(toServer, p) \cup Elements(toClient[p]) :
                n = asked[p]
      BY <1>1, <1>3 DEF PeerSound
    <3>2. \A i \in From(toServer, p) : toServer[i][2] \in Numbers(toServer, p)
      BY DEF Numbers
    <3>3. \A i \in 1 .. Len(toClient[p]) : toClient[p][i] \in Elements(toClient[p])
      BY DEF Elements
    <3> QED
      BY <3>1, <3>2, <3>3
  <2> QED
    BY <2>1, <2>3, <2>4 DEF Pending
<1>4. U!AnswersQuestion
  <2>1. \A p \in Peers :
            U!Cardinality(U!Questions(p)) = Cardinality(U!Questions(p))
    BY Zenon DEF Cardinality, U!Cardinality
  <2> QED
    BY <1>3, <2>1, Zenon DEF U!AnswersQuestion
<1> QED
  BY <1>1, <1>2, <1>4

-----------------------------------------------------------------------------
LEMMA Multiples ==
    ASSUME NEW w \in Nat, NEW j \in Nat, NEW k \in Nat, j <= k
    PROVE  /\ j * w \in Nat /\ (j + 1) * w = j * w + w
           /\ j * w <= k * w
<1>1. k * w = j * w + (k - j) * w
  OBVIOUS
<1>2. (k - j) * w \in Nat /\ j * w \in Nat /\ k * w \in Nat
  OBVIOUS
<1>3. (j + 1) * w = j * w + w
  OBVIOUS
<1> QED
  BY <1>1, <1>2, <1>3

(* Sequences of the same length w, one behind the other: b of k is at      *)
(* (k - 1) * w + b.                                                        *)
Uniform(S, s, w) ==
    /\ s \in Seq(Seq(S)) /\ w \in Nat
    /\ \A k \in 1 .. Len(s) : Len(s[k]) = w

InBlocks(l, S, s, w) ==
    /\ l \in Seq(S) /\ Len(l) = Len(s) * w
    /\ \A k \in 1 .. Len(s), b \in 1 .. w : l[(k - 1) * w + b] = s[k][b]

LEMMA Blocks ==
    ASSUME NEW S, NEW s, NEW w, Uniform(S, s, w)
    PROVE  InBlocks(FlattenSeq(s), S, s, w)
<1>0. s \in Seq(Seq(S)) /\ w \in Nat
  BY DEF Uniform
<1>1. PICK n \in Nat : n = Len(s)
  BY <1>0, LenProperties
<1>2. \A k \in 1 .. n : s[k] \in Seq(S) /\ Len(s[k]) = w
  BY <1>0, <1>1, ElementOfSeq DEF Uniform
<1> USE <1>0
<1>3. PICK f : f \in [1 .. n -> Seq(S)] /\ Partial(s, f)
  BY <1>1, PartialExists
<1>4. \A k \in 1 .. n : f[k] = IF k = 1 THEN s[k] ELSE f[k - 1] \o s[k]
  BY <1>1, <1>3 DEF Partial
<1> DEFINE Built(k) == /\ Len(f[k]) = k * w
                       /\ \A j \in 1 .. k, b \in 1 .. w :
                             f[k][(j - 1) * w + b] = s[j][b]
           T == {k \in Nat : k \in 1 .. n => Built(k)}
<1>5. 0 \in T
  OBVIOUS
<1>6. ASSUME NEW k \in Nat, k \in T PROVE k + 1 \in T
  <2>1. SUFFICES ASSUME k + 1 \in 1 .. n PROVE Built(k + 1)
    <3> HIDE DEF Built
    <3> QED
      OBVIOUS
  <2>2. CASE k = 0
    <3>1. f[k + 1] = s[1] /\ k + 1 = 1
      BY <1>4, <2>1, <2>2
    <3>2. Len(s[1]) = w /\ 1 * w = w
      BY <1>2, <2>1, <2>2
    <3>3. \A j \in 1 .. 1, b \in 1 .. w : j = 1 /\ (j - 1) * w + b = b
      OBVIOUS
    <3> QED
      BY <3>1, <3>2, <3>3
  <2>3. CASE k # 0
    <3>1. k \in 1 .. n /\ (k + 1) - 1 = k /\ k + 1 # 1
      BY <2>1, <2>3
    <3>2. Built(k)
      <4> HIDE DEF Built
      <4> QED
        BY <1>6, <3>1
    <3>3. f[k + 1] = f[k] \o s[k + 1]
      BY <1>4, <2>1, <3>1
    <3>4. PICK u \in Nat : /\ u = k * w /\ (k + 1) * w = u + w
                           /\ Len(f[k]) = u
      BY <3>2, Multiples
    <3>5. PICK l \in Seq(S), r \in Seq(S) :
                /\ l = f[k] /\ r = s[k + 1]
                /\ Len(l) = u /\ Len(r) = w
      BY <1>2, <1>3, <2>1, <3>1, <3>4
    <3>8. PICK t : t = l \o r
      OBVIOUS
    <3>6. /\ t \in Seq(S) /\ Len(t) = u + w
          /\ \A i \in 1 .. u + w : t[i] = IF i <= u THEN l[i] ELSE r[i - u]
      <4>1. /\ l \o r \in Seq(S) /\ Len(l \o r) = Len(l) + Len(r)
            /\ \A i \in 1 .. Len(l) + Len(r) :
                  (l \o r)[i] = IF i <= Len(l) THEN l[i] ELSE r[i - Len(l)]
        BY ConcatProperties
      <4> QED
        BY <3>5, <3>8, <4>1, Zenon
    <3>7. ASSUME NEW j \in 1 .. k + 1, NEW b \in 1 .. w
          PROVE  t[(j - 1) * w + b] = s[j][b]
      <4>1. CASE j \in 1 .. k
        <5>1. j - 1 \in Nat /\ (j - 1) + 1 = j /\ j \in Nat /\ j <= k
          BY <4>1
        <5>2. PICK v \in Nat : v = (j - 1) * w /\ v + w <= u
          <6>1. (j - 1) * w \in Nat /\ ((j - 1) + 1) * w = (j - 1) * w + w
            BY <5>1, Multiples
          <6>2. j * w <= k * w
            BY <5>1, Multiples
          <6> QED
            BY <3>4, <5>1, <6>1, <6>2
        <5>3. v + b \in 1 .. u + w /\ v + b <= u
          <6>1. v + w <= u /\ b \in Nat \ {0} /\ b <= w
            BY <5>2
          <6> QED
            BY <6>1
        <5>4. t[v + b] = l[v + b]
          BY <3>6, <5>3
        <5>5. f[k][(j - 1) * w + b] = s[j][b]
          BY <3>2, <4>1
        <5>6. t[v + b] = s[j][b]
          BY <3>5, <5>2, <5>4, <5>5
        <5> QED
          BY <5>2, <5>6
      <4>2. CASE j = k + 1
        <5>1. (j - 1) * w + b = u + b
          BY <3>4, <4>2
        <5>2. u + b \in 1 .. u + w /\ ~(u + b <= u) /\ (u + b) - u = b
          OBVIOUS
        <5>3. t[u + b] = r[b]
          BY <3>6, <5>2
        <5> QED
          BY <3>5, <4>2, <5>1, <5>3
      <4> QED
        BY <4>1, <4>2
    <3> QED
      <4>1. f[k + 1] = t /\ Len(t) = (k + 1) * w
        BY <3>3, <3>4, <3>5, <3>6, <3>8
      <4> QED
        BY <3>7, <4>1, Zenon
  <2> QED
    BY <2>2, <2>3
<1>7. n \in T
  <2> HIDE DEF T
  <2>1. Nat \subseteq T
    BY <1>5, <1>6, Induction
  <2> QED
    BY <1>1, <2>1
<1>8. FlattenSeq(s) = IF s = <<>> THEN <<>> ELSE f[n]
  BY <1>1, <1>3, Flat
<1>9. CASE n = 0
  <2>1. s = <<>> /\ 0 * w = 0 /\ <<>> \in Seq(S) /\ Len(<<>>) = 0
    <3>1. s = <<>>
      BY <1>1, <1>9, EmptySeq
    <3>2. <<>> \in Seq(S) /\ Len(<<>>) = 0
      BY EmptySeq
    <3> QED
      BY <3>1, <3>2
  <2> QED
    BY <1>1, <1>8, <1>9, <2>1 DEF InBlocks
<1>10. CASE n # 0
  <2>1. s # <<>> /\ n \in 1 .. n
    BY <1>1, <1>10, EmptySeq
  <2>2. FlattenSeq(s) = f[n] /\ Built(n) /\ f[n] \in Seq(S)
    BY <1>3, <1>7, <1>8, <2>1
  <2> QED
    BY <1>1, <2>2 DEF InBlocks
<1> QED
  BY <1>9, <1>10

(* What one read() takes of a stream.                                      *)
Inside(S, s, t, n) ==
    s \in Seq(S) /\ t \in Nat /\ n \in Nat \ {0} /\ t + n <= Len(s)

IsChunk(c, S, s, t, n) ==
    /\ c \in Seq(S) /\ Len(c) = n
    /\ \A i \in 1 .. n : c[i] = s[t + i]
    /\ \A x : D!Contains(c, x) <=> \E i \in t + 1 .. t + n : s[i] = x

LEMMA Chunk ==
    ASSUME NEW S, NEW s, NEW t, NEW n, Inside(S, s, t, n)
    PROVE  IsChunk(SubSeq(s, t + 1, t + n), S, s, t, n)
<1>0. s \in Seq(S) /\ t \in Nat /\ n \in Nat \ {0} /\ t + n <= Len(s)
  BY DEF Inside
<1>1. PICK m \in Nat : m = Len(s)
  BY <1>0, LenProperties
<1>2. \A i \in t + 1 .. t + n : s[i] \in S
  <2>1. \A i \in t + 1 .. t + n : i \in 1 .. m
    BY <1>0, <1>1
  <2> QED
    BY <1>0, <1>1, <2>1, ElementOfSeq
<1>3. PICK c : /\ c = SubSeq(s, t + 1, t + n) /\ c \in Seq(S) /\ Len(c) = n
               /\ \A i \in 1 .. n : c[i] = s[t + i]
  <2>1. /\ SubSeq(s, t + 1, t + n) \in Seq(S)
        /\ Len(SubSeq(s, t + 1, t + n))
              = IF t + 1 <= t + n THEN t + n - (t + 1) + 1 ELSE 0
        /\ \A i \in 1 .. t + n - (t + 1) + 1 :
              SubSeq(s, t + 1, t + n)[i] = s[t + 1 + i - 1]
    BY <1>0, <1>2, SubSeqProperties
  <2>2. PICK c : c = SubSeq(s, t + 1, t + n)
    OBVIOUS
  <2>3. /\ t + n - (t + 1) + 1 = n
        /\ t + 1 <= t + n
        /\ \A i \in 1 .. n : t + 1 + i - 1 = t + i
    BY <1>0
  <2>4. c \in Seq(S) /\ Len(c) = n
    BY <2>1, <2>2, <2>3
  <2>5. \A i \in 1 .. n : c[i] = s[t + i]
    BY <2>1, <2>2, <2>3
  <2> QED
    BY <2>2, <2>4, <2>5
<1>4. ASSUME NEW x
      PROVE  D!Contains(c, x) <=> \E i \in t + 1 .. t + n : s[i] = x
  <2>1. D!Contains(c, x) <=> \E i \in 1 .. n : s[t + i] = x
    BY <1>0, <1>3 DEF D!Contains
  <2>2. ASSUME NEW i \in t + 1 .. t + n
        PROVE  i - t \in 1 .. n /\ t + (i - t) = i
    BY <1>0
  <2>3. \A i \in 1 .. n : t + i \in t + 1 .. t + n
    BY <1>0
  <2> QED
    BY <2>1, <2>2, <2>3
<1> QED
  BY <1>3, <1>4 DEF IsChunk

-----------------------------------------------------------------------------
Byte == (D!Fields \X (1 .. Width)) \cup {D!Junk}
Total == NumFields * Width

LEMMA FunSeq ==
    ASSUME NEW S, NEW n \in Nat, NEW s, s \in [1 .. n -> S]
    PROVE  s \in Seq(S) /\ Len(s) = n
BY SeqDef

LEMMA DrawingSizes ==
    /\ NumFields \in Nat \ {0} /\ Width \in Nat \ {0}
    /\ D!Fields = 1 .. NumFields
    /\ \A x : D!FlattenSeq(x) = FlattenSeq(x)
<1>1. \A x : D!FlattenSeq(x) = FlattenSeq(x)
  BY Zenon DEF FlattenSeq, D!FlattenSeq
<1> QED
  BY <1>1, ExerciseAssumption
     DEF ExerciseAssumption, D!DrawingAssumption, D!Fields

(* The fixed message: the members in turn, each with its bytes reversed.   *)
LEMMA FixedParts ==
    /\ D!FixedMessage \in Seq(Byte) /\ Len(D!FixedMessage) = Total
    /\ Total \in Nat \ {0}
    /\ \A f \in D!Fields, b \in 1 .. Width :
          /\ (f - 1) * Width + b \in 1 .. Total
          /\ D!FixedMessage[(f - 1) * Width + b] = <<f, Width - b + 1>>
<1> DEFINE s == [f \in D!Fields |-> D!NetworkOrder(D!Sent[f])]
<1>1. ASSUME NEW f \in D!Fields
      PROVE  /\ s[f] \in Seq(Byte) /\ Len(s[f]) = Width
             /\ \A b \in 1 .. Width : s[f][b] = <<f, Width - b + 1>>
  <2>1. PICK g : g = [b \in 1 .. Width |-> <<f, b>>]
    OBVIOUS
  <2>2. g \in [1 .. Width -> Byte] /\ D!Sent[f] = g
    BY <2>1 DEF Byte, D!Sent
  <2>3. Len(g) = Width
    BY <2>2, FunSeq, DrawingSizes
  <2>4. s[f] = [i \in 1 .. Width |-> g[(Width - i) + 1]]
    BY <2>2, <2>3 DEF D!NetworkOrder, D!Reverse
  <2>5. \A i \in 1 .. Width : (Width - i) + 1 \in 1 .. Width
    BY DrawingSizes
  <2>6. PICK h : /\ h = s[f] /\ h \in [1 .. Width -> Byte]
                 /\ \A b \in 1 .. Width : h[b] = <<f, Width - b + 1>>
    <3>1. PICK h : h = [i \in 1 .. Width |-> g[(Width - i) + 1]]
      OBVIOUS
    <3>2. h \in [1 .. Width -> Byte]
      BY <2>2, <2>5, <3>1
    <3>3. \A b \in 1 .. Width : h[b] = <<f, Width - b + 1>>
      BY <2>1, <2>5, <3>1
    <3> QED
      BY <2>4, <3>1, <3>2, <3>3, Zenon
  <2>7. h \in Seq(Byte) /\ Len(h) = Width
    BY <2>6, FunSeq, DrawingSizes
  <2> QED
    BY <2>6, <2>7
<1>2. s \in Seq(Seq(Byte)) /\ Len(s) = NumFields
  <2>1. PICK h : h = s /\ h \in [1 .. NumFields -> Seq(Byte)]
    BY <1>1, DrawingSizes
  <2>2. h \in Seq(Seq(Byte)) /\ Len(h) = NumFields
    BY <2>1, FunSeq, DrawingSizes
  <2> QED
    BY <2>1, <2>2
<1>3. D!FixedMessage = FlattenSeq(s)
  BY DrawingSizes, Zenon DEF D!FixedMessage
<1>4. /\ FlattenSeq(s) \in Seq(Byte) /\ Len(FlattenSeq(s)) = NumFields * Width
      /\ \A f \in D!Fields, b \in 1 .. Width :
            FlattenSeq(s)[(f - 1) * Width + b] = s[f][b]
  <2>1. PICK t : t = s
    OBVIOUS
  <2>2. t \in Seq(Seq(Byte)) /\ \A f \in 1 .. Len(t) : Len(t[f]) = Width
    <3> HIDE DEF s
    <3> QED
      BY <1>1, <1>2, <2>1, DrawingSizes
  <2>3. /\ FlattenSeq(t) \in Seq(Byte)
        /\ Len(FlattenSeq(t)) = Len(t) * Width
        /\ \A f \in 1 .. Len(t), b \in 1 .. Width :
              FlattenSeq(t)[(f - 1) * Width + b] = t[f][b]
    <3>1. Uniform(Byte, t, Width)
      <4>1. Width \in Nat
        BY DrawingSizes
      <4> QED
        BY <2>2, <4>1, Zenon DEF Uniform
    <3>2. InBlocks(FlattenSeq(t), Byte, t, Width)
      BY <3>1, Blocks, Zenon
    <3> QED
      BY <3>2, Zenon DEF InBlocks
  <2>4. Len(t) = NumFields /\ D!Fields = 1 .. Len(t)
    <3> HIDE DEF s
    <3> QED
      BY <1>2, <2>1, DrawingSizes
  <2> HIDE DEF s
  <2> QED
    BY <2>1, <2>3, <2>4, Zenon
<1>5. Total \in Nat \ {0}
  <2>1. 1 * Width <= NumFields * Width /\ 1 * Width = Width
    BY Multiples, DrawingSizes
  <2>2. NumFields * Width \in Nat
    BY Multiples, DrawingSizes
  <2> QED
    BY <2>1, <2>2, DrawingSizes DEF Total
<1>6. ASSUME NEW f \in D!Fields, NEW b \in 1 .. Width
      PROVE  (f - 1) * Width + b \in 1 .. Total
  <2>1. f \in Nat /\ f - 1 \in Nat /\ (f - 1) + 1 = f /\ f <= NumFields
    BY DrawingSizes
  <2>2. PICK v \in Nat : v = (f - 1) * Width /\ f * Width = v + Width
    <3>1. (f - 1) * Width \in Nat
          /\ ((f - 1) + 1) * Width = (f - 1) * Width + Width
      BY <2>1, Multiples, DrawingSizes
    <3> QED
      BY <2>1, <3>1
  <2>3. f * Width <= NumFields * Width
    BY <2>1, Multiples, DrawingSizes
  <2>4. PICK m \in Nat : m = Total /\ v + Width <= m
    BY <1>5, <2>2, <2>3 DEF Total
  <2>5. v + b \in 1 .. m
    BY <2>2, <2>4, DrawingSizes
  <2> QED
    BY <2>2, <2>4, <2>5
<1> HIDE DEF s
<1> QED
  BY <1>1, <1>3, <1>4, <1>5, <1>6 DEF Total

(* A member of the struct after the first n bytes have been copied to it.  *)
LEMMA MemberShown ==
    ASSUME NEW c \in Seq(Byte), Len(c) <= Total,
           \A i \in 1 .. Len(c) : c[i] = D!FixedMessage[i],
           NEW f \in D!Fields
    PROVE  /\ D!Member(c, f) \in Seq(Byte)
           /\ Len(c) = Total => D!Member(c, f) = D!Sent[f]
           /\ D!Member(c, f) = D!Sent[f] \/ D!Contains(D!Member(c, f), D!Junk)
<1>1. PICK n \in Nat : n = Len(c) /\ n <= Total
  BY LenProperties
<1>2. \A i \in 1 .. n : c[i] \in Byte
  BY <1>1, ElementOfSeq
<1>3. PICK g : g = [b \in 1 .. Width |->
                      IF (f - 1) * Width + b <= n
                      THEN c[(f - 1) * Width + b] ELSE D!Junk]
  OBVIOUS
<1>4. ASSUME NEW b \in 1 .. Width
      PROVE  /\ g[b] \in Byte
             /\ \/ g[b] = <<f, Width - b + 1>>
                \/ g[b] = D!Junk /\ ~(n = Total)
  <2>1. PICK at \in 1 .. Total : /\ at = (f - 1) * Width + b
                                 /\ D!FixedMessage[at] = <<f, Width - b + 1>>
    BY FixedParts
  <2>2. g[b] = IF at <= n THEN c[at] ELSE D!Junk
    BY <1>3, <2>1
  <2>3. CASE at <= n
    <3>1. at \in 1 .. n
      BY <1>1, <2>3
    <3> QED
      BY <1>1, <1>2, <2>1, <2>2, <2>3, <3>1
  <2>4. CASE ~(at <= n)
    <3>1. ~(n = Total)
      BY <1>1, <2>4, FixedParts
    <3> QED
      BY <2>2, <2>4, <3>1 DEF Byte
  <2> QED
    BY <2>3, <2>4
<1>5. g \in [1 .. Width -> Byte] /\ g \in Seq(Byte) /\ Len(g) = Width
  <2>1. g \in [1 .. Width -> Byte]
    BY <1>3, <1>4
  <2> QED
    BY <2>1, FunSeq, DrawingSizes
<1>6. PICK h : h = [i \in 1 .. Width |-> g[(Width - i) + 1]]
  OBVIOUS
<1>7. D!Member(c, f) = h
  <2>1. D!Member(c, f) = D!NetworkOrder(g)
    BY <1>1, <1>3 DEF D!Member
  <2> QED
    BY <1>5, <1>6, <2>1 DEF D!NetworkOrder, D!Reverse
<1>8. \A i \in 1 .. Width :
        /\ (Width - i) + 1 \in 1 .. Width
        /\ Width - ((Width - i) + 1) + 1 = i
  BY DrawingSizes
<1>9. h \in [1 .. Width -> Byte] /\ h \in Seq(Byte) /\ Len(h) = Width
  <2>1. h \in [1 .. Width -> Byte]
    BY <1>5, <1>6, <1>8
  <2> QED
    BY <2>1, FunSeq, DrawingSizes
<1>10. D!Sent[f] = [i \in 1 .. Width |-> <<f, i>>]
  BY DEF D!Sent
<1>11. CASE \A b \in 1 .. Width : g[b] = <<f, Width - b + 1>>
  <2>1. \A i \in 1 .. Width : h[i] = <<f, i>>
    BY <1>6, <1>8, <1>11
  <2>2. h = D!Sent[f]
    BY <1>9, <1>10, <2>1
  <2> QED
    BY <1>7, <1>9, <2>2
<1>12. CASE ~(\A b \in 1 .. Width : g[b] = <<f, Width - b + 1>>)
  <2>1. PICK b \in 1 .. Width : g[b] = D!Junk /\ ~(n = Total)
    BY <1>4, <1>12
  <2>2. PICK i \in 1 .. Width : (Width - i) + 1 = b
    <3>1. (Width - b) + 1 \in 1 .. Width /\ (Width - ((Width - b) + 1)) + 1 = b
      BY DrawingSizes
    <3> QED
      BY <3>1
  <2>3. h[i] = D!Junk
    BY <1>6, <2>1, <2>2
  <2>4. D!Contains(h, D!Junk)
    BY <1>9, <2>3 DEF D!Contains
  <2> QED
    BY <1>1, <1>7, <1>9, <2>1, <2>4
<1> QED
  BY <1>11, <1>12

TextPiece == (0 .. NumFields) \X {"=", "d", "dd\n", "EN", "D\n"}
Pieces == 3 * NumFields + 2

(* The text: three pieces a line, and the two of END.                      *)
LEMMA TextParts ==
    /\ D!TextMessage \in Seq(TextPiece) /\ Len(D!TextMessage) = Pieces
    /\ \A i \in 1 .. Pieces :
          /\ \A f \in D!Fields :
                /\ D!TextMessage[i] = <<f, "=">> <=> i = 3 * f - 2
                /\ D!TextMessage[i] = <<f, "d">> <=> i = 3 * f - 1
                /\ D!TextMessage[i] = <<f, "dd\n">> <=> i = 3 * f
          /\ D!TextMessage[i] = D!End[1] <=> i = Pieces - 1
          /\ D!TextMessage[i] = D!End[2] <=> i = Pieces
<1>1. PICK N \in Nat \ {0} : N = NumFields /\ D!Fields = 1 .. N
  BY DrawingSizes
<1>2. PICK s : s = [f \in D!Fields |-> D!Line(f)]
  OBVIOUS
<1>3. ASSUME NEW f \in D!Fields
      PROVE  /\ s[f] \in Seq(TextPiece) /\ Len(s[f]) = 3
             /\ s[f][1] = <<f, "=">> /\ s[f][2] = <<f, "d">>
             /\ s[f][3] = <<f, "dd\n">>
  <2>1. s[f] = <<<<f, "=">>, <<f, "d">>, <<f, "dd\n">>>>
    BY <1>2 DEF D!Line
  <2>2. <<f, "=">> \in TextPiece /\ <<f, "d">> \in TextPiece
        /\ <<f, "dd\n">> \in TextPiece
    BY <1>1 DEF TextPiece
  <2> QED
    BY <2>1, <2>2
<1>4. s \in Seq(Seq(TextPiece)) /\ Len(s) = N
  <2>1. s \in [1 .. N -> Seq(TextPiece)]
    BY <1>1, <1>2, <1>3
  <2> QED
    BY <2>1, FunSeq
<1>5. PICK l : /\ l = FlattenSeq(s) /\ l \in Seq(TextPiece) /\ Len(l) = N * 3
               /\ \A k \in 1 .. N, b \in 1 .. 3 : l[(k - 1) * 3 + b] = s[k][b]
  <2>1. PICK w \in Nat : w = 3
    OBVIOUS
  <2>2. \A k \in 1 .. Len(s) : Len(s[k]) = w
    BY <1>1, <1>3, <1>4, <2>1
  <2>3. /\ FlattenSeq(s) \in Seq(TextPiece) /\ Len(FlattenSeq(s)) = Len(s) * w
        /\ \A k \in 1 .. Len(s), b \in 1 .. w :
              FlattenSeq(s)[(k - 1) * w + b] = s[k][b]
    <3>1. Uniform(TextPiece, s, w)
      BY <1>4, <2>2 DEF Uniform
    <3>2. InBlocks(FlattenSeq(s), TextPiece, s, w)
      BY <3>1, Blocks, Zenon
    <3> QED
      BY <3>2, Zenon DEF InBlocks
  <2>4. /\ FlattenSeq(s) \in Seq(TextPiece) /\ Len(FlattenSeq(s)) = N * 3
        /\ \A k \in 1 .. N, b \in 1 .. 3 :
              FlattenSeq(s)[(k - 1) * 3 + b] = s[k][b]
    BY <1>4, <2>1, <2>3, Zenon
  <2>5. PICK l : l = FlattenSeq(s)
    OBVIOUS
  <2> QED
    BY <2>4, <2>5, Zenon
<1>6. PICK r : /\ r = D!End /\ r \in Seq(TextPiece) /\ Len(r) = 2
               /\ r[1] = <<0, "EN">> /\ r[2] = <<0, "D\n">>
  <2>1. <<0, "EN">> \in TextPiece /\ <<0, "D\n">> \in TextPiece
    BY <1>1 DEF TextPiece
  <2>2. PICK a \in TextPiece, b \in TextPiece : a = <<0, "EN">> /\ b = <<0, "D\n">>
    BY <2>1
  <2>3. PICK r : r = <<a, b>>
    OBVIOUS
  <2>4. r \in Seq(TextPiece) /\ Len(r) = 2
    BY <2>3, Pair
  <2>5. r[1] = a /\ r[2] = b
    BY <2>3
  <2>6. r = D!End
    BY <2>2, <2>3 DEF D!End
  <2> QED
    BY <2>2, <2>4, <2>5, <2>6
<1>7. PICK t : /\ t = D!TextMessage /\ t \in Seq(TextPiece) /\ Len(t) = N * 3 + 2
               /\ \A i \in 1 .. N * 3 + 2 :
                     t[i] = IF i <= N * 3 THEN l[i] ELSE r[i - N * 3]
  <2>1. D!TextMessage = l \o r
    BY <1>2, <1>5, <1>6, DrawingSizes, Zenon DEF D!TextMessage
  <2>2. /\ l \o r \in Seq(TextPiece) /\ Len(l \o r) = Len(l) + Len(r)
        /\ \A i \in 1 .. Len(l) + Len(r) :
              (l \o r)[i] = IF i <= Len(l) THEN l[i] ELSE r[i - Len(l)]
    <3>1. l \in Seq(TextPiece) /\ r \in Seq(TextPiece)
      BY <1>5, <1>6
    <3> QED
      BY <3>1, ConcatProperties
  <2>3. PICK t : t = l \o r
    OBVIOUS
  <2>4. Len(l) = N * 3 /\ Len(r) = 2
    BY <1>5, <1>6
  <2>5. /\ t = D!TextMessage /\ t \in Seq(TextPiece) /\ Len(t) = N * 3 + 2
        /\ \A i \in 1 .. N * 3 + 2 :
              t[i] = IF i <= N * 3 THEN l[i] ELSE r[i - N * 3]
    BY <2>1, <2>2, <2>3, <2>4, Zenon
  <2> QED
    BY <2>5
<1>8. Pieces = N * 3 + 2
  BY <1>1 DEF Pieces
<1>9. ASSUME NEW i \in 1 .. N * 3
      PROVE  \E k \in D!Fields : \/ i = 3 * k - 2 /\ t[i] = <<k, "=">>
                                 \/ i = 3 * k - 1 /\ t[i] = <<k, "d">>
                                 \/ i = 3 * k /\ t[i] = <<k, "dd\n">>
  <2>1. \E k \in 1 .. N, b \in 1 .. 3 : i = (k - 1) * 3 + b
    <3> DEFINE k == (i + 2) \div 3
               b == i - (k - 1) * 3
    <3>1. k \in 1 .. N /\ b \in 1 .. 3 /\ i = (k - 1) * 3 + b
      OBVIOUS
    <3> QED
      BY <3>1
  <2>2. PICK k \in 1 .. N, b \in 1 .. 3 : i = (k - 1) * 3 + b
    BY <2>1
  <2>3. t[i] = s[k][b]
    <3>1. i \in 1 .. N * 3 + 2 /\ i <= N * 3
      OBVIOUS
    <3>2. t[i] = l[i]
      BY <1>7, <3>1
    <3>3. l[(k - 1) * 3 + b] = s[k][b]
      BY <1>5, Zenon
    <3> QED
      BY <2>2, <3>2, <3>3, Zenon
  <2>4. k \in D!Fields
    BY <1>1
  <2> QED
    BY <1>3, <2>2, <2>3, <2>4
<1>10. /\ t[N * 3 + 1] = <<0, "EN">> /\ t[N * 3 + 2] = <<0, "D\n">>
  BY <1>6, <1>7
<1>11. ASSUME NEW i \in 1 .. N * 3 + 2
       PROVE  /\ \A f \in D!Fields :
                    /\ t[i] = <<f, "=">> <=> i = 3 * f - 2
                    /\ t[i] = <<f, "d">> <=> i = 3 * f - 1
                    /\ t[i] = <<f, "dd\n">> <=> i = 3 * f
              /\ t[i] = <<0, "EN">> <=> i = N * 3 + 1
              /\ t[i] = <<0, "D\n">> <=> i = N * 3 + 2
  <2>1. CASE i \in 1 .. N * 3
    <3>1. PICK k \in 1 .. N : \/ i = 3 * k - 2 /\ t[i] = <<k, "=">>
                              \/ i = 3 * k - 1 /\ t[i] = <<k, "d">>
                              \/ i = 3 * k /\ t[i] = <<k, "dd\n">>
      BY <1>1, <1>9, <2>1
    <3>2. ASSUME NEW f \in 1 .. N
          PROVE  /\ i = 3 * f - 2 => k = f /\ i = 3 * k - 2
                 /\ i = 3 * f - 1 => k = f /\ i = 3 * k - 1
                 /\ i = 3 * f => k = f /\ i = 3 * k
      BY <3>1
    <3>3. \A f \in 1 .. N : /\ t[i] = <<f, "=">> <=> i = 3 * f - 2
                            /\ t[i] = <<f, "d">> <=> i = 3 * f - 1
                            /\ t[i] = <<f, "dd\n">> <=> i = 3 * f
      <4>1. CASE i = 3 * k - 2 /\ t[i] = <<k, "=">>
        BY <3>2, <4>1
      <4>2. CASE i = 3 * k - 1 /\ t[i] = <<k, "d">>
        BY <3>2, <4>2
      <4>3. CASE i = 3 * k /\ t[i] = <<k, "dd\n">>
        BY <3>2, <4>3
      <4> QED
        BY <3>1, <4>1, <4>2, <4>3
    <3>4. t[i] # <<0, "EN">> /\ t[i] # <<0, "D\n">>
      BY <3>1
    <3>5. \A f \in D!Fields : /\ t[i] = <<f, "=">> <=> i = 3 * f - 2
                              /\ t[i] = <<f, "d">> <=> i = 3 * f - 1
                              /\ t[i] = <<f, "dd\n">> <=> i = 3 * f
      BY <1>1, <3>3, Zenon
    <3>6. i # N * 3 + 1 /\ i # N * 3 + 2
      BY <2>1
    <3> QED
      BY <3>4, <3>5, <3>6, Zenon
  <2>2. CASE i = N * 3 + 1
    BY <1>1, <1>10, <2>2
  <2>3. CASE i = N * 3 + 2
    BY <1>1, <1>10, <2>3
  <2> QED
    BY <2>1, <2>2, <2>3
<1>12. D!End[1] = <<0, "EN">> /\ D!End[2] = <<0, "D\n">>
  BY <1>6
<1>13. Pieces - 1 = N * 3 + 1 /\ Pieces = N * 3 + 2
  BY <1>8
<1> QED
  BY <1>7, <1>11, <1>12, <1>13

-----------------------------------------------------------------------------
(* No read ended between positions p and q, if e is where they ended.      *)
Apart(e, p, q) == \A x \in e : ~(p <= x /\ x < q)

(* What of line f is parsed when t bytes are read.                         *)
Seen(e, t, f) ==
    IF 3 * f - 1 <= t /\ Apart(e, 3 * f - 2, 3 * f - 1)
    THEN IF 3 * f <= t /\ Apart(e, 3 * f - 2, 3 * f) THEN "value" ELSE "short"
    ELSE "0"

(* t is the furthest a read came, of those that e is made of.              *)
Furthest(e, t) == e \in SUBSET Nat /\ t \in e /\ \A d \in e : d <= t

LEMMA SeenMore ==
    ASSUME NEW e, NEW t, Furthest(e, t),
           NEW u \in Nat, t < u, NEW f \in Nat \ {0}
    PROVE  Seen(e \cup {u}, u, f) =
                IF t < 3 * f - 2 /\ 3 * f - 1 <= u
                THEN IF 3 * f <= u THEN "value" ELSE "short"
                ELSE Seen(e, t, f)
<1> USE DEF Furthest
<1>1. PICK k \in Nat : k = 3 * f - 2 /\ 3 * f - 1 = k + 1 /\ 3 * f = k + 2
  OBVIOUS
<1>2. t \in Nat
  OBVIOUS
<1>3. \A p, q \in Nat : Apart(e \cup {u}, p, q)
                            <=> Apart(e, p, q) /\ ~(p <= u /\ u < q)
  BY DEF Apart
<1>4. CASE k + 1 <= t
  <2>1. \A q \in {k + 1, k + 2} : Apart(e \cup {u}, k, q) <=> Apart(e, k, q)
    BY <1>2, <1>3, <1>4
  <2>2. t = k + 1 => ~Apart(e, k, k + 2)
    BY <1>2 DEF Apart
  <2>3. k + 1 <= u /\ (k + 2 <= t => k + 2 <= u) /\ ~(t < k)
        /\ (~(k + 2 <= t) => t = k + 1)
    BY <1>2, <1>4
  <2> QED
    BY <1>1, <1>4, <2>1, <2>2, <2>3 DEF Seen
<1>5. CASE t = k
  <2>1. ~Apart(e, k, k + 1) /\ ~Apart(e \cup {u}, k, k + 1)
    BY <1>2, <1>5 DEF Apart
  <2>2. ~(t < k)
    BY <1>5
  <2> QED
    BY <1>1, <2>1, <2>2 DEF Seen
<1>6. CASE t < k
  <2>1. \A q \in Nat : Apart(e, k, q)
    BY <1>2, <1>6 DEF Apart
  <2>2. ~(k + 1 <= t)
    BY <1>2, <1>6
  <2>3. Seen(e, t, f) = "0"
    BY <1>1, <2>2 DEF Seen
  <2>4. k + 1 <= u => Apart(e \cup {u}, k, k + 1)
    BY <1>3, <2>1
  <2>5. k + 2 <= u => Apart(e \cup {u}, k, k + 2)
    BY <1>3, <2>1
  <2> QED
    BY <1>1, <1>6, <2>3, <2>4, <2>5 DEF Seen
<1> QED
  BY <1>2, <1>4, <1>5, <1>6

(* What is parsed of a line, by where the reads ended.                     *)
LEMMA SeenKept ==
    ASSUME NEW e, NEW t, Furthest(e, t), NEW f \in Nat \ {0}
    PROVE  /\ /\ Apart(e, 3 * f - 2, 3 * f)
              /\ \E x \in e : 3 * f <= x
              => Seen(e, t, f) = "value"
           /\ Seen(e, t, f) = "value" => Apart(e, 3 * f - 2, 3 * f)
           /\ Seen(e, t, f) = "short" => ~Apart(e, 3 * f - 1, 3 * f)
           /\ Seen(e, t, f) # "0" => Apart(e, 3 * f - 2, 3 * f - 1)
<1>1. PICK k \in Nat : k = 3 * f - 2 /\ 3 * f - 1 = k + 1 /\ 3 * f = k + 2
  OBVIOUS
<1>2. t \in Nat /\ t \in e /\ e \in SUBSET Nat /\ \A d \in e : d <= t
  BY DEF Furthest
<1>3. Apart(e, k, k + 2) <=> Apart(e, k, k + 1) /\ Apart(e, k + 1, k + 2)
  <2>1. \A x \in Nat : k <= x /\ x < k + 2
                <=> (k <= x /\ x < k + 1) \/ (k + 1 <= x /\ x < k + 2)
    OBVIOUS
  <2> QED
    BY <1>2, <2>1 DEF Apart
<1>4. (\E x \in e : k + 2 <= x) => k + 2 <= t /\ k + 1 <= t
  BY <1>2
<1>5. ~(k + 2 <= t) /\ k + 1 <= t => ~Apart(e, k + 1, k + 2)
  <2>1. SUFFICES ASSUME ~(k + 2 <= t), k + 1 <= t
                 PROVE  k + 1 <= t /\ t < k + 2
    BY <1>2 DEF Apart
  <2> QED
    BY <1>2, <2>1
<1> QED
  BY <1>1, <1>3, <1>4, <1>5 DEF Seen

(* D!LinesKept, line by line.                                              *)
KeptFor(f) ==
    /\ Apart(ends, 3 * f - 2, 3 * f) /\ (\E e \in ends : 3 * f <= e /\ e < Pieces)
            => shown[f] = "value"
    /\ shown[f] = "value" => Apart(ends, 3 * f - 2, 3 * f)
    /\ shown[f] = "short" => ~Apart(ends, 3 * f - 1, 3 * f)
    /\ shown[f] # "0" => Apart(ends, 3 * f - 2, 3 * f - 1)

LEMMA Places ==
    /\ Len(D!TextMessage) = Pieces
    /\ \A f \in D!Fields : /\ f \in Nat \ {0}
                           /\ (3 * f - 2) + 1 = 3 * f - 1
                           /\ (3 * f - 2) + 2 = 3 * f
BY TextParts, DrawingSizes

LEMMA KeptIs ==
    ASSUME program = "var"
    PROVE  D!LinesKept <=> \A f \in D!Fields : KeptFor(f)
BY Places DEF KeptFor, D!LinesKept, D!Together, Apart

LEMMA KeptIsNext ==
    ASSUME program' = "var"
    PROVE  D!LinesKept' <=> \A f \in D!Fields : KeptFor(f)'
BY Places DEF KeptFor, D!LinesKept, D!Together, Apart

-----------------------------------------------------------------------------
Whole == IF program = "var" THEN D!TextMessage ELSE D!FixedMessage

(* The stream holds nothing or the message; reads ended inside it.         *)
Stream ==
    /\ program \in D!Programs /\ cut \in BOOLEAN
    /\ client \in {"start", "sent", "closed"}
    /\ server \in {"reading", "done"}
    /\ toServer \in {<<>>, Whole}
    /\ client = "start" => toServer = <<>> /\ server = "reading"
    /\ 0 \in ends /\ ends \in SUBSET (0 .. Len(toServer))

FixedPart ==
    /\ shown = D!Unread \/ shown \in [D!Fields -> Seq(Byte)]
    /\ server = "reading" => shown = D!Unread
    /\ program = "fixed_c" /\ server = "reading" => ends = {0}
    /\ D!FixedExact

(* While it reads, the server has parsed what Seen says; the last two      *)
(* pieces did not come together, or it would have stopped.                 *)
VarPart ==
    /\ shown \in [D!Fields -> D!Parsed]
    /\ server = "reading" =>
            \A f \in D!Fields : shown[f] = Seen(ends, D!Taken, f)
    /\ D!LinesKept

Message ==
    /\ Stream
    /\ program # "var" => FixedPart
    /\ program = "var" => VarPart

Greatest(e) == CHOOSE x \in e : \A d \in e : d <= x

LEMMA GreatestIs ==
    ASSUME NEW e \in SUBSET Nat, NEW u \in e, \A d \in e : d <= u
    PROVE  Greatest(e) = u
<1>1. PICK v : v = Greatest(e)
  OBVIOUS
<1>2. v \in e /\ \A d \in e : d <= v
  BY <1>1 DEF Greatest
<1>3. u <= v /\ v <= u /\ u \in Nat /\ v \in Nat
  BY <1>2
<1> QED
  BY <1>1, <1>3

(* How long the message is.                                                *)
LEMMA WholeSize ==
    ASSUME Stream
    PROVE  /\ \E S : toServer \in Seq(S)
           /\ Len(toServer) \in Nat
           /\ toServer = Whole => Len(toServer) > 0 /\ toServer # <<>>
           /\ toServer = <<>> => Len(toServer) = 0
           /\ toServer # <<>> =>
                 /\ toServer = Whole
                 /\ Len(toServer) = IF program = "var" THEN Pieces ELSE Total
<1>1. Pieces \in Nat /\ Pieces > 0
  BY DrawingSizes DEF Pieces
<1>2. /\ D!TextMessage \in Seq(TextPiece) /\ Len(D!TextMessage) = Pieces
      /\ D!FixedMessage \in Seq(Byte) /\ Len(D!FixedMessage) = Total
      /\ Total \in Nat /\ Total > 0
  BY FixedParts, TextParts
<1>3. \A S : <<>> \in Seq(S) /\ Len(<<>>) = 0
  BY EmptySeq
<1>4. D!TextMessage # <<>> /\ D!FixedMessage # <<>>
  BY <1>1, <1>2, <1>3
<1>5. CASE toServer = <<>>
  BY <1>3, <1>4, <1>5 DEF Whole
<1>6. CASE toServer = Whole /\ toServer # <<>>
  BY <1>1, <1>2, <1>6 DEF Whole
<1> QED
  BY <1>5, <1>6 DEF Stream

LEMMA TakenIs ==
    ASSUME Stream
    PROVE  /\ D!Taken \in ends /\ D!Taken \in 0 .. Len(toServer)
           /\ \A d \in ends : d <= D!Taken
           /\ ends \in SUBSET Nat
<1>1. PICK m \in ends : \A d \in ends : d <= m
  <2>1. Len(toServer) \in Nat /\ ends # {}
    BY WholeSize DEF Stream
  <2> QED
    BY <2>1, GreatestNumber DEF Stream
<1>2. ends \in SUBSET Nat
  BY WholeSize DEF Stream
<1>3. D!Taken = Greatest(ends)
  BY DEF D!Taken, Greatest
<1>4. Greatest(ends) = m
  BY <1>1, <1>2, GreatestIs
<1> QED
  BY <1>1, <1>2, <1>3, <1>4 DEF Stream

(* A read() of n bytes, whatever is done with them.                        *)
LEMMA ReadStream ==
    ASSUME Stream, NEW n, D!Read(n), server' \in {"reading", "done"}
    PROVE  /\ server = "reading" /\ toServer = Whole /\ toServer # <<>>
           /\ program' = program /\ cut' = cut /\ toServer' = toServer
           /\ n \in 1 .. Len(toServer) - D!Taken
           /\ cut \/ n = Len(toServer) - D!Taken
           /\ ends' = ends \cup {D!Taken + n} /\ D!Taken' = D!Taken + n
           /\ Stream'
<1>1. /\ server = "reading" /\ n \in 1 .. Len(toServer) - D!Taken
      /\ cut \/ n = Len(toServer) - D!Taken
      /\ ends' = ends \cup {D!Taken + n}
      /\ program' = program /\ cut' = cut
      /\ client' = client /\ toServer' = toServer
  BY DEF D!Read, D!choiceVars
<1>2. PICK t \in Nat, m \in Nat :
            /\ t = D!Taken /\ m = Len(toServer) /\ t <= m
            /\ \A d \in ends : d <= t
            /\ n \in 1 .. m - t
  BY <1>1, TakenIs, WholeSize
<1>3. /\ t + n \in 1 .. m /\ t + n \in Nat /\ n \in Nat \ {0} /\ m # 0
      /\ t < t + n
  BY <1>2
<1>4. toServer = Whole /\ toServer # <<>>
  BY <1>2, <1>3, WholeSize DEF Stream
<1>5. ends' \in SUBSET (0 .. m) /\ ends' \in SUBSET Nat
  BY <1>1, <1>2, <1>3, TakenIs DEF Stream
<1>6. D!Taken' = t + n
  <2>1. D!Taken' = Greatest(ends')
    BY DEF D!Taken, Greatest
  <2>2. t + n \in ends'
    BY <1>1, <1>2
  <2>3. \A d \in ends' : d <= t + n
    <3>1. \A d \in ends : d \in Nat /\ d <= t
      BY <1>2, TakenIs
    <3>2. \A d \in ends : d <= t + n
      BY <1>3, <3>1
    <3> QED
      BY <1>1, <1>2, <1>3, <3>2
  <2> QED
    BY <1>5, <2>1, <2>2, <2>3, GreatestIs
<1>7. Stream'
  BY <1>1, <1>2, <1>4, <1>5 DEF Stream, Whole
<1> QED
  BY <1>1, <1>2, <1>4, <1>6, <1>7

(* What is shown of a fixed message of which c has been read.              *)
LEMMA FixedShows ==
    ASSUME program # "var", NEW c \in Seq(Byte), Len(c) <= Total,
           \A i \in 1 .. Len(c) : c[i] = D!FixedMessage[i],
           shown' = [f \in D!Fields |-> D!Member(c, f)],
           program' = program, cut' = cut,
           program = "fixed_rs" \/ ~cut => Len(c) = Total
    PROVE  /\ shown' \in [D!Fields -> Seq(Byte)]
           /\ D!FixedExact'
<1>1. ASSUME NEW f \in D!Fields
      PROVE  /\ shown'[f] \in Seq(Byte)
             /\ Len(c) = Total => shown'[f] = D!Sent[f]
             /\ shown'[f] = D!Sent[f] \/ D!Contains(shown'[f], D!Junk)
  <2>1. /\ D!Member(c, f) \in Seq(Byte)
        /\ Len(c) = Total => D!Member(c, f) = D!Sent[f]
        /\ D!Member(c, f) = D!Sent[f] \/ D!Contains(D!Member(c, f), D!Junk)
    BY MemberShown
  <2>2. shown'[f] = D!Member(c, f)
    OBVIOUS
  <2> QED
    BY <2>1, <2>2, Zenon
<1>2. shown' \in [D!Fields -> Seq(Byte)]
  BY <1>1
<1>3. program = "fixed_rs" \/ ~cut => shown' = D!Sent
  <2>1. SUFFICES ASSUME Len(c) = Total PROVE shown' = D!Sent
    OBVIOUS
  <2>2. \A f \in D!Fields : shown'[f] = D!Sent[f]
    BY <1>1, <2>1
  <2>3. PICK s : s = D!Sent /\ s = [f \in D!Fields |-> D!Sent[f]]
    BY DEF D!Sent
  <2> QED
    BY <1>2, <2>2, <2>3
<1> QED
  BY <1>1, <1>2, <1>3 DEF D!FixedExact

LEMMA ReadFixedMessage ==
    ASSUME Message, program # "var", D!ReadStruct \/ D!ReadExact
    PROVE  Message'
<1>1. Stream /\ FixedPart
  BY DEF Message
<1>2. PICK n \in 1 .. Len(toServer) :
            /\ D!Read(n) /\ server' \in {"reading", "done"}
            /\ \/ /\ program = "fixed_c" /\ server' = "done"
                  /\ shown' = [f \in D!Fields |->
                                  D!Member(SubSeq(toServer, 1, n), f)]
               \/ /\ program = "fixed_rs" /\ D!Taken + n = Total
                  /\ server' = "done"
                  /\ shown' = [f \in D!Fields |-> D!Member(toServer, f)]
               \/ /\ program = "fixed_rs" /\ shown' = shown
                  /\ server' = server
  <2>1. CASE D!ReadStruct
    BY <2>1 DEF D!ReadStruct, D!Finish
  <2>2. CASE D!ReadExact
    <3>1. PICK n \in 1 .. Len(toServer) :
              /\ D!Read(n)
              /\ IF D!Taken + n = NumFields * Width
                 THEN /\ server' = "done"
                      /\ shown' = [f \in D!Fields |-> D!Member(toServer, f)]
                 ELSE server' = server /\ shown' = shown
      BY <2>2 DEF D!ReadExact, D!Finish
    <3>2. server \in {"reading", "done"} /\ program = "fixed_rs"
      BY <1>1, <2>2 DEF Stream, D!ReadExact
    <3>3. PICK total : total = NumFields * Width /\ total = Total
      BY DEF Total
    <3>4. CASE D!Taken + n = total
      BY <3>1, <3>2, <3>3, <3>4
    <3>5. CASE D!Taken + n # total
      BY <3>1, <3>2, <3>3, <3>5
    <3> QED
      BY <3>4, <3>5
  <2> QED
    BY <2>1, <2>2
<1>3. /\ server = "reading" /\ toServer = Whole
      /\ program' = program /\ cut' = cut /\ toServer' = toServer
      /\ n \in 1 .. Len(toServer) - D!Taken
      /\ cut \/ n = Len(toServer) - D!Taken
      /\ Stream'
  BY <1>1, <1>2, ReadStream
<1>4. PICK s \in Seq(Byte) : /\ s = toServer /\ s = D!FixedMessage
                             /\ Len(s) = Total /\ Total \in Nat
  BY <1>3, FixedParts DEF Whole
<1>5. CASE /\ program = "fixed_c" /\ server' = "done"
           /\ shown' = [f \in D!Fields |-> D!Member(SubSeq(toServer, 1, n), f)]
  <2>1. ends = {0}
    BY <1>1, <1>3, <1>5 DEF FixedPart
  <2>2. D!Taken = 0
    BY <1>1, <2>1, TakenIs
  <2>3. n \in Nat \ {0} /\ 0 + n <= Len(s) /\ (cut \/ n = Total)
    BY <1>3, <1>4, <2>2
  <2>4. PICK c \in Seq(Byte) : /\ c = SubSeq(s, 1, n) /\ Len(c) = n
                               /\ \A i \in 1 .. n : c[i] = s[i]
    <3>1. Inside(Byte, s, 0, n)
      BY <2>3 DEF Inside
    <3>2. IsChunk(SubSeq(s, 0 + 1, 0 + n), Byte, s, 0, n)
      BY <3>1, Chunk, Zenon
    <3>3. 0 + n = n /\ 0 + 1 = 1 /\ \A i \in 1 .. n : 0 + i = i
      BY <2>3
    <3>4. PICK c : c = SubSeq(s, 1, n)
      OBVIOUS
    <3>5. IsChunk(c, Byte, s, 0, n)
      BY <3>2, <3>3, <3>4
    <3>6. c \in Seq(Byte) /\ Len(c) = n /\ \A i \in 1 .. n : c[i] = s[i]
      BY <3>3, <3>5 DEF IsChunk
    <3> QED
      BY <3>4, <3>6
  <2>5. /\ shown' = [f \in D!Fields |-> D!Member(c, f)]
        /\ Len(c) <= Total /\ \A i \in 1 .. Len(c) : c[i] = D!FixedMessage[i]
        /\ program = "fixed_rs" \/ ~cut => Len(c) = Total
    <3>1. shown' = [f \in D!Fields |-> D!Member(c, f)]
      BY <1>4, <1>5, <2>4
    <3>2. \A i \in 1 .. Len(c) : c[i] = D!FixedMessage[i]
      BY <1>4, <2>4
    <3>3. Len(c) <= Total
      BY <1>4, <2>3, <2>4
    <3>4. program = "fixed_rs" \/ ~cut => Len(c) = Total
      BY <1>5, <2>3, <2>4
    <3> QED
      BY <3>1, <3>2, <3>3, <3>4
  <2>6. shown' \in [D!Fields -> Seq(Byte)] /\ D!FixedExact'
    BY <1>3, <2>5, FixedShows
  <2>7. FixedPart'
    BY <1>5, <2>6 DEF FixedPart
  <2> QED
    BY <1>3, <2>7 DEF Message
<1>6. CASE /\ program = "fixed_rs" /\ D!Taken + n = Total
           /\ server' = "done"
           /\ shown' = [f \in D!Fields |-> D!Member(toServer, f)]
  <2>1. /\ shown' = [f \in D!Fields |-> D!Member(s, f)]
        /\ Len(s) <= Total /\ \A i \in 1 .. Len(s) : s[i] = D!FixedMessage[i]
        /\ program = "fixed_rs" \/ ~cut => Len(s) = Total
    <3>1. shown' = [f \in D!Fields |-> D!Member(s, f)]
      BY <1>4, <1>6
    <3>2. \A i \in 1 .. Len(s) : s[i] = D!FixedMessage[i]
      BY <1>4
    <3> QED
      BY <1>4, <3>1, <3>2
  <2>2. shown' \in [D!Fields -> Seq(Byte)] /\ D!FixedExact'
    BY <1>3, <2>1, FixedShows
  <2>3. FixedPart'
    BY <1>3, <1>6, <2>2 DEF FixedPart
  <2> QED
    BY <1>3, <2>3 DEF Message
<1>7. CASE program = "fixed_rs" /\ shown' = shown /\ server' = server
  <2>1. shown' = D!Unread
    BY <1>1, <1>3, <1>7 DEF FixedPart
  <2>2. FixedPart'
    BY <1>3, <1>7, <2>1 DEF FixedPart, D!FixedExact
  <2> QED
    BY <1>3, <2>2 DEF Message
<1> QED
  BY <1>2, <1>5, <1>6, <1>7

(* A chunk without END is parsed; one with END ends the server.            *)
LEMMA ReadTextMessage ==
    ASSUME Message, D!ReadText
    PROVE  Message'
<1>1. Stream /\ VarPart /\ program = "var"
  BY DEF Message, D!ReadText
<1>13. PICK n \in 1 .. Len(toServer) :
            LET c == SubSeq(toServer, D!Taken + 1, D!Taken + n)
            IN  /\ D!Read(n)
                /\ IF D!Contains(c, D!End[1]) /\ D!Contains(c, D!End[2])
                   THEN server' = "done" /\ shown' = shown
                   ELSE shown' = D!ParseLines(c, shown) /\ server' = server
  BY DEF D!ReadText, D!Finish
<1>14. PICK c : c = SubSeq(toServer, D!Taken + 1, D!Taken + n)
  OBVIOUS
<1>2. /\ c = SubSeq(toServer, D!Taken + 1, D!Taken + n)
      /\ D!Read(n) /\ server' \in {"reading", "done"}
      /\ IF D!Contains(c, D!End[1]) /\ D!Contains(c, D!End[2])
         THEN server' = "done" /\ shown' = shown
         ELSE shown' = D!ParseLines(c, shown) /\ server' = server
  <2>3. /\ D!Read(n)
        /\ IF D!Contains(c, D!End[1]) /\ D!Contains(c, D!End[2])
           THEN server' = "done" /\ shown' = shown
           ELSE shown' = D!ParseLines(c, shown) /\ server' = server
    BY <1>13, <1>14, Zenon
  <2>4. server' \in {"reading", "done"}
    BY <1>1, <2>3 DEF Stream
  <2> QED
    BY <1>14, <2>3, <2>4
<1>3. /\ server = "reading" /\ toServer = Whole /\ toServer # <<>>
      /\ program' = program /\ toServer' = toServer
      /\ n \in 1 .. Len(toServer) - D!Taken
      /\ ends' = ends \cup {D!Taken + n} /\ D!Taken' = D!Taken + n
      /\ Stream'
  BY <1>1, <1>2, ReadStream
<1>4. PICK s \in Seq(TextPiece), t \in Nat :
            /\ s = toServer /\ t = D!Taken /\ s = D!TextMessage
            /\ Len(s) = Pieces /\ Pieces \in Nat
            /\ t \in ends /\ \A d \in ends : d <= t
            /\ ends \in SUBSET Nat
  <2>1. Pieces \in Nat
    BY DrawingSizes DEF Pieces
  <2>2. toServer = D!TextMessage
    BY <1>1, <1>3 DEF Whole
  <2>3. D!Taken \in Nat
    BY <1>1, TakenIs, WholeSize
  <2> QED
    BY <1>1, <2>1, <2>2, <2>3, TextParts, TakenIs
<1>5. /\ n \in Nat \ {0} /\ t + n \in Nat /\ t + n <= Pieces /\ t < t + n
      /\ ends' = ends \cup {t + n} /\ D!Taken' = t + n
  BY <1>3, <1>4
<1>6. \A x : D!Contains(c, x) <=> \E i \in t + 1 .. t + n : s[i] = x
  <2>1. c = SubSeq(s, t + 1, t + n)
    BY <1>2, <1>4
  <2>2. Inside(TextPiece, s, t, n)
    BY <1>4, <1>5 DEF Inside
  <2>3. IsChunk(c, TextPiece, s, t, n)
    BY <2>1, <2>2, Chunk, Zenon
  <2> QED
    BY <2>3, Zenon DEF IsChunk
<1>7. \A i \in t + 1 .. t + n : i \in 1 .. Pieces
  BY <1>4, <1>5
<1>8. ASSUME NEW f \in D!Fields
      PROVE  /\ f \in Nat \ {0} /\ 3 * f < Pieces - 1
             /\ D!Contains(c, <<f, "=">>)
                    <=> t < 3 * f - 2 /\ 3 * f - 2 <= t + n
             /\ D!Contains(c, <<f, "d">>)
                    <=> t < 3 * f - 1 /\ 3 * f - 1 <= t + n
             /\ D!Contains(c, <<f, "dd\n">>)
                    <=> t < 3 * f /\ 3 * f <= t + n
  <2>1. f \in Nat \ {0} /\ 3 * f < Pieces - 1
    <3>1. f \in 1 .. NumFields /\ NumFields \in Nat
      BY DrawingSizes
    <3> QED
      BY <3>1 DEF Pieces
  <2>2. \A i \in t + 1 .. t + n :
            /\ s[i] = <<f, "=">> <=> i = 3 * f - 2
            /\ s[i] = <<f, "d">> <=> i = 3 * f - 1
            /\ s[i] = <<f, "dd\n">> <=> i = 3 * f
    <3>1. \A i \in 1 .. Pieces :
            /\ s[i] = <<f, "=">> <=> i = 3 * f - 2
            /\ s[i] = <<f, "d">> <=> i = 3 * f - 1
            /\ s[i] = <<f, "dd\n">> <=> i = 3 * f
      <4>1. s = D!TextMessage
        BY <1>4
      <4> QED
        BY <4>1, TextParts, Zenon
    <3> QED
      BY <1>7, <3>1, Zenon
  <2>3. \A k \in Nat : k \in t + 1 .. t + n <=> t < k /\ k <= t + n
    BY <1>5
  <2>4. 3 * f - 2 \in Nat /\ 3 * f - 1 \in Nat /\ 3 * f \in Nat
    BY <2>1
  <2>5. D!Contains(c, <<f, "=">>) <=> 3 * f - 2 \in t + 1 .. t + n
    BY <1>6, <2>2
  <2>6. D!Contains(c, <<f, "d">>) <=> 3 * f - 1 \in t + 1 .. t + n
    BY <1>6, <2>2
  <2>7. D!Contains(c, <<f, "dd\n">>) <=> 3 * f \in t + 1 .. t + n
    BY <1>6, <2>2
  <2> QED
    BY <2>1, <2>3, <2>4, <2>5, <2>6, <2>7
<1>9. D!Contains(c, D!End[1]) /\ D!Contains(c, D!End[2])
        <=> t <= Pieces - 2 /\ t + n = Pieces
  <2>1. \A i \in t + 1 .. t + n : /\ s[i] = D!End[1] <=> i = Pieces - 1
                                  /\ s[i] = D!End[2] <=> i = Pieces
    BY <1>4, <1>7, TextParts
  <2>2. D!Contains(c, D!End[1]) <=> Pieces - 1 \in t + 1 .. t + n
    BY <1>6, <2>1
  <2>3. D!Contains(c, D!End[2]) <=> Pieces \in t + 1 .. t + n
    BY <1>6, <2>1
  <2> QED
    BY <1>4, <1>5, <2>2, <2>3
<1>10. \A f \in D!Fields : shown[f] = Seen(ends, t, f)
  BY <1>1, <1>3, <1>4 DEF VarPart
<1>11. CASE t <= Pieces - 2 /\ t + n = Pieces
  <2>1. server' = "done" /\ shown' = shown
    BY <1>2, <1>9, <1>11
  <2>2. \A p \in Nat, q \in Nat : q <= Pieces =>
                (Apart(ends', p, q) <=> Apart(ends, p, q))
    BY <1>4, <1>5, <1>11 DEF Apart
  <2>5. \A q \in Nat : (\E e \in ends' : q <= e /\ e < Pieces)
                        <=> (\E e \in ends : q <= e /\ e < Pieces)
    BY <1>4, <1>5, <1>11
  <2>3. D!LinesKept'
    <3>1. ASSUME NEW f \in D!Fields PROVE KeptFor(f)'
      <4>1. KeptFor(f)
        BY <1>1, <3>1, KeptIs DEF VarPart
      <4>2. PICK k \in Nat : /\ k = 3 * f - 2 /\ 3 * f - 1 = k + 1
                             /\ 3 * f = k + 2 /\ k + 2 <= Pieces
                             /\ k + 1 <= Pieces
        <5>1. f \in Nat \ {0} /\ 3 * f < Pieces - 1
          BY <1>8
        <5> QED
          BY <1>4, <5>1
      <4>3. /\ Apart(ends', k, k + 2) <=> Apart(ends, k, k + 2)
            /\ Apart(ends', k, k + 1) <=> Apart(ends, k, k + 1)
            /\ Apart(ends', k + 1, k + 2) <=> Apart(ends, k + 1, k + 2)
        BY <2>2, <4>2
      <4>4. (\E e \in ends' : k + 2 <= e /\ e < Pieces)
                <=> (\E e \in ends : k + 2 <= e /\ e < Pieces)
        BY <2>5, <4>2
      <4> QED
        BY <2>1, <4>1, <4>2, <4>3, <4>4 DEF KeptFor
    <3> QED
      BY <1>1, <1>3, <3>1, KeptIsNext
  <2>4. VarPart'
    BY <1>1, <2>1, <2>3 DEF VarPart
  <2> QED
    BY <1>1, <1>3, <2>4 DEF Message
<1>12. CASE ~(t <= Pieces - 2 /\ t + n = Pieces)
  <2>1. server' = "reading" /\ shown' = D!ParseLines(c, shown)
    BY <1>2, <1>3, <1>9, <1>12
  <2>2. ASSUME NEW f \in D!Fields
        PROVE  shown'[f] = Seen(ends', t + n, f) /\ shown'[f] \in D!Parsed
    <3>1. shown'[f] = IF D!Contains(c, <<f, "=">>) /\ D!Contains(c, <<f, "d">>)
                      THEN IF D!Contains(c, <<f, "dd\n">>) THEN "value"
                           ELSE "short"
                      ELSE shown[f]
      BY <2>1 DEF D!ParseLines
    <3>7. f \in Nat \ {0}
      BY <1>8
    <3>8. /\ D!Contains(c, <<f, "=">>)
                <=> t < 3 * f - 2 /\ 3 * f - 2 <= t + n
          /\ D!Contains(c, <<f, "d">>)
                <=> t < 3 * f - 1 /\ 3 * f - 1 <= t + n
          /\ D!Contains(c, <<f, "dd\n">>)
                <=> t < 3 * f /\ 3 * f <= t + n
      BY <1>8
    <3>2. D!Contains(c, <<f, "=">>) /\ D!Contains(c, <<f, "d">>)
            <=> t < 3 * f - 2 /\ 3 * f - 1 <= t + n
      BY <1>5, <3>7, <3>8
    <3>3. t < 3 * f - 2 => (D!Contains(c, <<f, "dd\n">>) <=> 3 * f <= t + n)
      BY <1>5, <3>7, <3>8
    <3>4. Seen(ends \cup {t + n}, t + n, f) =
                IF t < 3 * f - 2 /\ 3 * f - 1 <= t + n
                THEN IF 3 * f <= t + n THEN "value" ELSE "short"
                ELSE Seen(ends, t, f)
      <4>1. PICK u \in Nat : u = t + n /\ t < u
        BY <1>5
      <4>2. Seen(ends \cup {u}, u, f) =
                IF t < 3 * f - 2 /\ 3 * f - 1 <= u
                THEN IF 3 * f <= u THEN "value" ELSE "short"
                ELSE Seen(ends, t, f)
        <5>1. Furthest(ends, t)
          BY <1>4 DEF Furthest
        <5> QED
          BY <3>7, <4>1, <5>1, SeenMore
      <4> QED
        BY <4>1, <4>2, Zenon
    <3>5. shown[f] = Seen(ends, t, f) /\ shown[f] \in D!Parsed
      BY <1>1, <1>10 DEF VarPart
    <3>6. shown'[f] = Seen(ends', t + n, f)
      BY <1>5, <3>1, <3>2, <3>3, <3>4, <3>5
    <3> QED
      BY <3>1, <3>5, <3>6 DEF D!Parsed
  <2>3. shown' \in [D!Fields -> D!Parsed]
    <3>1. \E g : shown' = [f \in D!Fields |-> g[f]]
      <4>1. shown' = [f \in D!Fields |-> shown'[f]]
        BY <2>1 DEF D!ParseLines
      <4> QED
        BY <4>1
    <3> QED
      BY <2>2, <3>1
  <2>5. D!LinesKept'
    <3>1. Furthest(ends', t + n)
      BY <1>4, <1>5 DEF Furthest
    <3>2. ASSUME NEW f \in D!Fields PROVE KeptFor(f)'
      <4>1. f \in Nat \ {0} /\ shown'[f] = Seen(ends', t + n, f)
        BY <1>8, <2>2
      <4> QED
        BY <3>1, <4>1, SeenKept DEF KeptFor
    <3> QED
      BY <1>1, <1>3, <3>2, KeptIsNext
  <2>6. \A f \in D!Fields : shown'[f] = Seen(ends', D!Taken', f)
    BY <1>5, <2>2
  <2>7. VarPart'
    BY <2>3, <2>5, <2>6 DEF VarPart
  <2> QED
    BY <1>1, <1>3, <2>7 DEF Message
<1> QED
  BY <1>11, <1>12

(* The rest of the steps: send, close, and read() of nothing.              *)
LEMMA OtherMessage ==
    ASSUME Message,
           \/ D!Send \/ D!Close
           \/ D!ReadNothing \/ D!ReadFails \/ D!ReadTextEnd
    PROVE  Message'
<1>1. Stream
  BY DEF Message
<1>2. CASE D!Send
  <2>1. /\ program' = program /\ cut' = cut /\ client = "start"
        /\ client' = "sent" /\ toServer' = Whole
        /\ server' = server /\ ends' = ends /\ shown' = shown
    BY <1>2 DEF D!Send, D!choiceVars, Whole
  <2>2. toServer = <<>> /\ server = "reading" /\ Len(toServer) = 0
    BY <1>1, <2>1, WholeSize DEF Stream
  <2>3. ends = {0} /\ D!Taken = 0
    <3>1. PICK k : k = Len(toServer)
      OBVIOUS
    <3>2. 0 \in ends /\ ends \in SUBSET (0 .. k)
      BY <1>1, <3>1 DEF Stream
    <3>3. k = 0
      BY <2>2, <3>1
    <3>4. \A i \in 0 .. k : i = 0
      BY <3>3
    <3>5. ends = {0}
      BY <3>2, <3>4, Zenon
    <3> QED
      BY <1>1, <3>5, TakenIs
  <2>4. Pieces \in Nat /\ Pieces # 0
    BY DrawingSizes DEF Pieces
  <2>5. D!Taken' = D!Taken
    BY <2>1 DEF D!Taken
  <2>6. 0 \in 0 .. Len(Whole)
    <3>1. Len(Whole) \in Nat
      <4>1. \/ Len(Whole) = Pieces
            \/ Len(Whole) = Total
        BY TextParts, FixedParts DEF Whole
      <4> QED
        BY <2>4, <4>1, FixedParts
    <3> QED
      BY <3>1
  <2>7. Stream'
    BY <1>1, <2>1, <2>3, <2>6 DEF Stream, Whole
  <2>8. ASSUME program # "var" PROVE FixedPart'
    <3>1. shown = D!Unread
      BY <2>2, <2>8 DEF Message, FixedPart
    <3> QED
      BY <2>1, <2>3, <3>1 DEF FixedPart, D!FixedExact
  <2>9. ASSUME program = "var" PROVE VarPart'
    <3>1. VarPart
      BY <2>9 DEF Message
    <3>2. D!LinesKept'
      BY <2>1, <3>1 DEF VarPart, D!LinesKept, D!Together
    <3> QED
      BY <2>1, <2>2, <2>3, <2>4, <2>5, <3>1, <3>2 DEF VarPart
  <2> QED
    BY <2>1, <2>7, <2>8, <2>9 DEF Message
<1>3. CASE D!Close
  <2>1. /\ program' = program /\ cut' = cut /\ client' = "closed"
        /\ toServer' = toServer /\ server' = server /\ ends' = ends
        /\ shown' = shown
    BY <1>3 DEF D!Close, D!choiceVars
  <2>2. Stream'
    BY <1>1, <2>1 DEF Stream, Whole
  <2>3. D!Taken' = D!Taken
    BY <2>1 DEF D!Taken
  <2>4. ASSUME program # "var" PROVE FixedPart'
    BY <2>1, <2>4 DEF Message, FixedPart, D!FixedExact
  <2>5. ASSUME program = "var" PROVE VarPart'
    <3>1. VarPart
      BY <2>5 DEF Message
    <3>2. D!LinesKept'
      BY <2>1, <3>1 DEF VarPart, D!LinesKept, D!Together
    <3> QED
      BY <2>1, <2>3, <3>1, <3>2 DEF VarPart
  <2> QED
    BY <2>1, <2>2, <2>4, <2>5 DEF Message
<1>4. CASE D!ReadNothing \/ D!ReadFails \/ D!ReadTextEnd
  <2>1. /\ program' = program /\ cut' = cut /\ client' = client
        /\ client = "closed" /\ D!Taken = Len(toServer)
        /\ toServer' = toServer /\ server = "reading" /\ server' = "done"
        /\ ends' = ends /\ shown' = shown
    BY <1>4 DEF D!ReadNothing, D!ReadFails, D!ReadTextEnd, D!AtEnd, D!Finish,
                D!choiceVars
  <2>2. Stream'
    BY <1>1, <2>1 DEF Stream, Whole
  <2>3. ASSUME program # "var" PROVE FixedPart'
    <3>1. shown = D!Unread
      BY <2>1, <2>3 DEF Message, FixedPart
    <3> QED
      BY <2>1, <3>1 DEF FixedPart, D!FixedExact
  <2>4. ASSUME program = "var" PROVE VarPart'
    <3>1. VarPart
      BY <2>4 DEF Message
    <3>3. D!LinesKept'
      BY <2>1, <3>1 DEF VarPart, D!LinesKept, D!Together
    <3> QED
      BY <2>1, <3>1, <3>3 DEF VarPart
  <2> QED
    BY <2>1, <2>2, <2>3, <2>4 DEF Message
<1> QED
  BY <1>2, <1>3, <1>4

LEMMA NextMessage ==
    ASSUME Message, AnyNext
    PROVE  Message'
<1>1. program \notin E!Programs \cup C!Programs \cup U!Programs
  BY DEF Message, Stream, E!Programs, C!Programs, D!Programs, U!Programs
<1>2. D!Next
  BY <1>1 DEF AnyNext, OfEcho, OfCommand, OfDrawing, OfUdp
<1>3. D!ReadStruct \/ D!ReadExact => program # "var"
  BY DEF D!ReadStruct, D!ReadExact
<1> QED
  BY <1>2, <1>3, ReadFixedMessage, ReadTextMessage, OtherMessage
     DEF D!Next, D!ServerRuns

LEMMA InitMessage ==
    ASSUME AnyInit, program \in D!Programs
    PROVE  Message
<1>1. D!Init
  BY DEF AnyInit, E!Programs, C!Programs, D!Programs, U!Programs
<1>2. Len(<<>>) = 0
  BY EmptySeq
<1>3. Stream
  BY <1>1, <1>2 DEF D!Init, Stream
<1>4. D!Taken = 0 /\ ends = {0}
  BY <1>1, <1>3, TakenIs DEF D!Init
<1>5. ASSUME program # "var" PROVE FixedPart
  BY <1>1, <1>5 DEF D!Init, FixedPart, D!FixedExact
<1>6. ASSUME program = "var" PROVE VarPart
  <2>1. shown = [f \in D!Fields |-> "0"] /\ server = "reading"
    BY <1>1, <1>6 DEF D!Init
  <2>2. shown \in [D!Fields -> D!Parsed]
    BY <2>1 DEF D!Parsed
  <2>3. ASSUME NEW f \in D!Fields PROVE Seen(ends, 0, f) = "0"
    <3>1. ~(3 * f - 1 <= 0)
      BY DrawingSizes
    <3> QED
      BY <3>1 DEF Seen
  <2>4. Pieces # 0
    BY DrawingSizes DEF Pieces
  <2>5. D!LinesKept
    <3>1. ASSUME NEW f \in D!Fields PROVE KeptFor(f)
      <4>1. PICK k \in Nat : k = 3 * f /\ ~(k <= 0) /\ 3 * f - 2 > 0
        BY DrawingSizes
      <4>2. Apart(ends, 3 * f - 2, 3 * f - 1) /\ shown[f] = "0"
        BY <1>4, <2>1, <4>1 DEF Apart
      <4>3. ~\E e \in ends : 3 * f <= e
        BY <1>4, <4>1
      <4> QED
        BY <4>2, <4>3 DEF KeptFor
    <3> QED
      BY <1>6, <3>1, KeptIs
  <2> QED
    BY <1>4, <2>1, <2>2, <2>3, <2>4, <2>5 DEF VarPart
<1> QED
  BY <1>3, <1>5, <1>6 DEF Message

(* What Message says of the checked properties.                            *)
LEMMA MessageProperties ==
    ASSUME Message
    PROVE  D!DrawingTypeOK /\ D!FixedExact /\ D!LinesKept
<1>1. D!DrawingTypeOK
  BY DEF Message, Stream, FixedPart, VarPart, D!DrawingTypeOK, Byte
<1>2. D!FixedExact
  BY DEF Message, FixedPart, D!FixedExact
<1>3. D!LinesKept
  BY DEF Message, VarPart, D!LinesKept
<1> QED
  BY <1>1, <1>2, <1>3

-----------------------------------------------------------------------------
(* The inductive invariant: the part of the program that runs.  Each part  *)
(* says that the program is one of its group, and the groups are disjoint. *)
IInv == Talk \/ Message \/ Network

LEMMA Groups ==
    /\ LinePrograms \cap D!Programs = {} /\ LinePrograms \cap U!Programs = {}
    /\ D!Programs \cap U!Programs = {}
    /\ Talk => program \in LinePrograms
    /\ Message => program \in D!Programs
    /\ Network => program \in U!Programs
<1>1. /\ LinePrograms \cap D!Programs = {} /\ LinePrograms \cap U!Programs = {}
      /\ D!Programs \cap U!Programs = {}
  BY DEF LinePrograms, E!Programs, C!Programs, D!Programs, U!Programs
<1> QED
  BY <1>1 DEF Talk, LineType, Message, Stream, Network

LEMMA InitHolds == AnyInit => IInv
<1>1. AnyInit => program \in LinePrograms \cup D!Programs \cup U!Programs
  BY DEF AnyInit, LinePrograms
<1> QED
  BY <1>1, InitTalk, InitMessage, InitNetwork DEF IInv

(* Steps of the other variables, and of none.                              *)
LEMMA StutterTalk ==
    ASSUME Talk, UNCHANGED allVars
    PROVE  Talk'
<1>1. /\ program' = program /\ cut' = cut /\ client' = client
      /\ stdin' = stdin /\ asked' = asked /\ shown' = shown
      /\ server' = server /\ toServer' = toServer /\ toClient' = toClient
      /\ overrun' = overrun
  BY DEF allVars
<1>2. LineType'
  BY <1>1 DEF Talk, LineType
<1>3. Orderly'
  <2>1. SUFFICES ASSUME ~cut, server # "killed", Fit PROVE OneLine'
    BY <1>1 DEF Orderly, Fit
  <2>2. OneLine
    BY <2>1 DEF Talk, Orderly
  <2>3. \A a : Said(a)' = Said(a)
    BY <1>1 DEF Said, C!Answer, E!Echo
  <2> QED
    BY <1>1, <2>2, <2>3, Zenon DEF OneLine
<1>4. ASSUME program \in E!Programs PROVE Echoed'
  BY <1>1, <1>4 DEF Talk, Echoed
<1>5. L!TerminatorInside'
  BY <1>1 DEF Talk, L!TerminatorInside
<1> QED
  BY <1>1, <1>2, <1>3, <1>4, <1>5 DEF Talk

LEMMA StutterMessage ==
    ASSUME Message, UNCHANGED allVars
    PROVE  Message'
<1>1. /\ program' = program /\ cut' = cut /\ client' = client
      /\ shown' = shown /\ server' = server /\ toServer' = toServer
      /\ ends' = ends
  BY DEF allVars
<1>2. D!Taken' = D!Taken
  BY <1>1 DEF D!Taken
<1>3. Stream'
  BY <1>1 DEF Message, Stream, Whole
<1>4. ASSUME program # "var" PROVE FixedPart'
  BY <1>1, <1>4 DEF Message, FixedPart, D!FixedExact
<1>5. ASSUME program = "var" PROVE VarPart'
  <2>1. VarPart
    BY <1>5 DEF Message
  <2>2. D!LinesKept'
    BY <1>1, <2>1 DEF VarPart, D!LinesKept, D!Together
  <2> QED
    BY <1>1, <1>2, <2>1, <2>2 DEF VarPart
<1> QED
  BY <1>1, <1>3, <1>4, <1>5 DEF Message

LEMMA StutterNetwork ==
    ASSUME Network, UNCHANGED allVars
    PROVE  Network'
<1>1. /\ program' = program /\ client' = client /\ server' = server
      /\ asked' = asked /\ shown' = shown /\ toServer' = toServer
      /\ toClient' = toClient /\ bounced' = bounced
      /\ lost' = lost /\ copied' = copied
  BY DEF allVars
<1>2. U!UdpTypeOK'
  BY <1>1 DEF Network, U!UdpTypeOK
<1>3. ServerSound'
  <2>1. \A q \in Peers : Blamed(q)' = Blamed(q)
    BY <1>1 DEF Blamed, Left, Outsized
  <2> QED
    BY <1>1, <2>1 DEF Network, ServerSound
<1>4. ASSUME NEW p \in Peers PROVE PeerSound(p)'
  BY <1>1 DEF Network, PeerSound
<1> QED
  BY <1>1, <1>2, <1>3, <1>4 DEF Network

LEMMA NextHolds == IInv /\ [AnyNext]_allVars => IInv'
<1>1. IInv /\ AnyNext => IInv'
  BY NextTalk, NextMessage, NextNetwork DEF IInv
<1>2. IInv /\ UNCHANGED allVars => IInv'
  BY StutterTalk, StutterMessage, StutterNetwork DEF IInv
<1> QED
  BY <1>1, <1>2

(* In every reachable state the part of the program that runs holds.       *)
THEOREM Invariance == AnySpec => []IInv
<1> QED
  BY InitHolds, NextHolds, PTL DEF AnySpec

(* The variables of every exercise have their types: reads fit in their    *)
(* buffers, and what the server of a text message parsed of a field is the *)
(* value, a part of it or nothing.                                         *)
THEOREM TypeCorrect == AnySpec => []TypeOK
<1>1. IInv => TypeOK
  BY TalkProperties, MessageProperties, NetworkProperties, Groups
     DEF IInv, TypeOK, LinePrograms
<1> QED
  BY <1>1, Invariance, PTL

(* Whatever read() cuts, what an echo client of weeks 2 and 3 was shown,   *)
(* and what is on its way to it, are the bytes that it wrote, in their     *)
(* order, none twice and none left out.                                    *)
THEOREM EchoTrue == AnySpec => []EchoIntegrity
<1>1. IInv => EchoIntegrity
  BY TalkProperties, Groups DEF IInv, EchoIntegrity, LinePrograms
<1> QED
  BY <1>1, Invariance, PTL

(* While reads return all that has come, nobody kills the server and no    *)
(* line is longer than a buffer, which the Rust clients do not see to, the *)
(* k-th read() of a client returns the answer to its k-th line, which none *)
(* of the programs checks.                                                 *)
THEOREM KeepsStep == AnySpec => []InStep
<1>1. IInv => InStep
  BY TalkProperties, Groups DEF IInv, InStep, LinePrograms
<1> QED
  BY <1>1, Invariance, PTL

(* buf[n] = 0 is written outside of buf only where reads are cut, the      *)
(* server was killed, a line fills a buffer, or client and server are      *)
(* those of week 2 in C and the client ended without its answer.           *)
THEOREM TerminatorsInside == AnySpec => []TerminatorInside
<1>1. IInv => TerminatorInside
  BY TalkProperties, Groups DEF IInv, TerminatorInside, LinePrograms
<1> QED
  BY <1>1, Invariance, PTL

(* The struct in network order is shown as it was sent, or bytes of it     *)
(* were never read; the latter not to read_exact(), and not while reads    *)
(* return all that has come.                                               *)
THEOREM FixedShown == AnySpec => []FixedExact
<1>1. IInv => FixedExact
  BY MessageProperties, Groups DEF IInv, FixedExact
<1> QED
  BY <1>1, Invariance, PTL

(* A line of the text message that comes whole, in a read without all of   *)
(* END, stays in the message; values are taken from whole lines, and parts *)
(* of them only where a read ended.                                        *)
THEOREM LinesAreKept == AnySpec => []LinesKept
<1>1. IInv => LinesKept
  BY MessageProperties, Groups DEF IInv, LinesKept
<1> QED
  BY <1>1, Invariance, PTL

(* A UDP client has no more datagrams on their way than the one it waits   *)
(* for and the copies the network made; without copies they carry its last *)
(* question, however many were lost.                                       *)
THEOREM AnswersMatch == AnySpec => []AnswersQuestion
<1>1. IInv => AnswersQuestion
  BY NetworkProperties, Groups DEF IInv, AnswersQuestion
<1> QED
  BY <1>1, Invariance, PTL

(* The UDP server on Linux in C never ends, and the others only after a    *)
(* client left without its answer or with a copy of it on its way, or sent *)
(* a datagram longer than the buffer of the server.                        *)
THEOREM ServerSurvives == AnySpec => []ServerOutlives
<1>1. IInv => ServerOutlives
  BY NetworkProperties, Groups DEF IInv, ServerOutlives
<1> QED
  BY <1>1, Invariance, PTL
=============================================================================
