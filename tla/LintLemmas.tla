----------------------------- MODULE LintLemmas ------------------------------
(***************************************************************************)
(* Lemmas about sets of numbers and about sequences, which the proofs of   *)
(* the other modules cite.  Induction is over sets of numbers: every set   *)
(* that has 0, and n + 1 with n, has them all.                             *)
(***************************************************************************)
EXTENDS Integers, Sequences, SequencesExt, LintLines, SequenceTheorems,
        WellFoundedInduction, FiniteSetTheorems, FunctionTheorems, TLAPS

-----------------------------------------------------------------------------
(* Numbers *)

\* Every set of natural numbers with something in it has a smallest one.
LEMMA LeastElement ==
  ASSUME NEW T \in SUBSET Nat, T # {}
  PROVE  \E n \in T : \A m \in T : n <= m
  <1> DEFINE R == {ss \in Nat \X Nat : ss[1] < ss[2]}
  <1>1. IsWellFoundedOn(R, Nat)
    BY NatLessThanWellFounded DEF OpToRel
  <1>2. \A x, y \in Nat : y < x => <<y, x>> \in R
    OBVIOUS
  <1> HIDE DEF R
  <1>3. PICK x \in T : \A y \in T : ~ (<<y, x>> \in R)
    BY <1>1, WFMin
  <1>4. ASSUME NEW y \in T PROVE x <= y
    <2>1. ~ (y < x)
      BY <1>2, <1>3
    <2> QED BY <2>1
  <1> QED BY <1>4

\* Min, of FiniteSetsExt, is that one.
LEMMA MinOfNaturals ==
  ASSUME NEW T \in SUBSET Nat, T # {}
  PROVE  /\ Min(T) \in T
         /\ \A m \in T : Min(T) <= m
  <1>1. \E x \in T : \A y \in T : x =< y
    BY LeastElement
  <1> QED BY <1>1 DEF Min

\* A set that has 0, and with each number its successor, has all of them.
LEMMA Induction ==
  ASSUME NEW S, 0 \in S, \A n \in Nat : n \in S => n + 1 \in S
  PROVE  Nat \subseteq S
  <1> SUFFICES ASSUME Nat \ S # {} PROVE FALSE
    OBVIOUS
  <1>1. PICK n \in Nat \ S : \A m \in Nat \ S : n <= m
    BY LeastElement
  <1>2. n # 0 /\ n - 1 \in Nat /\ n - 1 \in S
    BY <1>1
  <1> QED BY <1>1, <1>2

\* The same, from the number to the one before it.
LEMMA InductionBack ==
  ASSUME NEW S, 0 \in S, \A n \in Nat \ {0} : n - 1 \in S => n \in S
  PROVE  Nat \subseteq S
  <1>1. ASSUME NEW n \in Nat, n \in S PROVE n + 1 \in S
    <2> DEFINE i == n + 1
    <2>1. i \in Nat \ {0} /\ i - 1 = n
      OBVIOUS
    <2> HIDE DEF i
    <2>2. i \in S
      BY <1>1, <2>1
    <2> QED BY <2>2 DEF i
  <1> QED BY <1>1, Induction

\* Min of two numbers.
LEMMA MinOfTwo ==
  ASSUME NEW a \in Int, NEW b \in Int
  PROVE  Min({a, b}) = IF a <= b THEN a ELSE b
  <1> DEFINE T == {a, b}
             m == IF a <= b THEN a ELSE b
  <1>1. m \in T /\ \A y \in T : m =< y
    OBVIOUS
  <1>2. \A x \in T : (\A y \in T : x =< y) => x = m
    <2> SUFFICES ASSUME NEW x \in T, \A y \in T : x =< y PROVE x = m
      OBVIOUS
    <2>1. x \in Int /\ m \in Int /\ x <= m /\ m <= x
      BY <1>1
    <2> HIDE DEF m
    <2> QED BY <2>1
  <1> HIDE DEF T, m
  <1>3. Min(T) = m
    BY <1>1, <1>2 DEF Min
  <1> QED BY <1>3 DEF T, m

-----------------------------------------------------------------------------
(* Concatenation *)

Regroups(x, y, z) == (x \o y) \o z = x \o (y \o z)

\* Where the parentheses are in a concatenation of three does not matter.
LEMMA Associative ==
  ASSUME NEW S
  PROVE  \A x, y, z \in Seq(S) : Regroups(x, y, z)
  BY ConcatAssociative DEF Regroups

\* A file with two sections, cut before the body of the first or of the second:
\* a and b, the title, are in front of the body c, d and e between the two, and f
\* and g are the other section, the last of the file.
TwoSections(a, b, c, d, e, f, g) ==
  /\ (((a \o (b \o c)) \o d) \o e) \o (f \o g)
       = ((a \o b) \o c) \o ((d \o e) \o (f \o g))
  /\ (((a \o (b \o c)) \o d) \o e) \o (f \o g)
       = ((((a \o (b \o c)) \o (d \o e)) \o f) \o g) \o <<>>

\* Wherever such a file is cut, it is the same.
LEMMA Regrouped ==
  ASSUME NEW S, NEW a \in Seq(S), NEW b \in Seq(S), NEW c \in Seq(S), NEW d \in Seq(S),
         NEW e \in Seq(S), NEW f \in Seq(S), NEW g \in Seq(S)
  PROVE  TwoSections(a, b, c, d, e, f, g)
  <1>1. \A x, y, z \in Seq(S) : Regroups(x, y, z)
    BY Associative
  <1>2. \A x, y \in Seq(S) : x \o y \in Seq(S)
    OBVIOUS
  <1>3. Regroups(a, b, c)
    BY <1>1
  <1>4. a \o (b \o c) \in Seq(S) /\ d \o e \in Seq(S) /\ f \o g \in Seq(S)
    OBVIOUS
  <1>5. Regroups(a \o (b \o c), d, e)
    BY <1>1, <1>4
  <1>6. Regroups(a \o (b \o c), d \o e, f \o g)
    BY <1>1, <1>4
  <1>7. (a \o (b \o c)) \o (d \o e) \in Seq(S)
    BY <1>2, <1>4
  <1>8. Regroups((a \o (b \o c)) \o (d \o e), f, g)
    BY <1>1, <1>7
  <1>9. (((a \o (b \o c)) \o (d \o e)) \o f) \o g \in Seq(S)
    BY <1>2, <1>7
  <1>10. ((((a \o (b \o c)) \o (d \o e)) \o f) \o g) \o <<>>
           = (((a \o (b \o c)) \o (d \o e)) \o f) \o g
    BY <1>9, ConcatEmptySeq, Zenon
  <1> QED BY <1>3, <1>5, <1>6, <1>8, <1>10, Zenon DEF Regroups, TwoSections

-----------------------------------------------------------------------------
(* FlattenSeq *)

\* The recursive function that FlattenSeq is defined by, as an equation, and what
\* that says of its first n values.
Flattens(f, seqs) ==
  f = [i \in 1 .. Len(seqs) |->
         IF i = 1 THEN seqs[i] ELSE f[i - 1] \o seqs[i]]

FlattensUpTo(f, seqs, n) ==
  \A i \in 1 .. n : f[i] = IF i = 1 THEN seqs[i] ELSE f[i - 1] \o seqs[i]

\* There is such a function: each is longer by one than another.
LEMMA FlattensExists ==
  ASSUME NEW S, NEW seqs \in Seq(Seq(S))
  PROVE  \E f \in [1 .. Len(seqs) -> Seq(S)] : Flattens(f, seqs)
  <1> DEFINE P == {n \in Nat : n <= Len(seqs) =>
                     \E f \in [1 .. n -> Seq(S)] : FlattensUpTo(f, seqs, n)}
  <1>1. 0 \in P
    <2>1. [i \in 1 .. 0 |-> <<>>] \in [1 .. 0 -> Seq(S)]
      OBVIOUS
    <2>2. FlattensUpTo([i \in 1 .. 0 |-> <<>>], seqs, 0)
      BY DEF FlattensUpTo
    <2> QED BY <2>1, <2>2
  <1>2. ASSUME NEW n \in Nat, n \in P PROVE n + 1 \in P
    <2> SUFFICES ASSUME n + 1 <= Len(seqs)
                 PROVE  \E f \in [1 .. n + 1 -> Seq(S)] : FlattensUpTo(f, seqs, n + 1)
      OBVIOUS
    <2>0. n <= Len(seqs)
      OBVIOUS
    <2>1. PICK f \in [1 .. n -> Seq(S)] : FlattensUpTo(f, seqs, n)
      BY <1>2, <2>0
    <2> DEFINE last == IF n = 0 THEN seqs[1] ELSE f[n] \o seqs[n + 1]
               g == [i \in 1 .. n + 1 |-> IF i = n + 1 THEN last ELSE f[i]]
    <2>2. seqs[n + 1] \in Seq(S) /\ (n # 0 => f[n] \in Seq(S))
      OBVIOUS
    <2>3. last \in Seq(S)
      BY <2>2
    <2> HIDE DEF last
    <2>4. g \in [1 .. n + 1 -> Seq(S)]
      BY <2>3
    <2>5. ASSUME NEW i \in 1 .. n + 1
          PROVE  g[i] = IF i = 1 THEN seqs[i] ELSE g[i - 1] \o seqs[i]
      <3>1. CASE i = n + 1
        <4>1. n # 0 => n \in 1 .. n + 1 /\ g[n] = f[n] /\ i - 1 = n
          BY <3>1
        <4>2. g[i] = last
          BY <3>1
        <4> QED BY <3>1, <4>1, <4>2 DEF last
      <3>2. CASE i # n + 1
        <4>1. i \in 1 .. n /\ (i # 1 => i - 1 \in 1 .. n)
          BY <3>2
        <4>2. g[i] = f[i]
          BY <3>2
        <4>3. i # 1 => g[i - 1] = f[i - 1]
          BY <4>1
        <4> HIDE DEF g
        <4> QED BY <2>1, <4>1, <4>2, <4>3 DEF FlattensUpTo
      <3> QED BY <3>1, <3>2
    <2> HIDE DEF g
    <2>6. FlattensUpTo(g, seqs, n + 1)
      BY <2>5 DEF FlattensUpTo
    <2> QED BY <2>4, <2>6
  <1> HIDE DEF P
  <1>3. Len(seqs) \in P
    BY <1>1, <1>2, Induction
  <1>4. PICK f \in [1 .. Len(seqs) -> Seq(S)] : FlattensUpTo(f, seqs, Len(seqs))
    BY <1>3 DEF P
  <1>5. Flattens(f, seqs)
    BY <1>4 DEF Flattens, FlattensUpTo
  <1> QED BY <1>5

\* Whatever satisfies the equation has those values.
LEMMA FlattensValues ==
  ASSUME NEW f, NEW seqs, Flattens(f, seqs)
  PROVE  FlattensUpTo(f, seqs, Len(seqs))
  <1> DEFINE h == [i \in 1 .. Len(seqs) |->
                     IF i = 1 THEN seqs[i] ELSE f[i - 1] \o seqs[i]]
  <1>1. f = h
    BY DEF Flattens
  <1>2. ASSUME NEW i \in 1 .. Len(seqs)
        PROVE  h[i] = IF i = 1 THEN seqs[i] ELSE f[i - 1] \o seqs[i]
    OBVIOUS
  <1> HIDE DEF h
  <1>3. ASSUME NEW i \in 1 .. Len(seqs)
        PROVE  f[i] = IF i = 1 THEN seqs[i] ELSE f[i - 1] \o seqs[i]
    <2>1. f[i] = h[i]
      BY <1>1
    <2> QED BY <1>2, <2>1
  <1> QED BY <1>3 DEF FlattensUpTo

\* FlattenSeq is the last value of it.
LEMMA FlattenSeqDef ==
  ASSUME NEW S, NEW seqs \in Seq(Seq(S)), seqs # <<>>
  PROVE  \E f \in [1 .. Len(seqs) -> Seq(S)] :
           /\ \A i \in 1 .. Len(seqs) :
                f[i] = IF i = 1 THEN seqs[i] ELSE f[i - 1] \o seqs[i]
           /\ FlattenSeq(seqs) = f[Len(seqs)]
  <1> DEFINE g == CHOOSE f : Flattens(f, seqs)
  <1>1. PICK f \in [1 .. Len(seqs) -> Seq(S)] : Flattens(f, seqs)
    BY FlattensExists
  <1>2. Flattens(g, seqs)
    BY <1>1
  <1>3. Len(seqs) # 0
    OBVIOUS
  <1>4. FlattenSeq(seqs) = g[Len(seqs)]
    BY <1>3 DEF FlattenSeq, Flattens
  <1> HIDE DEF g
  <1>2a. FlattensUpTo(g, seqs, Len(seqs))
    BY <1>2, FlattensValues
  <1>10. \A i \in 1 .. Len(seqs) :
           f[i] = IF i = 1 THEN seqs[i] ELSE f[i - 1] \o seqs[i]
    BY <1>1 DEF Flattens
  <1> DEFINE P == {n \in Nat : n \in 1 .. Len(seqs) => g[n] = f[n]}
  <1>5. 0 \in P
    OBVIOUS
  <1>6. ASSUME NEW n \in Nat \ {0}, n - 1 \in P PROVE n \in P
    <2> SUFFICES ASSUME n \in 1 .. Len(seqs) PROVE g[n] = f[n]
      OBVIOUS
    <2>1. n # 1 => g[n - 1] = f[n - 1]
      BY <1>6
    <2> HIDE DEF P
    <2>2. g[n] = IF n = 1 THEN seqs[n] ELSE g[n - 1] \o seqs[n]
      BY <1>2a DEF FlattensUpTo
    <2>3. f[n] = IF n = 1 THEN seqs[n] ELSE f[n - 1] \o seqs[n]
      BY <1>10
    <2> QED BY <2>1, <2>2, <2>3
  <1> HIDE DEF P
  <1>7. Nat \subseteq P
    BY <1>5, <1>6, InductionBack
  <1>8. Len(seqs) \in 1 .. Len(seqs)
    BY <1>3
  <1>9. g[Len(seqs)] = f[Len(seqs)]
    BY <1>7, <1>8 DEF P
  <1> QED BY <1>4, <1>9, <1>10

\* Flattening nothing gives nothing, and flattening is of sequences.
LEMMA FlattenSeqType ==
  ASSUME NEW S, NEW seqs \in Seq(Seq(S))
  PROVE  /\ FlattenSeq(seqs) \in Seq(S)
         /\ seqs = <<>> => FlattenSeq(seqs) = <<>>
  <1>1. CASE seqs = <<>>
    BY <1>1 DEF FlattenSeq
  <1>2. CASE seqs # <<>>
    <2>1. Len(seqs) \in 1 .. Len(seqs)
      BY <1>2
    <2> QED BY <1>2, <2>1, FlattenSeqDef
  <1> QED BY <1>1, <1>2

\* Two functions that satisfy the same equation are the same.
LEMMA FlattenSeqIs ==
  ASSUME NEW S, NEW seqs \in Seq(Seq(S)), seqs # <<>>,
         NEW h \in [1 .. Len(seqs) -> Seq(S)],
         \A i \in 1 .. Len(seqs) :
           h[i] = IF i = 1 THEN seqs[i] ELSE h[i - 1] \o seqs[i]
  PROVE  FlattenSeq(seqs) = h[Len(seqs)]
  <1>1. PICK f \in [1 .. Len(seqs) -> Seq(S)] :
           /\ \A i \in 1 .. Len(seqs) :
                f[i] = IF i = 1 THEN seqs[i] ELSE f[i - 1] \o seqs[i]
           /\ FlattenSeq(seqs) = f[Len(seqs)]
    BY FlattenSeqDef
  <1> DEFINE P == {n \in Nat : n \in 1 .. Len(seqs) => h[n] = f[n]}
  <1>2. 0 \in P
    OBVIOUS
  <1>3. ASSUME NEW n \in Nat \ {0}, n - 1 \in P PROVE n \in P
    <2> SUFFICES ASSUME n \in 1 .. Len(seqs) PROVE h[n] = f[n]
      OBVIOUS
    <2>1. n # 1 => h[n - 1] = f[n - 1]
      BY <1>3
    <2> HIDE DEF P
    <2>2. h[n] = IF n = 1 THEN seqs[n] ELSE h[n - 1] \o seqs[n]
      OBVIOUS
    <2>3. f[n] = IF n = 1 THEN seqs[n] ELSE f[n - 1] \o seqs[n]
      BY <1>1
    <2> QED BY <2>1, <2>2, <2>3
  <1> HIDE DEF P
  <1>4. Nat \subseteq P
    BY <1>2, <1>3, InductionBack
  <1>5. Len(seqs) \in 1 .. Len(seqs)
    OBVIOUS
  <1> QED BY <1>1, <1>4, <1>5 DEF P

\* One more sequence at the end is one more at the end of the flattened one.
LEMMA FlattenSeqAppend ==
  ASSUME NEW S, NEW seqs \in Seq(Seq(S)), NEW s \in Seq(S)
  PROVE  FlattenSeq(Append(seqs, s)) = FlattenSeq(seqs) \o s
  <1> DEFINE n == Len(seqs)
             more == Append(seqs, s)
  <1>0. n \in Nat /\ (seqs = <<>> <=> n = 0)
    BY EmptySeq
  <1>1. /\ more \in Seq(Seq(S)) /\ more # <<>> /\ Len(more) = n + 1
        /\ \A i \in 1 .. n : more[i] = seqs[i]
        /\ more[n + 1] = s
    BY AppendProperties
  <1> HIDE DEF more, n
  <1>2. CASE seqs = <<>>
    <2> DEFINE h == [i \in 1 .. 1 |-> s]
    <2>1. h \in [1 .. Len(more) -> Seq(S)] /\ h[Len(more)] = s
      BY <1>0, <1>1, <1>2
    <2>2. \A i \in 1 .. Len(more) :
            h[i] = IF i = 1 THEN more[i] ELSE h[i - 1] \o more[i]
      BY <1>0, <1>1, <1>2
    <2> HIDE DEF h
    <2>3. FlattenSeq(more) = s
      BY <1>1, <2>1, <2>2, FlattenSeqIs
    <2>4. FlattenSeq(seqs) = <<>>
      BY <1>2, FlattenSeqType
    <2> QED BY <2>3, <2>4 DEF more
  <1>3. CASE seqs # <<>>
    <2>0. n # 0
      BY <1>0, <1>3
    <2>1. PICK f \in [1 .. n -> Seq(S)] :
            /\ \A i \in 1 .. n : f[i] = IF i = 1 THEN seqs[i] ELSE f[i - 1] \o seqs[i]
            /\ FlattenSeq(seqs) = f[n]
      BY <1>3, FlattenSeqDef DEF n
    <2>2. f[n] \in Seq(S)
      BY <1>0, <2>0
    <2> DEFINE last == f[n] \o s
               h == [i \in 1 .. n + 1 |-> IF i = n + 1 THEN last ELSE f[i]]
    <2>2a. last \in Seq(S)
      BY <2>2
    <2> HIDE DEF last
    <2>3. h \in [1 .. Len(more) -> Seq(S)] /\ h[Len(more)] = last
      BY <1>0, <1>1, <2>2a
    <2>4. ASSUME NEW i \in 1 .. Len(more)
          PROVE  h[i] = IF i = 1 THEN more[i] ELSE h[i - 1] \o more[i]
      <3>1. CASE i = n + 1
        <4>1. h[i] = last
          BY <3>1, <1>0
        <4>2. h[i - 1] = f[n]
          BY <3>1, <1>0, <2>0
        <4>3. more[i] = s
          BY <3>1, <1>1
        <4>4. i # 1
          BY <3>1, <1>0, <2>0
        <4> HIDE DEF h
        <4> QED BY <4>1, <4>2, <4>3, <4>4 DEF last
      <3>2. CASE i # n + 1
        <4>1. i \in 1 .. n /\ (i # 1 => i - 1 \in 1 .. n)
          BY <1>0, <1>1, <2>0, <3>2
        <4>2. h[i] = f[i] /\ more[i] = seqs[i]
          BY <1>0, <1>1, <4>1, <2>0
        <4>3. i # 1 => h[i - 1] = f[i - 1]
          BY <1>0, <4>1, <2>0
        <4> HIDE DEF h
        <4> QED BY <2>1, <4>1, <4>2, <4>3
      <3> QED BY <3>1, <3>2
    <2> HIDE DEF h
    <2>5. FlattenSeq(more) = h[Len(more)]
      BY <1>1, <2>3, <2>4, FlattenSeqIs
    <2> QED BY <2>1, <2>3, <2>5 DEF more, last
  <1> QED BY <1>2, <1>3

\* The first sequence is the beginning of the flattened one.
LEMMA FlattenSeqCons ==
  ASSUME NEW S, NEW seqs \in Seq(Seq(S)), seqs # <<>>
  PROVE  FlattenSeq(seqs) = Head(seqs) \o FlattenSeq(Tail(seqs))
  <1> DEFINE n == Len(seqs)
             first == Head(seqs)
             rest == Tail(seqs)
  <1>0. n \in Nat \ {0}
    BY EmptySeq
  <1>1. /\ rest \in Seq(Seq(S)) /\ Len(rest) = n - 1
        /\ \A i \in 1 .. n - 1 : rest[i] = seqs[i + 1]
        /\ first \in Seq(S) /\ first = seqs[1]
    BY HeadTailProperties
  <1> HIDE DEF first, rest, n
  <1>2. CASE n = 1
    <2>1. rest = <<>>
      BY <1>1, <1>2, EmptySeq
    <2>2. FlattenSeq(rest) = <<>>
      BY <1>1, <2>1, FlattenSeqType
    <2> DEFINE h == [i \in 1 .. 1 |-> first]
    <2>3. h \in [1 .. n -> Seq(S)] /\ h[n] = first
      BY <1>1, <1>2
    <2>4. \A i \in 1 .. n : h[i] = IF i = 1 THEN seqs[i] ELSE h[i - 1] \o seqs[i]
      BY <1>1, <1>2
    <2> HIDE DEF h
    <2>5. FlattenSeq(seqs) = first
      BY <2>3, <2>4, FlattenSeqIs DEF n
    <2> QED BY <1>1, <2>2, <2>5 DEF first, rest
  <1>3. CASE n # 1
    <2>0. rest # <<>>
      BY <1>0, <1>1, <1>3, EmptySeq
    <2> DEFINE m == n - 1
    <2>0a. m \in Nat \ {0} /\ Len(rest) = m /\ n = m + 1
      BY <1>0, <1>1, <1>3
    <2> HIDE DEF m
    <2>1. PICK g \in [1 .. m -> Seq(S)] :
            /\ \A i \in 1 .. m :
                 g[i] = IF i = 1 THEN rest[i] ELSE g[i - 1] \o rest[i]
            /\ FlattenSeq(rest) = g[m]
      BY <1>1, <2>0, <2>0a, FlattenSeqDef
    <2> DEFINE G(i) == first \o g[i - 1]
               h == [i \in 1 .. n |-> IF i = 1 THEN first ELSE G(i)]
    <2>2. ASSUME NEW i \in 1 .. n, i # 1
          PROVE  i - 1 \in 1 .. m /\ g[i - 1] \in Seq(S) /\ G(i) \in Seq(S)
      <3>1. i - 1 \in 1 .. m
        BY <1>0, <2>0a, <2>2
      <3>2. g[i - 1] \in Seq(S)
        BY <3>1
      <3> QED BY <1>1, <3>1, <3>2
    <2> HIDE DEF G
    <2>3. h \in [1 .. n -> Seq(S)]
      BY <1>1, <2>2
    <2>3b. \A i \in 1 .. n : h[i] = IF i = 1 THEN first ELSE G(i)
      OBVIOUS
    <2> HIDE DEF h
    <2>3a. h[n] = first \o g[m]
      <3>1. n \in 1 .. n /\ n - 1 = m
        BY <1>0, <2>0a
      <3>2. h[n] = G(n)
        BY <1>3, <2>3b, <3>1
      <3> QED BY <3>1, <3>2 DEF G
    <2>4. ASSUME NEW i \in 1 .. n
          PROVE  h[i] = IF i = 1 THEN seqs[i] ELSE h[i - 1] \o seqs[i]
      <3>1. CASE i = 1
        BY <1>1, <3>1, <2>3b
      <3>2. CASE i = 2
        <4>0. 1 \in 1 .. m /\ 1 \in 1 .. n /\ i - 1 = 1
          BY <1>0, <2>0a, <3>2
        <4>1. h[i] = G(i) /\ h[i - 1] = first
          BY <3>2, <2>3b, <4>0
        <4>2. g[1] = rest[1]
          BY <2>1, <4>0
        <4>3. rest[1] = seqs[i]
          BY <1>1, <2>0a, <3>2, <4>0
        <4>4. G(i) = first \o g[1]
          BY <4>0 DEF G
        <4>5. h[i] = h[i - 1] \o seqs[i]
          BY <4>1, <4>2, <4>3, <4>4
        <4> QED BY <3>2, <4>5
      <3>3. CASE i # 1 /\ i # 2
        <4> DEFINE j == i - 1
        <4>0. j \in 1 .. m /\ j \in 1 .. n /\ j # 1 /\ j - 1 \in 1 .. m /\ i = j + 1
          BY <1>0, <2>0a, <3>3
        <4> HIDE DEF j
        <4>1. h[i] = G(i) /\ h[j] = G(j)
          BY <3>3, <2>3b, <4>0
        <4>3. g[j] = g[j - 1] \o rest[j]
          BY <2>1, <4>0
        <4>4. rest[j] = seqs[i]
          BY <1>1, <4>0, <2>0a
        <4>5a. g[j - 1] \in Seq(S)
          BY <4>0
        <4>5b. seqs[i] \in Seq(S)
          BY ElementOfSeq DEF n
        <4>6. (first \o g[j - 1]) \o seqs[i] = first \o (g[j - 1] \o seqs[i])
          <5> DEFINE u == g[j - 1]
                     v == seqs[i]
          <5>1. first \in Seq(S) /\ u \in Seq(S) /\ v \in Seq(S)
            BY <1>1, <4>5a, <4>5b
          <5> HIDE DEF u, v
          <5>2. (first \o u) \o v = first \o (u \o v)
            BY ONLY <5>1, ConcatAssociative
          <5> QED BY <5>2 DEF u, v
        <4>7. G(i) = first \o g[j]
          BY DEF G, j
        <4>8. G(j) = first \o g[j - 1]
          BY DEF G
        <4> QED BY <3>3, <4>1, <4>3, <4>4, <4>6, <4>7, <4>8 DEF j
      <3> QED BY <3>1, <3>2, <3>3
    <2>5. FlattenSeq(seqs) = h[n]
      BY <1>1, <2>3, <2>4, FlattenSeqIs DEF n
    <2> QED BY <2>1, <2>3a, <2>5 DEF first, rest
  <1> QED BY <1>2, <1>3

\* Flattening two sequences one behind the other is flattening each.
LEMMA FlattenSeqConcat ==
  ASSUME NEW S, NEW seqs \in Seq(Seq(S)), NEW more \in Seq(Seq(S))
  PROVE  FlattenSeq(seqs \o more) = FlattenSeq(seqs) \o FlattenSeq(more)
  <1> DEFINE P == {n \in Nat : \A t \in Seq(Seq(S)) :
                     Len(t) = n => FlattenSeq(seqs \o t) = FlattenSeq(seqs) \o FlattenSeq(t)}
  <1>1. 0 \in P
    <2> SUFFICES ASSUME NEW t \in Seq(Seq(S)), Len(t) = 0
                 PROVE  FlattenSeq(seqs \o t) = FlattenSeq(seqs) \o FlattenSeq(t)
      OBVIOUS
    <2>1. t = <<>>
      BY EmptySeq
    <2>2. FlattenSeq(t) = <<>> /\ FlattenSeq(seqs) \in Seq(S) /\ seqs \o t = seqs
      BY <2>1, FlattenSeqType, ConcatEmptySeq
    <2> QED BY <2>2, ConcatEmptySeq
  <1>2. ASSUME NEW n \in Nat \ {0}, n - 1 \in P PROVE n \in P
    <2> SUFFICES ASSUME NEW t \in Seq(Seq(S)), Len(t) = n
                 PROVE  FlattenSeq(seqs \o t) = FlattenSeq(seqs) \o FlattenSeq(t)
      OBVIOUS
    <2> DEFINE front == SubSeq(t, 1, n - 1)
               last == t[n]
    <2>1. /\ front \in Seq(Seq(S)) /\ Len(front) = n - 1
          /\ last \in Seq(S)
          /\ t = Append(front, last)
      OBVIOUS
    <2>2. FlattenSeq(seqs \o front) = FlattenSeq(seqs) \o FlattenSeq(front)
      BY <1>2, <2>1
    <2> HIDE DEF P, front, last
    <2>3. FlattenSeq(t) = FlattenSeq(front) \o last
      BY <2>1, FlattenSeqAppend
    <2>4. seqs \o t = Append(seqs \o front, last) /\ seqs \o front \in Seq(Seq(S))
      BY <2>1
    <2>5. FlattenSeq(seqs \o t) = FlattenSeq(seqs \o front) \o last
      BY <2>1, <2>4, FlattenSeqAppend
    <2> DEFINE a == FlattenSeq(seqs)
               b == FlattenSeq(front)
    <2>6. a \in Seq(S) /\ b \in Seq(S) /\ last \in Seq(S)
      BY <2>1, FlattenSeqType
    <2> HIDE DEF a, b
    <2>7. (a \o b) \o last = a \o (b \o last)
      BY ONLY <2>6, ConcatAssociative
    <2> QED BY <2>2, <2>3, <2>5, <2>7 DEF a, b
  <1> HIDE DEF P
  <1>3. Nat \subseteq P
    BY <1>1, <1>2, InductionBack
  <1>4. Len(more) \in P
    BY <1>3
  <1> QED BY <1>4 DEF P

\* Flattening sequences of one element each gives their elements.
LEMMA FlattenSingles ==
  ASSUME NEW S, NEW t \in Seq(S)
  PROVE  FlattenSeq([k \in DOMAIN t |-> <<t[k]>>]) = t
  <1> DEFINE n == Len(t)
             singles == [k \in 1 .. n |-> <<t[k]>>]
             h == [k \in 1 .. n |-> SubSeq(t, 1, k)]
  <1>1. n \in Nat /\ DOMAIN t = 1 .. n
    OBVIOUS
  <1>2. singles \in Seq(Seq(S)) /\ Len(singles) = n
    BY <1>1
  <1>3. CASE n = 0
    <2>1. t = <<>> /\ singles = <<>>
      BY <1>2, <1>3, EmptySeq
    <2>2. FlattenSeq(singles) = <<>>
      BY <1>2, <2>1, FlattenSeqType
    <2> QED BY <1>1, <2>1, <2>2
  <1>4. CASE n # 0
    <2>1. \A k \in 1 .. n : SubSeq(t, 1, k) \in Seq(S)
      OBVIOUS
    <2>2. h \in [1 .. n -> Seq(S)] /\ h[n] = t
      BY <1>1, <1>4, <2>1
    <2>3. ASSUME NEW k \in 1 .. n
          PROVE  h[k] = IF k = 1 THEN singles[k] ELSE h[k - 1] \o singles[k]
      <3>1. CASE k = 1
        <4>1. SubSeq(t, 1, 1) = <<t[1]>>
          <5>1. t[1] \in S /\ 1 \in 1 .. Len(t)
            BY <3>1
          <5>2. SubSeq(t, 1, 1) = SubSeq(t, 1, 0) \o <<t[1]>>
            BY <5>1, SubSeqRecursiveSecond
          <5>3. SubSeq(t, 1, 0) = <<>>
            BY SubSeqEmpty
          <5>4. <<t[1]>> \in Seq(S)
            BY <5>1
          <5>5. <<>> \o <<t[1]>> = <<t[1]>>
            BY <5>4, ConcatEmptySeq
          <5> QED BY <5>2, <5>3, <5>5
        <4>2. h[k] = SubSeq(t, 1, 1) /\ singles[k] = <<t[1]>>
          BY <3>1
        <4> HIDE DEF h, singles
        <4> QED BY <3>1, <4>1, <4>2
      <3>2. CASE k # 1
        <4>1. k - 1 \in 1 .. n
          BY <1>1, <3>2
        <4>2. SubSeq(t, 1, k) = SubSeq(t, 1, k - 1) \o <<t[k]>>
          BY <1>1, <3>2, SubSeqRecursiveSecond
        <4>3. h[k] = SubSeq(t, 1, k) /\ h[k - 1] = SubSeq(t, 1, k - 1)
              /\ singles[k] = <<t[k]>>
          BY <4>1
        <4> HIDE DEF h, singles
        <4> QED BY <3>2, <4>2, <4>3
      <3> QED BY <3>1, <3>2
    <2> HIDE DEF h, singles
    <2>4. singles # <<>>
      BY <1>2, <1>4
    <2>4a. /\ h \in [1 .. Len(singles) -> Seq(S)]
           /\ \A k \in 1 .. Len(singles) :
                h[k] = IF k = 1 THEN singles[k] ELSE h[k - 1] \o singles[k]
      BY <1>2, <2>2, <2>3
    <2>5. FlattenSeq(singles) = h[n]
      BY <1>2, <2>4, <2>4a, FlattenSeqIs
    <2> QED BY <1>1, <2>2, <2>5 DEF singles
  <1> QED BY <1>3, <1>4

-----------------------------------------------------------------------------
(* How often something is in a sequence *)

\* Once, and not at all.
Once(item, items) == \E p \in DOMAIN items : \A q \in DOMAIN items : items[q] = item <=> q = p
Never(item, items) == \A q \in DOMAIN items : items[q] # item

\* What is in neither of two sequences is not in the two behind each other, and
\* what is once in one and not in the other is once in them.
LEMMA OnceConcat ==
  ASSUME NEW S, NEW x \in Seq(S), NEW y \in Seq(S), NEW item
  PROVE  /\ Never(item, x) /\ Never(item, y) => Never(item, x \o y)
         /\ Once(item, x) /\ Never(item, y) => Once(item, x \o y)
         /\ Never(item, x) /\ Once(item, y) => Once(item, x \o y)
  <1> DEFINE n == Len(x)
             m == Len(y)
             z == x \o y
  <1>1. /\ n \in Nat /\ m \in Nat /\ DOMAIN x = 1 .. n /\ DOMAIN y = 1 .. m
        /\ DOMAIN z = 1 .. n + m
        /\ \A i \in 1 .. n : z[i] = x[i]
        /\ \A i \in 1 .. n + m : i > n => z[i] = y[i - n]
    BY ConcatProperties
  <1> HIDE DEF n, m, z
  <1>2. Never(item, x) /\ Never(item, y) => Never(item, z)
    BY <1>1 DEF Never
  <1>3. ASSUME Once(item, x), Never(item, y) PROVE Once(item, z)
    <2>1. PICK p \in DOMAIN x : \A q \in DOMAIN x : x[q] = item <=> q = p
      BY <1>3 DEF Once
    <2>2. p \in 1 .. n /\ p \in 1 .. n + m
      BY <1>1
    <2>3. ASSUME NEW q \in 1 .. n + m PROVE z[q] = item <=> q = p
      <3>1. CASE q <= n
        <4>1. q \in 1 .. n
          BY <1>1, <3>1
        <4> QED BY <1>1, <2>1, <4>1
      <3>2. CASE q > n
        <4>1. q - n \in 1 .. m /\ q # p
          BY <1>1, <2>2, <3>2
        <4> QED BY <1>1, <1>3, <3>2, <4>1 DEF Never
      <3> QED BY <1>1, <3>1, <3>2
    <2>4. \A q \in DOMAIN z : z[q] = item <=> q = p
      BY <1>1, <2>3
    <2> QED BY <1>1, <2>2, <2>4 DEF Once
  <1>4. ASSUME Never(item, x), Once(item, y) PROVE Once(item, z)
    <2>1. PICK p \in DOMAIN y : \A q \in DOMAIN y : y[q] = item <=> q = p
      BY <1>4 DEF Once
    <2>2. p \in 1 .. m /\ n + p \in 1 .. n + m
      BY <1>1
    <2>3. ASSUME NEW q \in 1 .. n + m PROVE z[q] = item <=> q = n + p
      <3>1. CASE q <= n
        <4>1. q \in 1 .. n /\ q # n + p
          BY <1>1, <2>2, <3>1
        <4> QED BY <1>1, <1>4, <4>1 DEF Never
      <3>2. CASE q > n
        <4> DEFINE j == q - n
        <4>1. j \in 1 .. m
          BY <1>1, <3>2
        <4>2. p \in Nat /\ q = n + j
          BY <1>1, <2>2
        <4>3. z[q] = y[j]
          BY <1>1, <3>2
        <4> HIDE DEF j
        <4>4. z[q] = item <=> j = p
          BY <1>1, <2>1, <4>1, <4>3
        <4> QED BY <1>1, <4>1, <4>2, <4>4
      <3> QED BY <1>1, <3>1, <3>2
    <2>4. \A q \in DOMAIN z : z[q] = item <=> q = n + p
      BY <1>1, <2>3
    <2> QED BY <1>1, <2>2, <2>4 DEF Once
  <1> QED BY <1>2, <1>3, <1>4 DEF z

\* What is in none of some sequences is not in them flattened.
LEMMA FlattenNever ==
  ASSUME NEW S, NEW seqs \in Seq(Seq(S)), NEW item,
         \A i \in DOMAIN seqs : Never(item, seqs[i])
  PROVE  Never(item, FlattenSeq(seqs))
  <1> DEFINE T == S \ {item}
             n == Len(seqs)
  <1>1. DOMAIN seqs = 1 .. n /\ n \in Nat
    OBVIOUS
  <1>2. ASSUME NEW i \in 1 .. n PROVE seqs[i] \in Seq(T)
    <2> DEFINE s == seqs[i]
    <2>1. s \in Seq(S) /\ Never(item, s)
      BY <1>1, ElementOfSeq
    <2> HIDE DEF s
    <2>2. \A q \in DOMAIN s : s[q] \in T
      BY <2>1 DEF Never
    <2>3. s \in Seq(T)
      BY <2>1, <2>2
    <2> QED BY <2>3 DEF s
  <1> HIDE DEF T
  <1>3. seqs \in Seq(Seq(T))
    BY <1>1, <1>2
  <1>4. FlattenSeq(seqs) \in Seq(T)
    BY <1>3, FlattenSeqType
  <1> DEFINE all == FlattenSeq(seqs)
  <1> HIDE DEF all
  <1>5. \A q \in DOMAIN all : all[q] \in T
    BY <1>4 DEF all
  <1> QED BY <1>5 DEF Never, T, all

\* Some sequences flattened are what is before one of them, that one, and what is
\* behind it; and what is in no other is in neither of the two.
LEMMA FlattenAround ==
  ASSUME NEW S, NEW seqs \in Seq(Seq(S)), NEW k \in DOMAIN seqs
  PROVE  \E a, c \in Seq(S) :
           /\ FlattenSeq(seqs) = (a \o seqs[k]) \o c
           /\ \A item : (\A i \in DOMAIN seqs : i # k => Never(item, seqs[i]))
                          => Never(item, a) /\ Never(item, c)
  <1> DEFINE n == Len(seqs)
             before == SubSeq(seqs, 1, k - 1)
             here == <<seqs[k]>>
             after == SubSeq(seqs, k + 1, n)
  <1>1. n \in Nat /\ DOMAIN seqs = 1 .. n /\ k \in 1 .. n
    OBVIOUS
  <1>2. /\ before \in Seq(Seq(S)) /\ Len(before) = k - 1
        /\ \A i \in 1 .. k - 1 : before[i] = seqs[i]
    BY <1>1
  <1>3. /\ after \in Seq(Seq(S)) /\ Len(after) = n - k
        /\ \A i \in 1 .. n - k : after[i] = seqs[i + k]
    <2> DEFINE j == k + 1
    <2>1. j \in Int /\ n \in Int /\ j \in 1 .. n + 1
      BY <1>1
    <2>1a. n - j + 1 = n - k
      BY <1>1
    <2>1b. \A i \in 1 .. n - k : j + i - 1 = i + k
      BY <1>1
    <2>1c. \A i \in j .. n : seqs[i] \in Seq(S)
      BY <1>1, ElementOfSeq
    <2> HIDE DEF j, n
    <2>2. /\ SubSeq(seqs, j, n) \in Seq(Seq(S))
          /\ Len(SubSeq(seqs, j, n)) = IF j <= n THEN n - j + 1 ELSE 0
          /\ \A i \in 1 .. n - j + 1 : SubSeq(seqs, j, n)[i] = seqs[j + i - 1]
      BY <2>1, <2>1c, SubSeqProperties
    <2>3. Len(SubSeq(seqs, j, n)) = n - k
      BY <1>1, <2>1, <2>1a, <2>2
    <2> QED BY <2>1a, <2>1b, <2>2, <2>3 DEF j
  <1>4. here \in Seq(Seq(S)) /\ FlattenSeq(here) = seqs[k] /\ seqs[k] \in Seq(S)
    <2>1. seqs[k] \in Seq(S)
      OBVIOUS
    <2>2. here \in Seq(Seq(S)) /\ here # <<>> /\ Head(here) = seqs[k] /\ Tail(here) = <<>>
      BY <2>1
    <2>3. FlattenSeq(here) = seqs[k] \o FlattenSeq(<<>>)
      BY <2>2, FlattenSeqCons
    <2>4. <<>> \in Seq(Seq(S))
      OBVIOUS
    <2>5. FlattenSeq(<<>>) = <<>>
      BY <2>4, FlattenSeqType
    <2> QED BY <2>1, <2>2, <2>3, <2>5, ConcatEmptySeq
  <1>5. seqs = (before \o here) \o after
    <2> DEFINE all == (before \o here) \o after
    <2>0. Len(here) = 1 /\ here[1] = seqs[k]
      OBVIOUS
    <2> HIDE DEF before, here, after, n
    <2> DEFINE front == before \o here
    <2>0c. /\ front \in Seq(Seq(S)) /\ Len(front) = Len(before) + Len(here)
           /\ \A i \in 1 .. Len(before) + Len(here) :
                front[i] = IF i <= Len(before) THEN before[i] ELSE here[i - Len(before)]
      BY <1>2, <1>4, ConcatProperties
    <2> HIDE DEF front
    <2>0a. /\ front \in Seq(Seq(S)) /\ Len(front) = (k - 1) + 1
           /\ \A i \in 1 .. (k - 1) + 1 :
                front[i] = IF i <= k - 1 THEN before[i] ELSE here[i - (k - 1)]
      BY <1>2, <2>0, <2>0c
    <2>0b. (k - 1) + 1 = k /\ k - (k - 1) = 1
      BY <1>1
    <2>1. /\ front \in Seq(Seq(S)) /\ Len(front) = k
          /\ \A i \in 1 .. k : front[i] = seqs[i]
      <3>1. ASSUME NEW i \in 1 .. k PROVE front[i] = seqs[i]
        <4>1. CASE i = k
          BY <1>1, <2>0, <2>0a, <2>0b, <4>1
        <4>2. CASE i # k
          <5>1. i \in 1 .. k - 1 /\ i <= k - 1
            BY <1>1, <4>2
          <5> QED BY <1>2, <2>0a, <2>0b, <5>1
        <4> QED BY <4>1, <4>2
      <3> QED BY <2>0a, <2>0b, <3>1
    <2>1b. /\ all \in Seq(Seq(S)) /\ Len(all) = Len(front) + Len(after)
           /\ \A i \in 1 .. Len(front) + Len(after) :
                all[i] = IF i <= Len(front) THEN front[i] ELSE after[i - Len(front)]
      <3> DEFINE both == front \o after
      <3>0. after \in Seq(Seq(S)) /\ front \in Seq(Seq(S))
        BY <1>3, <2>1
      <3>1. /\ both \in Seq(Seq(S)) /\ Len(both) = Len(front) + Len(after)
            /\ \A i \in 1 .. Len(front) + Len(after) :
                 both[i] = IF i <= Len(front) THEN front[i] ELSE after[i - Len(front)]
        BY ONLY <3>0, ConcatProperties
      <3> HIDE DEF both
      <3>2. all = both
        BY DEF front, both
      <3> HIDE DEF all
      <3> QED BY <3>1, <3>2
    <2> HIDE DEF all
    <2>1a. /\ all \in Seq(Seq(S)) /\ Len(all) = k + (n - k)
           /\ \A i \in 1 .. k + (n - k) :
                all[i] = IF i <= k THEN front[i] ELSE after[i - k]
      BY <1>3, <2>1, <2>1b
    <2>2. all \in Seq(Seq(S)) /\ Len(all) = n
          /\ \A i \in 1 .. n : all[i] = IF i <= k THEN front[i] ELSE after[i - k]
      <3>1. k + (n - k) = n
        BY <1>1
      <3> QED BY <2>1a, <3>1
    <2>3. ASSUME NEW i \in 1 .. n PROVE all[i] = seqs[i]
      <3>1. CASE i <= k
        <4>1. i \in 1 .. k /\ all[i] = front[i]
          BY <1>1, <2>2, <3>1
        <4> QED BY <2>1, <4>1
      <3>2. CASE i > k
        <4>1. i - k \in 1 .. n - k /\ (i - k) + k = i
          BY <1>1, <3>2
        <4>2. all[i] = after[i - k]
          BY <1>1, <2>2, <3>2
        <4> QED BY <1>3, <4>1, <4>2
      <3> QED BY <1>1, <3>1, <3>2
    <2>4. all = seqs
      BY <2>2, <2>3, SeqEqual DEF n
    <2> QED BY <2>4 DEF all
  <1> HIDE DEF before, here, after
  <1>6. ASSUME NEW item, \A i \in DOMAIN seqs : i # k => Never(item, seqs[i])
        PROVE  Never(item, FlattenSeq(before)) /\ Never(item, FlattenSeq(after))
    <2>1. \A i \in DOMAIN before : Never(item, before[i])
      BY <1>1, <1>2, <1>6
    <2>2. DOMAIN after = 1 .. n - k
      BY <1>1, <1>3
    <2>3. \A i \in 1 .. n - k : i + k \in 1 .. n /\ i + k # k
      BY <1>1
    <2>4. \A i \in DOMAIN after : Never(item, after[i])
      BY <1>1, <1>3, <1>6, <2>2, <2>3
    <2> QED BY <1>2, <1>3, <2>1, <2>4, FlattenNever
  <1>7. before \o here \in Seq(Seq(S))
    BY <1>2, <1>4
  <1>8. FlattenSeq(before \o here) = FlattenSeq(before) \o seqs[k]
    BY <1>2, <1>4, FlattenSeqConcat
  <1>9. FlattenSeq(seqs) = (FlattenSeq(before) \o seqs[k]) \o FlattenSeq(after)
    BY <1>3, <1>5, <1>7, <1>8, FlattenSeqConcat
  <1>10. FlattenSeq(before) \in Seq(S) /\ FlattenSeq(after) \in Seq(S)
    BY <1>2, <1>3, FlattenSeqType
  <1> QED BY <1>6, <1>9, <1>10, Zenon

\* What is once in one of some sequences, and in no other, is once in them
\* flattened.
LEMMA FlattenOnce ==
  ASSUME NEW S, NEW seqs \in Seq(Seq(S)), NEW item, NEW k \in DOMAIN seqs,
         Once(item, seqs[k]),
         \A i \in DOMAIN seqs : i # k => Never(item, seqs[i])
  PROVE  Once(item, FlattenSeq(seqs))
  <1>1. PICK a, c \in Seq(S) : /\ FlattenSeq(seqs) = (a \o seqs[k]) \o c
                               /\ Never(item, a) /\ Never(item, c)
    BY FlattenAround
  <1> DEFINE b == seqs[k]
  <1>2. b \in Seq(S) /\ Once(item, b)
    BY ElementOfSeq
  <1> HIDE DEF b
  <1>3. a \o b \in Seq(S) /\ Once(item, a \o b)
    BY <1>1, <1>2, OnceConcat
  <1>4. Once(item, (a \o b) \o c)
    BY <1>1, <1>3, OnceConcat
  <1> QED BY <1>1, <1>4 DEF b

\* What is not in two sequences behind each other is in neither.
LEMMA NeverConcat ==
  ASSUME NEW S, NEW x \in Seq(S), NEW y \in Seq(S), NEW item, Never(item, x \o y)
  PROVE  Never(item, x) /\ Never(item, y)
  <1> DEFINE n == Len(x)
             m == Len(y)
             z == x \o y
  <1>1. /\ n \in Nat /\ m \in Nat /\ DOMAIN x = 1 .. n /\ DOMAIN y = 1 .. m
        /\ DOMAIN z = 1 .. n + m
        /\ \A i \in 1 .. n : z[i] = x[i]
        /\ \A i \in 1 .. n + m : i > n => z[i] = y[i - n]
    BY ConcatProperties
  <1>2. \A q \in DOMAIN z : z[q] # item
    BY DEF Never
  <1> HIDE DEF n, m, z
  <1>3. ASSUME NEW i \in 1 .. n PROVE x[i] # item
    BY <1>1, <1>2
  <1>4. ASSUME NEW i \in 1 .. m PROVE y[i] # item
    <2>1. n + i \in 1 .. n + m /\ n + i > n /\ (n + i) - n = i
      BY <1>1
    <2>2. z[n + i] = y[(n + i) - n]
      BY <1>1, <2>1
    <2> QED BY <1>1, <1>2, <2>1, <2>2
  <1> QED BY <1>1, <1>3, <1>4 DEF Never

\* What is not in some sequences flattened is in none of them.
LEMMA NeverFlattened ==
  ASSUME NEW S, NEW seqs \in Seq(Seq(S)), NEW item, NEW k \in DOMAIN seqs,
         Never(item, FlattenSeq(seqs))
  PROVE  Never(item, seqs[k])
  <1>1. PICK a, c \in Seq(S) :
          /\ FlattenSeq(seqs) = (a \o seqs[k]) \o c
          /\ \A other : (\A i \in DOMAIN seqs : i # k => Never(other, seqs[i]))
                          => Never(other, a) /\ Never(other, c)
    BY FlattenAround
  <1> DEFINE b == seqs[k]
  <1>2. b \in Seq(S)
    BY ElementOfSeq
  <1> HIDE DEF b
  <1>3. a \o b \in Seq(S) /\ Never(item, (a \o b) \o c)
    BY <1>1, <1>2 DEF b
  <1>4. Never(item, a \o b)
    BY <1>3, NeverConcat
  <1>5. Never(item, b)
    BY <1>2, <1>4, NeverConcat
  <1> QED BY <1>5 DEF b

\* Rearranging a sequence neither loses nor doubles what it has once.
LEMMA OnceRearranged ==
  ASSUME NEW n \in Nat, NEW items, DOMAIN items = 1 .. n,
         NEW perm \in [1 .. n -> 1 .. n],
         \A i \in 1 .. n : \E k \in 1 .. n : perm[k] = i,
         \A k, l \in 1 .. n : perm[k] = perm[l] => k = l,
         NEW other, DOMAIN other = 1 .. n,
         \A k \in 1 .. n : other[k] = items[perm[k]],
         NEW item
  PROVE  Once(item, items) => Once(item, other)
  <1>1. \A k \in 1 .. n : perm[k] \in 1 .. n
    OBVIOUS
  <1>2. ASSUME Once(item, items) PROVE Once(item, other)
    <2>1. PICK p \in DOMAIN items : \A q \in DOMAIN items : items[q] = item <=> q = p
      BY <1>2 DEF Once
    <2>2. PICK k \in 1 .. n : perm[k] = p
      OBVIOUS
    <2>3. ASSUME NEW l \in 1 .. n PROVE other[l] = item <=> l = k
      <3>1. perm[l] \in DOMAIN items /\ other[l] = items[perm[l]]
        BY <1>1
      <3>2. other[l] = item <=> perm[l] = p
        BY <2>1, <3>1
      <3>3. perm[l] = p <=> l = k
        BY <2>2
      <3> QED BY <3>2, <3>3
    <2>4. \A l \in DOMAIN other : other[l] = item <=> l = k
      BY <1>1, <2>3
    <2> QED BY <1>1, <2>4 DEF Once
  <1> QED BY <1>2

-----------------------------------------------------------------------------
(* Sorting *)

\* In an order R of the numbers from 1 to n, the place of i: how many are before
\* it, and one.
PlaceIn(R, n) == [i \in 1 .. n |-> Cardinality({j \in 1 .. n : <<j, i>> \in R}) + 1]

\* Each of the n numbers has a place of its own, and the places are as R orders
\* the numbers.
LEMMA Places ==
  ASSUME NEW n \in Nat, NEW R,
         \A i \in 1 .. n : <<i, i>> \notin R,
         \A i, j, k \in 1 .. n : <<i, j>> \in R /\ <<j, k>> \in R => <<i, k>> \in R,
         \A i, j \in 1 .. n : i # j => <<i, j>> \in R \/ <<j, i>> \in R
  PROVE  /\ PlaceIn(R, n) \in [1 .. n -> 1 .. n]
         /\ \A i, j \in 1 .. n :
              <<j, i>> \in R <=> PlaceIn(R, n)[j] < PlaceIn(R, n)[i]
         /\ \A k \in 1 .. n : \E i \in 1 .. n : PlaceIn(R, n)[i] = k
  <1> DEFINE B == [i \in 1 .. n |-> {j \in 1 .. n : <<j, i>> \in R}]
             place == PlaceIn(R, n)
  <1>1. IsFiniteSet(1 .. n) /\ Cardinality(1 .. n) = n
    BY FS_Interval
  <1>2. \A i \in 1 .. n : B[i] \in SUBSET (1 .. n)
    OBVIOUS
  <1>2a. \A i, j \in 1 .. n : j \in B[i] <=> <<j, i>> \in R
    OBVIOUS
  <1>2b. \A i \in 1 .. n : place[i] = Cardinality(B[i]) + 1
    BY DEF PlaceIn
  <1>2c. place = [i \in 1 .. n |-> Cardinality(B[i]) + 1]
    BY DEF PlaceIn
  <1> HIDE DEF B, place
  <1>3. ASSUME NEW i \in 1 .. n
        PROVE  /\ IsFiniteSet(B[i]) /\ Cardinality(B[i]) \in Nat
               /\ Cardinality(B[i]) < n
    <2>1. IsFiniteSet(B[i]) /\ Cardinality(B[i]) <= n
      BY <1>1, <1>2, FS_Subset
    <2>2. Cardinality(B[i]) \in Nat
      BY <2>1, FS_CardinalityType
    <2>3. B[i] # 1 .. n
      BY <1>2a
    <2>4. Cardinality(B[i]) # n
      BY <1>1, <1>2, <2>3, FS_Subset
    <2> QED BY <2>1, <2>2, <2>4
  <1>4. place \in [1 .. n -> 1 .. n]
    <2>1. \A i \in 1 .. n : Cardinality(B[i]) + 1 \in 1 .. n
      BY <1>3
    <2> QED BY <1>2c, <2>1
  <1>5. ASSUME NEW i \in 1 .. n, NEW j \in 1 .. n, <<j, i>> \in R
        PROVE  place[j] < place[i]
    <2>1. B[j] \in SUBSET B[i]
      <3>1. \A k \in 1 .. n : <<k, j>> \in R => <<k, i>> \in R
        BY <1>5
      <3> QED BY <1>2, <1>2a, <3>1
    <2>2. j \in B[i] /\ j \notin B[j]
      BY <1>2a, <1>5
    <2>3. Cardinality(B[j]) <= Cardinality(B[i])
          /\ Cardinality(B[j]) # Cardinality(B[i])
      BY <1>3, <2>1, <2>2, FS_Subset
    <2>4. Cardinality(B[j]) \in Nat /\ Cardinality(B[i]) \in Nat
      BY <1>3
    <2> QED BY <1>2b, <2>3, <2>4
  <1>6. ASSUME NEW i \in 1 .. n, NEW j \in 1 .. n, place[j] < place[i]
        PROVE  <<j, i>> \in R
    <2>1. place[i] \in Nat /\ place[j] \in Nat
      BY <1>4
    <2>2. i # j /\ ~ (<<i, j>> \in R)
      BY <1>5, <1>6, <2>1
    <2> QED BY <2>2
  <1>7. place \in Injection(1 .. n, 1 .. n)
    <2>1. \A i, j \in 1 .. n : i # j => place[i] # place[j]
      <3> SUFFICES ASSUME NEW i \in 1 .. n, NEW j \in 1 .. n, i # j
                   PROVE  place[i] # place[j]
        OBVIOUS
      <3>1. place[i] \in Nat /\ place[j] \in Nat
        BY <1>4
      <3>2. CASE <<i, j>> \in R
        BY <1>5, <3>1, <3>2
      <3>3. CASE <<j, i>> \in R
        BY <1>5, <3>1, <3>3
      <3> QED BY <3>2, <3>3
    <2> QED BY <1>4, <2>1, Fun_IsInj
  <1>8. place \in Surjection(1 .. n, 1 .. n)
    BY <1>1, <1>7, FS_Injection
  <1>9. \A k \in 1 .. n : \E i \in 1 .. n : place[i] = k
    BY <1>8 DEF Surjection
  <1> QED BY <1>4, <1>5, <1>6, <1>9 DEF place

-----------------------------------------------------------------------------
(* lint_find_parsed_line *)

\* Where the search begins.
SearchFrom(next_line) == IF next_line = NoLine THEN 1 ELSE next_line

\* From next_line on, or from the start for NULL, the lookup gives the first line
\* of the directive, and none only if there is none.
LEMMA FindsFirstLine ==
  ASSUME NEW S, NEW lines \in Seq(S), NEW directive, NEW next_line \in Nat,
         NEW i, i = lint_find_parsed_line(lines, directive, next_line)
  PROVE  \/ /\ i = NoLine
            /\ \A j \in SearchFrom(next_line) .. Len(lines) : lines[j] # directive
         \/ /\ i \in SearchFrom(next_line) .. Len(lines)
            /\ i \in 1 .. Len(lines)
            /\ lines[i] = directive
            /\ \A j \in SearchFrom(next_line) .. i - 1 : lines[j] # directive
  <1> DEFINE first == SearchFrom(next_line)
             n == Len(lines)
             found == {j \in first .. n : lines[j] = directive}
  <1>1. first \in Nat \ {0} /\ n \in Nat
    BY DEF SearchFrom, NoLine
  <1>2. i = IF found = {} THEN NoLine ELSE Min(found)
    BY DEF lint_find_parsed_line, SearchFrom
  <1> HIDE DEF first, n
  <1>3. CASE found = {}
    BY <1>2, <1>3 DEF first, n
  <1>4. CASE found # {}
    <2>1. found \in SUBSET Nat
      BY <1>1
    <2>2. Min(found) \in found /\ \A m \in found : Min(found) <= m
      BY <1>4, <2>1, MinOfNaturals
    <2>3. i \in first .. n /\ lines[i] = directive
      BY <1>2, <1>4, <2>2
    <2>4. \A m \in first .. n : lines[m] = directive => i <= m
      BY <1>2, <1>4, <2>2
    <2> HIDE DEF found
    <2>5. \A j \in first .. i - 1 : j \in first .. n /\ ~ (i <= j)
      BY <1>1, <2>3
    <2>6. i \in 1 .. n
      BY <1>1, <2>3
    <2> QED BY <2>3, <2>4, <2>5, <2>6 DEF first, n
  <1> QED BY <1>3, <1>4
=============================================================================
