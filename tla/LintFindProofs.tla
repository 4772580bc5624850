--------------------------- MODULE LintFindProofs ----------------------------
(***************************************************************************)
(* Theorems about LintFind, for any list of lines and any directive.       *)
(***************************************************************************)
EXTENDS LintFind, LintLemmas

\* The first n that were visited, v, are the first n of the matching lines m, in
\* their order.
InOrder(m, v, n) ==
  /\ \A i, j \in 1 .. n : i < j => v[i] < v[j]
  /\ \A i \in m : \A j \in 1 .. n : i < v[j] => \E k \in 1 .. j : v[k] = i

\* The loop has not come back to the start: it is at the first it has not visited.
OnItsWay(m, v, line) ==
  /\ InOrder(m, v, Len(v))
  /\ line # NoLine =>
       /\ \A j \in 1 .. Len(v) : v[j] < line
       /\ \A i \in m : i < line => \E k \in 1 .. Len(v) : v[k] = i

\* It has: the first n that it visited are all that there are.
ComeAround(m, v) ==
  \E n \in 1 .. Len(v) :
    /\ InOrder(m, v, n)
    /\ \A i \in m : \E k \in 1 .. n : v[k] = i

FindInv ==
  /\ lines \in Seq(Names)
  /\ parsed_line \in Matching \cup {NoLine}
  /\ visited \in Seq(Matching)
  /\ ~started => visited = <<>>
  /\ OnItsWay(Matching, visited, parsed_line) \/ ComeAround(Matching, visited)

-----------------------------------------------------------------------------
(* Any number of turns *)

\* The matching lines are lines, and there is a number of them.
LEMMA MatchingLines ==
  ASSUME lines \in Seq(Names)
  PROVE  /\ DOMAIN lines = 1 .. Len(lines) /\ Len(lines) \in Nat
         /\ Matching \subseteq 1 .. Len(lines)
         /\ \A i \in 1 .. Len(lines) : i \in Matching <=> lines[i] = Foo
         /\ IsFiniteSet(Matching) /\ Cardinality(Matching) \in Nat
  <1>1. DOMAIN lines = 1 .. Len(lines) /\ Len(lines) \in Nat
    BY LenProperties
  <1>2. /\ Matching \subseteq 1 .. Len(lines)
        /\ \A i \in 1 .. Len(lines) : i \in Matching <=> lines[i] = Foo
    BY <1>1 DEF Matching
  <1>3. IsFiniteSet(1 .. Len(lines))
    BY <1>1, FS_Interval
  <1>4. IsFiniteSet(Matching) /\ Cardinality(Matching) \in Nat
    BY <1>2, <1>3, FS_Subset, FS_CardinalityType
  <1> QED BY <1>1, <1>2, <1>4

\* Before the first turn nothing has been visited.
LEMMA FindInit == Init => FindInv
  <1> SUFFICES ASSUME Init PROVE FindInv
    OBVIOUS
  <1>1. lines \in Seq(Names)
    <2>1. PICK n \in 0 .. MaxLength : lines \in [1 .. n -> Names]
      BY DEF Init
    <2>2. n \in Nat
      BY LintFindAssumption
    <2> QED BY <2>1, <2>2
  <1>2. visited = <<>> /\ parsed_line = NoLine /\ ~started
    BY DEF Init
  <1>3. visited \in Seq(Matching) /\ Len(visited) = 0
    BY <1>2
  <1>4. OnItsWay(Matching, visited, parsed_line)
    BY <1>2, <1>3 DEF OnItsWay, InOrder
  <1> QED BY <1>1, <1>2, <1>3, <1>4 DEF FindInv

\* What a lookup from a line on, or from the start, returns of the matching ones.
LEMMA NextMatching ==
  ASSUME lines \in Seq(Names), NEW next \in Nat,
         NEW q, q = lint_find_parsed_line(lines, Foo, next)
  PROVE  /\ q \in Matching \cup {NoLine}
         /\ q # NoLine => /\ next <= q
                          /\ \A i \in Matching : next <= i => q <= i
  <1>1. \/ q = NoLine
        \/ /\ q \in SearchFrom(next) .. Len(lines) /\ q \in 1 .. Len(lines)
           /\ lines[q] = Foo
           /\ \A j \in SearchFrom(next) .. q - 1 : lines[j] # Foo
    BY FindsFirstLine
  <1>2. CASE q = NoLine
    BY <1>2
  <1>3. CASE q # NoLine
    <2>1. /\ q \in SearchFrom(next) .. Len(lines) /\ q \in 1 .. Len(lines)
          /\ lines[q] = Foo
          /\ \A j \in SearchFrom(next) .. q - 1 : lines[j] # Foo
      BY <1>1, <1>3
    <2>2. q \in Matching
      BY <2>1, MatchingLines
    <2>3. SearchFrom(next) \in Nat /\ next <= SearchFrom(next)
          /\ (next # 0 => SearchFrom(next) = next) /\ (next = 0 => SearchFrom(next) = 1)
      BY DEF SearchFrom, NoLine
    <2>4. ASSUME NEW i \in Matching, next <= i, ~ (q <= i) PROVE FALSE
      <3>1. i \in 1 .. Len(lines) /\ lines[i] = Foo
        BY MatchingLines
      <3>2. i \in SearchFrom(next) .. q - 1
        BY <2>1, <2>3, <2>4, <3>1
      <3> QED BY <2>1, <3>1, <3>2
    <2> QED BY <2>1, <2>2, <2>3, <2>4
  <1> QED BY <1>2, <1>3

\* One more line is visited.
LEMMA OneMoreVisited ==
  ASSUME NEW m \in SUBSET Nat, NEW v \in Seq(m), NEW p \in m, p # NoLine,
         NEW v2, v2 = Append(v, p)
  PROVE  /\ v2 \in Seq(m) /\ Len(v2) = Len(v) + 1
         /\ \A k \in 1 .. Len(v) : v2[k] = v[k]
         /\ v2[Len(v) + 1] = p
         /\ ComeAround(m, v) => ComeAround(m, v2)
         /\ OnItsWay(m, v, p) => InOrder(m, v2, Len(v) + 1)
  <1> DEFINE L == Len(v)
  <1>1. /\ v2 \in Seq(m) /\ L \in Nat /\ Len(v2) = L + 1
        /\ \A k \in 1 .. L : v2[k] = v[k]
        /\ v2[L + 1] = p
        /\ \A k \in 1 .. L : v[k] \in m
    OBVIOUS
  <1> HIDE DEF L
  <1>2. ASSUME ComeAround(m, v) PROVE ComeAround(m, v2)
    <2>1. PICK n \in 1 .. L : InOrder(m, v, n) /\ \A i \in m : \E k \in 1 .. n : v[k] = i
      BY <1>2 DEF ComeAround, L
    <2>2. n \in 1 .. L + 1 /\ \A k \in 1 .. n : v2[k] = v[k]
      BY <1>1
    <2>3. \A j \in 1 .. n : \A k \in 1 .. j : k \in 1 .. n
      BY <1>1
    <2>4. InOrder(m, v2, n)
      <3>1. \A i, j \in 1 .. n : i < j => v2[i] < v2[j]
        BY <2>1, <2>2 DEF InOrder
      <3>2. ASSUME NEW i \in m, NEW j \in 1 .. n, i < v2[j]
            PROVE  \E k \in 1 .. j : v2[k] = i
        <4>1. PICK k \in 1 .. j : v[k] = i
          BY <2>1, <2>2, <3>2 DEF InOrder
        <4> QED BY <2>2, <2>3, <4>1
      <3> QED BY <3>1, <3>2 DEF InOrder
    <2>5. \A i \in m : \E k \in 1 .. n : v2[k] = i
      BY <2>1, <2>2
    <2> QED BY <1>1, <2>2, <2>4, <2>5 DEF ComeAround
  <1>3. ASSUME OnItsWay(m, v, p) PROVE InOrder(m, v2, L + 1)
    <2>1. /\ InOrder(m, v, L)
          /\ \A j \in 1 .. L : v[j] < p
          /\ \A i \in m : i < p => \E k \in 1 .. L : v[k] = i
      BY <1>3 DEF OnItsWay, L
    <2>2. ASSUME NEW i \in 1 .. L + 1, NEW j \in 1 .. L + 1, i < j PROVE v2[i] < v2[j]
      <3>1. i \in 1 .. L /\ (j = L + 1 \/ j \in 1 .. L)
        BY <1>1, <2>2
      <3> QED BY <1>1, <2>1, <2>2, <3>1 DEF InOrder
    <2>3. ASSUME NEW i \in m, NEW j \in 1 .. L + 1, i < v2[j]
          PROVE  \E k \in 1 .. j : v2[k] = i
      <3>1. CASE j = L + 1
        <4>1. PICK k \in 1 .. L : v[k] = i
          BY <1>1, <2>1, <2>3, <3>1
        <4>2. k \in 1 .. j /\ v2[k] = i
          BY <1>1, <3>1, <4>1
        <4> QED BY <4>2
      <3>2. CASE j # L + 1
        <4>1. j \in 1 .. L /\ \A k \in 1 .. j : k \in 1 .. L
          BY <1>1, <3>2
        <4>2. PICK k \in 1 .. j : v[k] = i
          BY <1>1, <2>1, <2>3, <4>1 DEF InOrder
        <4> QED BY <1>1, <4>1, <4>2
      <3> QED BY <3>1, <3>2
    <2> QED BY <2>2, <2>3 DEF InOrder
  <1> QED BY <1>1, <1>2, <1>3 DEF L

\* The loop begins, or has a turn.
LEMMA FindNext == FindInv /\ [Next]_vars => FindInv'
  <1> SUFFICES ASSUME FindInv, [Next]_vars PROVE FindInv'
    OBVIOUS
  <1> DEFINE m == Matching
             q == parsed_line'
  <1>0. /\ lines \in Seq(Names) /\ m \in SUBSET Nat /\ m \subseteq 1 .. Len(lines)
        /\ Len(lines) \in Nat
    BY MatchingLines DEF FindInv
  <1>1. CASE Begin
    <2>1. /\ lines' = lines /\ m' = m /\ visited' = <<>> /\ started'
          /\ q = lint_find_parsed_line(lines, Foo, NoLine)
      BY <1>1 DEF Begin, FindInv, Matching
    <2>2. /\ q \in m \cup {NoLine}
          /\ q # NoLine => \A i \in m : 0 <= i => q <= i
      BY <1>0, <2>1, NextMatching DEF NoLine
    <2>3. visited' \in Seq(m) /\ Len(visited') = 0
      BY <2>1
    <2> HIDE DEF m
    <2>4. \A i \in m : i \in Nat
      BY <1>0
    <2>5. OnItsWay(m, visited', q)
      BY <1>0, <2>2, <2>3, <2>4 DEF OnItsWay, InOrder, NoLine
    <2> QED BY <1>0, <2>1, <2>2, <2>3, <2>5 DEF FindInv, m
  <1>2. CASE Turn
    <2> DEFINE p == parsed_line
               L == Len(visited)
    <2>1. /\ lines' = lines /\ m' = m /\ started' = started /\ started /\ p # NoLine
          /\ p \in m /\ visited \in Seq(m) /\ visited' = Append(visited, p)
          /\ q = lint_find_parsed_line(lines, lines[p], NextLine(lines, p))
      BY <1>2 DEF Turn, FindInv, Matching
    <2>2. lines[p] = Foo /\ p \in 1 .. Len(lines)
      BY <1>0, <2>1, MatchingLines
    <2>3. NextLine(lines, p) = IF p < Len(lines) THEN p + 1 ELSE NoLine
      BY DEF NextLine
    <2>4. NextLine(lines, p) \in Nat
      BY <2>2, <2>3 DEF NoLine
    <2>5. /\ q \in m \cup {NoLine}
          /\ q # NoLine => /\ NextLine(lines, p) <= q
                           /\ \A i \in m : NextLine(lines, p) <= i => q <= i
      BY <1>0, <2>1, <2>2, <2>4, NextMatching
    <2> DEFINE v2 == visited'
    <2>6. v2 = Append(visited, p)
      BY <2>1
    <2> HIDE DEF m, p, q, v2
    <2>7. /\ v2 \in Seq(m) /\ Len(v2) = L + 1 /\ L \in Nat
          /\ \A k \in 1 .. L : v2[k] = visited[k]
          /\ v2[L + 1] = p
          /\ ComeAround(m, visited) => ComeAround(m, v2)
          /\ OnItsWay(m, visited, p) => InOrder(m, v2, L + 1)
      <3>0. m \in SUBSET Nat /\ visited \in Seq(m) /\ p \in m /\ p # NoLine
        BY <1>0, <2>1
      <3>1. v2 \in Seq(m) /\ Len(v2) = L + 1
        BY ONLY <3>0, <2>6, OneMoreVisited
      <3>2. \A k \in 1 .. L : v2[k] = visited[k]
        BY ONLY <3>0, <3>1, <2>6, OneMoreVisited
      <3>3. v2[L + 1] = p
        BY ONLY <3>0, <3>1, <2>6, OneMoreVisited
      <3>4. ComeAround(m, visited) => ComeAround(m, v2)
        BY ONLY <3>0, <3>1, <2>6, OneMoreVisited
      <3>5. OnItsWay(m, visited, p) => InOrder(m, v2, L + 1)
        BY ONLY <3>0, <3>1, <2>6, OneMoreVisited
      <3>6. L \in Nat
        BY <3>0, LenProperties
      <3> QED BY <3>1, <3>2, <3>3, <3>4, <3>5, <3>6
    <2>8. ASSUME OnItsWay(m, visited, p)
          PROVE  OnItsWay(m, v2, q) \/ ComeAround(m, v2)
      <3> HIDE DEF L
      <3>1. /\ \A j \in 1 .. L : visited[j] < p
            /\ \A i \in m : i < p => \E k \in 1 .. L : visited[k] = i
        BY <2>1, <2>8 DEF OnItsWay, L
      <3>2. /\ \A j \in 1 .. L + 1 : v2[j] <= p
            /\ \A i \in m : i <= p => \E k \in 1 .. L + 1 : v2[k] = i
        <4>1. \A j \in 1 .. L + 1 : j = L + 1 \/ j \in 1 .. L
          BY <2>7
        <4>2. \A j \in 1 .. L : j \in 1 .. L + 1
          BY <2>7
        <4>3. L + 1 \in 1 .. L + 1
          BY <2>7
        <4>4. \A j \in 1 .. L : visited[j] \in m
          BY <2>1 DEF L
        <4>5. \A j \in 1 .. L + 1 : v2[j] <= p
          <5> SUFFICES ASSUME NEW j \in 1 .. L + 1 PROVE v2[j] <= p
            OBVIOUS
          <5>1. CASE j = L + 1
            <6>1. v2[j] = p /\ p \in Nat
              BY <1>0, <2>1, <2>7, <5>1
            <6> QED BY <6>1
          <5>2. CASE j \in 1 .. L
            <6>1. v2[j] = visited[j] /\ visited[j] < p
              BY <2>7, <3>1, <5>2
            <6>2. visited[j] \in Nat /\ p \in Nat
              BY <1>0, <2>1, <4>4, <5>2
            <6> QED BY <6>1, <6>2
          <5> QED BY <4>1, <5>1, <5>2
        <4>6. ASSUME NEW i \in m, i <= p PROVE \E k \in 1 .. L + 1 : v2[k] = i
          <5>1. i = p \/ i < p
            <6>1. i \in Nat /\ p \in Nat
              BY <1>0, <2>1
            <6> QED BY <4>6, <6>1
          <5> QED BY <2>7, <3>1, <4>2, <4>3, <5>1
        <4> QED BY <4>5, <4>6
      <3>3. CASE p < Len(lines)
        <4>1. ASSUME q # NoLine
              PROVE  /\ \A j \in 1 .. L + 1 : v2[j] < q
                     /\ \A i \in m : i < q => \E k \in 1 .. L + 1 : v2[k] = i
          <5>1. p + 1 <= q /\ \A i \in m : p + 1 <= i => q <= i
            BY <2>3, <2>5, <3>3, <4>1
          <5>2. q \in Nat /\ p \in Nat /\ \A i \in m : i \in Nat
            BY <1>0, <2>1, <2>5, <4>1
          <5>3. \A j \in 1 .. L + 1 : v2[j] \in Nat
            <6>1. \A j \in 1 .. L + 1 : v2[j] \in m
              BY <2>7, ElementOfSeq
            <6> QED BY <1>0, <6>1
          <5> QED BY <3>2, <5>1, <5>2, <5>3
        <4> QED BY <2>7, <2>8, <4>1 DEF OnItsWay
      <3>4. CASE ~ (p < Len(lines))
        <4>1. \A i \in m : i <= p
          BY <1>0, <2>2, <3>4
        <4>2. L + 1 \in 1 .. Len(v2)
          BY <2>7
        <4> QED BY <2>7, <2>8, <3>2, <4>1, <4>2 DEF ComeAround
      <3> QED BY <3>3, <3>4
    <2>9. OnItsWay(m, v2, q) \/ ComeAround(m, v2)
      BY <2>7, <2>8 DEF FindInv, m, p
    <2> QED BY <1>0, <2>1, <2>5, <2>7, <2>9 DEF FindInv, m, q, v2
  <1>3. CASE UNCHANGED vars
    BY <1>3 DEF vars, FindInv, Matching
  <1> QED BY <1>1, <1>2, <1>3 DEF Next

\* What the loop has visited, up to its coming back to the start.
LEMMA FindInvariant == Spec => []FindInv
  BY FindInit, FindNext, PTL DEF Spec

-----------------------------------------------------------------------------
(* The theorems *)

\* The loop is always at a line of the list or at none, and visits lines of its
\* directive only.
THEOREM VisitsTyped == Spec => []TypeOK
  <1>1. FindInv => TypeOK
    BY MatchingLines DEF FindInv, TypeOK, NoLine
  <1> QED BY <1>1, FindInvariant, PTL

\* The documented loop visits the lines of its directive in the order of their
\* appearance and skips none, for a list of any length, until it has visited as
\* many as there are.
THEOREM VisitedInOrder == Spec => []VisitsInOrder
  <1>1. FindInv => VisitsInOrder
    <2> SUFFICES ASSUME FindInv PROVE VisitsInOrder
      OBVIOUS
    <2> DEFINE m == Matching
               L == Len(visited)
               C == Cardinality(m)
               n == Min({L, C})
    <2>1. /\ m \in SUBSET Nat /\ IsFiniteSet(m) /\ C \in Nat /\ L \in Nat
          /\ visited \in Seq(m)
      BY MatchingLines DEF FindInv
    <2>2. n = IF L <= C THEN L ELSE C
      BY <2>1, MinOfTwo
    <2>3. ASSUME NEW l \in Nat, InOrder(m, visited, l), n <= l PROVE InOrder(m, visited, n)
      <3> HIDE DEF n, C
      <3>1. \A k \in 1 .. n : k \in 1 .. l
        BY <2>1, <2>2, <2>3
      <3> QED BY <2>3, <3>1 DEF InOrder
    <2>4. CASE OnItsWay(m, visited, parsed_line)
      <3>1. n <= L
        BY <2>1, <2>2
      <3> QED BY <2>1, <2>3, <2>4, <3>1 DEF OnItsWay, InOrder, VisitsInOrder
    <2>5. CASE ComeAround(m, visited)
      <3>1. PICK l \in 1 .. L :
              InOrder(m, visited, l) /\ \A i \in m : \E k \in 1 .. l : visited[k] = i
        BY <2>5 DEF ComeAround
      <3> DEFINE f == [k \in 1 .. l |-> visited[k]]
      <3>2. f \in [1 .. l -> m] /\ l \in Nat
        BY <2>1, <3>1
      <3>3. f \in Surjection(1 .. l, m)
        BY <3>1, <3>2 DEF Surjection
      <3>4. C <= l
        <4>1. ExistsSurjection(1 .. l, m)
          BY <3>3 DEF ExistsSurjection
        <4> QED BY <3>2, <4>1, FS_SurjCardinalityBound
      <3>5. n <= l
        BY <2>1, <2>2, <3>2, <3>4
      <3> QED BY <2>3, <3>1, <3>2, <3>5 DEF InOrder, VisitsInOrder
    <2> QED BY <2>4, <2>5 DEF FindInv
  <1> QED BY <1>1, FindInvariant, PTL
==============================================================================
