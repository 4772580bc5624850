--------------------------- MODULE LintTextProofs ----------------------------
(***************************************************************************)
(* Theorems about LintText, for any texts, any size of the array and of    *)
(* size_t, and any number of calls.                                        *)
(***************************************************************************)
EXTENDS LintText, LintLemmas

\* A formatted line tells the truth, or is garbage: the length that is kept of it
\* is that of the text, and the copy is what fits.  No line is the string that
\* stands for a missing pointer.
HonestLines ==
  {f \in Formatted :
    /\ f # NoString
    /\ f.key # 0 => /\ f.textsz = f.len
                    /\ f.kept = Min({f.len, LINT_BUFFER_SIZE - 2})}

\* What may be on the disk: foreign bytes only behind a garbage copy, or behind
\* that of a text that is too long.
Chunks ==
  {c \in [of : Formatted, own : Int, foreign : Int] :
    c.foreign > 0 => c.of.key = 0 \/ c.of.len > LINT_BUFFER_SIZE - 2}

\* What the call that is running, or was the last, has put on the disk.
Put == [n \in 1 .. Len(disk) - mark |-> disk[mark + n].of]

\* No write of that call was short.
Uncut ==
  \A n \in mark + 1 .. Len(disk) : disk[n] = Chunk(disk[n].of, disk[n].of.textsz)

InOrder(lines) == \A m, n \in DOMAIN lines : m < n => ~Before(lines[n], lines[m])

TextTypes ==
  /\ added \in Seq(HonestLines)
  /\ buffered_lines \in Seq(HonestLines)
  /\ disk \in Seq(Chunks)
  /\ mark \in 0 .. Len(disk)
  /\ i \in 0 .. Len(buffered_lines) + 1
  /\ call.res \in Int

\* The buffer is what was added to it, in another order.
SameLines ==
  \E p \in Bijection(DOMAIN added, DOMAIN added) :
    buffered_lines = [n \in DOMAIN added |-> added[p[n]]]

\* In the loop of lint_text_write_buffered_lines the lines before the i-th are on
\* the disk, those with a text.
LoopInv ==
  ~Idle =>
    /\ call.name = "write_buffered" /\ call.missing = {}
    /\ InOrder(buffered_lines)
    /\ short = {} <=> Uncut
    /\ Put = Nonempty(SubSeq(buffered_lines, 1, i - 1))

\* Once it has answered all are, or those before the one whose write failed.
EndInv ==
  Idle /\ call.name = "write_buffered" /\ call.missing = {} =>
    /\ InOrder(buffered_lines)
    /\ short = {} <=> Uncut
    /\ \E n \in 0 .. Len(buffered_lines) :
         /\ Put = Nonempty(SubSeq(buffered_lines, 1, n))
         /\ IF call.res = 0 THEN n = Len(buffered_lines)
            ELSE n < Len(buffered_lines) /\ buffered_lines[n + 1].textsz # 0

TextInv == TextTypes /\ SameLines /\ LoopInv /\ EndInv /\ AnswerTellsCause

-----------------------------------------------------------------------------
(* The functions *)

\* A text that is formatted makes an honest line.
LEMMA FormatHonest ==
  ASSUME NEW text \in Texts, NEW f \in Format(text)
  PROVE  f \in HonestLines
  <1> DEFINE B == LINT_BUFFER_SIZE - 2
  <1>1. /\ B \in Nat /\ SIZE_MAX \in Nat /\ SIZE_MAX > B + 1
        /\ text.key \in Nat \ {0} /\ text.len \in 0 .. SIZE_MAX - 1
    <2>1. text \in [key : Nat \ {0}, len : 0 .. SIZE_MAX - 1]
      BY LintTextAssumption
    <2> QED BY <2>1, LintTextAssumption
  <1>1a. LINT_BUFFER_SIZE - 1 \in Nat
    BY LintTextAssumption
  <1> HIDE DEF B
  <1>2. CASE f = [key |-> text.key, len |-> text.len,
                  kept |-> Min({text.len, LINT_BUFFER_SIZE - 2}), textsz |-> text.len]
    <2>1. Min({text.len, B}) \in Nat
      BY <1>1, MinOfTwo
    <2>2. f \in Formatted
      BY <1>1, <1>2, <2>1 DEF Formatted, B
    <2>3. f # NoString
      BY <1>1, <1>2 DEF NoString
    <2> QED BY <1>2, <2>2, <2>3 DEF HonestLines
  <1>3. CASE f \in [key : {0}, len : {0}, kept : {0, LINT_BUFFER_SIZE - 1},
                    textsz : {SIZE_MAX}]
    <2>1. /\ f.key = 0 /\ f.len = 0 /\ f.kept \in {0, LINT_BUFFER_SIZE - 1}
          /\ f.textsz = SIZE_MAX
          /\ f = [key |-> f.key, len |-> f.len, kept |-> f.kept, textsz |-> f.textsz]
      BY <1>3
    <2>2. f \in Formatted
      BY <1>1, <1>1a, <2>1 DEF Formatted
    <2>3. f # NoString
      BY <1>1, <2>1 DEF NoString
    <2> QED BY <2>1, <2>2, <2>3 DEF HonestLines
  <1> QED BY <1>2, <1>3 DEF Format, pr_vsnprintf

\* A string of a caller's own has its length.
LEMMA StringsHonest ==
  ASSUME NEW f \in Strings
  PROVE  f \in Formatted /\ f # NoString /\ f.kept = f.textsz /\ f.textsz = f.len
         /\ f.key # 0
  <1>1. PICK t \in Texts :
          f = [key |-> t.key, len |-> t.len, kept |-> t.len, textsz |-> t.len]
    BY DEF Strings
  <1>2. t \in [key : Nat \ {0}, len : 0 .. SIZE_MAX - 1]
    BY LintTextAssumption
  <1>2a. SIZE_MAX \in Nat
    BY LintTextAssumption
  <1>3. t.key \in Nat \ {0} /\ t.len \in 0 .. SIZE_MAX /\ t.len \in Nat
    BY <1>2, <1>2a
  <1>4. f \in Formatted
    BY <1>1, <1>3 DEF Formatted
  <1> QED BY <1>1, <1>3, <1>4 DEF NoString

\* A chunk of an honest line, or of a string, is one that may be on the disk.
LEMMA ChunkHonest ==
  ASSUME NEW f \in Formatted, NEW n \in Nat, n <= f.textsz,
         f \in HonestLines \/ f.kept = f.textsz
  PROVE  Chunk(f, n) \in Chunks /\ Chunk(f, n).of = f
  <1> DEFINE own == IF f.key = 0 THEN 0 ELSE Min({n, f.kept})
             B == LINT_BUFFER_SIZE - 2
  <1>1. f.key \in Nat /\ f.kept \in Nat /\ f.textsz \in Nat /\ f.len \in Nat
    BY LintTextAssumption DEF Formatted
  <1>1a. B \in Int
    BY LintTextAssumption
  <1>2. Min({n, f.kept}) = IF n <= f.kept THEN n ELSE f.kept
    BY <1>1, MinOfTwo
  <1>3. own \in Int
    BY <1>1, <1>2
  <1>4. Chunk(f, n) = [of |-> f, own |-> own, foreign |-> n - own]
    BY DEF Chunk
  <1>5. ASSUME n - own > 0 PROVE f.key = 0 \/ f.len > B
    <2> SUFFICES ASSUME f.key # 0 PROVE f.len > B
      OBVIOUS
    <2>1. n > f.kept /\ f.kept < f.textsz
      BY <1>1, <1>2, <1>5
    <2>2. f.textsz = f.len /\ f.kept = Min({f.len, B})
      BY <1>1, <2>1 DEF HonestLines
    <2>3. Min({f.len, B}) = IF f.len <= B THEN f.len ELSE B
      BY <1>1, <1>1a, MinOfTwo
    <2> QED BY <1>1, <1>1a, <2>1, <2>2, <2>3
  <1> HIDE DEF own
  <1>6. Chunk(f, n) \in [of : Formatted, own : Int, foreign : Int]
    BY <1>3, <1>4
  <1> QED BY <1>4, <1>5, <1>6 DEF Chunks

\* A chunk is all of its text, or is not.
LEMMA ChunkWhole ==
  ASSUME NEW f \in Formatted, NEW n \in Nat
  PROVE  Chunk(f, n) = Chunk(f, f.textsz) <=> n = f.textsz
  <1>1. f.key \in Nat /\ f.kept \in Nat /\ f.textsz \in Nat
    BY LintTextAssumption DEF Formatted
  <1> SUFFICES ASSUME Chunk(f, n) = Chunk(f, f.textsz) PROVE n = f.textsz
    OBVIOUS
  <1> DEFINE Own(k) == IF f.key = 0 THEN 0 ELSE Min({k, f.kept})
  <1>2. \A k \in Nat : Own(k) \in Int
    BY <1>1, MinOfTwo
  <1>3. \A k : Chunk(f, k) = [of |-> f, own |-> Own(k), foreign |-> k - Own(k)]
    BY DEF Chunk
  <1> HIDE DEF Own
  <1>4. Own(n) = Own(f.textsz) /\ n - Own(n) = f.textsz - Own(f.textsz)
    <2>1. \A k : Chunk(f, k).own = Own(k) /\ Chunk(f, k).foreign = k - Own(k)
      BY <1>3
    <2> QED BY <2>1
  <1> QED BY <1>1, <1>2, <1>4

\* An answer to a text: 0 or more, and at most a chunk of the text is on the disk,
\* none only for a text without bytes; or -1 and the errno of the failed write, with
\* nothing written.
Answers(answer, f) ==
  /\ answer.res \in Int /\ answer.put \in Seq(Chunks)
  /\ answer.put = <<>> => answer.cut = {}
  /\ answer.res >= 0 =>
       /\ answer.why = "none"
       /\ f.textsz = 0 => answer.put = <<>>
       /\ f.textsz # 0 =>
            \E c \in Chunks : /\ answer.put = <<c>> /\ c.of = f
                              /\ answer.cut = {} <=> c = Chunk(f, f.textsz)
  /\ answer.res < 0 =>
       /\ answer.why = "EWRITE" /\ answer.errno = "EWRITE"
       /\ answer.put = <<>> /\ f.textsz # 0

\* That is what lint_text_write_text answers to a text it is given, honest or a
\* string.
LEMMA WriteTextAnswers ==
  ASSUME NEW fh, fh # NULL,
         NEW f \in Formatted, f # NoString,
         f \in HonestLines \/ f.kept = f.textsz,
         NEW answer \in lint_text_write_text(fh, f)
  PROVE  Answers(answer, f)
  <1>1. f.textsz \in Nat
    BY LintTextAssumption DEF Formatted
  <1>2. CASE f.textsz = 0
    <2>1. answer = Nothing
      BY <1>2 DEF lint_text_write_text
    <2> QED BY <1>2, <2>1 DEF Answer, Nothing, Answers
  <1>3. CASE f.textsz # 0 /\ answer \in
               {Answer(n, Restored(e, e), <<Chunk(f, n)>>, "none", Rest(f, n)) :
                  n \in {0, 1, f.textsz} \ {SIZE_MAX}, e \in {errno, "ETRACE"}}
    <2> DEFINE N == {0, 1, f.textsz} \ {SIZE_MAX}
               E == {errno, "ETRACE"}
               A(n, e) == Answer(n, Restored(e, e), <<Chunk(f, n)>>, "none", Rest(f, n))
    <2>0. answer \in {A(n, e) : n \in N, e \in E}
      BY <1>3
    <2> HIDE DEF A, N, E
    <2>1a. PICK n \in N, e \in E : answer = A(n, e)
      BY <2>0
    <2>1. n \in {0, 1, f.textsz}
          /\ answer = Answer(n, Restored(e, e), <<Chunk(f, n)>>, "none", Rest(f, n))
      BY <2>1a DEF A, N
    <2>2. n \in Nat /\ n <= f.textsz
      BY <1>1, <1>3, <2>1
    <2>3. /\ Chunk(f, n) \in Chunks /\ Chunk(f, n).of = f
          /\ Chunk(f, n) = Chunk(f, f.textsz) <=> n = f.textsz
      BY <2>2, ChunkHonest, ChunkWhole
    <2>4. /\ answer.res = n /\ answer.put = <<Chunk(f, n)>> /\ answer.why = "none"
          /\ answer.cut = Rest(f, n)
      BY <2>1 DEF Answer
    <2>5. answer.put # <<>> /\ answer.put \in Seq(Chunks)
      BY <2>3, <2>4
    <2> QED BY <1>3, <2>2, <2>3, <2>4, <2>5 DEF Answers, Rest
  <1>4. CASE f.textsz # 0 /\ answer \in
               {Answer(-1, Restored("EWRITE", e), <<>>, "EWRITE", {}) :
                  e \in {"EWRITE", "ETRACE"}}
    <2>1. answer = Answer(-1, "EWRITE", <<>>, "EWRITE", {})
      BY <1>4 DEF Restored
    <2> QED BY <1>4, <2>1 DEF Answer, Answers
  <1> DEFINE Some == {Answer(n, Restored(e, e), <<Chunk(f, n)>>, "none", Rest(f, n)) :
                        n \in {0, 1, f.textsz} \ {SIZE_MAX}, e \in {errno, "ETRACE"}}
             None == {Answer(-1, Restored("EWRITE", e), <<>>, "EWRITE", {}) :
                        e \in {"EWRITE", "ETRACE"}}
  <1>5. f.textsz # 0 => answer \in Some \cup None
    BY DEF lint_text_write_text
  <1>6. f.textsz # 0 /\ answer \in Some => Answers(answer, f)
    BY <1>3
  <1>7. f.textsz # 0 /\ answer \in None => Answers(answer, f)
    BY <1>4
  <1> HIDE DEF Some, None
  <1> QED BY <1>2, <1>5, <1>6, <1>7

-----------------------------------------------------------------------------
(* The lines that have a text *)

\* Nonempty of a list, from that of its parts.
LEMMA NonemptyConcat ==
  ASSUME NEW S, NEW s \in Seq(S), NEW t \in Seq(S)
  PROVE  /\ Nonempty(s) \in Seq(S) /\ Nonempty(t) \in Seq(S)
         /\ Nonempty(s \o t) = Nonempty(s) \o Nonempty(t)
  <1> DEFINE Item(f) == IF f.textsz = 0 THEN <<>> ELSE <<f>>
             Items(u) == [n \in 1 .. Len(u) |-> Item(u[n])]
  <1>1. \A f \in S : Item(f) \in Seq(S)
    OBVIOUS
  <1>2. \A u \in Seq(S) : Nonempty(u) = FlattenSeq(Items(u))
    <2> SUFFICES ASSUME NEW u \in Seq(S) PROVE Nonempty(u) = FlattenSeq(Items(u))
      OBVIOUS
    <2>1. DOMAIN u = 1 .. Len(u)
      BY LenProperties
    <2> QED BY <2>1 DEF Nonempty
  <1> HIDE DEF Item
  <1>3. \A u \in Seq(S) : /\ Items(u) \in Seq(Seq(S)) /\ Len(Items(u)) = Len(u)
                          /\ \A n \in 1 .. Len(u) : Items(u)[n] = Item(u[n])
    <2> SUFFICES ASSUME NEW u \in Seq(S)
                 PROVE  /\ Items(u) \in Seq(Seq(S)) /\ Len(Items(u)) = Len(u)
                        /\ \A n \in 1 .. Len(u) : Items(u)[n] = Item(u[n])
      OBVIOUS
    <2>1. Len(u) \in Nat /\ u \in [1 .. Len(u) -> S]
      BY LenProperties
    <2>2. Items(u) \in [1 .. Len(u) -> Seq(S)]
      BY <1>1, <2>1
    <2> QED BY <2>1, <2>2
  <1> HIDE DEF Items
  <1>4. s \o t \in Seq(S)
    OBVIOUS
  <1>5. Items(s \o t) = Items(s) \o Items(t)
    <2> DEFINE a == Items(s)
               b == Items(t)
               c == Items(s \o t)
    <2>1. a \in Seq(Seq(S)) /\ b \in Seq(Seq(S)) /\ c \in Seq(Seq(S))
          /\ Len(a) = Len(s) /\ Len(b) = Len(t) /\ Len(c) = Len(s) + Len(t)
          /\ Len(s) \in Nat /\ Len(t) \in Nat
      <3>1. a \in Seq(Seq(S)) /\ Len(a) = Len(s)
        BY <1>3
      <3>2. b \in Seq(Seq(S)) /\ Len(b) = Len(t)
        BY <1>3
      <3>3. c \in Seq(Seq(S)) /\ Len(c) = Len(s \o t)
        BY <1>3, <1>4
      <3>4. Len(s \o t) = Len(s) + Len(t) /\ Len(s) \in Nat /\ Len(t) \in Nat
        BY ConcatProperties, LenProperties
      <3> QED BY <3>1, <3>2, <3>3, <3>4
    <2>2. /\ a \o b \in Seq(Seq(S)) /\ Len(a \o b) = Len(s) + Len(t)
          /\ \A n \in 1 .. Len(s) + Len(t) :
               (a \o b)[n] = IF n <= Len(s) THEN a[n] ELSE b[n - Len(s)]
      <3> DEFINE R == Seq(S)
      <3>0. a \in Seq(R) /\ b \in Seq(R)
        BY <2>1
      <3> HIDE DEF a, b, c, R
      <3>1. /\ a \o b \in Seq(R) /\ Len(a \o b) = Len(a) + Len(b)
            /\ \A n \in 1 .. Len(a) + Len(b) :
                 (a \o b)[n] = IF n <= Len(a) THEN a[n] ELSE b[n - Len(a)]
        BY ONLY <3>0, ConcatProperties
      <3> QED BY ONLY <2>1, <3>1 DEF R
    <2>3. ASSUME NEW n \in 1 .. Len(s) + Len(t) PROVE c[n] = (a \o b)[n]
      <3>1. c[n] = Item((s \o t)[n])
        BY <1>3, <1>4, <2>1
      <3>2. (s \o t)[n] = IF n <= Len(s) THEN s[n] ELSE t[n - Len(s)]
        BY ConcatProperties
      <3>3. CASE n <= Len(s)
        <4>1. n \in 1 .. Len(s)
          BY <2>1, <3>3
        <4>2. a[n] = Item(s[n])
          BY <1>3, <4>1
        <4> QED BY <2>2, <3>1, <3>2, <3>3, <4>2
      <3>4. CASE ~ (n <= Len(s))
        <4>1. n - Len(s) \in 1 .. Len(t)
          BY <2>1, <3>4
        <4>2. b[n - Len(s)] = Item(t[n - Len(s)])
          BY <1>3, <4>1
        <4> QED BY <2>2, <3>1, <3>2, <3>4, <4>2
      <3> QED BY <3>3, <3>4
    <2> HIDE DEF a, b, c
    <2>4. c = a \o b
      BY ONLY <2>1, <2>2, <2>3, SeqEqual
    <2> QED BY <2>4 DEF a, b, c
  <1>6. FlattenSeq(Items(s) \o Items(t)) = FlattenSeq(Items(s)) \o FlattenSeq(Items(t))
    BY <1>3, FlattenSeqConcat
  <1>7. FlattenSeq(Items(s)) \in Seq(S) /\ FlattenSeq(Items(t)) \in Seq(S)
    BY <1>3, FlattenSeqType
  <1> QED BY <1>2, <1>4, <1>5, <1>6, <1>7

\* No line has none, and one line has itself or none.
LEMMA NonemptyOne ==
  /\ Nonempty(<<>>) = <<>>
  /\ \A f : Nonempty(<<f>>) = IF f.textsz = 0 THEN <<>> ELSE <<f>>
  <1>1. Nonempty(<<>>) = <<>>
    <2> DEFINE items == [n \in DOMAIN <<>> |->
                           IF <<>>[n].textsz = 0 THEN <<>> ELSE << <<>>[n] >>]
    <2>1. items = <<>>
      OBVIOUS
    <2> QED BY <2>1, FlattenSeqType, EmptySeq DEF Nonempty
  <1>2. ASSUME NEW f PROVE Nonempty(<<f>>) = IF f.textsz = 0 THEN <<>> ELSE <<f>>
    <2> DEFINE item == IF f.textsz = 0 THEN <<>> ELSE <<f>>
               one == [n \in 1 .. 1 |-> item]
    <2>0. item \in Seq({f})
      <3>1. <<>> \in Seq({f}) /\ <<f>> \in Seq({f})
        OBVIOUS
      <3> QED BY <3>1
    <2>1. Nonempty(<<f>>) = FlattenSeq(one)
      BY DEF Nonempty
    <2> HIDE DEF item
    <2>2. one \in Seq(Seq({f})) /\ Len(one) = 1 /\ one # <<>> /\ one[1] = item
          /\ one \in [1 .. 1 -> Seq({f})]
      BY <2>0
    <2>3. \A n \in 1 .. 1 : one[n] = IF n = 1 THEN one[n] ELSE one[n - 1] \o one[n]
      OBVIOUS
    <2> HIDE DEF one
    <2>4. FlattenSeq(one) = one[Len(one)]
      <3>1. one \in [1 .. Len(one) -> Seq({f})]
        BY <2>2
      <3>2. \A n \in 1 .. Len(one) : one[n] = IF n = 1 THEN one[n] ELSE one[n - 1] \o one[n]
        BY <2>2, <2>3
      <3> QED BY ONLY <2>2, <3>1, <3>2, FlattenSeqIs
    <2> QED BY <2>1, <2>2, <2>4 DEF item
  <1> QED BY <1>1, <1>2

\* The lines before the n-th and it.
LEMMA NonemptyNext ==
  ASSUME NEW S, NEW lines \in Seq(S), NEW n \in 1 .. Len(lines)
  PROVE  Nonempty(SubSeq(lines, 1, n)) =
           Nonempty(SubSeq(lines, 1, n - 1)) \o
             (IF lines[n].textsz = 0 THEN <<>> ELSE <<lines[n]>>)
  <1>0. Len(lines) \in Nat /\ lines[n] \in S
    BY LenProperties
  <1> DEFINE s == SubSeq(lines, 1, n - 1)
  <1>1. SubSeq(lines, 1, n) = s \o <<lines[n]>>
    BY <1>0, SubSeqRecursiveSecond
  <1>2. s \in Seq(S) /\ <<lines[n]>> \in Seq(S)
    BY <1>0
  <1> HIDE DEF s
  <1>3. Nonempty(s \o <<lines[n]>>) = Nonempty(s) \o Nonempty(<<lines[n]>>)
    BY <1>2, NonemptyConcat
  <1> QED BY <1>1, <1>3, NonemptyOne DEF s

\* The texts of the first lines are the first texts, and not all of them when
\* the next line has one.
LEMMA NonemptyPrefix ==
  ASSUME NEW S, NEW lines \in Seq(S), NEW n \in 0 .. Len(lines)
  PROVE  /\ IsPrefix(Nonempty(SubSeq(lines, 1, n)), Nonempty(lines))
         /\ n < Len(lines) /\ lines[n + 1].textsz # 0 =>
              Nonempty(SubSeq(lines, 1, n)) # Nonempty(lines)
         /\ n = Len(lines) => Nonempty(SubSeq(lines, 1, n)) = Nonempty(lines)
  <1>0. Len(lines) \in Nat
    BY LenProperties
  <1>1. ASSUME NEW k \in 0 .. Len(lines)
        PROVE  \E r \in Seq(S) : /\ Nonempty(SubSeq(lines, 1, k)) \in Seq(S)
                                 /\ Nonempty(lines) = Nonempty(SubSeq(lines, 1, k)) \o r
    <2> DEFINE s == SubSeq(lines, 1, k)
               t == SubSeq(lines, k + 1, Len(lines))
    <2>1. s \in Seq(S) /\ t \in Seq(S)
      BY <1>0
    <2>2. s \o t = lines
      <3>1. SubSeq(lines, 1, k) \o SubSeq(lines, k + 1, Len(lines))
              = SubSeq(lines, 1, Len(lines))
        <4>1. 1 \in 1 .. Len(lines) + 1 /\ k \in 1 - 1 .. Len(lines)
              /\ Len(lines) \in k .. Len(lines)
          BY <1>0
        <4> QED BY ONLY lines \in Seq(S), <4>1, ConcatAdjacentSubSeq
      <3> QED BY <3>1, SubSeqFull
    <2> HIDE DEF s, t
    <2>3. Nonempty(s) \in Seq(S) /\ Nonempty(t) \in Seq(S)
          /\ Nonempty(s \o t) = Nonempty(s) \o Nonempty(t)
      BY <2>1, NonemptyConcat
    <2> QED BY <2>2, <2>3 DEF s
  <1>2. IsPrefix(Nonempty(SubSeq(lines, 1, n)), Nonempty(lines))
    <2> DEFINE a == Nonempty(SubSeq(lines, 1, n))
               b == Nonempty(lines)
    <2>1. PICK r \in Seq(S) : a \in Seq(S) /\ b = a \o r
      BY <1>1
    <2> HIDE DEF a, b
    <2>2. /\ Len(a) \in Nat /\ Len(b) = Len(a) + Len(r) /\ Len(r) \in Nat /\ b \in Seq(S)
          /\ \A k \in 1 .. Len(a) + Len(r) : b[k] = IF k <= Len(a) THEN a[k] ELSE r[k - Len(a)]
      BY <2>1, ConcatProperties, LenProperties
    <2>3. SubSeq(a, 1, Len(a)) = a
      BY <2>1, SubSeqFull
    <2>4. SubSeq(b, 1, Len(a)) = a
      <3> DEFINE c == SubSeq(b, 1, Len(a))
      <3>1. c \in Seq(S) /\ Len(c) = Len(a) /\ \A k \in 1 .. Len(a) : c[k] = b[k]
        BY <2>2
      <3> HIDE DEF c
      <3>2. \A k \in 1 .. Len(c) : c[k] = a[k]
        BY <2>2, <3>1
      <3>3. c = a
        BY ONLY <2>1, <3>1, <3>2, SeqEqual
      <3> QED BY <3>3 DEF c
    <2>5. IsPrefix(a, b)
      BY <2>2, <2>3, <2>4 DEF IsPrefix
    <2> QED BY <2>5 DEF a, b
  <1>3. ASSUME n < Len(lines), lines[n + 1].textsz # 0
        PROVE  Nonempty(SubSeq(lines, 1, n)) # Nonempty(lines)
    <2> DEFINE a == Nonempty(SubSeq(lines, 1, n))
               a2 == Nonempty(SubSeq(lines, 1, n + 1))
               b == Nonempty(lines)
               f == lines[n + 1]
    <2>1. n + 1 \in 1 .. Len(lines) /\ n + 1 \in 0 .. Len(lines) /\ n + 1 - 1 = n
      BY <1>0, <1>3
    <2>2. a2 = a \o <<f>>
      BY <1>3, <2>1, NonemptyNext
    <2>3. PICK r \in Seq(S) : a2 \in Seq(S) /\ b = a2 \o r
      BY <1>1, <2>1
    <2>4. a \in Seq(S) /\ f \in S
      BY <1>1, <2>1
    <2> HIDE DEF a, a2, b, f
    <2>5. Len(a2) = Len(a) + 1 /\ Len(b) = Len(a2) + Len(r) /\ Len(a) \in Nat /\ Len(r) \in Nat
      <3>1. Len(b) = Len(a2) + Len(r)
        BY ONLY <2>3, ConcatProperties
      <3>2. Len(a2) = Len(a) + 1
        BY <2>2, <2>4
      <3> QED BY <2>3, <2>4, <3>1, <3>2, LenProperties
    <2>6. a # b
      BY <2>5
    <2> QED BY <2>6 DEF a, b
  <1>4. n = Len(lines) => Nonempty(SubSeq(lines, 1, n)) = Nonempty(lines)
    BY SubSeqFull
  <1> QED BY <1>2, <1>3, <1>4

\* What has been put on the disk, with one chunk more.
LEMMA PutNext ==
  ASSUME NEW d \in Seq(Chunks), NEW m \in 0 .. Len(d), NEW c \in Chunks
  PROVE  /\ [n \in 1 .. Len(d \o <<c>>) - m |-> (d \o <<c>>)[m + n].of] =
              [n \in 1 .. Len(d) - m |-> d[m + n].of] \o <<c.of>>
         /\ [n \in 1 .. Len(d \o <<c>>) - m |-> (d \o <<c>>)[m + n].of] \in Seq(Formatted)
         /\ [n \in 1 .. Len(d) - m |-> d[m + n].of] \in Seq(Formatted)
  <1> DEFINE L == Len(d)
             e == d \o <<c>>
             Of(x) == x.of
             P == [n \in 1 .. L - m |-> Of(d[m + n])]
             Q == [n \in 1 .. Len(e) - m |-> Of(e[m + n])]
  <1>1. L \in Nat /\ m \in Nat /\ m <= L /\ L - m \in Nat /\ L + 1 - m = (L - m) + 1
    BY LenProperties
  <1>2. Len(e) = L + 1 /\ \A k \in 1 .. L + 1 : e[k] = IF k <= L THEN d[k] ELSE c
    <2>1. <<c>> \in Seq(Chunks) /\ Len(<<c>>) = 1 /\ <<c>>[1] = c
      OBVIOUS
    <2>2. \A k \in 1 .. L + 1 : k <= L \/ k - L = 1
      BY <1>1
    <2>3. \A k \in 1 .. L + 1 : e[k] = IF k <= L THEN d[k] ELSE <<c>>[k - L]
      BY <2>1, ConcatProperties
    <2>4. Len(e) = L + 1
      BY <2>1, ConcatProperties
    <2> HIDE DEF e
    <2> QED BY <2>1, <2>2, <2>3, <2>4
  <1>3. \A x \in Chunks : Of(x) \in Formatted
    BY DEF Chunks
  <1>4. \A k \in 1 .. L : d[k] \in Chunks
    BY ElementOfSeq
  <1> HIDE DEF L, e, Of
  <1>5. P \in Seq(Formatted) /\ Len(P) = L - m
    <2>1. \A n \in 1 .. L - m : Of(d[m + n]) \in Formatted
      <3> SUFFICES ASSUME NEW n \in 1 .. L - m PROVE Of(d[m + n]) \in Formatted
        OBVIOUS
      <3>1. m + n \in 1 .. L
        BY <1>1
      <3> QED BY <1>3, <1>4, <3>1
    <2>2. P \in [1 .. L - m -> Formatted]
      BY <2>1
    <2> QED BY <1>1, <2>2
  <1>6. Q \in Seq(Formatted) /\ Len(Q) = (L - m) + 1
    <2>1. \A n \in 1 .. Len(e) - m : Of(e[m + n]) \in Formatted
      <3> SUFFICES ASSUME NEW n \in 1 .. Len(e) - m PROVE Of(e[m + n]) \in Formatted
        OBVIOUS
      <3>1. m + n \in 1 .. L + 1 /\ (m + n <= L => m + n \in 1 .. L)
        BY <1>1, <1>2
      <3> QED BY <1>2, <1>3, <1>4, <3>1
    <2>2. Q \in [1 .. Len(e) - m -> Formatted]
      BY <2>1
    <2> DEFINE k == Len(e) - m
    <2>3. k \in Nat /\ k = (L - m) + 1
      BY <1>1, <1>2
    <2>4. Q \in [1 .. k -> Formatted]
      BY <2>2
    <2> HIDE DEF Q, k
    <2>5. Q \in Seq(Formatted) /\ Len(Q) = k
      BY ONLY <2>3, <2>4
    <2> QED BY <2>3, <2>5
  <1>7. P \o <<Of(c)>> \in Seq(Formatted) /\ Len(P \o <<Of(c)>>) = (L - m) + 1
        /\ \A n \in 1 .. (L - m) + 1 :
             (P \o <<Of(c)>>)[n] = IF n <= L - m THEN P[n] ELSE Of(c)
    <2> DEFINE o == <<Of(c)>>
    <2>1. o \in Seq(Formatted) /\ Len(o) = 1 /\ o[1] = Of(c)
      BY <1>3
    <2> HIDE DEF o, P
    <2>2. /\ P \o o \in Seq(Formatted) /\ Len(P \o o) = Len(P) + Len(o)
          /\ \A n \in 1 .. Len(P) + Len(o) :
               (P \o o)[n] = IF n <= Len(P) THEN P[n] ELSE o[n - Len(P)]
      BY ONLY <1>5, <2>1, ConcatProperties
    <2>3. \A n \in 1 .. (L - m) + 1 : n <= L - m \/ n - (L - m) = 1
      BY <1>1
    <2> QED BY <1>5, <2>1, <2>2, <2>3 DEF o
  <1>8. ASSUME NEW n \in 1 .. (L - m) + 1 PROVE Q[n] = (P \o <<Of(c)>>)[n]
    <2>0. n \in 1 .. Len(e) - m /\ m + n \in 1 .. L + 1
      BY <1>1, <1>2
    <2>1. Q[n] = Of(IF m + n <= L THEN d[m + n] ELSE c)
      BY <1>2, <2>0
    <2>2. n <= L - m => P[n] = Of(d[m + n])
      OBVIOUS
    <2>3. n <= L - m <=> m + n <= L
      BY <1>1
    <2> QED BY <1>7, <2>1, <2>2, <2>3
  <1> HIDE DEF P, Q
  <1>9. Q = P \o <<Of(c)>>
    BY ONLY <1>6, <1>7, <1>8, SeqEqual
  <1>10. Q = [n \in 1 .. Len(e) - m |-> e[m + n].of]
    BY DEF Q, Of
  <1>11. P = [n \in 1 .. Len(d) - m |-> d[m + n].of]
    BY DEF P, L, Of
  <1>12. Of(c) = c.of
    BY DEF Of
  <1>13. [n \in 1 .. Len(e) - m |-> e[m + n].of]
           = [n \in 1 .. Len(d) - m |-> d[m + n].of] \o <<c.of>>
    BY ONLY <1>9, <1>10, <1>11, <1>12
  <1> QED BY ONLY <1>5, <1>6, <1>10, <1>11, <1>13 DEF e

-----------------------------------------------------------------------------
(* The steps *)

\* The first state has nothing buffered and nothing on the disk.
LEMMA TextInvInit == Init => TextInv
  <1> SUFFICES ASSUME Init PROVE TextInv
    OBVIOUS
  <1> USE DEF Init
  <1>1. TextTypes
    BY DEF TextTypes
  <1>2. SameLines
    <2>1. Bijection({}, {}) # {}
      <3>1. [x \in {} |-> x] \in Bijection({}, {})
        BY DEF Bijection, Injection, Surjection, IsInjective
      <3> QED BY <3>1
    <2>2. DOMAIN added = {}
      OBVIOUS
    <2>3. \A p : <<>> = [n \in {} |-> added[p[n]]]
      OBVIOUS
    <2> QED BY <2>1, <2>2, <2>3 DEF SameLines
  <1>3. LoopInv /\ EndInv /\ AnswerTellsCause
    BY DEF LoopInv, EndInv, AnswerTellsCause, Idle
  <1> QED BY <1>1, <1>2, <1>3 DEF TextInv

\* A call that only answers and writes: the two that write a text, and any with a
\* pointer missing.
LEMMA OnlyAnswers ==
  ASSUME TextInv, Begin, NEW name \in DOMAIN Needed, NEW missing, NEW answer,
         Return(name, missing, answer), UNCHANGED <<buffered_lines, i, added>>,
         name # "write_buffered" \/ missing # {},
         answer.res \in Int, answer.put \in Seq(Chunks),
         answer.res < 0 <=> missing \cap Needed[name] # {} \/ answer.why # "none",
         answer.res < 0 =>
           answer.errno = IF missing \cap Needed[name] # {} THEN "EINVAL" ELSE answer.why,
         missing # {} => answer.put = <<>>
  PROVE  TextInv'
  <1> USE DEF TextInv, Begin, Return
  <1>0. /\ disk \in Seq(Chunks) /\ Len(disk) \in Nat
        /\ Len(disk') = Len(disk) + Len(answer.put) /\ Len(answer.put) \in Nat
        /\ disk' \in Seq(Chunks)
        /\ (answer.put = <<>> => Len(answer.put) = 0)
    BY ConcatProperties, LenProperties, EmptySeq DEF TextTypes
  <1>0a. /\ call'.name = name /\ call'.missing = missing /\ call'.res = answer.res
         /\ errno' = answer.errno /\ cause' = answer.why
         /\ mark' = Len(disk) /\ held' = buffered_lines
    OBVIOUS
  <1>1. TextTypes'
    BY <1>0, <1>0a DEF TextTypes, Idle
  <1>2. SameLines'
    BY DEF SameLines
  <1>3. LoopInv' /\ EndInv'
    BY <1>0a DEF LoopInv, EndInv, Idle
  <1>4. AnswerTellsCause'
    <2>1. missing # {} => Len(disk') = mark' /\ buffered_lines' = held'
      BY <1>0, <1>0a
    <2>2. Needed' = Needed
      BY DEF Needed
    <2> QED BY <1>0a, <2>1, <2>2 DEF AnswerTellsCause
  <1> QED BY <1>1, <1>2, <1>3, <1>4

\* A call without a pointer it needs.
LEMMA NoPointer ==
  ASSUME TextInv, Begin, NEW name \in DOMAIN Needed, NEW missing,
         missing \cap Needed[name] # {}, Return(name, missing, EINVAL),
         UNCHANGED <<buffered_lines, i, added>>
  PROVE  TextInv'
  <1>1. EINVAL.res = -1 /\ EINVAL.put = <<>> /\ EINVAL.why = "none"
        /\ EINVAL.errno = "EINVAL" /\ EINVAL.cut = {}
    BY DEF EINVAL, Answer
  <1>2. EINVAL.put \in Seq(Chunks) /\ EINVAL.res \in Int /\ EINVAL.res < 0
    BY <1>1
  <1>3. missing # {}
    OBVIOUS
  <1> QED BY <1>1, <1>2, <1>3, OnlyAnswers

\* lint_text_write_text and lint_text_write_fmt.
LEMMA WriteStep ==
  ASSUME TextInv,
         \E fh \in {NULL, "fh"} :
           \/ \E text \in {NoString} \cup Strings : WriteText(fh, text)
           \/ \E fmt \in {NoText} \cup Texts : WriteFmt(fh, fmt)
  PROVE  TextInv'
  <1>1. ASSUME NEW name \in {"write_text", "write_fmt"}, Begin,
               UNCHANGED <<buffered_lines, i, added>>,
               NEW f \in Formatted, f # NoString,
               f \in HonestLines \/ f.kept = f.textsz,
               NEW answer \in lint_text_write_text("fh", f),
               Return(name, {}, answer)
        PROVE  TextInv'
    <2>1. "fh" # NULL
      BY DEF NULL
    <2>2. /\ answer.res \in Int /\ answer.put \in Seq(Chunks)
          /\ answer.res >= 0 => answer.why = "none"
          /\ answer.res < 0 => answer.why = "EWRITE" /\ answer.errno = "EWRITE"
      <3>1. Answers(answer, f)
        BY <1>1, <2>1, WriteTextAnswers
      <3> QED BY <3>1 DEF Answers
    <2>3. /\ answer.res < 0 <=> answer.why # "none"
          /\ answer.res < 0 => answer.errno = answer.why
      BY <2>2
    <2>4. name \in DOMAIN Needed /\ name # "write_buffered"
          /\ ~ ({} \cap Needed[name] # {})
      BY DEF Needed
    <2> DEFINE missing == {}
    <2>5. /\ Return(name, missing, answer) /\ ~ (missing \cap Needed[name] # {})
          /\ ~ (missing # {})
      BY <1>1, <2>4
    <2> HIDE DEF missing
    <2> QED BY <1>1, <2>2, <2>3, <2>4, <2>5, OnlyAnswers
  <1>2. ASSUME NEW fh \in {NULL, "fh"}, NEW text \in {NoString} \cup Strings,
               WriteText(fh, text)
        PROVE  TextInv'
    <2>1. CASE fh = NULL \/ text = NoString
      <3> DEFINE missing == Pointer("fh", fh = NULL) \cup Pointer("text", text = NoString)
      <3>1. PICK answer \in lint_text_write_text(fh, text) :
              Return("write_text", missing, answer)
        BY <1>2 DEF WriteText
      <3>2. answer = EINVAL
        BY <2>1, <3>1 DEF lint_text_write_text
      <3>3. "write_text" \in DOMAIN Needed /\ missing \cap Needed["write_text"] # {}
        BY <2>1 DEF Needed, Pointer
      <3> HIDE DEF missing
      <3> QED BY <1>2, <3>1, <3>2, <3>3, NoPointer DEF WriteText
    <2>2. CASE fh = "fh" /\ fh # NULL /\ text # NoString
      <3>1. text \in Formatted /\ text.kept = text.textsz
        BY <2>2, StringsHonest
      <3>2. PICK answer \in lint_text_write_text("fh", text) :
              Return("write_text", {}, answer)
        <4>1. Pointer("fh", fh = NULL) \cup Pointer("text", text = NoString) = {}
          BY <2>2 DEF Pointer
        <4> QED BY <1>2, <2>2, <4>1 DEF WriteText
      <3> QED BY <1>1, <1>2, <2>2, <3>1, <3>2 DEF WriteText
    <2> QED BY <2>1, <2>2
  <1>3. ASSUME NEW fh \in {NULL, "fh"}, NEW fmt \in {NoText} \cup Texts,
               WriteFmt(fh, fmt)
        PROVE  TextInv'
    <2>1. CASE fh = NULL \/ fmt = NoText
      <3> DEFINE missing == Pointer("fh", fh = NULL) \cup Pointer("fmt", fmt = NoText)
      <3>1. Return("write_fmt", missing, EINVAL)
        BY <1>3, <2>1 DEF WriteFmt, lint_text_write_fmt
      <3>2. "write_fmt" \in DOMAIN Needed /\ missing \cap Needed["write_fmt"] # {}
        BY <2>1 DEF Needed, Pointer
      <3> HIDE DEF missing
      <3> QED BY <1>3, <3>1, <3>2, NoPointer DEF WriteFmt
    <2>2. CASE fh = "fh" /\ fh # NULL /\ fmt # NoText
      <3>1. PICK answer \in UNION {lint_text_write_text("fh", f) : f \in Format(fmt)} :
              Return("write_fmt", {}, answer)
        <4>1. Pointer("fh", fh = NULL) \cup Pointer("fmt", fmt = NoText) = {}
          BY <2>2 DEF Pointer
        <4> QED BY <1>3, <2>2, <4>1 DEF WriteFmt, lint_text_write_fmt
      <3>2. PICK f \in Format(fmt) : answer \in lint_text_write_text("fh", f)
        BY <3>1
      <3>3. f \in HonestLines
        BY <2>2, FormatHonest
      <3>4. f \in Formatted /\ f # NoString
        BY <3>3 DEF HonestLines
      <3> QED BY <1>1, <1>3, <3>1, <3>2, <3>3, <3>4 DEF WriteFmt
    <2> QED BY <2>1, <2>2
  <1> QED BY <1>2, <1>3

\* lint_text_add_fmt: the same line goes to the end of both.
LEMMA AddStep ==
  ASSUME TextInv, NEW p, NEW list, NEW fmt \in {NoText} \cup Texts,
         AddFmt(p, list, fmt)
  PROVE  TextInv'
  <1>1. CASE p = NULL \/ list = NULL \/ fmt = NoText
    <2> DEFINE missing == Pointer("p", p = NULL) \cup Pointer("list", list = NULL)
                            \cup Pointer("fmt", fmt = NoText)
    <2>1. Begin /\ Return("add_fmt", missing, EINVAL)
          /\ UNCHANGED <<buffered_lines, i, added>>
      BY <1>1 DEF AddFmt
    <2>2. "add_fmt" \in DOMAIN Needed /\ missing \cap Needed["add_fmt"] # {}
      BY <1>1 DEF Needed, Pointer
    <2> HIDE DEF missing
    <2> QED BY <2>1, <2>2, NoPointer
  <1>2. CASE ~ (p = NULL \/ list = NULL \/ fmt = NoText)
    <2>1. PICK f \in Format(fmt) :
            /\ buffered_lines' = Append(buffered_lines, f)
            /\ added' = Append(added, f)
            /\ Return("add_fmt", {}, Nothing)
      <3>1. Pointer("p", p = NULL) \cup Pointer("list", list = NULL)
              \cup Pointer("fmt", fmt = NoText) = {}
        BY <1>2 DEF Pointer
      <3> QED BY <1>2, <3>1 DEF AddFmt
    <2>2. f \in HonestLines
      BY <1>2, FormatHonest
    <2>3. /\ Begin /\ i' = i /\ i = 0 /\ mark' = Len(disk)
          /\ call' = [name |-> "add_fmt", missing |-> {}, res |-> 0]
          /\ disk' = disk \o <<>> /\ cause' = "none" /\ short' = {}
      BY <1>2, <2>1 DEF AddFmt, Answer, Nothing, Return, Begin, Idle
    <2>4. added \in Seq(HonestLines) /\ buffered_lines \in Seq(HonestLines)
          /\ disk \in Seq(Chunks) /\ disk' = disk /\ Len(disk) \in Nat
      BY <2>3 DEF TextInv, TextTypes
    <2>5. TextTypes'
      BY <2>1, <2>2, <2>3, <2>4 DEF TextTypes
    <2>6. SameLines'
      <3> DEFINE n == Len(added)
      <3>1. PICK q \in Bijection(DOMAIN added, DOMAIN added) :
              buffered_lines = [k \in DOMAIN added |-> added[q[k]]]
        BY DEF TextInv, SameLines
      <3>2. DOMAIN added = 1 .. n /\ n \in Nat
        BY <2>4
      <3>3. /\ q \in [1 .. n -> 1 .. n]
            /\ \A a, b \in 1 .. n : q[a] = q[b] => a = b
            /\ \A b \in 1 .. n : \E a \in 1 .. n : q[a] = b
        <4>1. q \in Bijection(1 .. n, 1 .. n)
          BY <3>1, <3>2
        <4> HIDE DEF n
        <4> DEFINE D == 1 .. n
        <4>2. q \in Bijection(D, D)
          BY <4>1
        <4> HIDE DEF D
        <4>3. /\ q \in [D -> D]
              /\ \A a, b \in D : q[a] = q[b] => a = b
              /\ \A b \in D : \E a \in D : q[a] = b
          BY ONLY <4>2, Fun_BijectionProperties
        <4> QED BY <4>3 DEF D
      <3> DEFINE r == [k \in 1 .. n + 1 |-> IF k = n + 1 THEN n + 1 ELSE q[k]]
      <3>4. r \in [1 .. n + 1 -> 1 .. n + 1]
        BY <3>2, <3>3
      <3>5. \A a, b \in 1 .. n + 1 : r[a] = r[b] => a = b
        <4> SUFFICES ASSUME NEW a \in 1 .. n + 1, NEW b \in 1 .. n + 1, r[a] = r[b]
                     PROVE  a = b
          OBVIOUS
        <4>1. \A k \in 1 .. n + 1 : k # n + 1 => k \in 1 .. n /\ r[k] = q[k] /\ q[k] # n + 1
          <5> SUFFICES ASSUME NEW k \in 1 .. n + 1, k # n + 1
                       PROVE  k \in 1 .. n /\ r[k] = q[k] /\ q[k] # n + 1
            OBVIOUS
          <5>1. k \in 1 .. n
            BY <3>2
          <5>2. q[k] \in 1 .. n
            BY <3>3, <5>1
          <5> QED BY <3>2, <5>1, <5>2
        <4>2. n + 1 \in 1 .. n + 1 /\ r[n + 1] = n + 1
          BY <3>2
        <4> HIDE DEF r
        <4> QED BY <3>3, <4>1, <4>2
      <3>6. \A b \in 1 .. n + 1 : \E a \in 1 .. n + 1 : r[a] = b
        <4> SUFFICES ASSUME NEW b \in 1 .. n + 1 PROVE \E a \in 1 .. n + 1 : r[a] = b
          OBVIOUS
        <4>1. CASE b = n + 1
          BY <3>2, <4>1
        <4>2. CASE b # n + 1
          <5>1. b \in 1 .. n
            BY <3>2, <4>2
          <5>2. PICK a \in 1 .. n : q[a] = b
            BY <3>3, <5>1
          <5>3. a \in 1 .. n + 1 /\ r[a] = b
            BY <3>2, <5>2
          <5> QED BY <5>3
        <4> QED BY <4>1, <4>2
      <3>7. added' \in Seq(HonestLines) /\ Len(added') = n + 1
            /\ DOMAIN added' = 1 .. n + 1
            /\ added'[n + 1] = f /\ \A k \in 1 .. n : added'[k] = added[k]
        BY <2>1, <2>2, <2>4, <3>2
      <3>8. Len(buffered_lines) = n /\ \A k \in 1 .. n : buffered_lines[k] = added[q[k]]
        BY <2>4, <3>1, <3>2
      <3>9. buffered_lines' \in Seq(HonestLines) /\ Len(buffered_lines') = n + 1
            /\ buffered_lines'[n + 1] = f
            /\ \A k \in 1 .. n : buffered_lines'[k] = buffered_lines[k]
        BY <2>1, <2>2, <2>4, <3>2, <3>8
      <3> HIDE DEF n
      <3>10. \A k \in 1 .. n + 1 : buffered_lines'[k] = added'[r[k]]
        BY <3>2, <3>3, <3>7, <3>8, <3>9
      <3>11. r \in Bijection(DOMAIN added', DOMAIN added')
        <4> HIDE DEF r
        <4> QED BY <3>4, <3>5, <3>6, <3>7 DEF Bijection, Injection, Surjection, IsInjective
      <3> HIDE DEF r
      <3>12. buffered_lines' = [k \in DOMAIN added' |-> added'[r[k]]]
        <4>1. buffered_lines' \in [1 .. n + 1 -> HonestLines]
          BY <3>9
        <4>2. buffered_lines' = [k \in 1 .. n + 1 |-> buffered_lines'[k]]
          BY <4>1
        <4> QED BY <3>7, <3>10, <4>2
      <3> QED BY <3>11, <3>12 DEF SameLines
    <2>7. LoopInv' /\ EndInv' /\ AnswerTellsCause'
      BY <2>3, <2>4 DEF LoopInv, EndInv, AnswerTellsCause, Idle
    <2> QED BY <2>5, <2>6, <2>7 DEF TextInv
  <1> QED BY <1>1, <1>2

\* What a sort of a reordering leaves is a reordering, in order.
LEMMA SortedAgain ==
  ASSUME NEW S, NEW t \in Seq(S), NEW p \in Bijection(DOMAIN t, DOMAIN t),
         NEW b, b = [n \in DOMAIN t |-> t[p[n]]], NEW s \in Sorted(b)
  PROVE  /\ s \in Seq(S) /\ Len(s) = Len(t) /\ InOrder(s)
         /\ \E r \in Bijection(DOMAIN t, DOMAIN t) : s = [n \in DOMAIN t |-> t[r[n]]]
  <1> DEFINE D == DOMAIN t
  <1>1. D = 1 .. Len(t) /\ Len(t) \in Nat /\ t \in [D -> S]
    BY LenProperties
  <1>2. DOMAIN b = D
    OBVIOUS
  <1> HIDE DEF D
  <1>3. /\ s \in {[n \in D |-> b[q[n]]] : q \in Bijection(D, D)}
        /\ \A m, n \in DOMAIN s : m < n => ~Before(s[n], s[m])
    BY <1>2 DEF Sorted
  <1>4. PICK q \in Bijection(D, D) : s = [n \in D |-> b[q[n]]]
    BY <1>3
  <1>5. p \in Bijection(D, D)
    BY DEF D
  <1> DEFINE r == [n \in D |-> p[q[n]]]
  <1>6. r \in Bijection(D, D)
    BY <1>4, <1>5, Fun_BijTransitive
  <1>7. q \in [D -> D] /\ p \in [D -> D]
    BY <1>4, <1>5 DEF Bijection, Injection
  <1>8. ASSUME NEW n \in D PROVE b[q[n]] = t[r[n]] /\ t[r[n]] \in S
    <2>1. q[n] \in D /\ p[q[n]] \in D /\ r[n] = p[q[n]]
      BY <1>7
    <2>2. b[q[n]] = t[p[q[n]]]
      BY <2>1 DEF D
    <2> QED BY <1>1, <2>1, <2>2
  <1> HIDE DEF r
  <1>9. s = [n \in D |-> t[r[n]]] /\ s \in [D -> S]
    BY <1>4, <1>8
  <1>10. s \in Seq(S) /\ Len(s) = Len(t)
    <2> DEFINE n == Len(t)
    <2>1. s \in [1 .. n -> S] /\ n \in Nat
      BY <1>1, <1>9
    <2> HIDE DEF n
    <2>2. s \in Seq(S) /\ Len(s) = n
      BY ONLY <2>1
    <2> QED BY <2>2 DEF n
  <1>11. InOrder(s)
    BY <1>3 DEF InOrder
  <1> QED BY <1>6, <1>9, <1>10, <1>11 DEF D

\* lint_text_write_buffered_lines begins: the lines are sorted, and none of them is
\* on the disk.
LEMMA WriteBufferedStep ==
  ASSUME TextInv, NEW fh \in {NULL, "fh"}, NEW list \in {NULL, "list"},
         WriteBuffered(fh, list)
  PROVE  TextInv'
  <1>1. CASE fh = NULL
    <2> DEFINE missing == Pointer("fh", fh = NULL) \cup Pointer("list", list = NULL)
    <2>1. Begin /\ Return("write_buffered", missing, EINVAL)
          /\ UNCHANGED <<buffered_lines, i, added>>
      BY <1>1 DEF WriteBuffered
    <2>2. "write_buffered" \in DOMAIN Needed /\ missing \cap Needed["write_buffered"] # {}
      BY <1>1 DEF Needed, Pointer
    <2> HIDE DEF missing
    <2> QED BY <2>1, <2>2, NoPointer
  <1>2. CASE fh # NULL /\ list = NULL
    <2> DEFINE missing == {"list"}
               answer == Nothing
    <2>1. Begin /\ Return("write_buffered", missing, answer)
          /\ UNCHANGED <<buffered_lines, i, added>>
      <3>1. Pointer("fh", fh = NULL) \cup Pointer("list", list = NULL) = {"list"}
        BY <1>2 DEF Pointer
      <3> QED BY <1>2, <3>1 DEF WriteBuffered
    <2>2. /\ answer.res = 0 /\ answer.put = <<>> /\ answer.why = "none"
          /\ answer.put \in Seq(Chunks) /\ answer.res \in Int /\ answer.cut = {}
      BY DEF Answer, Nothing
    <2>4. /\ "write_buffered" \in DOMAIN Needed /\ missing # {}
          /\ ~ (missing \cap Needed["write_buffered"] # {})
      BY DEF Needed
    <2> HIDE DEF answer, missing
    <2>3. ~ (answer.res < 0)
      BY <2>2
    <2> QED BY <2>1, <2>2, <2>3, <2>4, OnlyAnswers
  <1>3. CASE fh # NULL /\ list # NULL
    <2>1. /\ buffered_lines' \in Sorted(buffered_lines)
          /\ i' = 1 /\ i = 0
          /\ call' = [name |-> "write_buffered", missing |-> {}, res |-> 0]
          /\ disk' = disk \o <<>> /\ short' = {} /\ UNCHANGED added
          /\ mark' = Len(disk)
      <3>1. Pointer("fh", fh = NULL) \cup Pointer("list", list = NULL) = {}
        BY <1>3 DEF Pointer
      <3> QED BY <1>3, <3>1 DEF WriteBuffered, Begin, Idle, Return, Nothing, Answer
    <2>2. added \in Seq(HonestLines) /\ disk \in Seq(Chunks) /\ Len(disk) \in Nat
          /\ disk' = disk
      BY <2>1 DEF TextInv, TextTypes
    <2>3. PICK p \in Bijection(DOMAIN added, DOMAIN added) :
            buffered_lines = [n \in DOMAIN added |-> added[p[n]]]
      BY DEF TextInv, SameLines
    <2>4. /\ buffered_lines' \in Seq(HonestLines) /\ InOrder(buffered_lines')
          /\ \E r \in Bijection(DOMAIN added, DOMAIN added) :
               buffered_lines' = [n \in DOMAIN added |-> added[r[n]]]
      BY <2>1, <2>2, <2>3, SortedAgain
    <2>5. TextTypes'
      <3>1. Len(buffered_lines') \in Nat
        BY <2>4, LenProperties
      <3> QED BY <2>1, <2>2, <2>4, <3>1 DEF TextTypes
    <2>6. SameLines'
      BY <2>1, <2>4 DEF SameLines
    <2>7. LoopInv'
      <3>1. Put' = <<>>
        <4>1. Put' = [n \in 1 .. Len(disk) - Len(disk) |-> disk[Len(disk) + n].of]
          BY <2>1, <2>2 DEF Put
        <4>2. 1 .. Len(disk) - Len(disk) = {}
          BY <2>2
        <4> QED BY <4>1, <4>2
      <3>2. SubSeq(buffered_lines', 1, i' - 1) = <<>>
        BY <2>1, SubSeqEmpty
      <3>3. Put' = Nonempty(SubSeq(buffered_lines', 1, i' - 1))
        BY <3>1, <3>2, NonemptyOne
      <3>4. Uncut'
        BY <2>1, <2>2 DEF Uncut
      <3> QED BY <2>1, <2>4, <3>3, <3>4 DEF LoopInv, Idle, InOrder
    <2>8. EndInv' /\ AnswerTellsCause'
      BY <2>1 DEF EndInv, AnswerTellsCause, Idle
    <2> QED BY <2>5, <2>6, <2>7, <2>8 DEF TextInv
  <1> QED BY <1>1, <1>2, <1>3

\* One turn of its loop: the line is on the disk, or its write has failed.
LEMMA TurnStep ==
  ASSUME TextInv, Turn
  PROVE  TextInv'
  <1> DEFINE f == buffered_lines[i]
  <1>1. /\ buffered_lines \in Seq(HonestLines) /\ disk \in Seq(Chunks)
        /\ Len(buffered_lines) \in Nat /\ Len(disk) \in Nat /\ mark \in 0 .. Len(disk)
        /\ i \in 1 .. Len(buffered_lines)
    BY LenProperties DEF TextInv, TextTypes, Turn
  <1>2. f \in HonestLines
    BY <1>1, ElementOfSeq
  <1>2a. f \in Formatted /\ f # NoString /\ "fh" # NULL
    BY <1>2 DEF HonestLines, NULL
  <1>3. PICK answer \in lint_text_write_text("fh", f) :
          /\ Return("write_buffered", {}, [answer EXCEPT !.res = Min({@, 0})])
          /\ i' = IF answer.res < 0 THEN 0 ELSE i + 1
    BY DEF Turn
  <1>4. UNCHANGED <<buffered_lines, added, mark, held, calls>>
    BY DEF Turn
  <1>5. i # 0 /\ ~Idle /\ InOrder(buffered_lines) /\ (short = {} <=> Uncut)
        /\ Put = Nonempty(SubSeq(buffered_lines, 1, i - 1))
    BY <1>1 DEF TextInv, LoopInv, Idle
  <1> HIDE DEF f
  <1>6. /\ answer.res \in Int /\ answer.put \in Seq(Chunks)
        /\ answer.put = <<>> => answer.cut = {}
        /\ answer.res >= 0 =>
             /\ answer.why = "none"
             /\ f.textsz = 0 => answer.put = <<>>
             /\ f.textsz # 0 => \E c \in Chunks : /\ answer.put = <<c>> /\ c.of = f
                                                  /\ answer.cut = {} <=> c = Chunk(f, f.textsz)
        /\ answer.res < 0 =>
             /\ answer.why = "EWRITE" /\ answer.errno = "EWRITE"
             /\ answer.put = <<>> /\ f.textsz # 0
    <2>1. Answers(answer, f)
      BY <1>2, <1>2a, WriteTextAnswers
    <2> QED BY ONLY <2>1 DEF Answers
  <1>7. /\ call'.res = (IF answer.res <= 0 THEN answer.res ELSE 0)
        /\ call'.name = "write_buffered" /\ call'.missing = {}
        /\ disk' = disk \o answer.put /\ short' = answer.cut \cup short
    <2>1. Min({answer.res, 0}) = IF answer.res <= 0 THEN answer.res ELSE 0
      BY <1>6, MinOfTwo
    <2>2. DOMAIN answer = {"res", "errno", "put", "why", "cut"}
      BY <1>2a DEF lint_text_write_text, Answer, EINVAL, Nothing
    <2>3. /\ [answer EXCEPT !.res = Min({@, 0})].res = Min({answer.res, 0})
          /\ [answer EXCEPT !.res = Min({@, 0})].put = answer.put
          /\ [answer EXCEPT !.res = Min({@, 0})].cut = answer.cut
      BY <2>2
    <2> QED BY <1>3, <1>5, <2>1, <2>3 DEF Return
  <1>7a. errno' = answer.errno /\ cause' = answer.why
    BY <1>3 DEF Return
  <1>7b. short' = {} <=> Uncut'
    <2>1. CASE answer.put = <<>>
      <3>1. disk' = disk /\ answer.cut = {}
        BY <1>1, <1>6, <1>7, <2>1
      <3>2. short' = short
        BY <1>7, <3>1
      <3>3. Uncut' <=> Uncut
        BY <1>4, <3>1 DEF Uncut
      <3> QED BY <1>5, <3>2, <3>3
    <2>2. CASE answer.put # <<>>
      <3>1. PICK c \in Chunks : /\ answer.put = <<c>> /\ c.of = f
                                /\ answer.cut = {} <=> c = Chunk(f, f.textsz)
        BY <1>6, <2>2
      <3>2. /\ Len(disk') = Len(disk) + 1 /\ disk'[Len(disk) + 1] = c
            /\ \A n \in 1 .. Len(disk) : disk'[n] = disk[n]
        <4>1. disk' = disk \o <<c>>
          BY <1>7, <3>1
        <4>2. <<c>> \in Seq(Chunks) /\ Len(<<c>>) = 1 /\ <<c>>[1] = c
          OBVIOUS
        <4>3. /\ Len(disk') = Len(disk) + 1
              /\ \A n \in 1 .. Len(disk) + 1 :
                   disk'[n] = IF n <= Len(disk) THEN disk[n] ELSE <<c>>[n - Len(disk)]
          BY <1>1, <4>1, <4>2, ConcatProperties
        <4> QED BY <1>1, <4>2, <4>3
      <3>3. c = Chunk(f, f.textsz) <=> c = Chunk(c.of, c.of.textsz)
        BY <3>1
      <3>4. Uncut' <=> Uncut /\ c = Chunk(c.of, c.of.textsz)
        <4> DEFINE Whole(x) == x = Chunk(x.of, x.of.textsz)
        <4>0. /\ Uncut <=> \A n \in mark + 1 .. Len(disk) : Whole(disk[n])
              /\ Uncut' <=> \A n \in mark + 1 .. Len(disk') : Whole(disk'[n])
              /\ Whole(c) <=> c = Chunk(c.of, c.of.textsz)
          BY <1>4 DEF Uncut
        <4> HIDE DEF Whole
        <4>1. ASSUME Uncut' PROVE Uncut /\ Whole(c)
          <5>1. Len(disk) + 1 \in mark + 1 .. Len(disk')
            BY <1>1, <3>2
          <5>2. \A n \in mark + 1 .. Len(disk) : /\ n \in mark + 1 .. Len(disk')
                                                /\ n \in 1 .. Len(disk)
            BY <1>1, <3>2
          <5> QED BY <3>2, <4>0, <4>1, <5>1, <5>2
        <4>2. ASSUME Uncut, Whole(c) PROVE Uncut'
          <5>1. \A n \in mark + 1 .. Len(disk') :
                  \/ n = Len(disk) + 1
                  \/ n \in mark + 1 .. Len(disk) /\ n \in 1 .. Len(disk)
            BY <1>1, <3>2
          <5> QED BY <3>2, <4>0, <4>2, <5>1
        <4> QED BY <4>0, <4>1, <4>2
      <3> QED BY <1>5, <1>6, <1>7, <3>1, <3>3, <3>4
    <2> QED BY <2>1, <2>2
  <1>8. Put' = IF answer.res < 0 \/ f.textsz = 0 THEN Put ELSE Put \o <<f>>
    <2>1. CASE answer.put = <<>>
      <3>1. disk' = disk
        BY <1>1, <1>7, <2>1
      <3>2. Put' = Put
        BY <1>4, <3>1 DEF Put
      <3>3. answer.res < 0 \/ f.textsz = 0
        BY <1>6, <2>1
      <3> QED BY <3>2, <3>3
    <2>2. CASE answer.put # <<>>
      <3>1. answer.res >= 0 /\ f.textsz # 0
        BY <1>6, <2>2
      <3>2. PICK c \in Chunks : answer.put = <<c>> /\ c.of = f
        BY <1>6, <3>1
      <3>3. Put' = [n \in 1 .. Len(disk \o <<c>>) - mark |-> (disk \o <<c>>)[mark + n].of]
        BY <1>4, <1>7, <3>2 DEF Put
      <3>4. Put' = Put \o <<c.of>>
        BY <1>1, <3>3, PutNext DEF Put
      <3> QED BY <1>6, <3>1, <3>2, <3>4
    <2> QED BY <2>1, <2>2
  <1>9. Nonempty(SubSeq(buffered_lines, 1, i)) =
          (IF f.textsz = 0 THEN Put ELSE Put \o <<f>>)
    <2>1. Put \in Seq(HonestLines)
      <3>1. SubSeq(buffered_lines, 1, i - 1) \in Seq(HonestLines)
        BY <1>1
      <3> QED BY <1>5, <3>1, NonemptyConcat
    <2>2. Nonempty(SubSeq(buffered_lines, 1, i)) =
            Put \o (IF f.textsz = 0 THEN <<>> ELSE <<f>>)
      BY <1>1, <1>5, NonemptyNext DEF f
    <2>3. Put \o <<>> = Put
      BY <2>1, ConcatEmptySeq
    <2> QED BY <2>2, <2>3
  <1>10. TextTypes'
    <2>1. disk' \in Seq(Chunks) /\ Len(disk') >= Len(disk) /\ Len(disk') \in Nat
      BY <1>1, <1>6, <1>7, ConcatProperties, LenProperties
    <2>2. added \in Seq(HonestLines)
      BY DEF TextInv, TextTypes
    <2>3. i' \in 0 .. Len(buffered_lines) + 1
      BY <1>1, <1>3
    <2>4. call'.res \in Int
      BY <1>6, <1>7
    <2> QED BY <1>1, <1>4, <2>1, <2>2, <2>3, <2>4 DEF TextTypes
  <1>11. SameLines'
    BY <1>4 DEF TextInv, SameLines
  <1>12. CASE answer.res < 0
    <2>1. i' = 0 /\ Put' = Put /\ call'.res < 0
      BY <1>3, <1>6, <1>7, <1>8, <1>12
    <2>2. EndInv'
      <3>1. i - 1 \in 0 .. Len(buffered_lines) /\ i - 1 < Len(buffered_lines)
            /\ buffered_lines[i - 1 + 1].textsz # 0
        BY <1>1, <1>6, <1>12 DEF f
      <3>2. Put' = Nonempty(SubSeq(buffered_lines, 1, i - 1)) /\ call'.res # 0
        BY <1>5, <1>6, <2>1
      <3>3. \E n \in 0 .. Len(buffered_lines) :
              /\ Put' = Nonempty(SubSeq(buffered_lines, 1, n))
              /\ IF call'.res = 0 THEN n = Len(buffered_lines)
                 ELSE n < Len(buffered_lines) /\ buffered_lines[n + 1].textsz # 0
        BY <3>1, <3>2
      <3> QED BY <1>4, <1>5, <1>7b, <3>3 DEF EndInv, InOrder
    <2>3. LoopInv' /\ AnswerTellsCause'
      <3>1. {} \cap (Needed[call.name])' = {} /\ answer.why # "none"
        BY <1>6, <1>12
      <3> QED BY <1>6, <1>7, <1>7a, <1>12, <2>1, <3>1 DEF LoopInv, AnswerTellsCause, Idle
    <2> QED BY <1>10, <1>11, <2>2, <2>3 DEF TextInv
  <1>13. CASE ~ (answer.res < 0)
    <2>1. i' = i + 1 /\ i' - 1 = i /\ i' # 0
      BY <1>1, <1>3, <1>13
    <2>2. Put' = Nonempty(SubSeq(buffered_lines, 1, i))
      BY <1>8, <1>9, <1>13
    <2>3. LoopInv'
      BY <1>4, <1>5, <1>7, <1>7b, <2>1, <2>2 DEF LoopInv, Idle, InOrder
    <2>4. EndInv' /\ AnswerTellsCause'
      BY <2>1 DEF EndInv, AnswerTellsCause, Idle
    <2> QED BY <1>10, <1>11, <2>3, <2>4 DEF TextInv
  <1> QED BY <1>12, <1>13

\* The loop ends with all the lines on the disk.
LEMMA EndOfLoopStep ==
  ASSUME TextInv, EndOfLoop
  PROVE  TextInv'
  <1>1. /\ buffered_lines \in Seq(HonestLines) /\ Len(buffered_lines) \in Nat
        /\ i \in 0 .. Len(buffered_lines) + 1 /\ i > Len(buffered_lines)
    BY LenProperties DEF TextInv, TextTypes, EndOfLoop
  <1>2. i - 1 = Len(buffered_lines) /\ i # 0
    BY <1>1
  <1>3. /\ InOrder(buffered_lines) /\ (short = {} <=> Uncut)
        /\ Put = Nonempty(SubSeq(buffered_lines, 1, i - 1))
    BY <1>2 DEF TextInv, LoopInv, Idle
  <1>4. /\ i' = 0 /\ call' = [name |-> "write_buffered", missing |-> {}, res |-> 0]
        /\ cause' = "none" /\ UNCHANGED <<buffered_lines, disk, errno, added, mark, short>>
    <2>1. disk \o <<>> = disk
      BY DEF TextInv, TextTypes
    <2> QED BY <1>2, <2>1 DEF EndOfLoop, Return, Nothing, Answer, Idle
  <1>5. TextTypes'
    BY <1>1, <1>4 DEF TextInv, TextTypes
  <1>6. SameLines' /\ LoopInv' /\ AnswerTellsCause'
    BY <1>4 DEF TextInv, SameLines, LoopInv, AnswerTellsCause, Idle
  <1>7. EndInv'
    <2>1. Put' = Nonempty(SubSeq(buffered_lines, 1, Len(buffered_lines)))
      BY <1>2, <1>3, <1>4 DEF Put
    <2>2. Len(buffered_lines) \in 0 .. Len(buffered_lines)
      BY <1>1
    <2> QED BY <1>3, <1>4, <2>1, <2>2 DEF EndInv, InOrder, Uncut
  <1> QED BY <1>5, <1>6, <1>7 DEF TextInv

\* Every step keeps the invariant.
LEMMA TextInvNext == TextInv /\ [Next]_vars => TextInv'
  <1> SUFFICES ASSUME TextInv, [Next]_vars PROVE TextInv'
    OBVIOUS
  <1>1. CASE UNCHANGED vars
    BY <1>1 DEF vars, TextInv, TextTypes, SameLines, LoopInv, EndInv, AnswerTellsCause,
                Idle, Put, Uncut
  <1>2. ASSUME NEW fh \in {NULL, "fh"}, NEW list \in {NULL, "list"},
               WriteBuffered(fh, list)
        PROVE  TextInv'
    BY <1>2, WriteBufferedStep
  <1>3. ASSUME NEW p \in {NULL, "pool"}, NEW list \in {NULL, "list"},
               NEW fmt \in {NoText} \cup Texts, AddFmt(p, list, fmt)
        PROVE  TextInv'
    BY <1>3, AddStep
  <1> QED BY <1>1, <1>2, <1>3, WriteStep, TurnStep, EndOfLoopStep DEF Next

-----------------------------------------------------------------------------
(* Theorems *)

\* In every behaviour, whatever the texts, the sizes and the order of the calls,
\* the inductive invariant holds: it is what the theorems below follow from.
THEOREM TextInvariant == Spec => []TextInv
  BY TextInvInit, TextInvNext, PTL DEF Spec

\* Bytes that are not of the text follow only a text that is longer than the array
\* holds, or one that could not be formatted (lint_text_write_msg,
\* lint_text_add_msg): no text that fits is ever written with anything behind it.
THEOREM ForeignBytesOnlyFromLongTexts == Spec => []ForeignOnlyFromLong
  <1>1. TextInv => ForeignOnlyFromLong
    BY ElementOfSeq, LenProperties DEF TextInv, TextTypes, ForeignOnlyFromLong, Chunks
  <1> QED BY <1>1, TextInvariant, PTL

\* A call of the API answers -1 exactly when a pointer it needs is NULL or a write
\* of it has failed, errno says which of the two, and a call given any NULL, the list
\* of lint_text_write_buffered_lines included, which answers 0, has left the disk and
\* the buffer alone (lint_text_write_text, lint_text_write_fmt, lint_text_add_fmt,
\* lint_text_write_buffered_lines).
THEOREM AnswersTellTheCause == Spec => []AnswerTellsCause
  <1>1. TextInv => AnswerTellsCause
    BY DEF TextInv
  <1> QED BY <1>1, TextInvariant, PTL

\* What lint_text_write_buffered_lines leaves on the disk is a write of every
\* buffered line with a text, in order, when it answers 0, and of a proper beginning
\* of them when it answers -1; the lines are all there with all of their text exactly
\* when it answers 0 and no write was short.  The buffer still has every line that
\* was ever added.
THEOREM BufferedLinesAreWritten == Spec => []BufferWritten
  <1> DEFINE put == [n \in 1 .. Len(disk) - mark |-> disk[mark + n]]
             of == [n \in DOMAIN put |-> put[n].of]
             lines == Nonempty(buffered_lines)
             whole == [n \in DOMAIN lines |-> Chunk(lines[n], lines[n].textsz)]
  <1>1. TextInv => BufferWritten
    <2> SUFFICES ASSUME TextInv, Idle, call.name = "write_buffered", call.missing = {}
                 PROVE  /\ buffered_lines \in Sorted(added)
                        /\ IsPrefix(of, lines)
                        /\ call.res = 0 <=> of = lines
                        /\ call.res = 0 /\ short = {} <=> put = whole
      BY DEF BufferWritten
    <2>1. buffered_lines \in Seq(HonestLines) /\ InOrder(buffered_lines)
          /\ (short = {} <=> Uncut) /\ disk \in Seq(Chunks) /\ mark \in 0 .. Len(disk)
          /\ Len(disk) \in Nat
      BY LenProperties DEF TextInv, TextTypes, EndInv
    <2>2. PICK m \in 0 .. Len(buffered_lines) :
            /\ Put = Nonempty(SubSeq(buffered_lines, 1, m))
            /\ IF call.res = 0 THEN m = Len(buffered_lines)
               ELSE m < Len(buffered_lines) /\ buffered_lines[m + 1].textsz # 0
      BY DEF TextInv, EndInv
    <2>3. buffered_lines \in Sorted(added)
      <3>1. PICK p \in Bijection(DOMAIN added, DOMAIN added) :
              buffered_lines = [k \in DOMAIN added |-> added[p[k]]]
        BY DEF TextInv, SameLines
      <3>2. buffered_lines \in {[k \in DOMAIN added |-> added[p2[k]]] :
                                  p2 \in Bijection(DOMAIN added, DOMAIN added)}
        BY <3>1
      <3> QED BY <2>1, <3>2 DEF Sorted, InOrder
    <2>4. of = Put
      BY DEF Put
    <2>5. IsPrefix(of, lines) /\ (call.res = 0 <=> of = lines)
      <3> HIDE DEF put, of
      <3> QED BY <2>1, <2>2, <2>4, NonemptyPrefix
    <2>6. Uncut <=> \A n \in DOMAIN put : put[n] = Chunk(put[n].of, put[n].of.textsz)
      <3> DEFINE Whole(x) == x = Chunk(x.of, x.of.textsz)
      <3>1. Uncut <=> \A n \in mark + 1 .. Len(disk) : Whole(disk[n])
        BY DEF Uncut
      <3>2. /\ \A n \in 1 .. Len(disk) - mark : mark + n \in mark + 1 .. Len(disk)
            /\ \A n \in mark + 1 .. Len(disk) : /\ n - mark \in 1 .. Len(disk) - mark
                                               /\ mark + (n - mark) = n
        BY <2>1
      <3> HIDE DEF Whole
      <3>3. Uncut <=> \A n \in DOMAIN put : Whole(put[n])
        BY <3>1, <3>2
      <3> QED BY <3>3 DEF Whole
    <2>7. ASSUME call.res = 0, short = {} PROVE put = whole
      <3>1. of = lines /\ DOMAIN of = DOMAIN put
            /\ \A n \in DOMAIN put : of[n] = put[n].of
        BY <2>5, <2>7
      <3>2. \A n \in DOMAIN put : put[n] = Chunk(put[n].of, put[n].of.textsz)
        BY <2>1, <2>6, <2>7
      <3>3. put = [n \in DOMAIN put |-> put[n]]
        OBVIOUS
      <3> HIDE DEF put, of, lines
      <3> QED BY <3>1, <3>2, <3>3
    <2>8. ASSUME put = whole PROVE call.res = 0 /\ short = {}
      <3>1. \A f, n : Chunk(f, n).of = f
        BY DEF Chunk
      <3>2. DOMAIN put = DOMAIN lines
            /\ \A n \in DOMAIN put : put[n] = Chunk(lines[n], lines[n].textsz)
                                     /\ put[n].of = lines[n]
        <4> HIDE DEF put, lines
        <4> QED BY <2>8, <3>1
      <3>3. lines = [n \in DOMAIN lines |-> lines[n]]
        <4>1. lines \in Seq(HonestLines)
          BY <2>1, EmptySeq, NonemptyConcat
        <4> HIDE DEF lines
        <4> QED BY <4>1
      <3>4. of = lines
        <4> HIDE DEF put, lines
        <4> QED BY <3>2, <3>3
      <3>5. Uncut
        <4> HIDE DEF put, lines, of
        <4> QED BY <2>6, <3>2
      <3> QED BY <2>1, <2>5, <3>4, <3>5
    <2> QED BY <2>3, <2>5, <2>7, <2>8
  <1> QED BY <1>1, TextInvariant, PTL

=============================================================================
