-------------------------- MODULE LintWriterProofs --------------------------
(***************************************************************************)
(* Theorems about LintWriter, for any configuration, any set of static     *)
(* modules, either build, and any number of short writes: how it answers,  *)
(* that it closes the file, that it writes every line once and in order,   *)
(* and that it implements LintEmission.                                    *)
(***************************************************************************)
EXTENDS LintWriter, LintLemmas


\* Where the emission is, what it holds and what it will answer go together.
\* Until a call has failed errno is untouched; a failure stops the writes, and
\* the file stays open until the one close on the way out.
StageInv ==
  /\ stage \in {"open", "close", "failing", "done"} \cup ToSet(Stages)
  /\ stage \notin ToSet(Stages) => queue = <<>>
  /\ stage # "done" => result \in {"none", "dead"}
  /\ errno = failed
  /\ failed # "none" => stage \in {"failing", "done"}

\* The handle, and how often it was closed.
HandleInv ==
  /\ stage = "open" => fh = "none" /\ closes = 0
  /\ stage \in {"close", "failing"} \cup ToSet(Stages) => fh = "open" /\ closes = 0
  /\ stage = "done" => \/ fh = "none" /\ closes = 0
                       \/ fh = "closed" /\ closes = 1

\* The answer is an error exactly when a call has failed, and failing is to
\* have a failure to report.
AnswerInv ==
  /\ stage = "failing" => failed # "none"
  /\ stage = "done" => (result = "error" <=> failed # "none")

EmissionInv == StageInv /\ HandleInv /\ AnswerInv

-----------------------------------------------------------------------------
(* The stages *)

\* The names of the stages that are functions of the emission; none of them is
\* a stage of lint_write_config itself.
LEMMA StageNames ==
  /\ ToSet(Stages) = {"header", "defines", "modules", "server", "classes",
                      "ctrls", "vhosts"}
  /\ Head(Stages) = "header"
  <1>1. Len(Stages) = 7 /\ DOMAIN Stages = 1 .. 7
    BY DEF Stages
  <1>2. ToSet(Stages) = {Stages[i] : i \in 1 .. 7}
    BY <1>1 DEF ToSet
  <1>3. 1 .. 7 = {1, 2, 3, 4, 5, 6, 7}
    OBVIOUS
  <1> QED BY <1>2, <1>3 DEF Stages

\* What comes after a function is another one, or the close, which is given no
\* writes.
LEMMA AfterAStage ==
  ASSUME NEW s \in ToSet(Stages)
  PROVE  /\ After(s) \in ToSet(Stages) \cup {"close"}
         /\ After(s) \notin ToSet(Stages) => Writes(After(s)) = <<>>
  <1> DEFINE i == CHOOSE i \in DOMAIN Stages : Stages[i] = s
  <1>1. DOMAIN Stages = 1 .. 7 /\ Len(Stages) = 7
    BY DEF Stages
  <1>2. i \in 1 .. 7
    BY <1>1 DEF ToSet
  <1>3. After(s) = IF i = 7 THEN "close" ELSE Stages[i + 1]
    BY <1>1 DEF After
  <1> HIDE DEF i
  <1>4. i # 7 => i + 1 \in DOMAIN Stages
    BY <1>1, <1>2
  <1>5. After(s) \in ToSet(Stages) \cup {"close"}
    BY <1>3, <1>4 DEF ToSet
  <1>6. Writes("close") = <<>>
    BY DEF Writes
  <1> QED BY <1>5, <1>6

-----------------------------------------------------------------------------
(* EmissionInv is inductive. *)

\* An emission that has not begun holds nothing and has failed at nothing.
LEMMA EmissionInit == Init => EmissionInv
  BY StageNames DEF Init, EmissionInv, StageInv, HandleInv, AnswerInv

\* Every call, whatever its outcome, and a kill keep the three together.
LEMMA EmissionNext == EmissionInv /\ [Next]_vars => EmissionInv'
  <1> SUFFICES ASSUME EmissionInv, [Next]_vars PROVE EmissionInv'
    OBVIOUS
  <1> USE StageNames DEF EmissionInv, StageInv, HandleInv, AnswerInv
  <1>1. CASE result = "none" /\ Open
    BY <1>1 DEF Open
  <1>2. CASE result = "none" /\ OpenFails
    BY <1>2 DEF OpenFails
  <1>3. CASE result = "none" /\ Write
    BY <1>3 DEF Write
  <1>4. CASE result = "none" /\ ShortWrite
    BY <1>4 DEF ShortWrite
  <1>5. CASE result = "none" /\ WriteFails
    BY <1>5 DEF WriteFails
  <1>6. CASE result = "none" /\ NextStage
    <2>1. /\ stage' \in ToSet(Stages) \cup {"close"}
          /\ stage' \notin ToSet(Stages) => queue' = <<>>
      BY <1>6, AfterAStage DEF NextStage
    <2>2. UNCHANGED <<fh, errno, result, failed, closes>> /\ stage \in ToSet(Stages)
      BY <1>6 DEF NextStage
    <2> QED BY <2>1, <2>2
  <1>7. CASE result = "none" /\ CloseAfterFailure
    BY <1>7 DEF CloseAfterFailure, Restored
  <1>8. CASE result = "none" /\ Close
    BY <1>8 DEF Close
  <1>9. CASE Kill
    BY <1>9 DEF Kill
  <1>10. CASE UNCHANGED vars
    BY <1>10 DEF vars
  <1> QED
    BY <1>1, <1>2, <1>3, <1>4, <1>5, <1>6, <1>7, <1>8, <1>9, <1>10 DEF Next, Emit

\* Every reachable state satisfies EmissionInv.
LEMMA EmissionInvariant == Spec => []EmissionInv
  BY EmissionInit, EmissionNext, PTL DEF Spec

-----------------------------------------------------------------------------
(* The writes *)

\* The items a section is made of, and the lines that can be sorted.
Kinds == {"title", "open", "close", "line", "comment"}
Names == DOMAIN Rank \cup
  {"header", "Modules", "Server Config", "Classes", "Controls", "VirtualHosts",
   "IfModule", "Class", "From", "Satisfy"}
Items == [kind : Kinds, name : Names, arg : Nat, depth : Nat]

\* Writes of some items, and the lines among the items.  A write of nothing is
\* never made.
WritesIn(S) == Seq(Seq(S) \ {<<>>})
LinesIn(S) == S \cap BufferedLines
WritesType == WritesIn(Items)

\* A line is an item.
LEMMA LinesAreItems ==
  /\ BufferedLines \subseteq Items
  /\ Seq(BufferedLines) \subseteq Seq(Items)
  <1>1. BufferedLines \subseteq Items
    BY DEF BufferedLines, Items, Kinds, Names
  <1> QED BY <1>1, SeqMonotonic

\* The lines among some items are lines, and are among them.
LEMMA LinesAreIn ==
  ASSUME NEW S
  PROVE  /\ Seq(LinesIn(S)) \subseteq Seq(BufferedLines)
         /\ Seq(LinesIn(S)) \subseteq Seq(S)
  <1>1. LinesIn(S) \subseteq BufferedLines /\ LinesIn(S) \subseteq S
    BY DEF LinesIn
  <1> QED BY <1>1, SeqMonotonic

\* The order of the lines, strcmp of their texts, is strict and weak.
LEMMA LinecmpOrder ==
  ASSUME NEW a \in BufferedLines, NEW b \in BufferedLines, NEW c \in BufferedLines
  PROVE  /\ ~linecmp(a, a)
         /\ linecmp(a, b) => ~linecmp(b, a)
         /\ linecmp(a, b) /\ linecmp(b, c) => linecmp(a, c)
         /\ linecmp(a, c) => linecmp(a, b) \/ linecmp(b, c)
  <1>1. \A x \in BufferedLines : Rank[x.name] \in Nat /\ x.arg \in Nat /\ x.depth \in Nat
    BY LintWriterAssumption DEF BufferedLines
  <1> DEFINE ra == Rank[a.name]
             rb == Rank[b.name]
             rc == Rank[c.name]
             da == a.depth
             db == b.depth
             dc == c.depth
             aa == a.arg
             ab == b.arg
             ac == c.arg
  <1>2. /\ ra \in Nat /\ rb \in Nat /\ rc \in Nat
        /\ da \in Nat /\ db \in Nat /\ dc \in Nat
        /\ aa \in Nat /\ ab \in Nat /\ ac \in Nat
    BY <1>1
  <1>3. /\ linecmp(a, a) <=> da > da \/ (da = da /\ (ra < ra \/ (ra = ra /\ aa < aa)))
        /\ linecmp(a, b) <=> da > db \/ (da = db /\ (ra < rb \/ (ra = rb /\ aa < ab)))
        /\ linecmp(b, a) <=> db > da \/ (db = da /\ (rb < ra \/ (rb = ra /\ ab < aa)))
        /\ linecmp(b, c) <=> db > dc \/ (db = dc /\ (rb < rc \/ (rb = rc /\ ab < ac)))
        /\ linecmp(a, c) <=> da > dc \/ (da = dc /\ (ra < rc \/ (ra = rc /\ aa < ac)))
    BY DEF linecmp
  <1> HIDE DEF ra, rb, rc, da, db, dc, aa, ab, ac
  <1> QED BY <1>2, <1>3

\* What is before what among the lines of a buffer, as a relation.
PrecedesIn(buffered) ==
  {ji \in (DOMAIN buffered) \X (DOMAIN buffered) : Precedes(buffered, ji[1], ji[2])}

\* Sorting gives each line of the buffer a place of its own, each place the line
\* of one, and no line one that is before it.
LEMMA SortedLines ==
  ASSUME NEW buffered \in Seq(BufferedLines)
  PROVE  \E perm \in [1 .. Len(buffered) -> 1 .. Len(buffered)] :
           /\ WriteBuffered(buffered)
                = [k \in 1 .. Len(buffered) |-> <<buffered[perm[k]]>>]
           /\ \A k, l \in 1 .. Len(buffered) :
                k < l => ~linecmp(buffered[perm[l]], buffered[perm[k]])
           /\ \A i \in 1 .. Len(buffered) : \E k \in 1 .. Len(buffered) : perm[k] = i
           /\ \A k, l \in 1 .. Len(buffered) : perm[k] = perm[l] => k = l
  <1> DEFINE n == Len(buffered)
             R == PrecedesIn(buffered)
             place == PlaceIn(R, n)
             perm == [k \in 1 .. n |-> CHOOSE i \in 1 .. n : place[i] = k]
  <1>1. n \in Nat /\ DOMAIN buffered = 1 .. n
    BY LenProperties
  <1>1a. \A i \in 1 .. n : buffered[i] \in BufferedLines
    OBVIOUS
  <1>2. \A i, j \in 1 .. n : <<j, i>> \in R <=> Precedes(buffered, j, i)
    BY <1>1 DEF PrecedesIn
  <1> HIDE DEF n, R
  <1>3. \A i \in 1 .. n : <<i, i>> \notin R
    BY <1>1, <1>1a, <1>2, LinecmpOrder DEF Precedes
  <1>4. ASSUME NEW i \in 1 .. n, NEW j \in 1 .. n, NEW k \in 1 .. n,
               <<i, j>> \in R, <<j, k>> \in R
        PROVE  <<i, k>> \in R
    <2> DEFINE a == buffered[i]
               b == buffered[j]
               c == buffered[k]
    <2>1. a \in BufferedLines /\ b \in BufferedLines /\ c \in BufferedLines
      BY <1>1a
    <2>2. /\ linecmp(a, b) \/ (~linecmp(b, a) /\ i < j)
          /\ linecmp(b, c) \/ (~linecmp(c, b) /\ j < k)
      BY <1>2, <1>4 DEF Precedes
    <2>3. <<i, k>> \in R <=> linecmp(a, c) \/ (~linecmp(c, a) /\ i < k)
      BY <1>2 DEF Precedes
    <2> HIDE DEF a, b, c
    <2>4. i < j /\ j < k => i < k
      BY <1>1
    <2>5. linecmp(a, b) /\ linecmp(b, c) => linecmp(a, c)
      BY <2>1, LinecmpOrder
    <2>6. linecmp(c, a) => linecmp(c, b) \/ linecmp(b, a)
      BY <2>1, LinecmpOrder
    <2>7. linecmp(a, b) => linecmp(a, c) \/ linecmp(c, b)
      BY <2>1, LinecmpOrder
    <2>8. linecmp(b, c) => linecmp(b, a) \/ linecmp(a, c)
      BY <2>1, LinecmpOrder
    <2> QED BY <2>2, <2>3, <2>4, <2>5, <2>6, <2>7, <2>8
  <1>5. ASSUME NEW i \in 1 .. n, NEW j \in 1 .. n, i # j
        PROVE  <<i, j>> \in R \/ <<j, i>> \in R
    <2>1. i < j \/ j < i
      BY <1>1, <1>5
    <2> QED BY <1>1a, <1>2, <2>1, LinecmpOrder DEF Precedes
  <1>6. /\ place \in [1 .. n -> 1 .. n]
        /\ \A i, j \in 1 .. n : <<j, i>> \in R <=> place[j] < place[i]
        /\ \A k \in 1 .. n : \E i \in 1 .. n : place[i] = k
    BY <1>1, <1>3, <1>4, <1>5, Places
  <1>7. \A i \in 1 .. n : place[i] = Place(buffered, i)
    <2>1. ASSUME NEW i \in 1 .. n
          PROVE  {j \in 1 .. n : <<j, i>> \in R}
                   = {j \in DOMAIN buffered : Precedes(buffered, j, i)}
      BY <1>1, <1>2
    <2> QED BY <2>1 DEF PlaceIn, Place
  <1> HIDE DEF place
  <1>8. \A k \in 1 .. n : perm[k] \in 1 .. n /\ place[perm[k]] = k
    BY <1>6
  <1>9. perm \in [1 .. n -> 1 .. n]
    BY <1>8
  <1>10. WriteBuffered(buffered) = [k \in 1 .. n |-> <<buffered[perm[k]]>>]
    <2>1. ASSUME NEW k \in 1 .. n
          PROVE  (CHOOSE i \in DOMAIN buffered : Place(buffered, i) = k) = perm[k]
      <3>1. \A i \in 1 .. n : place[i] = k <=> Place(buffered, i) = k
        BY <1>7
      <3>2. (CHOOSE i \in 1 .. n : Place(buffered, i) = k)
              = (CHOOSE i \in 1 .. n : place[i] = k)
        BY <3>1
      <3> QED BY <1>1, <3>2
    <2> HIDE DEF perm
    <2>2. \A k \in 1 .. n :
            <<buffered[CHOOSE i \in DOMAIN buffered : Place(buffered, i) = k]>>
              = <<buffered[perm[k]]>>
      BY <2>1
    <2>3. WriteBuffered(buffered)
            = [k \in DOMAIN buffered |->
                <<buffered[CHOOSE i \in DOMAIN buffered : Place(buffered, i) = k]>>]
      BY DEF WriteBuffered, SortedWrites
    <2> QED BY <1>1, <2>2, <2>3
  <1> HIDE DEF perm
  <1>11. ASSUME NEW k \in 1 .. n, NEW l \in 1 .. n, k < l
         PROVE  ~linecmp(buffered[perm[l]], buffered[perm[k]])
    <2>1. perm[k] \in 1 .. n /\ perm[l] \in 1 .. n
          /\ place[perm[k]] < place[perm[l]]
      BY <1>8, <1>11
    <2>2. Precedes(buffered, perm[k], perm[l])
      BY <1>2, <1>6, <2>1
    <2>3. buffered[perm[k]] \in BufferedLines /\ buffered[perm[l]] \in BufferedLines
      BY <1>1a, <2>1
    <2> QED BY <2>2, <2>3, LinecmpOrder DEF Precedes
  <1>12. \A i \in 1 .. n : \E k \in 1 .. n : perm[k] = i
    <2> SUFFICES ASSUME NEW i \in 1 .. n PROVE \E k \in 1 .. n : perm[k] = i
      OBVIOUS
    <2> DEFINE k == place[i]
    <2>1. k \in 1 .. n
      BY <1>6
    <2>2. perm[k] \in 1 .. n /\ place[perm[k]] = place[i]
      BY <1>8, <2>1
    <2>3. perm[k] = i
      <3>1. place[i] \in Nat
        BY <2>1
      <3>2. ~ (<<i, perm[k]>> \in R) /\ ~ (<<perm[k], i>> \in R)
        BY <1>6, <2>2, <3>1
      <3> QED BY <1>5, <2>2, <3>2
    <2> QED BY <2>1, <2>3
  <1>13. \A k, l \in 1 .. n : perm[k] = perm[l] => k = l
    BY <1>8
  <1> QED BY <1>9, <1>10, <1>11, <1>12, <1>13 DEF n

\* What sorting a buffer gives is one write for each line, of that line.
LEMMA WriteBufferedType ==
  ASSUME NEW S, NEW buffered \in Seq(LinesIn(S))
  PROVE  WriteBuffered(buffered) \in WritesIn(S)
  <1> DEFINE n == Len(buffered)
  <1>0. buffered \in Seq(BufferedLines)
    BY LinesAreIn
  <1>1. PICK perm \in [1 .. n -> 1 .. n] :
          WriteBuffered(buffered) = [k \in 1 .. n |-> <<buffered[perm[k]]>>]
    BY <1>0, SortedLines
  <1>2. n \in Nat
    OBVIOUS
  <1>3. ASSUME NEW k \in 1 .. n
        PROVE  <<buffered[perm[k]]>> \in Seq(S) \ {<<>>}
    <2>1. perm[k] \in 1 .. n
      OBVIOUS
    <2>2. buffered[perm[k]] \in LinesIn(S)
      BY <2>1
    <2>3. buffered[perm[k]] \in S
      BY <2>2 DEF LinesIn
    <2> QED BY <2>3
  <1> QED BY <1>1, <1>2, <1>3 DEF WritesIn

\* The items that are written whatever the configuration, but for the titles.
Fixed ==
  {Opening("IfModule"), Opening("Class"), Closing("Class"),
   Item("comment", "From", 0, 1), Line("Satisfy", 0, 1)}

AllTitles ==
  {"header", "Modules", "Server Config", "Classes", "Controls", "VirtualHosts"}

\* Some items with every line that can be made of the configuration among them,
\* under the given titles.
Holds(S, titles) ==
  /\ \A name \in titles : Title(name) \in S
  /\ Fixed \subseteq S
  /\ \A name \in ToSet(SettingNames) : Line(name, 0, 0) \in LinesIn(S)
  /\ \A i \in DOMAIN input.modules : Line("LoadModule", input.modules[i], 1) \in LinesIn(S)
  /\ \A i \in DOMAIN input.lines, depth \in Nat :
       Line(input.lines[i].directive, input.lines[i].arg, depth) \in LinesIn(S)

\* Some items with all that is written of the configuration among them.
Covers(S, titles) ==
  /\ \A name \in titles : Title(name) \in S
  /\ Fixed \subseteq S
  /\ \A name \in ToSet(SettingNames) : Setting(name) \in Seq(LinesIn(S))
  /\ PR_USE_DSO => FirstLine("ModulePath", 0) \in Seq(LinesIn(S))
  /\ \A i \in DOMAIN input.modules : Line("LoadModule", input.modules[i], 1) \in LinesIn(S)
  /\ \A s \in DOMAIN input.servers : \A n \in DOMAIN input.servers[s] :
       lint_add_config_rec(input.servers[s][n]) \in Seq(LinesIn(S))

\* The first line of a directive is written as it was recorded, if there is one.
LEMMA FirstLineType ==
  ASSUME IsConfiguration(input), NEW S, NEW titles, Holds(S, titles),
         NEW directive, NEW depth \in Nat
  PROVE  FirstLine(directive, depth) \in Seq(LinesIn(S))
  <1> DEFINE lines == input.lines
             directives == [j \in DOMAIN lines |-> lines[j].directive]
             i == lint_find_parsed_line(directives, directive, NoLine)
             L == [directive : DOMAIN Rank, arg : Nat]
  <1>1. lines \in Seq(L)
    BY DEF IsConfiguration
  <1>1a. \A l \in L : l.directive \in DOMAIN Rank
    OBVIOUS
  <1>1d. \A j \in DOMAIN lines : Line(lines[j].directive, lines[j].arg, depth) \in LinesIn(S)
    BY DEF Holds
  <1> HIDE DEF lines, L
  <1>1b. DOMAIN lines = 1 .. Len(lines) /\ Len(lines) \in Nat
    BY <1>1, LenProperties
  <1>1c. \A j \in 1 .. Len(lines) : lines[j] \in L
    BY <1>1, ElementOfSeq
  <1>2. directives \in Seq(DOMAIN Rank) /\ Len(directives) = Len(lines)
    BY <1>1a, <1>1b, <1>1c
  <1>2a. \A j \in 1 .. Len(lines) : directives[j] = lines[j].directive
    BY <1>1b
  <1>3. FirstLine(directive, depth)
          = IF i = NoLine THEN <<>> ELSE <<Line(directive, lines[i].arg, depth)>>
    BY DEF FirstLine, lines
  <1> HIDE DEF directives
  <1>4. i = NoLine \/ (i \in 1 .. Len(directives) /\ directives[i] = directive)
    BY <1>2, FindsFirstLine DEF NoLine
  <1> HIDE DEF i
  <1>5. ASSUME i # NoLine PROVE Line(directive, lines[i].arg, depth) \in LinesIn(S)
    <2>1. i \in DOMAIN lines /\ lines[i].directive = directive
      BY <1>1b, <1>2, <1>2a, <1>4, <1>5
    <2> QED BY <1>1d, <2>1
  <1> QED BY <1>3, <1>5

\* What is written is some of the lines that can be made.
LEMMA HoldsCovers ==
  ASSUME IsConfiguration(input), NEW S, NEW titles, Holds(S, titles)
  PROVE  Covers(S, titles)
  <1>1. \A directive, depth : depth \in Nat => FirstLine(directive, depth) \in Seq(LinesIn(S))
    BY FirstLineType
  <1>2. ASSUME NEW name \in ToSet(SettingNames)
        PROVE  Setting(name) \in Seq(LinesIn(S))
    <2>1. Line(name, 0, 0) \in LinesIn(S)
      BY DEF Holds
    <2> QED BY <1>1, <2>1 DEF Setting
  <1>3. ASSUME NEW s \in DOMAIN input.servers, NEW n \in DOMAIN input.servers[s]
        PROVE  lint_add_config_rec(input.servers[s][n]) \in Seq(LinesIn(S))
    <2>1. input.servers[s][n].depth \in Nat
      BY DEF IsConfiguration
    <2> QED BY <1>1, <2>1 DEF lint_add_config_rec
  <1> QED BY <1>1, <1>2, <1>3 DEF Holds, Covers

\* What is added for the config_recs of a server are lines.
LEMMA ConfigSetType ==
  ASSUME IsConfiguration(input), NEW S, NEW titles, Covers(S, titles),
         NEW s \in DOMAIN input.servers
  PROVE  lint_add_config_set(input.servers[s]) \in Seq(LinesIn(S))
  <1> DEFINE conf == input.servers[s]
  <1>1. conf \in Seq(ToSet(conf))
    BY DEF IsConfiguration, IsSeq
  <1>3. \A n \in DOMAIN conf : lint_add_config_rec(conf[n]) \in Seq(LinesIn(S))
    BY DEF Covers
  <1> HIDE DEF conf
  <1>4. DOMAIN conf = 1 .. Len(conf) /\ Len(conf) \in Nat
    BY <1>1
  <1>5. [n \in DOMAIN conf |-> lint_add_config_rec(conf[n])] \in Seq(Seq(LinesIn(S)))
    BY <1>3, <1>4
  <1> QED BY <1>5, FlattenSeqType DEF lint_add_config_set, conf

\* Nothing, or a single write, or one after others, are writes.
LEMMA WritesOf ==
  ASSUME NEW S
  PROVE  /\ <<>> \in WritesIn(S)
         /\ \A write \in Seq(S) : write # <<>> => <<write>> \in WritesIn(S)
         /\ \A ws, more \in WritesIn(S) : ws \o more \in WritesIn(S)
  BY DEF WritesIn

\* No writes are writes.
LEMMA NoWrites == <<>> \in WritesType
  BY WritesOf DEF WritesType

\* A write of a single item, and that write alone.
LEMMA OneItem ==
  ASSUME NEW S, NEW item \in S
  PROVE  /\ <<item>> \in Seq(S) /\ <<item>> # <<>>
         /\ << <<item>> >> \in WritesIn(S)
  BY DEF WritesIn

\* The writes of lint_write_header.
LEMMA HeaderType ==
  ASSUME NEW S, Covers(S, {"header"})
  PROVE  lint_write_header \in WritesIn(S)
  <1>1. << <<Title("header")>> >> \in WritesIn(S)
    BY OneItem DEF Covers
  <1> QED BY <1>1 DEF lint_write_header

\* The writes of lint_write_modules, in either build and with any shared modules.
LEMMA ModulesType ==
  ASSUME IsConfiguration(input), NEW S, Covers(S, {"Modules"})
  PROVE  lint_write_modules \in WritesIn(S)
  <1>0. CASE ~PR_USE_DSO
    BY <1>0, WritesOf DEF lint_write_modules
  <1> SUFFICES ASSUME PR_USE_DSO PROVE lint_write_modules \in WritesIn(S)
    BY <1>0
  <1> DEFINE path == FirstLine("ModulePath", 0)
             lines == [i \in DOMAIN input.modules |->
                        IF is_static_module(input.modules[i])
                        THEN <<>>
                        ELSE <<Line("LoadModule", input.modules[i], 1)>>]
             shared == FlattenSeq(lines)
             title == <<Title("Modules")>>
             opening == <<Opening("IfModule")>>
             first == (IF path = <<>> THEN title ELSE <<>>) \o opening
  <1>1. path \in Seq(S)
    BY LinesAreIn DEF Covers
  <1>2. shared \in Seq(LinesIn(S))
    <2>1. input.modules \in Seq(Nat)
      BY DEF IsConfiguration
    <2>3. ASSUME NEW i \in DOMAIN input.modules
          PROVE  (IF is_static_module(input.modules[i]) THEN <<>>
                  ELSE <<Line("LoadModule", input.modules[i], 1)>>) \in Seq(LinesIn(S))
      <3>1. Line("LoadModule", input.modules[i], 1) \in LinesIn(S)
        BY DEF Covers
      <3> QED BY <3>1
    <2>3a. DOMAIN input.modules = 1 .. Len(input.modules) /\ Len(input.modules) \in Nat
      BY <2>1
    <2>4. lines \in Seq(Seq(LinesIn(S)))
      BY <2>3, <2>3a
    <2> QED BY <2>4, FlattenSeqType
  <1>3. lint_write_modules =
          IF ~PR_USE_DSO
          THEN <<>>
          ELSE (IF path = <<>> THEN <<>> ELSE <<title \o path>>)
               \o (IF shared = <<>> THEN <<>>
                   ELSE <<first>> \o WriteBuffered(shared) \o <<opening>>)
    BY DEF lint_write_modules
  <1>4. title \in Seq(S) /\ title # <<>> /\ opening \in Seq(S) /\ opening # <<>>
    BY OneItem DEF Covers, Fixed
  <1> HIDE DEF path, shared, title, opening
  <1>5. first \in Seq(S) /\ first # <<>>
    BY <1>4
  <1>6. title \o path \in Seq(S) /\ title \o path # <<>>
    BY <1>1, <1>4
  <1> HIDE DEF first
  <1>7. WriteBuffered(shared) \in WritesIn(S)
    BY <1>2, WriteBufferedType
  <1>8. <<first>> \o WriteBuffered(shared) \o <<opening>> \in WritesIn(S)
    BY <1>4, <1>5, <1>7, WritesOf
  <1>9. <<title \o path>> \in WritesIn(S)
    BY <1>6, WritesOf
  <1> QED BY <1>3, <1>8, <1>9, WritesOf

\* What lint_write_server_config adds for the settings of the main server.
LEMMA SettingsType ==
  ASSUME IsConfiguration(input), NEW S, NEW titles, Covers(S, titles)
  PROVE  Settings \in Seq(LinesIn(S))
  <1>1. DOMAIN SettingNames = 1 .. 18
    BY DEF SettingNames
  <1>2. ASSUME NEW i \in DOMAIN SettingNames
        PROVE  Setting(SettingNames[i]) \in Seq(LinesIn(S))
    <2>1. SettingNames[i] \in ToSet(SettingNames)
      BY DEF ToSet
    <2> QED BY <2>1 DEF Covers
  <1>3. [i \in DOMAIN SettingNames |-> Setting(SettingNames[i])] \in Seq(Seq(LinesIn(S)))
    BY <1>1, <1>2
  <1> QED BY <1>3, FlattenSeqType DEF Settings

\* What is in the buffer of lint_write_server_config, and in that of
\* lint_write_vhosts.
ServerLines == Settings \o lint_add_config_set(input.servers[1])

VhostLines ==
  FlattenSeq([s \in 1 .. Len(input.servers) - 1 |->
    lint_add_config_set(input.servers[s + 1])])

\* The buffered lines of the main server.
LEMMA ServerLinesType ==
  ASSUME IsConfiguration(input), NEW S, NEW titles, Covers(S, titles)
  PROVE  ServerLines \in Seq(LinesIn(S))
  <1>1. 1 \in DOMAIN input.servers
    BY DEF IsConfiguration, IsSeq
  <1> QED BY <1>1, SettingsType, ConfigSetType DEF ServerLines

\* The writes of lint_write_server_config.
LEMMA ServerType ==
  ASSUME IsConfiguration(input), NEW S, Covers(S, {"Server Config"})
  PROVE  lint_write_server_config \in WritesIn(S)
  <1>1. WriteBuffered(ServerLines) \in WritesIn(S)
    BY ServerLinesType, WriteBufferedType
  <1>2. << <<Title("Server Config")>> >> \in WritesIn(S)
    BY OneItem DEF Covers
  <1> QED BY <1>1, <1>2, WritesOf DEF lint_write_server_config, ServerLines

\* The writes of lint_write_classes for one class.
LEMMA ClassType ==
  ASSUME NEW S, NEW titles, Covers(S, titles), NEW acls \in Nat
  PROVE  lint_write_class(acls) \in WritesIn(S)
  <1> DEFINE comment == <<Item("comment", "From", 0, 1)>>
             satisfy == <<Line("Satisfy", 0, 1)>>
             closing == <<Closing("Class")>>
             opening == <<Opening("Class")>>
  <1>1. /\ comment \in Seq(S) /\ comment # <<>>
        /\ satisfy \in Seq(S) /\ satisfy # <<>>
        /\ closing \in Seq(S) /\ closing # <<>>
        /\ <<opening>> \in WritesIn(S)
    BY OneItem DEF Covers, Fixed
  <1>2. lint_write_class(acls)
          = <<opening>> \o [i \in 1 .. acls |-> comment] \o <<satisfy, closing>>
    BY DEF lint_write_class
  <1> HIDE DEF comment, satisfy, closing, opening
  <1>3. [i \in 1 .. acls |-> comment] \in WritesIn(S) /\ <<satisfy, closing>> \in WritesIn(S)
    BY <1>1 DEF WritesIn
  <1> QED BY <1>1, <1>2, <1>3, WritesOf

\* What lint_write_classes writes behind its title.
ClassWrites ==
  FlattenSeq([i \in DOMAIN input.classes |-> lint_write_class(input.classes[i])])

\* They are writes, for any number of classes.
LEMMA ClassWritesType ==
  ASSUME IsConfiguration(input), NEW S, NEW titles, Covers(S, titles)
  PROVE  ClassWrites \in WritesIn(S)
  <1> DEFINE classes == [i \in DOMAIN input.classes |-> lint_write_class(input.classes[i])]
  <1>1. input.classes \in Seq(Nat)
    BY DEF IsConfiguration
  <1>2. classes \in Seq(WritesIn(S))
    BY <1>1, ClassType
  <1>3. classes \in Seq(Seq(Seq(S) \ {<<>>}))
    BY <1>2 DEF WritesIn
  <1> QED BY <1>3, FlattenSeqType DEF WritesIn, ClassWrites

\* The writes of lint_write_classes.
LEMMA ClassesType ==
  ASSUME IsConfiguration(input), NEW S, Covers(S, {"Classes"})
  PROVE  lint_write_classes \in WritesIn(S)
  <1>1. << <<Title("Classes")>> >> \in WritesIn(S)
    BY OneItem DEF Covers
  <1> QED BY <1>1, ClassWritesType, WritesOf DEF lint_write_classes, ClassWrites

\* The writes of lint_write_ctrls, in either build.
LEMMA CtrlsType ==
  ASSUME NEW S, Covers(S, {"Controls"})
  PROVE  lint_write_ctrls \in WritesIn(S)
  <1>1. << <<Title("Controls")>> >> \in WritesIn(S)
    BY OneItem DEF Covers
  <1> QED BY <1>1, WritesOf DEF lint_write_ctrls

\* The buffered lines of the other servers, for any number of them.
LEMMA VhostLinesType ==
  ASSUME IsConfiguration(input), NEW S, NEW titles, Covers(S, titles)
  PROVE  VhostLines \in Seq(LinesIn(S))
  <1> DEFINE n == Len(input.servers) - 1
             confs == [s \in 1 .. n |-> lint_add_config_set(input.servers[s + 1])]
  <1>1. n \in Nat /\ DOMAIN input.servers = 1 .. n + 1
    BY DEF IsConfiguration, IsSeq
  <1>2. \A s \in 1 .. n : s + 1 \in DOMAIN input.servers
    BY <1>1
  <1> HIDE DEF n
  <1>3. \A s \in 1 .. n : lint_add_config_set(input.servers[s + 1]) \in Seq(LinesIn(S))
    BY <1>2, ConfigSetType
  <1>4. confs \in Seq(Seq(LinesIn(S)))
    BY <1>1, <1>3
  <1> QED BY <1>4, FlattenSeqType DEF VhostLines, n

\* The writes of lint_write_vhosts.
LEMMA VhostsType ==
  ASSUME IsConfiguration(input), NEW S, Covers(S, {"VirtualHosts"})
  PROVE  lint_write_vhosts \in WritesIn(S)
  <1>1. WriteBuffered(VhostLines) \in WritesIn(S)
    BY VhostLinesType, WriteBufferedType
  <1>2. << <<Title("VirtualHosts")>> >> \in WritesIn(S)
    BY OneItem DEF Covers
  <1> QED BY <1>1, <1>2, WritesOf DEF lint_write_vhosts, VhostLines

\* Whatever the configuration, each function makes writes of what can be written
\* of it, and none of nothing.
LEMMA WritesCovered ==
  ASSUME IsConfiguration(input), NEW S, Covers(S, AllTitles), NEW s
  PROVE  Writes(s) \in WritesIn(S)
  <1>1. lint_write_defines \in WritesIn(S) /\ <<>> \in WritesIn(S)
    BY WritesOf DEF lint_write_defines
  <1>2. \A titles \in SUBSET AllTitles : Covers(S, titles)
    BY DEF Covers
  <1>3. /\ Covers(S, {"header"}) /\ Covers(S, {"Modules"}) /\ Covers(S, {"Server Config"})
        /\ Covers(S, {"Classes"}) /\ Covers(S, {"Controls"}) /\ Covers(S, {"VirtualHosts"})
    BY <1>2 DEF AllTitles
  <1> QED
    BY <1>1, <1>3, HeaderType, ModulesType, ServerType, ClassesType, CtrlsType, VhostsType
    DEF Writes

\* The items that are titles only by one of the given names.
ItemsUnder(titles) == {item \in Items : item.kind = "title" => item.name \in titles}

\* Whatever the configuration, all of it is items.
LEMMA ItemsCover ==
  ASSUME IsConfiguration(input), NEW titles \in SUBSET AllTitles
  PROVE  Holds(ItemsUnder(titles), titles) /\ Covers(ItemsUnder(titles), titles)
  <1> DEFINE S == ItemsUnder(titles)
  <1>1. \A name \in titles : Title(name) \in S
    BY DEF ItemsUnder, Title, Item, Items, Kinds, Names, AllTitles
  <1>2. Fixed \subseteq S
    BY DEF Fixed, ItemsUnder, Opening, Closing, Line, Item, Items, Kinds, Names
  <1>3. \A name \in DOMAIN Rank, arg \in Nat, depth \in Nat :
          Line(name, arg, depth) \in LinesIn(S)
    BY DEF LinesIn, ItemsUnder, Line, BufferedLines, Item, Items, Kinds, Names
  <1>4. ToSet(SettingNames) \subseteq DOMAIN Rank /\ "LoadModule" \in DOMAIN Rank
    BY LintWriterAssumption
  <1>5. \A i \in DOMAIN input.modules : input.modules[i] \in Nat
    BY DEF IsConfiguration
  <1>6. \A i \in DOMAIN input.lines : input.lines[i].directive \in DOMAIN Rank
                                      /\ input.lines[i].arg \in Nat
    <2> DEFINE lines == input.lines
               L == [directive : DOMAIN Rank, arg : Nat]
    <2>1. lines \in Seq(L)
      BY DEF IsConfiguration
    <2>2. \A l \in L : l.directive \in DOMAIN Rank /\ l.arg \in Nat
      OBVIOUS
    <2> HIDE DEF lines, L
    <2>3. \A i \in DOMAIN lines : lines[i] \in L
      BY <2>1
    <2> QED BY <2>2, <2>3 DEF lines
  <1> HIDE DEF S
  <1>7. Holds(S, titles)
    BY <1>1, <1>2, <1>3, <1>4, <1>5, <1>6 DEF Holds
  <1> QED BY <1>7, HoldsCovers DEF S

\* Whatever the configuration, each function makes writes of items.
LEMMA WritesTypes ==
  ASSUME IsConfiguration(input), NEW s
  PROVE  Writes(s) \in WritesType
  <1>2. Writes(s) \in WritesIn(ItemsUnder(AllTitles))
    BY ItemsCover, WritesCovered
  <1>3. Seq(ItemsUnder(AllTitles)) \subseteq Seq(Items)
    BY SeqMonotonic DEF ItemsUnder
  <1>4. Seq(ItemsUnder(AllTitles)) \ {<<>>} \subseteq Seq(Items) \ {<<>>}
    BY <1>3
  <1>5. WritesIn(ItemsUnder(AllTitles)) \subseteq WritesIn(Items)
    BY <1>4, SeqMonotonic DEF WritesIn
  <1> QED BY <1>2, <1>5 DEF WritesType, WritesIn

-----------------------------------------------------------------------------
(* What is on the disk, what is still to be written, and the whole of it *)

\* Once the file is open, what is on the disk and the writes still to be made are together what the functions called so far
\* are to write, unless a text was lost: then the disk shows it.  Behind a failed
\* write the file is not whole.
DiskTypes ==
  /\ IsConfiguration(input)
  /\ shorts \in Nat
  /\ queue \in WritesType
  /\ whole \in Seq(Items)
  /\ fh # "none" => file \in Seq(Items \cup {Cut})

DiskInv ==
  /\ DiskTypes
  /\ fh = "none" => shorts = 0
  /\ fh # "none" /\ shorts = 0 /\ failed # "EWRITE" => file \o FlattenSeq(queue) = whole
  /\ shorts > 0 => \E p \in DOMAIN file : file[p] = Cut
  /\ failed = "EWRITE" => file # whole
  /\ failed = "EWRITE" => fh # "none"
  /\ stage = "failing" => failed = "EWRITE"

RunInv == EmissionInv /\ DiskInv

\* Until it is opened the file is the old one.
OldInv == fh = "none" => file = OldContents

PromiseInv == RunInv /\ OldInv

\* Neither the old item nor a cut one is an item of a section.
LEMMA NotItems ==
  /\ Cut \notin Items
  /\ OldContents \notin Seq(Items \cup {Cut})
  <1>1. Cut \notin Items
    BY DEF Cut, Item, Items, Kinds
  <1>2. Item("old", "", 0, 0) \notin Items \cup {Cut}
    BY DEF Cut, Item, Items, Kinds
  <1>3. Len(OldContents) = 1 /\ OldContents[1] = Item("old", "", 0, 0)
    BY DEF OldContents
  <1>4. OldContents \notin Seq(Items \cup {Cut})
    <2> SUFFICES ASSUME OldContents \in Seq(Items \cup {Cut}) PROVE FALSE
      OBVIOUS
    <2> DEFINE T == Items \cup {Cut}
               old == OldContents
    <2>1. old \in Seq(T) /\ Len(old) = 1
      BY <1>3
    <2>1a. old[1] = Item("old", "", 0, 0)
      BY <1>3
    <2> HIDE DEF T, old
    <2>2. old[1] \in T
      BY ONLY <2>1
    <2> QED BY <1>2, <2>1a, <2>2 DEF T
  <1> QED BY <1>1, <1>4

\* A file that shows a lost text is not whole.
LEMMA CutIsNotWhole ==
  ASSUME NEW items \in Seq(Items), NEW shown, \E p \in DOMAIN shown : shown[p] = Cut
  PROVE  shown # items
  <1>1. \A p \in DOMAIN items : items[p] \in Items
    OBVIOUS
  <1> QED BY <1>1, NotItems

\* Writes are sequences of sequences of items, so that they can be flattened.
LEMMA WritesFlatten ==
  ASSUME NEW ws \in WritesType
  PROVE  /\ ws \in Seq(Seq(Items))
         /\ FlattenSeq(ws) \in Seq(Items)
         /\ ws = <<>> => FlattenSeq(ws) = <<>>
         /\ ws # <<>> => /\ Tail(ws) \in WritesType
                         /\ Head(ws) \in Seq(Items) /\ Head(ws) # <<>>
                         /\ FlattenSeq(ws) = Head(ws) \o FlattenSeq(Tail(ws))
  <1>1. ws \in Seq(Seq(Items))
    BY SeqMonotonic DEF WritesType, WritesIn
  <1>2. ws # <<>> => /\ Tail(ws) \in WritesType
                     /\ Head(ws) \in Seq(Items) /\ Head(ws) # <<>>
    BY HeadTailProperties DEF WritesType, WritesIn
  <1> QED BY <1>1, <1>2, FlattenSeqType, FlattenSeqCons

\* Sequences of items, a lost text among them or not.
LEMMA WithCut ==
  /\ Seq(Items) \subseteq Seq(Items \cup {Cut})
  /\ \A s, t \in Seq(Items \cup {Cut}) : s \o t \in Seq(Items \cup {Cut})
  /\ \A s \in Seq(Items \cup {Cut}) : Append(s, Cut) \in Seq(Items \cup {Cut})
  /\ <<>> \in Seq(Items \cup {Cut})
  BY SeqMonotonic

\* Before the file is opened the disk holds the old contents.
LEMMA DiskInit == Init => PromiseInv
  <1> SUFFICES ASSUME Init PROVE PromiseInv
    OBVIOUS
  <1>1. EmissionInv
    BY EmissionInit
  <1>2. DiskTypes
    BY NoWrites, LintWriterAssumption DEF Init, DiskTypes
  <1>3. DiskInv /\ OldInv
    BY <1>2 DEF Init, DiskInv, OldInv
  <1> QED BY <1>1, <1>3 DEF PromiseInv, RunInv

\* The steps of the emission keep what they find on the disk and what they leave
\* to be written together.
LEMMA DiskNext == RunInv /\ [Next]_vars => RunInv'
  <1> SUFFICES ASSUME RunInv, [Next]_vars PROVE DiskInv'
    BY EmissionNext DEF RunInv
  <1>0. /\ DiskInv /\ EmissionInv /\ DiskTypes /\ EmissionInv'
        /\ IsConfiguration(input)
    BY EmissionNext DEF RunInv, DiskInv, DiskTypes
  <1>0a. /\ stage = "open" => fh = "none" /\ closes = 0
         /\ stage \in {"close", "failing"} \cup ToSet(Stages) => fh = "open"
         /\ stage \notin ToSet(Stages) => queue = <<>>
         /\ failed # "none" => stage \in {"failing", "done"}
         /\ "open" \notin ToSet(Stages) /\ "close" \notin ToSet(Stages)
         /\ "failing" \notin ToSet(Stages) /\ "done" \notin ToSet(Stages)
    BY <1>0, StageNames DEF EmissionInv, StageInv, HandleInv
  <1>1. CASE result = "none" /\ Open
    <2>1. Writes(Head(Stages)) \in WritesType
      BY <1>0, WritesTypes
    <2>2. fh = "none" /\ shorts = 0 /\ failed = "none" /\ failed' = "none"
      BY <1>0, <1>0a, <1>1 DEF Open, DiskInv
    <2>3. DiskTypes'
      BY <1>0, <1>1, <2>1, WritesFlatten, WithCut DEF Open, DiskTypes
    <2>4. file' \o FlattenSeq(queue') = whole'
      <3>1. <<>> \o FlattenSeq(Writes(Head(Stages))) = FlattenSeq(Writes(Head(Stages)))
        BY <2>1, WritesFlatten, ConcatEmptySeq
      <3> QED BY <1>1, <3>1 DEF Open
    <2>5. fh' = "open" /\ shorts' = 0 /\ stage' # "failing"
      BY <1>1, <2>2, StageNames DEF Open
    <2> QED BY <2>2, <2>3, <2>4, <2>5 DEF DiskInv
  <1>2. CASE result = "none" /\ OpenFails
    <2>1. UNCHANGED <<input, queue, fh, file, shorts, whole>> /\ failed' = "EOPEN"
          /\ stage' = "done"
          /\ fh = "none"
      BY <1>0a, <1>2 DEF OpenFails
    <2> QED BY <1>0, <2>1 DEF DiskInv, DiskTypes
  <1>3. CASE result = "none" /\ Write
    <2>1. /\ UNCHANGED <<input, stage, fh, shorts, failed, whole>>
          /\ queue # <<>> /\ file' = file \o Head(queue) /\ queue' = Tail(queue)
      BY <1>3 DEF Write
    <2>2. fh = "open" /\ failed = "none"
      BY <1>0a, <2>1
    <2>3. /\ queue' \in WritesType /\ Head(queue) \in Seq(Items)
          /\ FlattenSeq(queue) = Head(queue) \o FlattenSeq(queue')
          /\ FlattenSeq(queue') \in Seq(Items)
      BY <1>0, <2>1, WritesFlatten DEF DiskTypes
    <2>4. file \in Seq(Items \cup {Cut}) /\ file' \in Seq(Items \cup {Cut})
      BY <1>0, <2>1, <2>2, <2>3, WithCut DEF DiskTypes
    <2>5. file' \o FlattenSeq(queue') = file \o FlattenSeq(queue)
      <3> DEFINE h == Head(queue)
                 rest == FlattenSeq(queue')
      <3>1. h \in Seq(Items \cup {Cut}) /\ rest \in Seq(Items \cup {Cut})
        BY <2>3, WithCut
      <3> HIDE DEF h, rest
      <3>2. (file \o h) \o rest = file \o (h \o rest)
        BY <2>4, <3>1, ConcatAssociative
      <3> QED BY <2>1, <2>3, <3>2 DEF h, rest
    <2>6. DiskTypes'
      BY <1>0, <2>1, <2>3, <2>4 DEF DiskTypes
    <2>7. shorts' > 0 => \E p \in DOMAIN file' : file'[p] = Cut
      <3> SUFFICES ASSUME shorts > 0 PROVE \E p \in DOMAIN file' : file'[p] = Cut
        BY <2>1
      <3>1. PICK p \in DOMAIN file : file[p] = Cut
        BY <1>0 DEF DiskInv
      <3>2. Head(queue) \in Seq(Items \cup {Cut})
        BY <2>3, WithCut
      <3>3. p \in DOMAIN file' /\ file'[p] = file[p]
        BY <2>1, <2>4, <3>2, ConcatProperties
      <3> QED BY <3>1, <3>3
    <2> QED BY <1>0, <2>1, <2>2, <2>5, <2>6, <2>7 DEF DiskInv
  <1>4. CASE result = "none" /\ ShortWrite
    <2>1. /\ UNCHANGED <<input, stage, fh, failed, whole>> /\ shorts' = shorts + 1
          /\ queue # <<>> /\ file' = Append(file, Cut) /\ queue' = Tail(queue)
      BY <1>4 DEF ShortWrite
    <2>2. fh = "open" /\ failed = "none"
      BY <1>0a, <2>1
    <2>3. queue' \in WritesType
      BY <1>0, <2>1, WritesFlatten DEF DiskTypes
    <2>4. file \in Seq(Items \cup {Cut}) /\ file' \in Seq(Items \cup {Cut})
      BY <1>0, <2>1, <2>2, WithCut DEF DiskTypes
    <2>5. DiskTypes' /\ shorts' # 0
      BY <1>0, <2>1, <2>3, <2>4 DEF DiskTypes
    <2>6. \E p \in DOMAIN file' : file'[p] = Cut
      <3>1. /\ Len(file) + 1 \in DOMAIN file'
            /\ file'[Len(file) + 1] = Cut
        BY <2>1, <2>4, AppendProperties
      <3> QED BY <3>1
    <2> QED BY <1>0, <2>1, <2>2, <2>5, <2>6 DEF DiskInv
  <1>5. CASE result = "none" /\ WriteFails
    <2>1. /\ UNCHANGED <<input, fh, file, shorts, whole>>
          /\ queue # <<>> /\ queue' = <<>> /\ failed' = "EWRITE"
      BY <1>5 DEF WriteFails
    <2>2. fh = "open" /\ failed = "none"
      BY <1>0a, <2>1
    <2>3. DiskTypes'
      BY <1>0, <2>1, NoWrites DEF DiskTypes
    <2>4. file # whole
      <3>1. CASE shorts = 0
        <4> DEFINE rest == FlattenSeq(queue)
        <4>1. file \o rest = whole /\ file \in Seq(Items \cup {Cut})
          BY <1>0, <2>2, <3>1 DEF DiskInv, DiskTypes
        <4>2. rest \in Seq(Items) /\ rest # <<>>
          <5>1. /\ Head(queue) \in Seq(Items) /\ Head(queue) # <<>>
                /\ FlattenSeq(Tail(queue)) \in Seq(Items)
                /\ rest = Head(queue) \o FlattenSeq(Tail(queue))
            BY <1>0, <2>1, WritesFlatten DEF DiskTypes
          <5> QED BY <5>1, ConcatEqualIffEmpty
        <4> HIDE DEF rest
        <4>3. rest \in Seq(Items \cup {Cut})
          BY <4>2, WithCut
        <4> QED BY <4>1, <4>2, <4>3, ConcatEqualIffEmpty
      <3>2. CASE shorts # 0
        BY <1>0, <3>2, CutIsNotWhole DEF DiskInv, DiskTypes
      <3> QED BY <3>1, <3>2
    <2> QED BY <1>0, <2>1, <2>2, <2>3, <2>4 DEF DiskInv
  <1>6. CASE result = "none" /\ NextStage
    <2> DEFINE more == FlattenSeq(Writes(After(stage)))
    <2>1. /\ UNCHANGED <<input, fh, file, shorts, failed>>
          /\ queue = <<>> /\ stage \in ToSet(Stages)
          /\ queue' = Writes(After(stage)) /\ stage' = After(stage)
          /\ whole' = whole \o more
      BY <1>6 DEF NextStage
    <2>2. fh = "open" /\ failed = "none"
      BY <1>0a, <2>1
    <2>3. queue' \in WritesType /\ more \in Seq(Items)
      BY <1>0, <2>1, WritesTypes, WritesFlatten
    <2>3a. whole' \in Seq(Items)
      BY <1>0, <2>1, <2>3 DEF DiskTypes
    <2>4. DiskTypes'
      BY <1>0, <2>1, <2>3, <2>3a DEF DiskTypes
    <2>5. ASSUME shorts = 0 PROVE file \o FlattenSeq(queue') = whole'
      <3>1. file \o FlattenSeq(<<>>) = whole
        BY <1>0, <2>1, <2>2, <2>5 DEF DiskInv
      <3>2. FlattenSeq(<<>>) = <<>>
        BY NoWrites, WritesFlatten
      <3>3. file \in Seq(Items \cup {Cut})
        BY <1>0, <2>2 DEF DiskTypes
      <3>4. file = whole
        BY <3>1, <3>2, <3>3, ConcatEmptySeq
      <3> QED BY <2>1, <3>4
    <2>6. stage' # "failing"
      BY <1>0a, <2>1, AfterAStage
    <2>7. shorts > 0 => \E p \in DOMAIN file : file[p] = Cut
      BY <1>0 DEF DiskInv
    <2> HIDE DEF more
    <2>8. UNCHANGED <<fh, file, shorts, failed>>
      BY <2>1
    <2> QED BY <2>2, <2>4, <2>5, <2>6, <2>7, <2>8 DEF DiskInv
  <1>7. CASE result = "none" /\ CloseAfterFailure
    <2>1. UNCHANGED <<input, queue, file, shorts, failed, whole>> /\ fh' = "closed"
          /\ fh = "open" /\ stage' = "done"
      BY <1>0a, <1>7 DEF CloseAfterFailure
    <2> QED BY <1>0, <2>1 DEF DiskInv, DiskTypes
  <1>8. CASE result = "none" /\ Close
    <2>1. UNCHANGED <<input, queue, file, shorts, whole>> /\ fh' = "closed"
          /\ fh = "open" /\ stage' = "done" /\ failed = "none" /\ failed' \in {"none", "ECLOSE"}
      BY <1>0a, <1>8 DEF Close
    <2> QED BY <1>0, <2>1 DEF DiskInv, DiskTypes
  <1>9. CASE Kill
    BY <1>0, <1>9 DEF Kill, DiskInv, DiskTypes
  <1>10. CASE UNCHANGED vars
    BY <1>0, <1>10 DEF vars, DiskInv, DiskTypes
  <1> QED
    BY <1>1, <1>2, <1>3, <1>4, <1>5, <1>6, <1>7, <1>8, <1>9, <1>10 DEF Next, Emit

\* A file that is not opened is left alone.
LEMMA OldNext == PromiseInv /\ [Next]_vars => OldInv'
  <1> SUFFICES ASSUME PromiseInv, [Next]_vars, fh' = "none" PROVE file' = OldContents
    BY DEF OldInv
  <1>1. /\ stage \in ToSet(Stages) => fh = "open"
        /\ stage \notin ToSet(Stages) => queue = <<>>
    BY DEF PromiseInv, RunInv, EmissionInv, StageInv, HandleInv
  <1>2. file' = file /\ fh' = fh
    BY <1>1 DEF Next, Emit, vars, Open, OpenFails, Write, ShortWrite, WriteFails, NextStage,
                CloseAfterFailure, Close, Kill
  <1> QED BY <1>2 DEF PromiseInv, OldInv

\* Every reachable state satisfies PromiseInv.
LEMMA PromiseInvariant == Spec => []PromiseInv
  <1>1. PromiseInv /\ [Next]_vars => PromiseInv'
    BY DiskNext, OldNext DEF PromiseInv
  <1> QED BY <1>1, DiskInit, PTL DEF Spec

-----------------------------------------------------------------------------
(* What a successful emission leaves in the file *)

\* What a function is to write, one item after another.
Part(s) == FlattenSeq(Writes(s))

\* What is to be written before the section of the main server, and before that of
\* the others.
BeforeServer == Part("header") \o Part("defines") \o Part("modules")
BeforeClasses == BeforeServer \o Part("server")
BeforeVhosts == BeforeClasses \o Part("classes") \o Part("ctrls")
Everything == BeforeVhosts \o Part("vhosts")

\* What the functions called so far are to write.
SoFar(s) ==
  CASE s = "header"  -> Part("header")
    [] s = "defines" -> Part("header") \o Part("defines")
    [] s = "modules" -> BeforeServer
    [] s = "server"  -> BeforeClasses
    [] s = "classes" -> BeforeClasses \o Part("classes")
    [] s = "ctrls"   -> BeforeVhosts
    [] OTHER         -> Everything

WholeInv ==
  /\ stage \in ToSet(Stages) \cup {"close"} => whole = SoFar(stage)
  /\ result = "ok" => stage = "done" /\ fh # "none" /\ whole = Everything

ContentInv == RunInv /\ WholeInv

\* What the functions write is of the input alone, which no step changes.
LEMMA SameWrites ==
  ASSUME input' = input, NEW s
  PROVE  Writes(s)' = Writes(s)
  BY DEF Writes, lint_write_vhosts, lint_write_classes, lint_write_modules,
         lint_write_server_config, FirstLine, lint_add_config_set,
         lint_add_config_rec, Settings, Setting

\* So is what they have written so far.
LEMMA SameSoFar ==
  ASSUME input' = input, NEW s
  PROVE  SoFar(s)' = SoFar(s) /\ Everything' = Everything
  BY SameWrites DEF SoFar, Part, BeforeServer, BeforeClasses, BeforeVhosts, Everything

\* A function adds its own part to what those before it have.
LEMMA OneMore ==
  ASSUME IsConfiguration(input), NEW s \in ToSet(Stages)
  PROVE  SoFar(s) \o Part(After(s)) = SoFar(After(s))
  <1>1. /\ After("header") = "defines" /\ After("defines") = "modules"
        /\ After("modules") = "server" /\ After("server") = "classes"
        /\ After("classes") = "ctrls" /\ After("ctrls") = "vhosts"
        /\ After("vhosts") = "close"
    BY DEF After, Stages
  <1>2. /\ SoFar("header") \o Part("defines") = SoFar("defines")
        /\ SoFar("defines") \o Part("modules") = SoFar("modules")
        /\ SoFar("modules") \o Part("server") = SoFar("server")
        /\ SoFar("server") \o Part("classes") = SoFar("classes")
        /\ SoFar("classes") \o Part("ctrls") = SoFar("ctrls")
        /\ SoFar("ctrls") \o Part("vhosts") = SoFar("vhosts")
    BY DEF SoFar, BeforeServer, BeforeClasses, BeforeVhosts, Everything
  <1>3. SoFar("vhosts") \o Part("close") = SoFar("close")
    <2>1. Part("close") = <<>>
      BY NoWrites, WritesFlatten DEF Part, Writes
    <2>2. \A x : Part(x) \in Seq(Items)
      BY WritesTypes, WritesFlatten DEF Part
    <2>3. SoFar("vhosts") = Everything /\ SoFar("close") = Everything
      BY DEF SoFar
    <2>4. Everything \in Seq(Items)
      BY <2>2 DEF BeforeServer, BeforeClasses, BeforeVhosts, Everything
    <2> QED BY <2>1, <2>3, <2>4, ConcatEmptySeq
  <1> QED BY <1>1, <1>2, <1>3, StageNames

\* Nothing is to be written before the file is open.
LEMMA WholeInit == Init => WholeInv
  BY StageNames DEF Init, WholeInv

\* Each step adds what the function it enters is to write, and nothing else.
LEMMA WholeNext == RunInv /\ WholeInv /\ [Next]_vars => WholeInv'
  <1> SUFFICES ASSUME RunInv, WholeInv, [Next]_vars PROVE WholeInv'
    OBVIOUS
  <1>0. EmissionInv /\ DiskTypes /\ IsConfiguration(input)
    BY DEF RunInv, DiskInv, DiskTypes
  <1>0a. /\ stage = "open" => result # "ok"
         /\ stage # "done" => result # "ok"
         /\ "open" \notin ToSet(Stages) /\ "close" \notin ToSet(Stages)
         /\ "failing" \notin ToSet(Stages) /\ "done" \notin ToSet(Stages)
    BY <1>0, StageNames DEF EmissionInv, StageInv
  <1>0b. input' = input
    BY DEF Next, Emit, vars, Open, OpenFails, Write, ShortWrite, WriteFails, NextStage,
           CloseAfterFailure, Close, Kill
  <1>0c. \A s : SoFar(s)' = SoFar(s)
    BY <1>0b, SameSoFar
  <1>0d. Everything' = Everything
    BY <1>0b, SameSoFar
  <1>1. CASE result = "none" /\ Open
    <2>1. stage' = "header" /\ whole' = Part("header") /\ result' = result
      BY <1>1, StageNames DEF Open, Part
    <2>2. SoFar("header") = Part("header")
      BY DEF SoFar
    <2>3. SoFar(stage)' = SoFar("header")
      BY <1>0b, <2>1, SameWrites DEF SoFar, Part
    <2> QED BY <1>1, <2>1, <2>2, <2>3 DEF WholeInv
  <1>2. CASE result = "none" /\ OpenFails
    BY <1>0a, <1>2 DEF OpenFails, WholeInv
  <1>3. CASE result = "none" /\ (Write \/ ShortWrite)
    <2>1. UNCHANGED <<stage, whole, result, fh>>
      BY <1>3 DEF Write, ShortWrite
    <2>2. SoFar(stage)' = SoFar(stage)
      BY <1>0b, <2>1, SameWrites
      DEF SoFar, Part, BeforeServer, BeforeClasses, BeforeVhosts, Everything
    <2> QED BY <1>0d, <2>1, <2>2 DEF WholeInv
  <1>5. CASE result = "none" /\ WriteFails
    BY <1>0a, <1>5 DEF WriteFails, WholeInv
  <1>6. CASE result = "none" /\ NextStage
    <2>1. /\ stage \in ToSet(Stages) /\ stage' = After(stage)
          /\ whole' = whole \o Part(After(stage))
          /\ result' = result
      BY <1>6 DEF NextStage, Part
    <2>2. whole' = SoFar(After(stage))
      BY <1>0, <2>1, OneMore DEF WholeInv
    <2>3. SoFar(stage)' = SoFar(After(stage))
      BY <1>0b, <2>1, SameWrites
      DEF SoFar, Part, BeforeServer, BeforeClasses, BeforeVhosts, Everything
    <2> QED BY <1>6, <2>1, <2>2, <2>3 DEF WholeInv
  <1>7. CASE result = "none" /\ CloseAfterFailure
    BY <1>0a, <1>7 DEF CloseAfterFailure, WholeInv
  <1>8. CASE result = "none" /\ Close
    <2>1. stage = "close" /\ stage' = "done" /\ whole' = whole /\ fh' = "closed"
      BY <1>8 DEF Close
    <2>2. SoFar("close") = Everything
      BY DEF SoFar
    <2> QED BY <1>0a, <1>0d, <2>1, <2>2 DEF WholeInv
  <1>9. CASE Kill
    <2>1. UNCHANGED <<stage, whole>> /\ result' = "dead"
      BY <1>9 DEF Kill
    <2>2. SoFar(stage)' = SoFar(stage)
      BY <1>0b, <2>1, SameWrites
      DEF SoFar, Part, BeforeServer, BeforeClasses, BeforeVhosts, Everything
    <2> QED BY <2>1, <2>2 DEF WholeInv
  <1>10. CASE UNCHANGED vars
    <2>1. UNCHANGED <<stage, whole, result, fh>>
      BY <1>10 DEF vars
    <2>2. SoFar(stage)' = SoFar(stage)
      BY <1>0b, <2>1, SameWrites
      DEF SoFar, Part, BeforeServer, BeforeClasses, BeforeVhosts, Everything
    <2> QED BY <1>0d, <2>1, <2>2 DEF WholeInv
  <1> QED
    BY <1>1, <1>2, <1>3, <1>5, <1>6, <1>7, <1>8, <1>9, <1>10 DEF Next, Emit

\* The two invariants are kept together.
LEMMA ContentNext == ContentInv /\ [Next]_vars => ContentInv'
  BY DiskNext, WholeNext DEF ContentInv

\* Every reachable state satisfies ContentInv.
LEMMA ContentInvariant == Spec => []ContentInv
  <1>1. Init => ContentInv
    BY DiskInit, WholeInit DEF ContentInv, PromiseInv
  <1> QED BY <1>1, ContentNext, PTL DEF Spec

\* What is being written stays one of the configurations.
Given == input \in Configurations

\* Every reachable state satisfies Given.
LEMMA GivenInvariant == Spec => []Given
  <1>1. Given /\ [Next]_vars => Given'
    BY DEF Given, Next, Emit, vars, Open, OpenFails, Write, ShortWrite, WriteFails,
           NextStage, CloseAfterFailure, Close, Kill
  <1>2. Init => Given
    BY DEF Init, Given
  <1> QED BY <1>1, <1>2, PTL DEF Spec

\* What a successful emission without a lost text has left.
LEMMA WrittenFile ==
  ASSUME ContentInv, Written
  PROVE  file = Everything /\ IsConfiguration(input)
  <1>1. /\ result = "ok" /\ shorts = 0 /\ stage = "done" /\ whole = Everything
        /\ fh # "none" /\ IsConfiguration(input) /\ DiskInv /\ EmissionInv /\ DiskTypes
    BY DEF ContentInv, WholeInv, Written, RunInv, DiskInv, DiskTypes
  <1>2. failed = "none" /\ queue = <<>>
    BY <1>1, StageNames DEF EmissionInv, StageInv, AnswerInv
  <1>3. file \in Seq(Items \cup {Cut}) /\ FlattenSeq(queue) = <<>>
    BY <1>1, <1>2, NoWrites, WritesFlatten DEF DiskTypes
  <1>4. file \o FlattenSeq(queue) = whole
    BY <1>1, <1>2 DEF DiskInv
  <1> QED BY <1>1, <1>3, <1>4, ConcatEmptySeq

Framed(name, before, body, after) ==
  /\ file = ((before \o <<Title(name)>>) \o body) \o after
  /\ Title(name) \in Items
  /\ \A p \in DOMAIN before : before[p].kind = "title" => before[p].name # name
  /\ \A p \in DOMAIN after : after[p].kind = "title" => after[p].name # name
  /\ \A p \in DOMAIN body : body[p].kind # "title"
  /\ after # <<>> => after[1].kind = "title"

\* A section that has no title in it, and no title like its own before and after
\* it, is what stands between its title and the next one, or the end.
LEMMA SectionIs ==
  ASSUME NEW name, NEW before \in Seq(Items), NEW body \in Seq(Items),
         NEW after \in Seq(Items), Framed(name, before, body, after)
  PROVE  Section(name) = body
  <1> USE DEF Framed
  <1> DEFINE a == Len(before)
             b == Len(body)
             c == Len(after)
             titles == {p \in DOMAIN file : file[p].kind = "title"}
             first == CHOOSE p \in titles : file[p].name = name
             later == {p \in titles : p > first}
             title == <<Title(name)>>
  <1>1. a \in Nat /\ b \in Nat /\ c \in Nat
    OBVIOUS
  <1>2. title \in Seq(Items) /\ Len(title) = 1 /\ title[1] = Title(name)
    OBVIOUS
  <1> HIDE DEF title
  <1>3. file \in Seq(Items) /\ Len(file) = a + 1 + b + c
    BY <1>2 DEF title
  <1>4. /\ DOMAIN file = 1 .. a + 1 + b + c
        /\ \A p \in 1 .. a : file[p] = before[p]
        /\ file[a + 1] = Title(name)
        /\ \A p \in a + 2 .. a + 1 + b : file[p] = body[p - a - 1]
        /\ \A p \in a + 2 + b .. a + 1 + b + c : file[p] = after[p - a - 1 - b]
    BY <1>1, <1>2, <1>3 DEF title
  <1>5. Title(name).kind = "title" /\ Title(name).name = name
    BY DEF Title, Item
  <1>6. /\ DOMAIN before = 1 .. a /\ DOMAIN body = 1 .. b /\ DOMAIN after = 1 .. c
    OBVIOUS
  <1>6a. /\ \A p \in 1 .. a : before[p].kind = "title" => before[p].name # name
         /\ \A p \in 1 .. c : after[p].kind = "title" => after[p].name # name
         /\ \A p \in 1 .. b : body[p].kind # "title"
    BY <1>6
  <1>6b. c # 0 => after[1].kind = "title"
    OBVIOUS
  <1> HIDE DEF a, b, c
  <1>11. Section(name)
           = SubSeq(file, first + 1, IF later = {} THEN Len(file) ELSE Min(later) - 1)
    BY DEF Section
  <1>7. ASSUME NEW p \in 1 .. a + 1 + b + c, file[p].kind = "title"
        PROVE  p \notin a + 2 .. a + 1 + b /\ (file[p].name = name => p = a + 1)
    <2>1. p \in 1 .. a => file[p].name # name
      BY <1>4, <1>6a, <1>7
    <2>2. p \notin a + 2 .. a + 1 + b
      <3> SUFFICES ASSUME p \in a + 2 .. a + 1 + b PROVE FALSE
        OBVIOUS
      <3> DEFINE q == p - a - 1
      <3>1. q \in 1 .. b
        BY <1>1
      <3>2. file[p] = body[q]
        BY <1>4
      <3> QED BY <1>6a, <1>7, <3>1, <3>2
    <2>3. p \in a + 2 + b .. a + 1 + b + c => file[p].name # name
      <3> SUFFICES ASSUME p \in a + 2 + b .. a + 1 + b + c PROVE file[p].name # name
        OBVIOUS
      <3> DEFINE q == p - a - 1 - b
      <3>1. q \in 1 .. c
        BY <1>1
      <3>2. file[p] = after[q]
        BY <1>4
      <3> QED BY <1>6a, <1>7, <3>1, <3>2
    <2>4. p \in 1 .. a \/ p = a + 1 \/ p \in a + 2 .. a + 1 + b
          \/ p \in a + 2 + b .. a + 1 + b + c
      BY <1>1
    <2> QED BY <2>1, <2>2, <2>3, <2>4
  <1>8. a + 1 \in titles /\ file[a + 1].name = name
    BY <1>1, <1>4, <1>5
  <1>8a. \A p : p \in titles <=> p \in 1 .. a + 1 + b + c /\ file[p].kind = "title"
    BY <1>4
  <1>8b. \A p \in titles : file[p].name = name => p = a + 1
    BY <1>7, <1>8a
  <1> HIDE DEF titles
  <1>9. first = a + 1
    BY <1>8, <1>8b
  <1>9a. \A p : p \in later <=> p \in titles /\ p > a + 1
    BY <1>9
  <1>10. later \in SUBSET Nat
    BY <1>1, <1>8a, <1>9a
  <1> DEFINE end == IF later = {} THEN Len(file) ELSE Min(later) - 1
  <1> HIDE DEF first, later
  <1>12. \A p \in later : p \in a + 2 + b .. a + 1 + b + c
    <2> SUFFICES ASSUME NEW p \in later PROVE p \in a + 2 + b .. a + 1 + b + c
      OBVIOUS
    <2>1. p \in 1 .. a + 1 + b + c /\ file[p].kind = "title" /\ p > a + 1
      BY <1>8a, <1>9a
    <2>2. p \notin a + 2 .. a + 1 + b
      BY <1>7, <2>1
    <2> QED BY <1>1, <2>1, <2>2
  <1>13. end = a + 1 + b
    <2>1. CASE c = 0
      <3>1. later = {}
        BY <1>1, <1>12, <2>1
      <3> QED BY <1>1, <1>3, <2>1, <3>1
    <2>2. CASE c # 0
      <3> DEFINE next == a + 2 + b
      <3>1. next \in 1 .. a + 1 + b + c /\ next - a - 1 - b = 1 /\ next > a + 1
            /\ next \in a + 2 + b .. a + 1 + b + c
        BY <1>1, <2>2
      <3>2. file[next].kind = "title"
        BY <1>4, <1>6b, <2>2, <3>1
      <3>3. next \in later
        BY <1>8a, <1>9a, <3>1, <3>2
      <3>4. Min(later) \in later /\ \A p \in later : Min(later) <= p
        BY <1>10, <3>3, MinOfNaturals
      <3>5. Min(later) = next
        BY <1>1, <1>12, <3>3, <3>4
      <3> QED BY <1>1, <3>3, <3>5
    <2> QED BY <2>1, <2>2
  <1> HIDE DEF titles
  <1>14. Section(name) = SubSeq(file, a + 2, a + 1 + b)
    <2>1. first + 1 = a + 2
      BY <1>1, <1>9
    <2>2. Section(name) = SubSeq(file, first + 1, end)
      BY <1>11
    <2> HIDE DEF end
    <2> QED BY <1>13, <2>1, <2>2
  <1>15. SubSeq(file, a + 2, a + 1 + b) = body
    <2> DEFINE s == SubSeq(file, a + 2, a + 1 + b)
    <2>1. s = [p \in 1 .. b |-> file[a + 1 + p]]
      <3>1. a + 1 + b - (a + 2) + 1 = b /\ \A p \in 1 .. b : p + (a + 2) - 1 = a + 1 + p
        BY <1>1
      <3> QED BY <3>1, <1>1, <1>3
    <2>2. \A p \in 1 .. b : file[a + 1 + p] = body[p]
      <3> SUFFICES ASSUME NEW p \in 1 .. b PROVE file[a + 1 + p] = body[p]
        OBVIOUS
      <3> DEFINE q == a + 1 + p
      <3>1. q \in a + 2 .. a + 1 + b /\ q - a - 1 = p
        BY <1>1
      <3> HIDE DEF q
      <3>2. file[q] = body[p]
        BY <1>4, <3>1
      <3> QED BY <3>2 DEF q
    <2>3. body = [p \in 1 .. b |-> body[p]]
      BY <1>6
    <2> QED BY <2>1, <2>2, <2>3
  <1> QED BY <1>14, <1>15

\* What is written of a buffer is in the order of the texts.
LEMMA SortedBody ==
  ASSUME NEW buffered \in Seq(BufferedLines)
  PROVE  /\ FlattenSeq(WriteBuffered(buffered)) \in Seq(BufferedLines)
         /\ \A p, q \in DOMAIN FlattenSeq(WriteBuffered(buffered)) : p < q =>
              ~linecmp(FlattenSeq(WriteBuffered(buffered))[q],
                       FlattenSeq(WriteBuffered(buffered))[p])
  <1> DEFINE n == Len(buffered)
  <1>1. PICK perm \in [1 .. n -> 1 .. n] :
          /\ WriteBuffered(buffered) = [k \in 1 .. n |-> <<buffered[perm[k]]>>]
          /\ \A k, l \in 1 .. n : k < l => ~linecmp(buffered[perm[l]], buffered[perm[k]])
    BY SortedLines
  <1> DEFINE sorted == [k \in 1 .. n |-> buffered[perm[k]]]
  <1>2. n \in Nat /\ \A k \in 1 .. n : perm[k] \in 1 .. n /\ buffered[perm[k]] \in BufferedLines
    <2>1. \A k \in 1 .. n : perm[k] \in 1 .. n
      OBVIOUS
    <2> QED BY <2>1
  <1>3. sorted \in Seq(BufferedLines) /\ DOMAIN sorted = 1 .. n
    BY <1>2
  <1>4. WriteBuffered(buffered) = [k \in DOMAIN sorted |-> <<sorted[k]>>]
    BY <1>1, <1>3
  <1>4a. \A k, l \in 1 .. n : k < l => ~linecmp(sorted[l], sorted[k])
    BY <1>1
  <1> HIDE DEF sorted, n
  <1>5. FlattenSeq(WriteBuffered(buffered)) = sorted
    BY <1>3, <1>4, FlattenSingles
  <1> QED BY <1>3, <1>4a, <1>5

\* What a function writes that begins with a title.
LEMMA TitledPart ==
  ASSUME NEW item \in Items, NEW ws \in WritesType
  PROVE  FlattenSeq(<< <<item>> >> \o ws) = <<item>> \o FlattenSeq(ws)
  <1> DEFINE all == << <<item>> >> \o ws
  <1>1. << <<item>> >> \in WritesType
    BY OneItem DEF WritesType
  <1>2. all \in WritesType /\ all # <<>> /\ Head(all) = <<item>> /\ Tail(all) = ws
    <2>1. ws \in Seq(Seq(Items) \ {<<>>}) /\ << <<item>> >> \in Seq(Seq(Items) \ {<<>>})
      BY <1>1 DEF WritesType, WritesIn
    <2> QED BY <2>1 DEF WritesType, WritesIn
  <1> HIDE DEF all
  <1>3. FlattenSeq(all) = <<item>> \o FlattenSeq(ws)
    BY <1>2, WritesFlatten
  <1> QED BY <1>3 DEF all

\* A part that some titles cover has no others.
LEMMA PartUnder ==
  ASSUME NEW titles, NEW ws \in WritesIn(ItemsUnder(titles))
  PROVE  FlattenSeq(ws) \in Seq(ItemsUnder(titles))
  <1> DEFINE S == ItemsUnder(titles)
  <1>1. ws \in Seq(Seq(S))
    BY SeqMonotonic DEF WritesIn
  <1> HIDE DEF S
  <1>2. FlattenSeq(ws) \in Seq(S)
    BY <1>1, FlattenSeqType
  <1> QED BY <1>2 DEF S

\* More titles allow more.
LEMMA MoreTitles ==
  ASSUME NEW titles, NEW more, titles \subseteq more
  PROVE  Seq(ItemsUnder(titles)) \subseteq Seq(ItemsUnder(more))
  <1>1. ItemsUnder(titles) \subseteq ItemsUnder(more)
    BY DEF ItemsUnder
  <1> QED BY <1>1, SeqMonotonic

\* Whatever the titles, they are items.
LEMMA UnderItems ==
  ASSUME NEW titles
  PROVE  Seq(ItemsUnder(titles)) \subseteq Seq(Items)
  <1>1. ItemsUnder(titles) \subseteq Items
    BY DEF ItemsUnder
  <1> QED BY <1>1, SeqMonotonic

\* The titles of each part.
LEMMA PartTitles ==
  ASSUME IsConfiguration(input)
  PROVE  /\ Part("header") \in Seq(ItemsUnder({"header"}))
         /\ Part("defines") \in Seq(ItemsUnder({}))
         /\ Part("modules") \in Seq(ItemsUnder({"Modules"}))
         /\ Part("classes") \in Seq(ItemsUnder({"Classes"}))
         /\ Part("ctrls") \in Seq(ItemsUnder({"Controls"}))
  <1>1. \A titles \in SUBSET AllTitles : Covers(ItemsUnder(titles), titles)
    BY ItemsCover
  <1>2. /\ Covers(ItemsUnder({"header"}), {"header"})
        /\ Covers(ItemsUnder({"Modules"}), {"Modules"})
        /\ Covers(ItemsUnder({"Classes"}), {"Classes"})
        /\ Covers(ItemsUnder({"Controls"}), {"Controls"})
    BY <1>1 DEF AllTitles
  <1>3. /\ Writes("header") \in WritesIn(ItemsUnder({"header"}))
        /\ Writes("defines") \in WritesIn(ItemsUnder({}))
        /\ Writes("modules") \in WritesIn(ItemsUnder({"Modules"}))
        /\ Writes("classes") \in WritesIn(ItemsUnder({"Classes"}))
        /\ Writes("ctrls") \in WritesIn(ItemsUnder({"Controls"}))
    BY <1>2, HeaderType, ModulesType, ClassesType, CtrlsType, WritesOf
    DEF Writes, lint_write_defines
  <1> QED BY <1>3, PartUnder DEF Part

ServerBody == FlattenSeq(WriteBuffered(ServerLines))
VhostBody == FlattenSeq(WriteBuffered(VhostLines))

\* The sections of servers, and the one between, each with its title in front.
LEMMA TitledParts ==
  ASSUME IsConfiguration(input)
  PROVE  /\ ServerLines \in Seq(BufferedLines) /\ VhostLines \in Seq(BufferedLines)
         /\ Part("server") = <<Title("Server Config")>> \o ServerBody
         /\ Part("vhosts") = <<Title("VirtualHosts")>> \o VhostBody
         /\ Part("classes") = <<Title("Classes")>> \o FlattenSeq(ClassWrites)
         /\ FlattenSeq(ClassWrites) \in Seq(Items)
         /\ Title("Server Config") \in Items /\ Title("VirtualHosts") \in Items
         /\ Title("Classes") \in Items
  <1> DEFINE S == ItemsUnder(AllTitles)
  <1>1. Covers(S, AllTitles)
    BY ItemsCover
  <1>2. S \subseteq Items
    BY DEF ItemsUnder
  <1> HIDE DEF S
  <1>3. /\ Title("Server Config") \in Items /\ Title("VirtualHosts") \in Items
        /\ Title("Classes") \in Items
    BY <1>1, <1>2 DEF Covers, AllTitles
  <1>4. /\ ServerLines \in Seq(LinesIn(S)) /\ VhostLines \in Seq(LinesIn(S))
    BY <1>1, ServerLinesType, VhostLinesType
  <1>4a. WriteBuffered(ServerLines) \in WritesIn(S)
    BY <1>4, WriteBufferedType
  <1>4b. WriteBuffered(VhostLines) \in WritesIn(S)
    BY <1>4, WriteBufferedType
  <1>4c. ClassWrites \in WritesIn(S)
    BY <1>1, ClassWritesType
  <1>5. WritesIn(S) \subseteq WritesType
    <2>1. Seq(S) \subseteq Seq(Items)
      BY <1>2, SeqMonotonic
    <2>2. Seq(S) \ {<<>>} \subseteq Seq(Items) \ {<<>>}
      BY <2>1
    <2> QED BY <2>2, SeqMonotonic DEF WritesType, WritesIn
  <1>6. Part("server") = <<Title("Server Config")>> \o ServerBody
    <2>1. WriteBuffered(ServerLines) \in WritesType
      BY <1>4a, <1>5
    <2>2. Writes("server") = << <<Title("Server Config")>> >> \o WriteBuffered(ServerLines)
      BY DEF Writes, lint_write_server_config, ServerLines
    <2> QED BY <1>3, <2>1, <2>2, TitledPart DEF Part, ServerBody
  <1>7. Part("vhosts") = <<Title("VirtualHosts")>> \o VhostBody
    <2>1. WriteBuffered(VhostLines) \in WritesType
      BY <1>4b, <1>5
    <2>2. Writes("vhosts") = << <<Title("VirtualHosts")>> >> \o WriteBuffered(VhostLines)
      BY DEF Writes, lint_write_vhosts, VhostLines
    <2> QED BY <1>3, <2>1, <2>2, TitledPart DEF Part, VhostBody
  <1>8. /\ Part("classes") = <<Title("Classes")>> \o FlattenSeq(ClassWrites)
        /\ FlattenSeq(ClassWrites) \in Seq(Items)
    <2>1. ClassWrites \in WritesType
      BY <1>4c, <1>5
    <2>2. Writes("classes") = << <<Title("Classes")>> >> \o ClassWrites
      BY DEF Writes, lint_write_classes, ClassWrites
    <2> QED BY <1>3, <2>1, <2>2, TitledPart, WritesFlatten DEF Part
  <1> QED BY <1>3, <1>4, <1>6, <1>7, <1>8, LinesAreIn

\* No title but the given ones.
LEMMA OtherTitles ==
  ASSUME NEW titles, NEW items \in Seq(ItemsUnder(titles)), NEW name, name \notin titles
  PROVE  \A p \in DOMAIN items : items[p].kind = "title" => items[p].name # name
  <1>1. \A item \in ItemsUnder(titles) : item.kind = "title" => item.name # name
    BY DEF ItemsUnder
  <1>2. \A p \in DOMAIN items : items[p] \in ItemsUnder(titles)
    OBVIOUS
  <1> QED BY <1>1, <1>2

\* The lines of a body are no titles.
LEMMA NoTitles ==
  ASSUME NEW lines \in Seq(BufferedLines), NEW titles
  PROVE  /\ lines \in Seq(ItemsUnder(titles))
         /\ lines \in Seq(Items)
         /\ \A p \in DOMAIN lines : lines[p].kind # "title"
  <1>1. \A line \in BufferedLines : line.kind # "title"
    BY DEF BufferedLines
  <1>2. BufferedLines \subseteq ItemsUnder(titles)
    BY <1>1, LinesAreItems DEF ItemsUnder
  <1>3. \A p \in DOMAIN lines : lines[p] \in BufferedLines
    OBVIOUS
  <1> QED BY <1>1, <1>2, <1>3, SeqMonotonic, LinesAreItems

\* The sections of the servers in the file of a successful emission.
LEMMA ServerSections ==
  ASSUME ContentInv, Written
  PROVE  /\ Section("Server Config") = ServerBody
         /\ Section("VirtualHosts") = VhostBody
         /\ ServerLines \in Seq(BufferedLines) /\ VhostLines \in Seq(BufferedLines)
  <1>1. file = Everything /\ IsConfiguration(input)
    BY WrittenFile
  <1> DEFINE before == BeforeServer
             body == ServerBody
             classes == Part("classes")
             ctrls == Part("ctrls")
             between == classes \o ctrls
             vhosts == VhostBody
             server == <<Title("Server Config")>>
             virtual == <<Title("VirtualHosts")>>
             all == AllTitles \ {"VirtualHosts"}
  <1>2. /\ ServerLines \in Seq(BufferedLines) /\ VhostLines \in Seq(BufferedLines)
        /\ Part("server") = server \o body
        /\ Part("vhosts") = virtual \o vhosts
        /\ Title("Server Config") \in Items /\ Title("VirtualHosts") \in Items
    BY <1>1, TitledParts
  <1>3. body \in Seq(BufferedLines) /\ vhosts \in Seq(BufferedLines)
    BY <1>2, SortedBody DEF ServerBody, VhostBody
  <1>4. before \in Seq(ItemsUnder({"header", "Modules"}))
    <2>1. /\ Part("header") \in Seq(ItemsUnder({"header", "Modules"}))
          /\ Part("defines") \in Seq(ItemsUnder({"header", "Modules"}))
          /\ Part("modules") \in Seq(ItemsUnder({"header", "Modules"}))
      BY <1>1, PartTitles, MoreTitles
    <2> QED BY <2>1 DEF BeforeServer
  <1>5. between \in Seq(ItemsUnder({"Classes", "Controls"}))
    <2>1. /\ classes \in Seq(ItemsUnder({"Classes", "Controls"}))
          /\ ctrls \in Seq(ItemsUnder({"Classes", "Controls"}))
      BY <1>1, PartTitles, MoreTitles
    <2> QED BY <2>1
  <1>6. between # <<>> /\ between[1].kind = "title"
    <2> DEFINE title == <<Title("Classes")>>
               rest == FlattenSeq(ClassWrites)
    <2>1. classes = title \o rest /\ rest \in Seq(Items) /\ Title("Classes") \in Items
      BY <1>1, TitledParts
    <2>2. title \in Seq(Items) /\ Len(title) = 1 /\ title[1].kind = "title"
      BY <2>1 DEF Title, Item
    <2>3. ctrls \in Seq(Items)
      BY <1>1, PartTitles, UnderItems
    <2> HIDE DEF title, rest, classes, ctrls
    <2>3a. rest \in Seq(Items) /\ Len(rest) \in Nat
      BY <2>1
    <2>3b. /\ title \o rest \in Seq(Items) /\ Len(title \o rest) = 1 + Len(rest)
           /\ (title \o rest)[1] = title[1]
      BY ONLY <2>2, <2>3a, ConcatProperties
    <2>4. classes \in Seq(Items) /\ Len(classes) # 0 /\ classes[1] = title[1]
      BY <2>1, <2>3b
    <2> QED BY <2>2, <2>3, <2>4
  <1>7. /\ before \in Seq(Items) /\ body \in Seq(Items) /\ vhosts \in Seq(Items)
        /\ between \in Seq(Items) /\ classes \in Seq(Items) /\ ctrls \in Seq(Items)
        /\ server \in Seq(Items) /\ virtual \in Seq(Items)
    <2>1. classes \in Seq(Items) /\ ctrls \in Seq(Items)
      BY <1>1, PartTitles, UnderItems
    <2>2. body \in Seq(Items) /\ vhosts \in Seq(Items)
      BY <1>3, NoTitles
    <2>3. before \in Seq(Items)
      BY <1>4, UnderItems
    <2>4. server \in Seq(Items) /\ virtual \in Seq(Items)
      BY <1>2, OneItem
    <2>5. between \in Seq(Items)
      BY <1>5, UnderItems
    <2> HIDE DEF before, body, classes, ctrls, vhosts, server, virtual, between
    <2> QED BY <2>1, <2>2, <2>3, <2>4, <2>5
  <1>8. file = (((before \o (server \o body)) \o classes) \o ctrls) \o (virtual \o vhosts)
    BY <1>1, <1>2 DEF Everything, BeforeVhosts, BeforeClasses
  <1> HIDE DEF before, body, classes, ctrls, vhosts, server, virtual
  <1>9. /\ file = ((before \o server) \o body) \o (between \o (virtual \o vhosts))
        /\ file = ((((before \o (server \o body)) \o between) \o virtual) \o vhosts) \o <<>>
    <2>1. TwoSections(before, server, body, classes, ctrls, virtual, vhosts)
      BY <1>7, Regrouped
    <2> QED BY <1>8, <2>1, Zenon DEF TwoSections, between
  <1> DEFINE front == (before \o (server \o body)) \o between
             rest == between \o (virtual \o vhosts)
  <1>10. /\ rest \in Seq(ItemsUnder({"Classes", "Controls", "VirtualHosts"}))
         /\ front \in Seq(ItemsUnder({"header", "Modules", "Server Config", "Classes",
                                      "Controls"}))
    <2> DEFINE last == {"Classes", "Controls", "VirtualHosts"}
               firsts == {"header", "Modules", "Server Config", "Classes", "Controls"}
    <2>1. /\ between \in Seq(ItemsUnder(last))
          /\ between \in Seq(ItemsUnder(firsts))
          /\ before \in Seq(ItemsUnder(firsts))
      BY <1>4, <1>5, MoreTitles
    <2>2. Title("VirtualHosts") \in ItemsUnder(last)
          /\ Title("Server Config") \in ItemsUnder(firsts)
      BY <1>2 DEF ItemsUnder, Title, Item
    <2>3. virtual \in Seq(ItemsUnder(last)) /\ server \in Seq(ItemsUnder(firsts))
      BY <2>2, OneItem DEF virtual, server
    <2>4. vhosts \in Seq(ItemsUnder(last)) /\ body \in Seq(ItemsUnder(firsts))
      BY <1>3, NoTitles
    <2> HIDE DEF last, firsts, between
    <2>5. between \o (virtual \o vhosts) \in Seq(ItemsUnder(last))
      BY <2>1, <2>3, <2>4
    <2>6. (before \o (server \o body)) \o between \in Seq(ItemsUnder(firsts))
      BY <2>1, <2>3, <2>4
    <2> QED BY <2>5, <2>6 DEF last, firsts
  <1>11. rest # <<>> /\ rest[1].kind = "title"
    <2>1. virtual \o vhosts \in Seq(Items)
      BY <1>7
    <2> HIDE DEF between
    <2> QED BY <1>6, <1>7, <2>1
  <1>12. rest \in Seq(Items) /\ front \in Seq(Items)
    BY <1>7
  <1> HIDE DEF front, rest, between
  <1>13. Section("Server Config") = body
    <2>1. file = ((before \o <<Title("Server Config")>>) \o body) \o rest
      BY <1>9 DEF rest, server
    <2>2. \A p \in DOMAIN before : before[p].kind = "title"
                                     => before[p].name # "Server Config"
      <3> DEFINE titles == {"header", "Modules"}
      <3>1. before \in Seq(ItemsUnder(titles)) /\ "Server Config" \notin titles
        BY <1>4
      <3> HIDE DEF titles
      <3> QED BY <3>1, OtherTitles
    <2>3. \A p \in DOMAIN rest : rest[p].kind = "title" => rest[p].name # "Server Config"
      <3> DEFINE titles == {"Classes", "Controls", "VirtualHosts"}
      <3>1. rest \in Seq(ItemsUnder(titles)) /\ "Server Config" \notin titles
        BY <1>10
      <3> HIDE DEF titles
      <3> QED BY <3>1, OtherTitles
    <2>4. \A p \in DOMAIN body : body[p].kind # "title"
      BY <1>3, NoTitles
    <2>5. Framed("Server Config", before, body, rest)
      BY <1>2, <1>11, <2>1, <2>2, <2>3, <2>4 DEF Framed
    <2> QED BY <1>7, <1>12, <2>5, SectionIs
  <1>14. Section("VirtualHosts") = vhosts
    <2>1. file = ((front \o <<Title("VirtualHosts")>>) \o vhosts) \o <<>>
      BY <1>9 DEF front, virtual
    <2>2. \A p \in DOMAIN front : front[p].kind = "title" => front[p].name # "VirtualHosts"
      <3> DEFINE titles == {"header", "Modules", "Server Config", "Classes", "Controls"}
      <3>1. front \in Seq(ItemsUnder(titles)) /\ "VirtualHosts" \notin titles
        BY <1>10
      <3> HIDE DEF titles
      <3> QED BY <3>1, OtherTitles
    <2>2a. \A p \in DOMAIN vhosts : vhosts[p].kind # "title"
      BY <1>3, NoTitles
    <2>3. <<>> \in Seq(Items) /\ DOMAIN <<>> = {}
      OBVIOUS
    <2>4. Framed("VirtualHosts", front, vhosts, <<>>)
      BY <1>2, <2>1, <2>2, <2>2a, <2>3 DEF Framed
    <2> QED BY <1>7, <1>12, <2>3, <2>4, SectionIs
  <1> QED BY <1>2, <1>13, <1>14 DEF body, vhosts

\* Whatever the configuration and whatever fails, a file of which the caller is told
\* that it was written has the lines of the main server, and those of the virtual
\* hosts, each in the order of their texts: "Emitting normalized configs"
\* (lint_text_write_buffered_lines and lint_write_config).
THEOREM FileNormalized == Spec => []Normalized
  <1>1. ContentInv => Normalized
    <2> SUFFICES ASSUME ContentInv, Written, NEW s \in {1, 2}
                 PROVE  \A p, q \in DOMAIN Section(SectionOf(s)) : p < q =>
                          ~linecmp(Section(SectionOf(s))[q], Section(SectionOf(s))[p])
      BY Zenon DEF Normalized
    <2>1. /\ Section("Server Config") = ServerBody
          /\ Section("VirtualHosts") = VhostBody
          /\ ServerLines \in Seq(BufferedLines) /\ VhostLines \in Seq(BufferedLines)
      BY ServerSections
    <2>2. CASE s = 1
      <3>1. Section(SectionOf(s)) = FlattenSeq(WriteBuffered(ServerLines))
        BY <2>1, <2>2 DEF SectionOf, ServerBody
      <3> QED BY <2>1, <3>1, SortedBody
    <2>3. CASE s = 2
      <3>1. SectionOf(s) = "VirtualHosts"
        BY <2>3 DEF SectionOf
      <3>2. Section(SectionOf(s)) = FlattenSeq(WriteBuffered(VhostLines))
        BY <2>1, <3>1, Zenon DEF VhostBody
      <3> QED BY <2>1, <3>2, SortedBody
    <2> QED BY <2>2, <2>3
  <1> QED BY <1>1, ContentInvariant, PTL

-----------------------------------------------------------------------------
(* Every line once *)

\* What is once in a sequence is there one time, what is not there no time.
LEMMA TimesOf ==
  ASSUME NEW items, NEW item
  PROVE  /\ Once(item, items) => Times(item, items) = 1
         /\ Never(item, items) => Times(item, items) = 0
  <1> DEFINE at == {p \in DOMAIN items : items[p] = item}
  <1>1. ASSUME Once(item, items) PROVE Times(item, items) = 1
    <2>1. PICK p \in DOMAIN items : \A q \in DOMAIN items : items[q] = item <=> q = p
      BY <1>1 DEF Once
    <2>2. at = {p}
      BY <2>1
    <2>3. Cardinality({p}) = 1
      BY FS_Singleton
    <2> QED BY <2>2, <2>3 DEF Times
  <1>2. ASSUME Never(item, items) PROVE Times(item, items) = 0
    <2>1. at = {}
      BY <1>2 DEF Never
    <2> QED BY <2>1, FS_EmptySet DEF Times
  <1> QED BY <1>1, <1>2

\* Sorting the lines of a buffer loses none and doubles none.
LEMMA SortedOnce ==
  ASSUME NEW buffered \in Seq(BufferedLines), NEW item
  PROVE  /\ Once(item, buffered) => Once(item, FlattenSeq(WriteBuffered(buffered)))
         /\ Never(item, buffered) <=> Never(item, FlattenSeq(WriteBuffered(buffered)))
  <1> DEFINE n == Len(buffered)
  <1>1. PICK perm \in [1 .. n -> 1 .. n] :
          /\ WriteBuffered(buffered) = [k \in 1 .. n |-> <<buffered[perm[k]]>>]
          /\ \A i \in 1 .. n : \E k \in 1 .. n : perm[k] = i
          /\ \A k, l \in 1 .. n : perm[k] = perm[l] => k = l
    BY SortedLines
  <1> DEFINE sorted == [k \in 1 .. n |-> buffered[perm[k]]]
  <1>2. n \in Nat /\ DOMAIN buffered = 1 .. n
        /\ \A k \in 1 .. n : perm[k] \in 1 .. n /\ buffered[perm[k]] \in BufferedLines
    <2>1. \A k \in 1 .. n : perm[k] \in 1 .. n
      OBVIOUS
    <2> QED BY <2>1
  <1>3. sorted \in Seq(BufferedLines) /\ DOMAIN sorted = 1 .. n
    BY <1>2
  <1>4. WriteBuffered(buffered) = [k \in DOMAIN sorted |-> <<sorted[k]>>]
    BY <1>1, <1>3
  <1>5. /\ Once(item, buffered) => Once(item, sorted)
        /\ Never(item, buffered) <=> Never(item, sorted)
    <2>1. \A k \in 1 .. n : sorted[k] = buffered[perm[k]]
      OBVIOUS
    <2> HIDE DEF n, sorted
    <2>2. /\ n \in Nat /\ DOMAIN buffered = 1 .. n /\ DOMAIN sorted = 1 .. n
          /\ perm \in [1 .. n -> 1 .. n]
      BY <1>2, <1>3
    <2>3. /\ \A i \in 1 .. n : \E k \in 1 .. n : perm[k] = i
          /\ \A k, l \in 1 .. n : perm[k] = perm[l] => k = l
      BY <1>1
    <2>4. Once(item, buffered) => Once(item, sorted)
      BY ONLY <2>1, <2>2, <2>3, OnceRearranged
    <2>5. \A k \in 1 .. n : perm[k] \in 1 .. n
      BY ONLY <2>2
    <2>6. Never(item, buffered) => Never(item, sorted)
      BY ONLY <2>1, <2>2, <2>5 DEF Never
    <2>7. Never(item, sorted) => Never(item, buffered)
      BY ONLY <2>1, <2>2, <2>3, <2>5 DEF Never
    <2> QED BY <2>4, <2>6, <2>7
  <1> HIDE DEF sorted, n
  <1>6. FlattenSeq(WriteBuffered(buffered)) = sorted
    BY <1>3, <1>4, FlattenSingles
  <1> QED BY <1>5, <1>6

\* The first line of a directive is written, and nothing for a directive that has
\* no line.
LEMMA FirstLineIs ==
  ASSUME IsConfiguration(input), NEW directive, NEW depth
  PROVE  \/ /\ FirstLine(directive, depth) = <<>>
            /\ \A i \in DOMAIN input.lines : input.lines[i].directive # directive
         \/ \E i \in DOMAIN input.lines :
              /\ FirstLine(directive, depth) = <<Line(directive, input.lines[i].arg, depth)>>
              /\ input.lines[i].directive = directive
              /\ \A j \in 1 .. i - 1 : input.lines[j].directive # directive
  <1> DEFINE lines == input.lines
             directives == [j \in DOMAIN lines |-> lines[j].directive]
             i == lint_find_parsed_line(directives, directive, NoLine)
             L == [directive : DOMAIN Rank, arg : Nat]
  <1>1. lines \in Seq(L)
    BY DEF IsConfiguration
  <1>1a. \A l \in L : l.directive \in DOMAIN Rank
    OBVIOUS
  <1>2. FirstLine(directive, depth)
          = IF i = NoLine THEN <<>> ELSE <<Line(directive, lines[i].arg, depth)>>
    BY DEF FirstLine
  <1> HIDE DEF lines, L
  <1>1b. DOMAIN lines = 1 .. Len(lines) /\ Len(lines) \in Nat
    BY <1>1, LenProperties
  <1>1c. \A j \in 1 .. Len(lines) : lines[j] \in L
    BY <1>1, ElementOfSeq
  <1>3. directives \in Seq(DOMAIN Rank) /\ Len(directives) = Len(lines)
    BY <1>1a, <1>1b, <1>1c
  <1>3a. \A j \in 1 .. Len(lines) : directives[j] = lines[j].directive
    BY <1>1b
  <1> HIDE DEF directives
  <1>4. \/ /\ i = NoLine
           /\ \A j \in 1 .. Len(directives) : directives[j] # directive
        \/ /\ i \in 1 .. Len(directives)
           /\ directives[i] = directive
           /\ \A j \in 1 .. i - 1 : directives[j] # directive
    <2>1. SearchFrom(NoLine) = 1 /\ NoLine \in Nat
      BY DEF SearchFrom, NoLine
    <2> QED BY <1>3, <2>1, FindsFirstLine
  <1> HIDE DEF i
  <1>5. CASE i = NoLine
    <2>1. \A j \in DOMAIN lines : lines[j].directive # directive
      <3>1. ~ (i \in 1 .. Len(directives))
        BY <1>5 DEF NoLine
      <3> QED BY <1>1b, <1>3, <1>3a, <1>4, <3>1
    <2> QED BY <1>2, <1>5, <2>1 DEF lines
  <1>6. CASE i # NoLine
    <2>1. i \in DOMAIN lines /\ lines[i].directive = directive
      BY <1>1b, <1>3, <1>3a, <1>4, <1>6
    <2>2. \A j \in 1 .. i - 1 : lines[j].directive # directive
      <3>1. \A j \in 1 .. i - 1 : j \in 1 .. Len(lines)
        BY <1>1b, <2>1
      <3> QED BY <1>3a, <1>4, <1>6, <3>1
    <2> QED BY <1>2, <1>6, <2>1, <2>2 DEF lines
  <1> QED BY <1>5, <1>6

\* A config_rec of a server, and whether its line is written for it.
Rec(s, n) == input.servers[s][n]
WritesLine(r) == HasDirective(r) /\ r.from # 0

\* The configurations of the theorem.
Tidy(c) == IsConfiguration(c) /\ OneLineEach(c) /\ MadeOfItsLines(c)

\* What a line is made of.
LEMMA LineFields ==
  ASSUME NEW name, NEW arg, NEW depth
  PROVE  /\ Line(name, arg, depth).name = name
         /\ Line(name, arg, depth).arg = arg
         /\ Line(name, arg, depth).depth = depth
         /\ Line(name, arg, depth).kind = "line"
  BY DEF Line, Item

\* The types of the recorded lines.
LEMMA RecordedLines ==
  ASSUME IsConfiguration(input), NEW i \in DOMAIN input.lines
  PROVE  i \in Nat \ {0} /\ input.lines[i].directive \in DOMAIN Rank /\ input.lines[i].arg \in Nat
  <1> DEFINE lines == input.lines
             L == [directive : DOMAIN Rank, arg : Nat]
  <1>1. lines \in Seq(L)
    BY DEF IsConfiguration
  <1>2. \A l \in L : l.directive \in DOMAIN Rank /\ l.arg \in Nat
    OBVIOUS
  <1> HIDE DEF L, lines
  <1>3. i \in DOMAIN lines
    BY DEF lines
  <1>4. lines[i] \in L /\ i \in Nat \ {0}
    BY <1>1, <1>3
  <1> QED BY <1>2, <1>4 DEF lines

\* One config_rec of a line has its line written; nothing is written for the
\* others.
LEMMA RecordWritten ==
  ASSUME Tidy(input), NEW s \in DOMAIN input.servers, NEW n \in DOMAIN input.servers[s]
  PROVE  /\ WritesLine(Rec(s, n)) =>
              /\ lint_add_config_rec(Rec(s, n)) = <<LineOf(Rec(s, n))>>
              /\ LineOf(Rec(s, n)) \in BufferedLines
              /\ Rec(s, n).from \in DOMAIN input.lines
              /\ LineOf(Rec(s, n)).name = DirectiveOf(Rec(s, n))
              /\ LineOf(Rec(s, n)).arg # 0
              /\ DirectiveOf(Rec(s, n)) \notin LookedUp
         /\ ~WritesLine(Rec(s, n)) => lint_add_config_rec(Rec(s, n)) = <<>>
  <1> DEFINE r == Rec(s, n)
             d == DirectiveOf(r)
  <1>1. /\ IsConfiguration(input) /\ r.depth \in Nat
        /\ \A i \in DOMAIN input.lines : input.lines[i].arg # 0
        /\ r.from # 0 /\ r.config_type = "CONF_PARAM" => r.from \in DOMAIN input.lines
        /\ HasDirective(r) =>
             \A i \in DOMAIN input.lines : input.lines[i].directive = d <=> i = r.from
        /\ HasDirective(r) /\ r.from # 0 => d \notin LookedUp
    BY DEF Tidy, MadeOfItsLines, IsConfiguration, Rec
  <1>2. lint_add_config_rec(r) = IF HasDirective(r) THEN FirstLine(d, r.depth) ELSE <<>>
    BY DEF lint_add_config_rec, HasDirective
  <1>3. HasDirective(r) => r.config_type = "CONF_PARAM"
    BY DEF HasDirective
  <1>4. LineOf(r) = Line(input.lines[r.from].directive, input.lines[r.from].arg, r.depth)
    BY DEF LineOf
  <1> HIDE DEF r, d
  <1>5. ASSUME WritesLine(r)
        PROVE  /\ lint_add_config_rec(r) = <<LineOf(r)>>
               /\ LineOf(r) \in BufferedLines
               /\ r.from \in DOMAIN input.lines
               /\ LineOf(r).name = d
               /\ LineOf(r).arg # 0
               /\ d \notin LookedUp
    <2>1. /\ r.from \in DOMAIN input.lines /\ d \notin LookedUp
          /\ input.lines[r.from].directive = d
      BY <1>1, <1>3, <1>5 DEF WritesLine
    <2>2. PICK i \in DOMAIN input.lines :
            /\ FirstLine(d, r.depth) = <<Line(d, input.lines[i].arg, r.depth)>>
            /\ input.lines[i].directive = d
      BY <1>1, <2>1, FirstLineIs
    <2>3. i = r.from
      BY <1>1, <1>5, <2>2 DEF WritesLine
    <2>4. lint_add_config_rec(r) = <<LineOf(r)>>
      BY <1>2, <1>4, <1>5, <2>1, <2>2, <2>3 DEF WritesLine
    <2>5. LineOf(r).name = d /\ LineOf(r).arg # 0
      BY <1>1, <1>4, <2>1, LineFields
    <2>6. d \in DOMAIN Rank /\ input.lines[r.from].arg \in Nat
      BY <1>1, <2>1, RecordedLines
    <2>7. LineOf(r) \in BufferedLines
      BY <1>1, <1>4, <2>1, <2>6 DEF Line, Item, BufferedLines
    <2> QED BY <2>1, <2>4, <2>5, <2>7
  <1>6. ASSUME ~WritesLine(r) PROVE lint_add_config_rec(r) = <<>>
    <2>1. CASE ~HasDirective(r)
      BY <1>2, <2>1
    <2>2. CASE HasDirective(r)
      <3>1. r.from = 0
        BY <1>6, <2>2 DEF WritesLine
      <3>2. \A i \in DOMAIN input.lines : input.lines[i].directive # d
        BY <1>1, <2>2, <3>1, RecordedLines
      <3> QED BY <1>1, <1>2, <2>2, <3>2, FirstLineIs
    <2> QED BY <2>1, <2>2
  <1> QED BY <1>5, <1>6 DEF r, d

\* The lines written for two config_recs are not the same.
LEMMA OneRecordEach ==
  ASSUME Tidy(input),
         NEW s \in DOMAIN input.servers, NEW n \in DOMAIN input.servers[s],
         NEW t \in DOMAIN input.servers, NEW m \in DOMAIN input.servers[t],
         WritesLine(Rec(s, n)), WritesLine(Rec(t, m)),
         LineOf(Rec(s, n)) = LineOf(Rec(t, m))
  PROVE  s = t /\ n = m
  <1> DEFINE r == Rec(s, n)
             q == Rec(t, m)
  <1>1. r.from \in DOMAIN input.lines /\ q.from \in DOMAIN input.lines
    BY RecordWritten
  <1>2. input.lines[r.from].directive = input.lines[q.from].directive
    <2>1. /\ LineOf(r).name = input.lines[r.from].directive
          /\ LineOf(q).name = input.lines[q.from].directive
      BY LineFields DEF LineOf
    <2> QED BY <2>1
  <1>3. r.from = q.from
    BY <1>1, <1>2 DEF Tidy, OneLineEach
  <1>4. \A u \in DOMAIN input.servers : \A k \in DOMAIN input.servers[u] :
           HasDirective(Rec(u, k)) /\ Rec(u, k).from = r.from => u = s /\ k = n
    BY DEF Tidy, MadeOfItsLines, Rec, WritesLine
  <1> QED BY <1>3, <1>4 DEF WritesLine

\* What is added for the config_recs of a server: the records, as a sequence of
\* sequences of lines.
LEMMA ServerRecords ==
  ASSUME Tidy(input), NEW s \in DOMAIN input.servers
  PROVE  /\ [n \in DOMAIN input.servers[s] |-> lint_add_config_rec(Rec(s, n))]
              \in Seq(Seq(BufferedLines))
         /\ lint_add_config_set(input.servers[s])
              = FlattenSeq([n \in DOMAIN input.servers[s] |-> lint_add_config_rec(Rec(s, n))])
         /\ lint_add_config_set(input.servers[s]) \in Seq(BufferedLines)
  <1> DEFINE conf == input.servers[s]
             recs == [n \in DOMAIN conf |-> lint_add_config_rec(Rec(s, n))]
  <1>1. conf \in Seq(ToSet(conf))
    BY DEF IsConfiguration, IsSeq, Tidy
  <1>2. ASSUME NEW n \in DOMAIN conf
        PROVE  lint_add_config_rec(Rec(s, n)) \in Seq(BufferedLines)
    <2>1. CASE WritesLine(Rec(s, n))
      <3>1. lint_add_config_rec(Rec(s, n)) = <<LineOf(Rec(s, n))>>
            /\ LineOf(Rec(s, n)) \in BufferedLines
        BY <2>1, RecordWritten
      <3> QED BY <3>1
    <2>2. CASE ~WritesLine(Rec(s, n))
      <3>1. lint_add_config_rec(Rec(s, n)) = <<>>
        BY <2>2, RecordWritten
      <3> QED BY <3>1
    <2> QED BY <2>1, <2>2
  <1>3. lint_add_config_set(conf) = FlattenSeq(recs)
    BY DEF lint_add_config_set, Rec
  <1> HIDE DEF conf
  <1>4. DOMAIN conf = 1 .. Len(conf) /\ Len(conf) \in Nat
    BY <1>1
  <1>5. recs \in Seq(Seq(BufferedLines))
    BY <1>2, <1>4
  <1> HIDE DEF recs
  <1>6. FlattenSeq(recs) \in Seq(BufferedLines)
    BY <1>5, FlattenSeqType
  <1> QED BY <1>3, <1>5, <1>6 DEF recs, conf

\* A line that is written for no config_rec of a server is not among what is
\* added for them.
LEMMA ServerNever ==
  ASSUME Tidy(input), NEW s \in DOMAIN input.servers, NEW item,
         \A n \in DOMAIN input.servers[s] : WritesLine(Rec(s, n)) => LineOf(Rec(s, n)) # item
  PROVE  Never(item, lint_add_config_set(input.servers[s]))
  <1> DEFINE recs == [n \in DOMAIN input.servers[s] |-> lint_add_config_rec(Rec(s, n))]
  <1>1. recs \in Seq(Seq(BufferedLines))
        /\ lint_add_config_set(input.servers[s]) = FlattenSeq(recs)
    BY ServerRecords
  <1>2. ASSUME NEW n \in DOMAIN input.servers[s]
        PROVE  Never(item, lint_add_config_rec(Rec(s, n)))
    <2>1. CASE WritesLine(Rec(s, n))
      <3>1. lint_add_config_rec(Rec(s, n)) = <<LineOf(Rec(s, n))>> /\ LineOf(Rec(s, n)) # item
        BY <2>1, RecordWritten
      <3> QED BY <3>1 DEF Never
    <2>2. CASE ~WritesLine(Rec(s, n))
      <3>1. lint_add_config_rec(Rec(s, n)) = <<>>
        BY <2>2, RecordWritten
      <3> QED BY <3>1 DEF Never
    <2> QED BY <2>1, <2>2
  <1>3. DOMAIN recs = DOMAIN input.servers[s]
        /\ \A n \in DOMAIN recs : recs[n] = lint_add_config_rec(Rec(s, n))
    OBVIOUS
  <1> HIDE DEF recs
  <1>4. \A n \in DOMAIN recs : Never(item, recs[n])
    BY <1>2, <1>3
  <1> QED BY <1>1, <1>4, FlattenNever

\* The line written for a config_rec is once among what is added for the
\* config_recs of its server, and not among what is for those of another.
LEMMA ServerOnce ==
  ASSUME Tidy(input),
         NEW s \in DOMAIN input.servers, NEW n \in DOMAIN input.servers[s],
         WritesLine(Rec(s, n))
  PROVE  /\ Once(LineOf(Rec(s, n)), lint_add_config_set(input.servers[s]))
         /\ \A t \in DOMAIN input.servers \ {s} :
              Never(LineOf(Rec(s, n)), lint_add_config_set(input.servers[t]))
  <1> DEFINE item == LineOf(Rec(s, n))
             recs == [m \in DOMAIN input.servers[s] |-> lint_add_config_rec(Rec(s, m))]
  <1>1. recs \in Seq(Seq(BufferedLines))
        /\ lint_add_config_set(input.servers[s]) = FlattenSeq(recs)
    BY ServerRecords
  <1>2. DOMAIN recs = DOMAIN input.servers[s]
        /\ \A m \in DOMAIN recs : recs[m] = lint_add_config_rec(Rec(s, m))
    OBVIOUS
  <1>3. Once(item, recs[n])
    <2>1. recs[n] = <<item>>
      BY <1>2, RecordWritten
    <2>2. DOMAIN <<item>> = {1} /\ <<item>>[1] = item
      OBVIOUS
    <2> HIDE DEF recs, item
    <2> QED BY <2>1, <2>2 DEF Once
  <1>4. ASSUME NEW m \in DOMAIN recs, m # n PROVE Never(item, recs[m])
    <2>0. m \in DOMAIN input.servers[s]
      BY <1>2
    <2>1. CASE WritesLine(Rec(s, m))
      <3>1. recs[m] = <<LineOf(Rec(s, m))>>
        BY <1>2, <2>0, <2>1, RecordWritten
      <3>2. LineOf(Rec(s, m)) # item
        BY <1>4, <2>0, <2>1, OneRecordEach
      <3> HIDE DEF recs, item
      <3> QED BY <3>1, <3>2 DEF Never
    <2>2. CASE ~WritesLine(Rec(s, m))
      <3>1. recs[m] = <<>>
        BY <1>2, <2>0, <2>2, RecordWritten
      <3> HIDE DEF recs, item
      <3> QED BY <3>1 DEF Never
    <2> QED BY <2>1, <2>2
  <1>5. ASSUME NEW t \in DOMAIN input.servers \ {s}
        PROVE  Never(item, lint_add_config_set(input.servers[t]))
    <2>1. \A m \in DOMAIN input.servers[t] : WritesLine(Rec(t, m)) => LineOf(Rec(t, m)) # item
      BY OneRecordEach
    <2> HIDE DEF item
    <2> QED BY <2>1, ServerNever
  <1> HIDE DEF recs, item
  <1>6. n \in DOMAIN recs
    BY <1>2
  <1>7. Once(item, FlattenSeq(recs))
    BY <1>1, <1>3, <1>4, <1>6, FlattenOnce
  <1> QED BY <1>1, <1>5, <1>7 DEF item

\* The same of the buffer of the other servers.
LEMMA VhostOnce ==
  ASSUME Tidy(input), NEW item
  PROVE  /\ (\A t \in DOMAIN input.servers \ {1} :
               Never(item, lint_add_config_set(input.servers[t])))
              => Never(item, VhostLines)
         /\ \A s \in DOMAIN input.servers \ {1} :
              /\ Once(item, lint_add_config_set(input.servers[s]))
              /\ \A t \in DOMAIN input.servers \ {s} :
                   Never(item, lint_add_config_set(input.servers[t]))
              => Once(item, VhostLines)
  <1> DEFINE n == Len(input.servers) - 1
             confs == [s \in 1 .. n |-> lint_add_config_set(input.servers[s + 1])]
  <1>1. n \in Nat /\ DOMAIN input.servers = 1 .. n + 1
    BY DEF IsConfiguration, IsSeq, Tidy
  <1>2. \A s \in 1 .. n : s + 1 \in DOMAIN input.servers \ {1}
    BY <1>1
  <1>2a. \A s \in DOMAIN input.servers \ {1} : s - 1 \in 1 .. n /\ (s - 1) + 1 = s
    BY <1>1
  <1>3. DOMAIN confs = 1 .. n
        /\ \A s \in 1 .. n : confs[s] = lint_add_config_set(input.servers[s + 1])
    OBVIOUS
  <1>4. VhostLines = FlattenSeq(confs)
    BY DEF VhostLines
  <1>5. confs \in Seq(Seq(BufferedLines))
    <2> HIDE DEF n
    <2>1. \A s \in 1 .. n : lint_add_config_set(input.servers[s + 1]) \in Seq(BufferedLines)
      BY <1>2, ServerRecords
    <2> QED BY <1>1, <2>1
  <1> HIDE DEF n, confs
  <1>6. ASSUME \A t \in DOMAIN input.servers \ {1} :
                 Never(item, lint_add_config_set(input.servers[t]))
        PROVE  Never(item, VhostLines)
    <2>1. \A s \in DOMAIN confs : Never(item, confs[s])
      BY <1>2, <1>3, <1>6
    <2> QED BY <1>4, <1>5, <2>1, FlattenNever
  <1>7. ASSUME NEW s \in DOMAIN input.servers \ {1},
               Once(item, lint_add_config_set(input.servers[s])),
               \A t \in DOMAIN input.servers \ {s} :
                 Never(item, lint_add_config_set(input.servers[t]))
        PROVE  Once(item, VhostLines)
    <2> DEFINE k == s - 1
    <2>1. k \in DOMAIN confs /\ k + 1 = s
      BY <1>2a, <1>3
    <2> HIDE DEF k
    <2>2. Once(item, confs[k])
      BY <1>3, <1>7, <2>1
    <2>3. ASSUME NEW i \in DOMAIN confs, i # k PROVE Never(item, confs[i])
      <3>1. i + 1 # s
        BY <1>1, <1>3, <2>1, <2>3
      <3> QED BY <1>2, <1>3, <1>7, <3>1
    <2> QED BY <1>4, <1>5, <2>1, <2>2, <2>3, FlattenOnce
  <1> QED BY <1>6, <1>7

\* The settings: eighteen different names.
LEMMA SettingsNamed ==
  /\ DOMAIN SettingNames = 1 .. 18
  /\ \A i, j \in 1 .. 18 : SettingNames[i] = SettingNames[j] => i = j
  /\ \A d \in LookedUp : \E i \in 1 .. 18 : SettingNames[i] = d
  <1>1. DOMAIN SettingNames = 1 .. 18
    BY DEF SettingNames
  <1>2. \A i, j \in 1 .. 18 : SettingNames[i] = SettingNames[j] => i = j
    BY DEF SettingNames
  <1>3. /\ SettingNames[2] = "MaxConnectionRate" /\ SettingNames[12] = "SocketOptions"
        /\ SettingNames[14] = "TraceLog" /\ SettingNames[15] = "Trace"
        /\ SettingNames[16] = "TraceOptions"
    BY DEF SettingNames
  <1>4. \A d \in LookedUp : \E i \in 1 .. 18 : SettingNames[i] = d
    BY <1>3 DEF LookedUp
  <1> QED BY <1>1, <1>2, <1>4

\* A setting of the main server is one line of its name at most: the recorded one
\* for those that are looked up, and one with no recorded text for the others.
LEMMA SettingIs ==
  ASSUME IsConfiguration(input), NEW name \in ToSet(SettingNames)
  PROVE  \/ Setting(name) = <<>>
         \/ \E arg \in Nat :
              /\ Setting(name) = <<Line(name, arg, 0)>>
              /\ Line(name, arg, 0) \in BufferedLines
              /\ name \notin LookedUp => arg = 0
  <1>1. name \in DOMAIN Rank
    BY LintWriterAssumption
  <1>2. \A arg \in Nat : Line(name, arg, 0) \in BufferedLines
    BY <1>1 DEF Line, Item, BufferedLines
  <1>3. CASE name \in LookedUp
    <2>1. Setting(name) = FirstLine(name, 0)
      BY <1>3 DEF Setting
    <2>2. \/ FirstLine(name, 0) = <<>>
          \/ \E i \in DOMAIN input.lines :
               FirstLine(name, 0) = <<Line(name, input.lines[i].arg, 0)>>
      BY FirstLineIs
    <2> QED BY <1>2, <1>3, <2>1, <2>2, RecordedLines
  <1>4. CASE name \notin LookedUp
    BY <1>2, <1>4 DEF Setting
  <1> QED BY <1>3, <1>4

\* The settings one by one.
SettingLines == [i \in 1 .. 18 |-> Setting(SettingNames[i])]

\* They are sequences of lines, of which Settings is all.
LEMMA SettingLinesType ==
  ASSUME IsConfiguration(input)
  PROVE  /\ SettingLines \in Seq(Seq(BufferedLines))
         /\ Settings = FlattenSeq(SettingLines)
         /\ Settings \in Seq(BufferedLines)
         /\ DOMAIN SettingLines = 1 .. 18
         /\ \A i \in 1 .. 18 : /\ SettingLines[i] = Setting(SettingNames[i])
                               /\ SettingNames[i] \in ToSet(SettingNames)
  <1>1. DOMAIN SettingNames = 1 .. 18
    BY SettingsNamed
  <1>2. \A i \in 1 .. 18 : SettingNames[i] \in ToSet(SettingNames)
    BY <1>1 DEF ToSet
  <1>3. ASSUME NEW i \in 1 .. 18 PROVE Setting(SettingNames[i]) \in Seq(BufferedLines)
    <2> DEFINE name == SettingNames[i]
    <2>1. name \in ToSet(SettingNames)
      BY <1>2
    <2> HIDE DEF name
    <2>2. Setting(name) = <<>> \/ \E line \in BufferedLines : Setting(name) = <<line>>
      BY <2>1, SettingIs
    <2>3. \A line \in BufferedLines : <<line>> \in Seq(BufferedLines)
      OBVIOUS
    <2>4. Setting(name) \in Seq(BufferedLines)
      <3>1. <<>> \in Seq(BufferedLines)
        OBVIOUS
      <3> QED BY <2>2, <2>3, <3>1, Zenon
    <2> QED BY <2>4 DEF name
  <1>4. SettingLines \in Seq(Seq(BufferedLines))
    BY <1>3 DEF SettingLines
  <1>5. Settings = FlattenSeq(SettingLines)
    BY <1>1 DEF Settings, SettingLines
  <1>6. FlattenSeq(SettingLines) \in Seq(BufferedLines)
    BY <1>4, FlattenSeqType
  <1>7. DOMAIN SettingLines = 1 .. 18
        /\ \A i \in 1 .. 18 : SettingLines[i] = Setting(SettingNames[i])
    BY DEF SettingLines
  <1> QED BY <1>2, <1>4, <1>5, <1>6, <1>7

\* What has not the name of a setting, or a recorded text and not the name of one
\* that is looked up, is not among the settings.
LEMMA SettingsNever ==
  ASSUME IsConfiguration(input), NEW item,
         \/ item.name \notin ToSet(SettingNames)
         \/ item.arg # 0 /\ item.name \notin LookedUp
  PROVE  Never(item, Settings)
  <1>1. ASSUME NEW i \in DOMAIN SettingLines PROVE Never(item, SettingLines[i])
    <2> DEFINE name == SettingNames[i]
    <2>1. name \in ToSet(SettingNames) /\ SettingLines[i] = Setting(name)
      BY SettingLinesType
    <2> HIDE DEF name
    <2>2. CASE Setting(name) = <<>>
      BY <2>1, <2>2 DEF Never
    <2>3. CASE Setting(name) # <<>>
      <3>1. PICK arg \in Nat : /\ Setting(name) = <<Line(name, arg, 0)>>
                               /\ name \notin LookedUp => arg = 0
        BY <2>1, <2>3, SettingIs
      <3>2. Line(name, arg, 0) # item
        BY <2>1, <3>1, LineFields
      <3> QED BY <2>1, <3>1, <3>2 DEF Never
    <2> QED BY <2>2, <2>3
  <1> QED BY <1>1, SettingLinesType, FlattenNever

\* The line of a directive that is looked up is once among the settings.
LEMMA SettingsOnce ==
  ASSUME Tidy(input), NEW i \in DOMAIN input.lines, input.lines[i].directive \in LookedUp
  PROVE  Once(Line(input.lines[i].directive, input.lines[i].arg, 0), Settings)
  <1> DEFINE d == input.lines[i].directive
             item == Line(d, input.lines[i].arg, 0)
  <1>0. IsConfiguration(input) /\ input.lines[i].arg # 0
    BY DEF Tidy, MadeOfItsLines
  <1>1. d \in LookedUp /\ item.name = d /\ item.arg # 0
    BY <1>0, LineFields
  <1>2. PICK k \in 1 .. 18 : SettingNames[k] = d
    BY <1>1, SettingsNamed
  <1>3. Once(item, SettingLines[k])
    <2>1. SettingLines[k] = FirstLine(d, 0)
      BY <1>0, <1>1, <1>2, SettingLinesType DEF Setting
    <2>2. PICK j \in DOMAIN input.lines :
            /\ FirstLine(d, 0) = <<Line(d, input.lines[j].arg, 0)>>
            /\ input.lines[j].directive = d
      BY <1>0, FirstLineIs
    <2>3. j = i
      BY <2>2 DEF Tidy, OneLineEach
    <2>4. SettingLines[k] = <<item>>
      BY <2>1, <2>2, <2>3
    <2>5. DOMAIN <<item>> = {1} /\ <<item>>[1] = item
      OBVIOUS
    <2> HIDE DEF item
    <2> QED BY <2>4, <2>5 DEF Once
  <1> HIDE DEF d, item
  <1>4. ASSUME NEW j \in 1 .. 18, j # k PROVE Never(item, SettingLines[j])
    <2> DEFINE name == SettingNames[j]
    <2>1. name \in ToSet(SettingNames) /\ SettingLines[j] = Setting(name) /\ name # d
      BY <1>0, <1>2, <1>4, SettingLinesType, SettingsNamed
    <2> HIDE DEF name
    <2>2. CASE Setting(name) = <<>>
      BY <2>1, <2>2 DEF Never
    <2>3. CASE Setting(name) # <<>>
      <3>1. PICK arg \in Nat : Setting(name) = <<Line(name, arg, 0)>>
        BY <1>0, <2>1, <2>3, SettingIs
      <3>2. Line(name, arg, 0) # item
        BY <1>1, <2>1, LineFields
      <3> QED BY <2>1, <3>1, <3>2 DEF Never
    <2> QED BY <2>2, <2>3
  <1>5. /\ DOMAIN SettingLines = 1 .. 18 /\ SettingLines \in Seq(Seq(BufferedLines))
        /\ Settings = FlattenSeq(SettingLines)
    BY <1>0, SettingLinesType
  <1>6. Once(item, FlattenSeq(SettingLines))
    BY <1>3, <1>4, <1>5, FlattenOnce
  <1> QED BY <1>5, <1>6 DEF item, d

\* What is once, or not at all, among the settings and what is added for the main
\* server, or among what is for the others, is so in their sections.
LEMMA SectionOnce ==
  ASSUME Tidy(input), ContentInv, Written, NEW item
  PROVE  /\ LET main == lint_add_config_set(input.servers[1])
            IN  /\ Once(item, Settings) /\ Never(item, main) =>
                     Once(item, Section("Server Config"))
                /\ Never(item, Settings) /\ Once(item, main) =>
                     Once(item, Section("Server Config"))
                /\ Never(item, Settings) /\ Never(item, main) =>
                     Never(item, Section("Server Config"))
         /\ Once(item, VhostLines) => Once(item, Section("VirtualHosts"))
         /\ Never(item, VhostLines) => Never(item, Section("VirtualHosts"))
  <1> DEFINE main == lint_add_config_set(input.servers[1])
  <1>1. /\ Section("Server Config") = FlattenSeq(WriteBuffered(ServerLines))
        /\ Section("VirtualHosts") = FlattenSeq(WriteBuffered(VhostLines))
        /\ ServerLines \in Seq(BufferedLines) /\ VhostLines \in Seq(BufferedLines)
    BY ServerSections DEF ServerBody, VhostBody
  <1>2. ServerLines = Settings \o main
    BY DEF ServerLines
  <1>3. Settings \in Seq(BufferedLines) /\ main \in Seq(BufferedLines)
    <2>1. 1 \in DOMAIN input.servers /\ IsConfiguration(input)
      BY DEF Tidy, IsConfiguration, IsSeq
    <2> QED BY <2>1, SettingLinesType, ServerRecords
  <1> HIDE DEF main
  <1>4. /\ Once(item, Settings) /\ Never(item, main) => Once(item, ServerLines)
        /\ Never(item, Settings) /\ Once(item, main) => Once(item, ServerLines)
        /\ Never(item, Settings) /\ Never(item, main) => Never(item, ServerLines)
    BY <1>2, <1>3, OnceConcat
  <1>5. /\ Once(item, ServerLines) => Once(item, Section("Server Config"))
        /\ Never(item, ServerLines) => Never(item, Section("Server Config"))
        /\ Once(item, VhostLines) => Once(item, Section("VirtualHosts"))
        /\ Never(item, VhostLines) => Never(item, Section("VirtualHosts"))
    <2>1. \A buffered \in Seq(BufferedLines) :
            /\ Once(item, buffered) => Once(item, FlattenSeq(WriteBuffered(buffered)))
            /\ Never(item, buffered) => Never(item, FlattenSeq(WriteBuffered(buffered)))
      BY SortedOnce
    <2> QED BY <1>1, <2>1
  <1> QED BY <1>4, <1>5 DEF main

\* Whatever the configuration, when no directive is used twice and however many
\* config_recs the handlers make of a line, every line is written once, in the
\* section of its own server and not in the other; so is every line that is looked
\* up; and a section has nothing else but the settings of the main server
\* (lint_add_config_set, lint_cop_get_directive, lint_find_parsed_line).
THEOREM LinesEmittedOnce == Spec => []EmittedOnce
  <1>1. ContentInv /\ Given => EmittedOnce
    <2> SUFFICES ASSUME ContentInv, Given, Written, OneLineEach(input)
                 PROVE  EmittedOnce
      BY DEF EmittedOnce
    <2>1. Tidy(input) /\ IsConfiguration(input)
      BY LintWriterAssumption, LintWriterHostAssumption DEF Given, Tidy
    <2>1a. 1 \in DOMAIN input.servers
      BY <2>1 DEF IsConfiguration, IsSeq
    <2>2. ASSUME NEW s \in DOMAIN input.servers, NEW n \in DOMAIN input.servers[s],
                 Rec(s, n).from # 0, Rec(s, n).config_type = "CONF_PARAM"
          PROVE  /\ Times(LineOf(Rec(s, n)), Section(SectionOf(s))) = 1
                 /\ Times(LineOf(Rec(s, n)), Section(OtherThan(s))) = 0
      <3>1. PICK m \in DOMAIN input.servers[s] :
              /\ HasDirective(Rec(s, m))
              /\ Rec(s, m).from = Rec(s, n).from
              /\ Rec(s, m).depth = Rec(s, n).depth
        BY <2>1, <2>2 DEF Tidy, MadeOfItsLines, Rec
      <3> DEFINE item == LineOf(Rec(s, m))
      <3>2. WritesLine(Rec(s, m)) /\ item = LineOf(Rec(s, n))
        BY <2>2, <3>1 DEF WritesLine, LineOf
      <3>3. /\ Once(item, lint_add_config_set(input.servers[s]))
            /\ \A t \in DOMAIN input.servers \ {s} :
                 Never(item, lint_add_config_set(input.servers[t]))
        BY <2>1, <3>2, ServerOnce
      <3>4. Never(item, Settings)
        <4>1. item.arg # 0 /\ item.name \notin LookedUp
          BY <2>1, <3>2, RecordWritten
        <4> HIDE DEF item
        <4> QED BY <2>1, <4>1, SettingsNever
      <3> HIDE DEF item
      <3>5. CASE s = 1
        <4>1. Once(item, Section("Server Config"))
          BY <2>1, <3>3, <3>4, <3>5, SectionOnce
        <4>2. Never(item, VhostLines)
          BY <2>1, <3>3, <3>5, VhostOnce
        <4>3. Never(item, Section("VirtualHosts"))
          BY <2>1, <4>2, SectionOnce
        <4>4. SectionOf(s) = "Server Config" /\ OtherThan(s) = "VirtualHosts"
          BY <3>5 DEF SectionOf, OtherThan
        <4> QED BY <3>2, <4>1, <4>3, <4>4, TimesOf
      <3>6. CASE s # 1
        <4>1. Once(item, VhostLines)
          BY <2>1, <3>3, <3>6, VhostOnce
        <4>2. Once(item, Section("VirtualHosts"))
          BY <2>1, <4>1, SectionOnce
        <4>3. Never(item, Section("Server Config"))
          <5>1. Never(item, lint_add_config_set(input.servers[1]))
            BY <2>1a, <3>3, <3>6
          <5> QED BY <2>1, <3>4, <5>1, SectionOnce
        <4>4. SectionOf(s) = "VirtualHosts" /\ OtherThan(s) = "Server Config"
          BY <3>6 DEF SectionOf, OtherThan
        <4> QED BY <3>2, <4>2, <4>3, <4>4, TimesOf
      <3> QED BY <3>5, <3>6
    <2>3. ASSUME NEW i \in DOMAIN input.lines, input.lines[i].directive \in LookedUp
          PROVE  Times(Line(input.lines[i].directive, input.lines[i].arg, 0),
                       Section("Server Config")) = 1
      <3> DEFINE item == Line(input.lines[i].directive, input.lines[i].arg, 0)
      <3>1. Once(item, Settings)
        BY <2>1, <2>3, SettingsOnce
      <3>2. item.name \in LookedUp
        BY <2>3, LineFields
      <3>3. Never(item, lint_add_config_set(input.servers[1]))
        <4>1. ASSUME NEW n \in DOMAIN input.servers[1], WritesLine(Rec(1, n))
              PROVE  LineOf(Rec(1, n)) # item
          <5>1. LineOf(Rec(1, n)).name \notin LookedUp
            BY <2>1, <2>1a, <4>1, RecordWritten
          <5> QED BY <3>2, <5>1
        <4> HIDE DEF item
        <4> QED BY <2>1, <2>1a, <4>1, ServerNever
      <3> HIDE DEF item
      <3>4. Once(item, Section("Server Config"))
        BY <2>1, <3>1, <3>3, SectionOnce
      <3> QED BY <3>4, TimesOf DEF item
    <2>4. ASSUME NEW item,
                 \A t \in DOMAIN input.servers : \A n \in DOMAIN input.servers[t] :
                   Rec(t, n).from # 0 => item # LineOf(Rec(t, n))
          PROVE  /\ Never(item, Section("VirtualHosts"))
                 /\ item.name \notin ToSet(SettingNames) => Never(item, Section("Server Config"))
      <3>1. \A t \in DOMAIN input.servers : Never(item, lint_add_config_set(input.servers[t]))
        <4>1. ASSUME NEW t \in DOMAIN input.servers
              PROVE  Never(item, lint_add_config_set(input.servers[t]))
          <5>1. \A n \in DOMAIN input.servers[t] :
                  WritesLine(Rec(t, n)) => LineOf(Rec(t, n)) # item
            BY <2>4 DEF WritesLine
          <5> QED BY <2>1, <5>1, ServerNever
        <4> QED BY <4>1
      <3>2. Never(item, VhostLines)
        BY <2>1, <3>1, VhostOnce
      <3>3. item.name \notin ToSet(SettingNames) => Never(item, Settings)
        BY <2>1, SettingsNever
      <3> QED BY <2>1, <2>1a, <3>1, <3>2, <3>3, SectionOnce
    <2>5. ASSUME NEW s \in {1, 2}, NEW item \in ToSet(Section(SectionOf(s)))
          PROVE  \/ \E t \in DOMAIN input.servers : \E n \in DOMAIN input.servers[t] :
                      Rec(t, n).from # 0 /\ item = LineOf(Rec(t, n))
                 \/ s = 1 /\ item.name \in ToSet(SettingNames)
      <3>1. ~Never(item, Section(SectionOf(s)))
        <4> DEFINE section == Section(SectionOf(s))
        <4>1. \E q \in DOMAIN section : section[q] = item
          BY DEF ToSet
        <4> HIDE DEF section
        <4>2. ~Never(item, section)
          BY <4>1 DEF Never
        <4> QED BY <4>2 DEF section
      <3>2. SectionOf(s) = IF s = 1 THEN "Server Config" ELSE "VirtualHosts"
        BY DEF SectionOf
      <3> QED BY <2>4, <3>1, <3>2
    <2> QED BY <2>2, <2>3, <2>5 DEF EmittedOnce, Rec
  <1> QED BY <1>1, ContentInvariant, GivenInvariant, PTL

-----------------------------------------------------------------------------
(* Which of the recorded lines are in the file at all *)

\* What a sequence of lines has not can be left out of what it is made of.
LEMMA Without ==
  ASSUME NEW S, NEW lines \in Seq(LinesIn(S)), NEW item, Never(item, lines)
  PROVE  lines \in Seq(LinesIn(S \ {item}))
  <1> DEFINE T == LinesIn(S)
             U == LinesIn(S \ {item})
  <1>1. \A p \in DOMAIN lines : lines[p] \in T /\ lines[p] # item
    BY DEF Never
  <1>2. \A p \in DOMAIN lines : lines[p] \in U
    BY <1>1 DEF LinesIn
  <1>3. lines \in Seq(T)
    OBVIOUS
  <1> HIDE DEF T, U
  <1>4. lines \in Seq(U)
    BY <1>2, <1>3
  <1> QED BY <1>4 DEF U

\* A recorded line that is the first of no directive that is looked for, and that
\* is added for no config_rec, is nowhere in the file.
LEMMA NotWritten ==
  ASSUME IsConfiguration(input), NEW item, item.arg # 0, item.name # "LoadModule",
         \A d \in LooksFor : Never(item, FirstLine(d, 0)),
         \A s \in DOMAIN input.servers : \A n \in DOMAIN input.servers[s] :
           Never(item, lint_add_config_rec(Rec(s, n)))
  PROVE  Never(item, Everything)
  <1> DEFINE I == ItemsUnder(AllTitles)
             S == I \ {item}
  <1>1. Covers(I, AllTitles)
    BY ItemsCover
  <1>2. \A name \in AllTitles : Title(name) \in S
    <2>1. \A name : Title(name).arg = 0
      BY DEF Title, Item
    <2> QED BY <1>1, <2>1 DEF Covers
  <1>3. Fixed \subseteq S
    <2>1. \A other \in Fixed : other.arg = 0
      BY DEF Fixed, Opening, Closing, Line, Item
    <2> QED BY <1>1, <2>1 DEF Covers
  <1>4. ASSUME NEW name \in ToSet(SettingNames)
        PROVE  Setting(name) \in Seq(LinesIn(S))
    <2>1. Setting(name) \in Seq(LinesIn(I))
      BY <1>1 DEF Covers
    <2>2. Never(item, Setting(name))
      <3>1. CASE name \in LookedUp
        BY <3>1 DEF Setting, LooksFor
      <3>2. CASE name \notin LookedUp
        <4>1. Line(name, 0, 0) # item
          BY LineFields
        <4>2. Setting(name) = <<>> \/ Setting(name) = <<Line(name, 0, 0)>>
          BY <3>2 DEF Setting
        <4> QED BY <4>1, <4>2 DEF Never
      <3> QED BY <3>1, <3>2
    <2> HIDE DEF I
    <2> QED BY <2>1, <2>2, Without
  <1>5. PR_USE_DSO => FirstLine("ModulePath", 0) \in Seq(LinesIn(S))
    <2>1. PR_USE_DSO => FirstLine("ModulePath", 0) \in Seq(LinesIn(I))
      BY <1>1 DEF Covers
    <2>2. PR_USE_DSO => Never(item, FirstLine("ModulePath", 0))
      BY DEF LooksFor
    <2> HIDE DEF I
    <2> QED BY <2>1, <2>2, Without
  <1>6. \A i \in DOMAIN input.modules : Line("LoadModule", input.modules[i], 1) \in LinesIn(S)
    <2>1. \A i \in DOMAIN input.modules : Line("LoadModule", input.modules[i], 1) \in LinesIn(I)
      BY <1>1 DEF Covers
    <2>2. \A arg : Line("LoadModule", arg, 1) # item
      <3>1. \A arg : Line("LoadModule", arg, 1).name = "LoadModule"
        BY LineFields
      <3> QED BY <3>1
    <2> QED BY <2>1, <2>2 DEF LinesIn
  <1>7. ASSUME NEW s \in DOMAIN input.servers, NEW n \in DOMAIN input.servers[s]
        PROVE  lint_add_config_rec(input.servers[s][n]) \in Seq(LinesIn(S))
    <2>1. lint_add_config_rec(input.servers[s][n]) \in Seq(LinesIn(I))
      BY <1>1 DEF Covers
    <2>2. Never(item, lint_add_config_rec(input.servers[s][n]))
      BY DEF Rec
    <2> HIDE DEF I
    <2> QED BY <2>1, <2>2, Without
  <1>8. item \notin S
    OBVIOUS
  <1> HIDE DEF I, S
  <1>9. Covers(S, AllTitles)
    BY <1>2, <1>3, <1>4, <1>5, <1>6, <1>7 DEF Covers
  <1>10. ASSUME NEW s PROVE Part(s) \in Seq(S)
    <2>1. Writes(s) \in WritesIn(S)
      BY <1>9, WritesCovered
    <2>2. Writes(s) \in Seq(Seq(S))
      BY <2>1, SeqMonotonic DEF WritesIn
    <2> QED BY <2>2, FlattenSeqType DEF Part
  <1>11. /\ Part("header") \in Seq(S) /\ Part("defines") \in Seq(S)
         /\ Part("modules") \in Seq(S) /\ Part("server") \in Seq(S)
         /\ Part("classes") \in Seq(S) /\ Part("ctrls") \in Seq(S)
         /\ Part("vhosts") \in Seq(S)
    BY <1>10
  <1>12. Everything \in Seq(S)
    BY <1>11 DEF Everything, BeforeVhosts, BeforeClasses, BeforeServer
  <1> QED BY <1>8, <1>12 DEF Never

\* The parts of the file.
LEMMA PartsOf ==
  ASSUME IsConfiguration(input), NEW item, Never(item, Everything)
  PROVE  /\ Never(item, Part("modules"))
         /\ Never(item, Part("server"))
         /\ Never(item, Part("vhosts"))
  <1>1. ASSUME NEW s PROVE Part(s) \in Seq(Items)
    BY WritesTypes, WritesFlatten DEF Part
  <1>2. /\ Part("header") \in Seq(Items) /\ Part("defines") \in Seq(Items)
        /\ Part("modules") \in Seq(Items) /\ Part("server") \in Seq(Items)
        /\ Part("classes") \in Seq(Items) /\ Part("ctrls") \in Seq(Items)
        /\ Part("vhosts") \in Seq(Items)
    BY <1>1
  <1> DEFINE a == Part("header") \o Part("defines")
             b == BeforeServer
             c == BeforeClasses
             d == c \o Part("classes")
             e == BeforeVhosts
  <1>3. /\ a \in Seq(Items) /\ b = a \o Part("modules") /\ b \in Seq(Items)
        /\ c = b \o Part("server") /\ c \in Seq(Items)
        /\ d \in Seq(Items) /\ e = d \o Part("ctrls") /\ e \in Seq(Items)
        /\ d = c \o Part("classes") /\ Everything = e \o Part("vhosts")
    BY <1>2 DEF Everything, BeforeVhosts, BeforeClasses, BeforeServer
  <1> HIDE DEF a, b, c, d, e
  <1>4. Never(item, e) /\ Never(item, Part("vhosts"))
    BY <1>2, <1>3, NeverConcat
  <1>5. Never(item, d)
    BY <1>2, <1>3, <1>4, NeverConcat
  <1>6. Never(item, c)
    BY <1>2, <1>3, <1>5, NeverConcat
  <1>7. Never(item, b) /\ Never(item, Part("server"))
    BY <1>2, <1>3, <1>6, NeverConcat
  <1>8. Never(item, Part("modules"))
    BY <1>2, <1>3, <1>7, NeverConcat
  <1> QED BY <1>4, <1>7, <1>8

\* What is nowhere in the file is not the line of ModulePath.
LEMMA PathWritten ==
  ASSUME IsConfiguration(input), PR_USE_DSO, NEW item, Never(item, Part("modules"))
  PROVE  Never(item, FirstLine("ModulePath", 0))
  <1> DEFINE path == FirstLine("ModulePath", 0)
             title == <<Title("Modules")>>
  <1>1. path \in Seq(LinesIn(ItemsUnder(AllTitles)))
    BY ItemsCover DEF Covers
  <1>2. path \in Seq(Items) /\ title \in Seq(Items)
    <2>1. ItemsUnder(AllTitles) \subseteq Items
      BY DEF ItemsUnder
    <2>2. Title("Modules") \in Items
      BY DEF Title, Item, Items, Kinds, Names
    <2> QED BY <1>1, <2>1, <2>2, SeqMonotonic, LinesAreIn
  <1>3. CASE path = <<>>
    BY <1>3 DEF Never
  <1>4. CASE path # <<>>
    <2> DEFINE ws == Writes("modules")
    <2>1. ws \in WritesType
      BY WritesTypes
    <2>2. ws \in Seq(Seq(Items))
      BY <2>1, WritesFlatten
    <2>3. \E rest : ws = <<title \o path>> \o rest
      BY <1>4 DEF Writes, lint_write_modules
    <2>3a. 1 \in DOMAIN ws /\ ws[1] = title \o path
      <3> HIDE DEF title, path, ws
      <3> QED BY <2>3
    <2>4. Never(item, title \o path)
      <3>1. Never(item, FlattenSeq(ws))
        BY DEF Part
      <3> HIDE DEF ws
      <3> QED BY <2>2, <2>3a, <3>1, NeverFlattened
    <2> HIDE DEF title, path
    <2>5. Never(item, path)
      BY <1>2, <2>4, NeverConcat
    <2> QED BY <2>5 DEF path
  <1> QED BY <1>3, <1>4

\* Nor is it among the lines of the servers.
LEMMA ServersWritten ==
  ASSUME IsConfiguration(input), NEW item,
         Never(item, Part("server")), Never(item, Part("vhosts"))
  PROVE  /\ Never(item, Settings)
         /\ \A s \in DOMAIN input.servers : Never(item, lint_add_config_set(input.servers[s]))
  <1> DEFINE Set(s) == lint_add_config_set(input.servers[s])
  <1>1. ASSUME NEW s \in DOMAIN input.servers PROVE Set(s) \in Seq(BufferedLines)
    <2>1. Covers(ItemsUnder(AllTitles), AllTitles)
      BY ItemsCover
    <2> QED BY <2>1, ConfigSetType, LinesAreIn
  <1>2. /\ ServerLines \in Seq(BufferedLines) /\ VhostLines \in Seq(BufferedLines)
        /\ ServerLines \in Seq(Items) /\ VhostLines \in Seq(Items)
    BY TitledParts, LinesAreItems
  <1>3. Never(item, ServerLines) /\ Never(item, VhostLines)
    <2>1. \A lines \in Seq(BufferedLines) :
            FlattenSeq(WriteBuffered(lines)) \in Seq(Items)
      BY SortedBody, LinesAreItems
    <2>2. /\ Part("server") = <<Title("Server Config")>> \o ServerBody
          /\ Part("vhosts") = <<Title("VirtualHosts")>> \o VhostBody
          /\ <<Title("Server Config")>> \in Seq(Items)
          /\ <<Title("VirtualHosts")>> \in Seq(Items)
          /\ ServerBody \in Seq(Items) /\ VhostBody \in Seq(Items)
      BY <1>2, <2>1, TitledParts, OneItem DEF ServerBody, VhostBody
    <2> DEFINE first == <<Title("Server Config")>>
               second == <<Title("VirtualHosts")>>
    <2>2a. /\ Never(item, first \o ServerBody) /\ Never(item, second \o VhostBody)
           /\ first \in Seq(Items) /\ second \in Seq(Items)
      BY <2>2
    <2> HIDE DEF first, second
    <2>3. Never(item, ServerBody)
      BY <2>2, <2>2a, NeverConcat
    <2>4. Never(item, VhostBody)
      BY <2>2, <2>2a, NeverConcat
    <2>5. \A lines \in Seq(BufferedLines) :
            Never(item, FlattenSeq(WriteBuffered(lines))) => Never(item, lines)
      BY SortedOnce
    <2> QED BY <1>2, <2>3, <2>4, <2>5 DEF ServerBody, VhostBody
  <1> DEFINE n == Len(input.servers) - 1
             confs == [s \in 1 .. n |-> Set(s + 1)]
  <1>4. n \in Nat /\ DOMAIN input.servers = 1 .. n + 1
    BY DEF IsConfiguration, IsSeq
  <1>5. Never(item, Settings) /\ Never(item, Set(1))
    <2>1. Settings \in Seq(BufferedLines) /\ ServerLines = Settings \o Set(1)
          /\ 1 \in DOMAIN input.servers
      BY <1>4, SettingLinesType DEF ServerLines
    <2> QED BY <1>1, <1>3, <2>1, NeverConcat
  <1>6. VhostLines = FlattenSeq(confs)
    BY DEF VhostLines
  <1> HIDE DEF Set, n
  <1>7. ASSUME NEW s \in 2 .. n + 1 PROVE Never(item, Set(s))
    <2> DEFINE k == s - 1
    <2>1. k \in 1 .. n /\ k + 1 = s
      BY <1>4
    <2>2. confs \in Seq(Seq(BufferedLines))
      BY <1>1, <1>4
    <2>3. DOMAIN confs = 1 .. n /\ \A i \in 1 .. n : confs[i] = Set(i + 1)
      OBVIOUS
    <2> HIDE DEF k, confs
    <2>4. Never(item, confs[k])
      BY <1>3, <1>6, <2>1, <2>2, <2>3, NeverFlattened
    <2> QED BY <2>1, <2>3, <2>4
  <1>8. \A s \in 1 .. n + 1 : s = 1 \/ s \in 2 .. n + 1
    BY <1>4
  <1> QED BY <1>4, <1>5, <1>7, <1>8 DEF Set

\* The recorded lines that the file has, which a LoadModule is not: the first of
\* each directive that is looked for, and what is added for the config_recs.
LEMMA LineWritten ==
  ASSUME IsConfiguration(input), NEW item, item.arg # 0, item.name # "LoadModule"
  PROVE  Never(item, Everything) <=>
           /\ \A d \in LooksFor : Never(item, FirstLine(d, 0))
           /\ \A s \in DOMAIN input.servers : \A n \in DOMAIN input.servers[s] :
                Never(item, lint_add_config_rec(Rec(s, n)))
  <1> SUFFICES ASSUME Never(item, Everything)
               PROVE  /\ \A d \in LooksFor : Never(item, FirstLine(d, 0))
                      /\ \A s \in DOMAIN input.servers : \A n \in DOMAIN input.servers[s] :
                           Never(item, lint_add_config_rec(Rec(s, n)))
    BY NotWritten
  <1>1. /\ Never(item, Settings)
        /\ \A s \in DOMAIN input.servers : Never(item, lint_add_config_set(input.servers[s]))
        /\ PR_USE_DSO => Never(item, FirstLine("ModulePath", 0))
    BY PartsOf, PathWritten, ServersWritten
  <1>2. ASSUME NEW d \in LookedUp PROVE Never(item, FirstLine(d, 0))
    <2>1. PICK i \in 1 .. 18 : SettingNames[i] = d
      BY SettingsNamed
    <2>2. i \in DOMAIN SettingLines /\ SettingLines[i] = FirstLine(d, 0)
      BY <2>1, SettingLinesType DEF Setting
    <2>3. Never(item, SettingLines[i])
      BY <1>1, <2>2, SettingLinesType, NeverFlattened
    <2> QED BY <2>2, <2>3
  <1>3. ASSUME NEW s \in DOMAIN input.servers, NEW n \in DOMAIN input.servers[s]
        PROVE  Never(item, lint_add_config_rec(Rec(s, n)))
    <2> DEFINE conf == input.servers[s]
               recs == [m \in DOMAIN conf |-> lint_add_config_rec(conf[m])]
    <2>1. conf \in Seq(ToSet(conf))
      BY DEF IsConfiguration, IsSeq
    <2>2. \A m \in DOMAIN conf : lint_add_config_rec(conf[m])
                                   \in Seq(LinesIn(ItemsUnder(AllTitles)))
      BY ItemsCover DEF Covers
    <2>3. Never(item, FlattenSeq(recs))
      BY <1>1 DEF lint_add_config_set
    <2>4. n \in DOMAIN conf /\ lint_add_config_rec(Rec(s, n)) = lint_add_config_rec(conf[n])
      BY DEF Rec
    <2> HIDE DEF conf
    <2>5. recs \in Seq(Seq(LinesIn(ItemsUnder(AllTitles))))
      <3>1. DOMAIN conf = 1 .. Len(conf) /\ Len(conf) \in Nat
        BY <2>1
      <3> QED BY <2>2, <3>1
    <2>6. n \in DOMAIN recs /\ recs[n] = lint_add_config_rec(conf[n])
      BY <2>4
    <2> HIDE DEF recs
    <2>7. Never(item, recs[n])
      BY <2>3, <2>5, <2>6, NeverFlattened
    <2> QED BY <2>4, <2>6, <2>7
  <1> QED BY <1>1, <1>2, <1>3 DEF LooksFor

-----------------------------------------------------------------------------
(* The emission implements LintEmission *)

\* What LintEmission sees of a step is a step of it, or nothing.
LEMMA PromiseStep == PromiseInv /\ [Next]_vars => [Emission!Next]_(Emission!vars)
  <1> SUFFICES ASSUME PromiseInv, [Next]_vars PROVE [Emission!Next]_(Emission!vars)
    OBVIOUS
  <1>0. /\ DiskInv /\ EmissionInv /\ DiskTypes /\ DiskInv' /\ DiskTypes' /\ EmissionInv'
    BY DiskNext DEF PromiseInv, RunInv, DiskInv
  <1>0a. /\ stage = "open" => fh = "none" /\ closes = 0
         /\ stage \in {"close", "failing"} \cup ToSet(Stages) => fh = "open"
         /\ stage \notin ToSet(Stages) => queue = <<>>
         /\ failed # "none" => stage \in {"failing", "done"}
         /\ stage = "failing" => failed # "none"
         /\ "open" \notin ToSet(Stages) /\ "close" \notin ToSet(Stages)
         /\ "failing" \notin ToSet(Stages) /\ "done" \notin ToSet(Stages)
    BY <1>0, StageNames DEF EmissionInv, StageInv, HandleInv, AnswerInv
  <1>1. fh = "open" => file # OldContents
    BY <1>0, NotItems DEF DiskTypes
  <1>2. fh' = "open" => file' # OldContents
    BY <1>0, NotItems DEF DiskTypes
  <1>3. shorts > 0 => file # whole
    BY <1>0, CutIsNotWhole DEF DiskInv, DiskTypes
  <1>4. shorts \in Nat /\ shorts' \in Nat
    BY <1>0 DEF DiskTypes
  <1> DEFINE disk == Disk
             lost == shorts > 0
  <1>5. CASE result = "none" /\ Open
    <2>1. fh = "none" /\ file = OldContents
      BY <1>0, <1>0a, <1>5 DEF Open, PromiseInv, OldInv
    <2>2. fh' = "open" /\ stage' = "header" /\ UNCHANGED <<shorts, result>>
      BY <1>5, StageNames DEF Open
    <2>3. disk = "old" /\ disk' = "part"
      BY <1>2, <2>1, <2>2 DEF Disk
    <2> QED BY <1>5, <2>2, <2>3 DEF Emission!Next, Emission!Truncate
  <1>6. CASE result = "none" /\ OpenFails
    <2>1. disk = "old" /\ disk' = "old"
      <3>1. file = OldContents /\ file' = file
        BY <1>0, <1>0a, <1>6 DEF OpenFails, PromiseInv, OldInv
      <3> QED BY <3>1 DEF Disk
    <2>2. result' = "error" /\ shorts' = shorts
      BY <1>6 DEF OpenFails
    <2> QED BY <1>6, <2>1, <2>2 DEF Emission!Next, Emission!AnswerError
  <1>7. CASE result = "none" /\ Write
    <2>1. stage \in ToSet(Stages) /\ UNCHANGED <<stage, fh, shorts, result>>
      BY <1>0a, <1>7 DEF Write
    <2>2. disk = "part" /\ disk' = "part"
      BY <1>0a, <1>1, <1>2, <2>1 DEF Disk
    <2> QED BY <2>1, <2>2 DEF Emission!vars
  <1>8. CASE result = "none" /\ ShortWrite
    <2>1. stage \in ToSet(Stages) /\ UNCHANGED <<stage, fh, result>> /\ shorts' > 0
      BY <1>0a, <1>4, <1>8 DEF ShortWrite
    <2>2. disk = "part" /\ disk' = "part"
      BY <1>0a, <1>1, <1>2, <2>1 DEF Disk
    <2> QED BY <1>8, <2>1, <2>2 DEF Emission!Next, Emission!LoseText
  <1>9. CASE result = "none" /\ WriteFails
    <2>1. stage \in ToSet(Stages) /\ stage' = "failing" /\ UNCHANGED <<fh, result, shorts>>
      BY <1>0a, <1>9 DEF WriteFails
    <2>2. disk = "part" /\ disk' = "part"
      BY <1>0a, <1>1, <1>2, <2>1 DEF Disk
    <2> QED BY <2>1, <2>2 DEF Emission!vars
  <1>10. CASE result = "none" /\ NextStage
    <2>1. stage \in ToSet(Stages) /\ UNCHANGED <<fh, result, shorts, failed>>
          /\ stage' = After(stage) /\ fh = "open" /\ failed = "none" /\ queue' = Writes(After(stage))
      BY <1>0a, <1>10 DEF NextStage
    <2>2. disk = "part"
      BY <1>0a, <1>1, <2>1 DEF Disk
    <2>3. CASE stage' = "close" /\ file' = whole'
      <3>1. disk' = "whole"
        BY <1>2, <2>1, <2>3 DEF Disk
      <3>2. ~ (shorts' > 0)
        BY <1>0, <2>3, CutIsNotWhole DEF DiskInv, DiskTypes
      <3> QED BY <1>10, <2>1, <2>2, <3>1, <3>2 DEF Emission!Next, Emission!Complete
    <2>4. CASE ~ (stage' = "close" /\ file' = whole')
      <3>1. stage' # "done"
        BY <1>0, <2>1 DEF EmissionInv, HandleInv
      <3>2. disk' = "part"
        BY <1>2, <2>1, <2>4, <3>1 DEF Disk
      <3> QED BY <2>1, <2>2, <3>2 DEF Emission!vars
    <2> QED BY <2>3, <2>4
  <1>11. CASE result = "none" /\ CloseAfterFailure
    <2>1. /\ stage = "failing" /\ stage' = "done" /\ result' = "error"
          /\ UNCHANGED <<file, shorts, failed, whole>> /\ fh = "open"
      BY <1>0a, <1>11 DEF CloseAfterFailure
    <2>2. failed = "EWRITE"
      BY <1>0, <2>1 DEF DiskInv
    <2>3. file # whole
      BY <1>0, <2>2 DEF DiskInv
    <2>4. disk = "part" /\ disk' = "part"
      BY <1>1, <2>1, <2>3 DEF Disk
    <2> QED BY <1>11, <2>1, <2>4 DEF Emission!Next, Emission!AnswerError
  <1>12. CASE result = "none" /\ Close
    <2>1. /\ stage = "close" /\ stage' = "done" /\ result' \in {"ok", "error"}
          /\ UNCHANGED <<file, shorts, whole, queue>> /\ fh = "open" /\ failed = "none"
          /\ queue = <<>>
      BY <1>0a, <1>12 DEF Close
    <2>2. disk' = disk
      BY <2>1 DEF Disk
    <2>3. disk = "whole" \/ (disk = "part" /\ lost)
      <3>1. CASE shorts = 0
        <4>1. file \o FlattenSeq(<<>>) = whole
          BY <1>0, <2>1, <3>1 DEF DiskInv
        <4>2. FlattenSeq(<<>>) = <<>>
          BY NoWrites, WritesFlatten
        <4>3. file = whole
          BY <1>0, <2>1, <4>1, <4>2, ConcatEmptySeq DEF DiskTypes
        <4> QED BY <1>1, <2>1, <4>3 DEF Disk
      <3>2. CASE shorts # 0
        BY <1>1, <1>3, <1>4, <2>1, <3>2 DEF Disk
      <3> QED BY <3>1, <3>2
    <2> HIDE DEF disk
    <2> QED BY <1>12, <2>1, <2>2, <2>3
        DEF Emission!Next, Emission!AnswerOk, Emission!AnswerError, disk
  <1>13. CASE Kill
    <2>1. UNCHANGED <<stage, file, whole, shorts>> /\ result = "none" /\ result' = "dead"
      BY <1>13 DEF Kill
    <2>2. disk' = disk
      BY <2>1 DEF Disk
    <2> QED BY <2>1, <2>2 DEF Emission!Next, Emission!Die
  <1>14. CASE UNCHANGED vars
    BY <1>14 DEF vars, Emission!vars, Disk
  <1> QED
    BY <1>5, <1>6, <1>7, <1>8, <1>9, <1>10, <1>11, <1>12, <1>13, <1>14 DEF Next, Emit

-----------------------------------------------------------------------------
(* The theorems *)

\* However many calls are made, and whichever fails first, lint_write_config
\* returns an error exactly when one has failed, and with the errno of that one.
THEOREM FailuresReported == Spec => []FailureReported
  <1>1. EmissionInv => FailureReported
    BY DEF EmissionInv, StageInv, AnswerInv, FailureReported
  <1> QED BY <1>1, EmissionInvariant, PTL

\* On every way out of lint_write_config the file has been closed if it was
\* opened, and it is never closed twice.
THEOREM HandlesClosed == Spec => []HandleClosed
  <1>1. EmissionInv => HandleClosed
    BY DEF EmissionInv, StageInv, HandleInv, HandleClosed
  <1> QED BY <1>1, EmissionInvariant, PTL

\* Once a call has failed nothing more is written to the file.
THEOREM FailuresStopWriting == Spec => NothingAfterFailure
  <1>1. EmissionInv /\ [Next]_vars => [failed # "none" => UNCHANGED file]_vars
    <2> SUFFICES ASSUME EmissionInv, Next, failed # "none" PROVE UNCHANGED file
      OBVIOUS
    <2>1. stage \in {"failing", "done"} /\ queue = <<>>
      BY StageNames DEF EmissionInv, StageInv
    <2> QED BY <2>1 DEF Next, Emit, Open, OpenFails, Write, ShortWrite, WriteFails,
                        NextStage, CloseAfterFailure, Close, Kill
  <1> QED BY <1>1, EmissionInvariant, PTL DEF Spec, NothingAfterFailure

\* Whatever the configuration, whichever call fails, however many writes are cut
\* short and wherever the process is killed: what the disk holds and the answer
\* of lint_write_config are what LintEmission promises, the old file given up at
\* the opening, an error answered from any point, and success only for the whole
\* of the file or for one that lost a text.
THEOREM PromiseKept == Spec => KeepsPromise
  <1>1. Init => Emission!Init
    <2> SUFFICES ASSUME Init PROVE Emission!Init
      OBVIOUS
    <2>1. Disk = "old" /\ (shorts > 0) = FALSE /\ result = "none"
      BY DEF Init, Disk
    <2> QED BY <2>1 DEF Emission!Init
  <1> QED BY <1>1, PromiseInvariant, PromiseStep, PTL DEF Spec, KeepsPromise, Emission!Spec
=============================================================================
