------------------------------ MODULE LintFind ------------------------------
(***************************************************************************)
(* The loop that the comment of lint_find_parsed_line (src/mod_lint.c)     *)
(* gives for visiting every recorded line of one directive.                *)
(***************************************************************************)
EXTENDS LintLines

CONSTANTS Names,     \* the directives
          Foo,       \* the one the loop is for
          MaxLength  \* bound: lines of a list

ASSUME LintFindAssumption == Foo \in Names /\ MaxLength \in Nat

\* parsed_line->next
NextLine(lines, i) == IF i < Len(lines) THEN i + 1 ELSE NoLine

-----------------------------------------------------------------------------
(* The documented loop. *)

VARIABLES
  lines,        \* the directives of the recorded lines
  parsed_line,  \* the loop's variable
  visited,      \* the lines the loop has visited, in order
  started       \* has the loop begun?

vars == <<lines, parsed_line, visited, started>>

Init ==
  /\ lines \in UNION {[1 .. n -> Names] : n \in 0 .. MaxLength}
  /\ parsed_line = NoLine
  /\ visited = <<>>
  /\ started = FALSE

\* parsed_line = lint_find_parsed_line("Foo", NULL);
Begin ==
  /\ ~started
  /\ started' = TRUE
  /\ parsed_line' = lint_find_parsed_line(lines, Foo, NoLine)
  /\ UNCHANGED <<lines, visited>>

\* One turn: the body sees the line, then the next one is looked up.
Turn ==
  /\ started
  /\ parsed_line # NoLine
  /\ Len(visited) <= MaxLength
  /\ visited' = Append(visited, parsed_line)
  /\ parsed_line' = lint_find_parsed_line(lines, lines[parsed_line],
                                          NextLine(lines, parsed_line))
  /\ UNCHANGED <<lines, started>>

Next == Begin \/ Turn

Spec == Init /\ [][Next]_vars /\ WF_vars(Next)

-----------------------------------------------------------------------------
(* Properties *)

Matching == {i \in DOMAIN lines : lines[i] = Foo}

TypeOK ==
  /\ parsed_line \in 0 .. Len(lines)
  /\ visited \in Seq(Matching)

\* The loop never skips a line of its directive: what it has visited before it
\* comes back to its start is every matching line up to there, in the order
\* of appearance.
VisitsInOrder ==
  LET n == Min({Len(visited), Cardinality(Matching)})
  IN  /\ \A i, j \in 1 .. n : i < j => visited[i] < visited[j]
      /\ \A i \in Matching : \A j \in 1 .. n :
           i < visited[j] => \E k \in 1 .. j : visited[k] = i

\* Every line of the directive is visited in the end.
VisitsAll == <>(\A i \in Matching : \E k \in DOMAIN visited : visited[k] = i)

\* "To iterate through all parsed lines for the same directive": the loop is
\* an iteration, so it visits no line twice.
VisitsOnce == \A i, j \in DOMAIN visited : visited[i] = visited[j] => i = j
=============================================================================
