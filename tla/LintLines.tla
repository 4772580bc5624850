----------------------------- MODULE LintLines ------------------------------
(***************************************************************************)
(* Looking up the recorded lines: lint_find_parsed_line (src/mod_lint.c).  *)
(* A list of lines is the sequence of their directives; a pointer to a     *)
(* line is its position in the list, and NULL is 0.                        *)
(***************************************************************************)
EXTENDS Naturals, Sequences, FiniteSetsExt

NoLine == 0

\* The first line of the directive, from next_line on, or from the start of
\* the list when next_line is NULL.
lint_find_parsed_line_After(lines, directive, next_line) ==   \* mutant: off by one
  LET found == {i \in next_line + 1 .. Len(lines) : lines[i] = directive}
  IN  IF found = {} THEN NoLine ELSE Min(found)

lint_find_parsed_line(lines, directive, next_line) ==
  LET first == IF next_line = NoLine THEN 1 ELSE next_line
      found == {i \in first .. Len(lines) : lines[i] = directive}
  IN  IF found = {} THEN NoLine ELSE Min(found)
=============================================================================
