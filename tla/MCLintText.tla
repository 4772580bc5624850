----------------------------- MODULE MCLintText ------------------------------
(***************************************************************************)
(* LintText for TLC: an array of four bytes, which a text of two fits with *)
(* its NUL; texts of two keys, empty, that fit, and that do not, by one    *)
(* byte and by more.                                                       *)
(***************************************************************************)
EXTENDS LintText

Text(key, len) == [key |-> key, len |-> len]
MCTexts == {Text(1, 0), Text(2, 2), Text(1, 3), Text(1, 5)}
=============================================================================
