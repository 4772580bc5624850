---------------------------- MODULE LintEmission ----------------------------
(***************************************************************************)
(* What one emission of the configuration file promises, whatever is in    *)
(* the file: how the answer of lint_write_config (src/mod_lint.c) relates  *)
(* to what is on the disk.                                                 *)
(*                                                                         *)
(* The old file is given up when the new one is opened, and nothing puts   *)
(* it back.  An error is answered from any point.  Success is answered for *)
(* a whole file, or for one that lost text in a write the filesystem cut   *)
(* short, which nobody is told about.                                      *)
(***************************************************************************)
VARIABLES disk,    \* the file: "old", "part", "whole"
          lost,    \* has a write been cut short?
          answer   \* "none", "ok", "error", or "dead" when the process ends

vars == <<disk, lost, answer>>

Init == disk = "old" /\ lost = FALSE /\ answer = "none"

Truncate ==
  /\ answer = "none" /\ disk = "old"
  /\ disk' = "part"
  /\ UNCHANGED <<lost, answer>>

LoseText ==
  /\ answer = "none" /\ disk = "part"
  /\ lost' = TRUE
  /\ UNCHANGED <<disk, answer>>

Complete ==
  /\ answer = "none" /\ disk = "part" /\ ~lost
  /\ disk' = "whole"
  /\ UNCHANGED <<lost, answer>>

AnswerOk ==
  /\ answer = "none"
  /\ disk = "whole" \/ (disk = "part" /\ lost)
  /\ answer' = "ok"
  /\ UNCHANGED <<disk, lost>>

AnswerError ==
  /\ answer = "none"
  /\ answer' = "error"
  /\ UNCHANGED <<disk, lost>>

Die ==
  /\ answer = "none"
  /\ answer' = "dead"
  /\ UNCHANGED <<disk, lost>>

Next == Truncate \/ LoseText \/ Complete \/ AnswerOk \/ AnswerError \/ Die

Spec == Init /\ [][Next]_vars
=============================================================================
