------------------------------ MODULE LintConf ------------------------------
(***************************************************************************)
(* The configuration handlers of mod_lint (src/mod_lint.c, set_lintconfig- *)
(* file and set_lintengine): what each one answers for a command, and the  *)
(* config_rec it adds.  A command is a record                              *)
(*     [argc   |-> number of arguments after the directive's name,         *)
(*      ctx    |-> the section the parser is in,                           *)
(*      arg    |-> what the first argument looks like].                    *)
(* A CHECK_* macro of the host returns an error to the parser as soon as   *)
(* its condition fails; the parser then refuses the whole configuration.   *)
(***************************************************************************)
EXTENDS Integers

\* The section types of the host's config_rec (external; only the ones that
\* the documentation of the two directives or the code names).
Contexts == {"CONF_ROOT", "CONF_VIRTUAL", "CONF_GLOBAL", "CONF_DIR"}

\* What a first argument can be, as far as the handlers tell apart.
Arguments == {"path", "on", "off", "other"}

Commands == [argc : 0..2, ctx : Contexts, arg : Arguments]

\* The C booleans.
CBOOLEAN == {0, 1}

\* An answer, and the value of the config_rec it adds.
Error == [handled |-> FALSE, value |-> 0]
Handled(value) == [handled |-> TRUE, value |-> value]

\* CHECK_ARGS(cmd, n): the host wants exactly n arguments (external macro).
CHECK_ARGS(cmd, n) == cmd.argc = n

\* CHECK_CONF(cmd, ctxs): the directive may appear in these sections only.
CHECK_CONF(cmd, ctxs) == cmd.ctx \in ctxs

\* get_boolean: 1, 0, or -1 for what is no Boolean.
get_boolean(arg) ==
  CASE arg = "on"  -> 1
    [] arg = "off" -> 0
    [] OTHER       -> -1

\* The handler of LintConfigFile: an absolute path, at the top level.
set_lintconfigfile(cmd) ==
  IF /\ CHECK_ARGS(cmd, 1)
     /\ CHECK_CONF(cmd, {"CONF_ROOT"})
     /\ cmd.arg = "path"
  THEN Handled(0)
  ELSE Error

\* Mutant: the result of get_boolean is not looked at.
set_lintengine_Unchecked(cmd) ==
  IF CHECK_ARGS(cmd, 1) /\ CHECK_CONF(cmd, {"CONF_ROOT"})
  THEN Handled(get_boolean(cmd.arg))
  ELSE Error

\* The handler of LintEngine: a Boolean, at the top level.
set_lintengine(cmd) ==
  IF /\ CHECK_ARGS(cmd, 1)
     /\ CHECK_CONF(cmd, {"CONF_ROOT"})
     /\ get_boolean(cmd.arg) # -1
  THEN Handled(get_boolean(cmd.arg))
  ELSE Error
=============================================================================
