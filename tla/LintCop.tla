------------------------------ MODULE LintCop -------------------------------
(***************************************************************************)
(* From a config_rec back to the directive that made it: the cop API       *)
(* (src/lib/lint/cop.c) and its two cops, core and default                 *)
(* (src/lib/lint/cop/core.c, src/lib/lint/cop/default.c).  The module a    *)
(* lookup leaves in the cop it returns (its member m) is left out: nothing *)
(* reads it.                                                               *)
(***************************************************************************)

CONSTANT Symbols   \* the host's table of directives: directive -> module

NoCop == "no cop"
NoDirective == "no directive"

\* The config_recs known to be made by directives of another name.
config_providers == {"GroupID", "GroupName", "UserID", "UserName"}

lint_cop_get_module_cop(m) == IF m = "core" THEN "core" ELSE "default"

lint_cop_get_config_cop(c) ==
  IF c.config_type # "CONF_PARAM" THEN NoCop
  ELSE IF c.name \in DOMAIN Symbols THEN lint_cop_get_module_cop(Symbols[c.name])
  ELSE IF c.name \in config_providers THEN "core"
  ELSE NoCop

core_get_directive(c) ==
  CASE c.name \in {"DirUmask", "GroupID", "UserID"} -> NoDirective
    [] c.name = "GroupName" -> "Group"
    [] c.name = "UserName" -> "User"
    [] OTHER -> c.name

default_get_directive(c) == c.name

lint_cop_get_directive(cop, c) ==
  CASE cop = NoCop -> NoDirective
    [] cop = "core" -> core_get_directive(c)
    [] cop = "default" -> default_get_directive(c)

\* What the emission does with the two: the directive of a config_rec.
DirectiveOf(c) == lint_cop_get_directive(lint_cop_get_config_cop(c), c)
=============================================================================
