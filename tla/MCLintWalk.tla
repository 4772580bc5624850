----------------------------- MODULE MCLintWalk ------------------------------
(***************************************************************************)
(* LintWalk for TLC: every tree of up to four config_recs, of directives   *)
(* of three modules, one of them not recorded, of a config_rec the         *)
(* heuristic knows, one of the host's, one without a name, and sections.   *)
(***************************************************************************)
EXTENDS LintWalk

CONSTANT MaxNodes   \* bound: config_recs of a tree

MCSymbols == [d \in {"Umask", "TransferLog", "LintEngine"} |->
                CASE d = "Umask" -> "core" [] d = "TransferLog" -> "xfer"
                  [] d = "LintEngine" -> "lint"]

MCLines == <<[directive |-> "User", arg |-> 1], [directive |-> "Umask", arg |-> 2],
             [directive |-> "TransferLog", arg |-> 3], [directive |-> "Umask", arg |-> 4]>>

Param(name) == [config_type |-> "CONF_PARAM", name |-> name, empty |-> FALSE]
Section(empty) == [config_type |-> "CONF_DIR", name |-> "/", empty |-> empty]

Names == {"Umask", "TransferLog", "LintEngine", "UserName", "_host", "NULL"}
Kinds == {Param(name) : name \in Names}
           \cup {Section(TRUE), Section(FALSE)}
Nodes == {[config_type |-> kind.config_type, name |-> kind.name, empty |-> kind.empty,
           depth |-> depth] : kind \in Kinds, depth \in 0 .. MaxNodes - 1}

MCTrees == UNION {{list \in [1 .. n -> Nodes] : IsTree(list)} : n \in 0 .. MaxNodes}
=============================================================================
