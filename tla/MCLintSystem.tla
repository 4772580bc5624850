---------------------------- MODULE MCLintSystem ----------------------------
(***************************************************************************)
(* LintSystem for TLC.  No line of these configurations is misspelled:     *)
(* MCModLint has those.                                                    *)
(***************************************************************************)
EXTENDS LintSystem

Kind(type, name, server, depth) ==
  [config_type |-> type, name |-> name, server |-> server, depth |-> depth]

\* A directive that is looked up whether or not it makes a config_rec.
MCTrace == {"Trace"}
MCTraceKinds == {Param("Trace")}

\* With one that makes config_recs of another name, in a section of the second
\* server too.
MCTraceAndUser == {"Trace", "User"}
MCUserKinds == {Param("UserName"), Kind("CONF_DIR", "/", 2, 0),
                Kind("CONF_PARAM", "UserName", 2, 1)}

MCSymbols == [d \in {"Trace", "User", "LintConfigFile", "LintEngine"} |->
                IF d \in {"Trace", "User"} THEN "core" ELSE "lint"]

Alphabet == <<"DefaultAddress", "LintConfigFile", "LintEngine", "LoadModule",
              "MaxConnectionRate", "MaxInstances", "PidFile", "Port",
              "ScoreboardFile", "ScoreboardMutex", "ServerAdmin", "ServerName",
              "ServerType", "SocketBindTight", "SocketOptions", "TCPBacklog",
              "Trace", "TraceLog", "TraceOptions", "Umask", "UseIPv6",
              "UseReverseDNS", "User">>
MCRank == [name \in {Alphabet[i] : i \in DOMAIN Alphabet} |->
             CHOOSE i \in DOMAIN Alphabet : Alphabet[i] = name]

MCModules == <<1>>
=============================================================================
