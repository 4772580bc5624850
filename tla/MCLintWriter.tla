---------------------------- MODULE MCLintWriter ----------------------------
(***************************************************************************)
(* LintWriter for TLC.  A configuration is made from a document, the list  *)
(* of its lines: each line adds the config_recs its handler would.         *)
(***************************************************************************)
EXTENDS LintWriter

MCSymbols == [d \in {"Umask", "User", "TransferLog", "ModulePath",
                     "MaxConnectionRate", "LintConfigFile"} |->
                IF d = "LintConfigFile" THEN "lint"
                ELSE IF d = "TransferLog" THEN "xfer" ELSE "core"]

Alphabet == <<"DefaultAddress", "LintConfigFile", "LoadModule", "MaxConnectionRate",
              "MaxInstances", "ModulePath", "PidFile", "Port", "Satisfy",
              "ScoreboardFile", "ScoreboardMutex", "ServerAdmin", "ServerName",
              "ServerType", "SocketBindTight", "SocketOptions", "TCPBacklog",
              "Trace", "TraceLog", "TraceOptions", "TransferLog", "Umask",
              "UseIPv6", "UseReverseDNS", "User">>
MCRank == [name \in ToSet(Alphabet) |-> CHOOSE i \in DOMAIN Alphabet : Alphabet[i] = name]

\* A line of a document: at the top of a server, or in a section of it.
Entry(directive, arg, server, depth) ==
  [directive |-> directive, arg |-> arg, server |-> server, depth |-> depth]

\* The names of the config_recs that the handler of a directive adds.
Adds(directive) ==
  CASE directive = "User" -> <<"UserID", "UserName">>
    [] directive = "Umask" -> <<"Umask", "DirUmask">>
    [] directive \in {"ModulePath", "MaxConnectionRate"} -> <<>>
    [] OTHER -> <<directive>>

\* The config_recs of a server: a nested line is in a section of its own.
Conf(doc, server) ==
  FlattenSeq([i \in DOMAIN doc |->
    IF doc[i].server # server THEN <<>>
    ELSE LET e == doc[i]
             params == [k \in DOMAIN Adds(e.directive) |->
                          [config_type |-> "CONF_PARAM", name |-> Adds(e.directive)[k],
                           depth |-> e.depth, from |-> i]]
         IN  IF e.depth = 0 THEN params
             ELSE <<[config_type |-> "CONF_DIR", name |-> "/", depth |-> 0,
                     from |-> 0]>> \o params])

Configuration(doc, settings, modules, classes) ==
  [lines |-> [i \in DOMAIN doc |-> [directive |-> doc[i].directive, arg |-> doc[i].arg]],
   servers |-> << Append(Conf(doc, 1), [config_type |-> "CONF_PARAM", name |-> "_host",
                                        depth |-> 0, from |-> 0]),
                  Conf(doc, 2) >>,
   settings |-> settings,
   modules |-> modules,
   classes |-> classes]

Nested == {Entry(d, a, s, p) : d \in {"Umask", "TransferLog"}, a \in 1 .. 2,
                               s \in 1 .. 2, p \in 0 .. 1}
TopLevel == {Entry("User", 1, s, 0) : s \in 1 .. 2}
GlobalOnly == {Entry(d, 1, 1, 0) : d \in {"ModulePath", "MaxConnectionRate",
                                          "LintConfigFile"}}
Entries == Nested \cup TopLevel \cup GlobalOnly

Documents(n) == UNION {[1 .. k -> Entries] : k \in 0 .. n}

\* Every short document, one shared module and one class.
MCDocuments ==
  {Configuration(doc, {"ServerName"}, <<2, 1>>, <<1>>) : doc \in Documents(2)}

\* A few documents, with all the sections the file can have.
MCSections ==
  {Configuration(doc, settings, modules, classes) :
     doc \in { <<>>, <<Entry("ModulePath", 1, 1, 0), Entry("Umask", 1, 1, 1)>> },
     settings \in {{}, Optional},
     modules \in {<<1>>, <<3, 1, 2>>},
     classes \in {<<>>, <<2, 0>>}}

MCConfigurations == MCDocuments \cup MCSections

MCTwice ==
  {Configuration(<<Entry("Umask", 1, 1, 1), Entry("Umask", 2, 1, 0)>>, {}, <<1>>, <<>>)}
=============================================================================
