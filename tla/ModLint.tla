------------------------------ MODULE ModLint -------------------------------
(***************************************************************************)
(* The life of mod_lint inside its host, ProFTPD (src/mod_lint.c): the     *)
(* memory it owns, the events it listens to, what it records while the     *)
(* host reads a configuration, and what it does once the host has read it. *)
(*                                                                         *)
(* Everything runs in one thread of one process.  What makes it hard is    *)
(* the protocol between the module and the host: which callback runs when, *)
(* across configuration reads, restarts, and the unloading and reloading   *)
(* of a shared module, over data that lives in a pool the module destroys. *)
(*                                                                         *)
(* The host is external, and is taken at its most permissive: a line's     *)
(* event comes before the line's handler; a handler adds any number of     *)
(* config_recs of any kinds there are, whatever the line's directive is;   *)
(* and the host adds some without a line, before the first one and after   *)
(* the last.                                                               *)
(***************************************************************************)
EXTENDS Integers, Sequences, FiniteSets, LintConf

CONSTANTS
  Shared,        \* PR_SHARED_MODULE: is mod_lint a shared module?
  Directives,    \* directives of the other modules
  Misspelled,    \* directives no module handles
  Kinds,         \* the config_recs others than mod_lint may add
  MaxLines,      \* bound: lines of one configuration
  MaxConfigs,    \* bound: config_recs of one configuration
  MaxRestarts    \* bound: restarts of the host

LintDirectives == {"LintConfigFile", "LintEngine"}

\* What tells two config_recs apart for mod_lint: the type, the name, the server
\* (1 is the main one), and how many sections it is in.
ConfigTypes == {"CONF_ROOT", "CONF_DIR", "CONF_ANON", "CONF_LIMIT", "CONF_VIRTUAL",
                "CONF_GLOBAL", "CONF_CLASS", "CONF_PARAM"}
ConfigNames == LintDirectives \cup {kind.name : kind \in Kinds}
ConfigKinds == [config_type : ConfigTypes, name : ConfigNames,
                server : Nat \ {0}, depth : Nat]
MainServer == 1

\* Nobody else adds what mod_lint looks for.
ASSUME ModLintAssumption ==
  /\ Shared \in BOOLEAN
  /\ MaxLines \in Nat /\ MaxConfigs \in Nat /\ MaxRestarts \in Nat
  /\ "LoadModule" \notin Directives \cup Misspelled
  /\ Directives \cap (Misspelled \cup LintDirectives) = {}
  /\ Misspelled \cap LintDirectives = {}
  /\ Kinds \subseteq ConfigKinds
  /\ \A kind \in Kinds : kind.name \notin LintDirectives

AllDirectives == Directives \cup Misspelled \cup LintDirectives \cup {"LoadModule"}

VARIABLES
  \* The host (external).
  phase,         \* what the host is doing
  loaded,        \* is mod_lint loaded?
  pending,       \* events of a restart not yet delivered
  read,          \* the directives read so far from this configuration
  since,         \* how many of them had been read when mod_lint was loaded
  conf,          \* the config_recs of this configuration
  nconf,         \* config_recs ever added, the source of identities
  restarts,      \* restarts so far
  \* The module.
  registered,          \* the events it listens to
  lint_engine,         \* static int lint_engine
  lint_pool,           \* pool *lint_pool
  live,                \* the pools of the module that exist
  cleanup,             \* those lint_pool_cleanup is registered for
  made,                \* pools ever made, the source of identities
  parsed_lines,        \* xaset_t *parsed_lines
  associated_configs,  \* array_header *associated_configs
  \* What the properties look at (no action of the code reads it).
  outcome        \* what the last core.postparse did, and on which lines

hostvars == <<phase, loaded, pending, read, since, conf, nconf, restarts>>
poolvars == <<lint_pool, live, cleanup, made, parsed_lines, associated_configs>>
vars == <<hostvars, registered, lint_engine, poolvars, outcome>>

-----------------------------------------------------------------------------
(* Values *)

NULL == 0                  \* the NULL pool
Pools == Nat \ {NULL}

\* A pointer is the pool its target is allocated from, with the target.
NoLines   == [pool |-> NULL, elts |-> <<>>]
NoConfigs == [pool |-> NULL, elts |-> {}]

\* A config_rec: its identity, its kind, the line whose handler added it (0
\* when there was none), and the value of a LintEngine.
Configs == [id : Nat, kind : ConfigKinds, by : Nat, value : CBOOLEAN]

\* CONF_PARAM, at the top of the main server.
Param(name) == [config_type |-> "CONF_PARAM", name |-> name,
                server |-> MainServer, depth |-> 0]

\* struct lint_parsed_line; its text, file and handling module add nothing to
\* what the line number says.
Lines == [lineno : Nat, directive : AllDirectives, configs : SUBSET Configs]

Events == {"core.added-config", "core.parsed-line", "core.postparse",
           "core.restart", "core.module-unload"}
ParseEvents == {"core.added-config", "core.parsed-line"}

Stopped == {"rejected", "exited", "faulted"}
Phases == {"boot", "parsing", "handling", "fixup", "running", "restarting"}
            \cup Stopped

Results == {"none", "off", "skipped", "written", "failed"}
NoOutcome == [result |-> "none", lines |-> <<>>, pool |-> NULL]

TypeOK ==
  /\ phase \in Phases
  /\ loaded \in BOOLEAN
  /\ pending \in SUBSET {"core.restart", "core.module-unload"}
  /\ read \in Seq(AllDirectives)
  /\ since \in Nat
  /\ conf \in SUBSET Configs
  /\ nconf \in Nat
  /\ restarts \in Nat
  /\ registered \in SUBSET Events
  /\ lint_engine \in CBOOLEAN
  /\ lint_pool \in Nat
  /\ live \in SUBSET Pools
  /\ cleanup \in SUBSET Pools
  /\ made \in Nat
  /\ parsed_lines \in [pool : Nat, elts : Seq(Lines)]
  /\ associated_configs \in [pool : Nat, elts : SUBSET Configs]
  /\ outcome \in [result : Results, lines : Seq(Lines), pool : Nat]

-----------------------------------------------------------------------------
(* Pools *)

\* A pointer into memory that has been given back.
Dangling(ptr) == ptr.pool # NULL /\ ptr.pool \notin live

\* destroy_pool(lint_pool); lint_pool = NULL.  A pool's cleanups run as it is
\* destroyed; destroying NULL does nothing.
lint_pool_cleanup_Lines ==   \* mutant: one of the pointers is left as it is
  /\ associated_configs' = NoConfigs
  /\ UNCHANGED parsed_lines

lint_pool_cleanup ==
  /\ parsed_lines' = NoLines
  /\ associated_configs' = NoConfigs

DestroyLintPool ==
  /\ lint_pool' = NULL
  /\ live' = live \ {lint_pool}
  /\ cleanup' = cleanup \ {lint_pool}
  /\ IF lint_pool \in cleanup
     THEN lint_pool_cleanup
     ELSE UNCHANGED <<parsed_lines, associated_configs>>
  /\ UNCHANGED made

\* lint_pool = make_sub_pool(permanent_pool); register_cleanup2(lint_pool, ...).
MakeLintPool ==
  /\ lint_pool' = made + 1
  /\ made' = made + 1
  /\ live' = live \cup {made + 1}
  /\ cleanup' = cleanup \cup {made + 1}

\* The lazily made pool of the first line after a restart.
EnsureLintPool_NoCleanup ==   \* mutant: register_cleanup2 forgotten
  IF lint_pool = NULL
  THEN /\ lint_pool' = made + 1
       /\ made' = made + 1
       /\ live' = live \cup {made + 1}
       /\ UNCHANGED cleanup
  ELSE UNCHANGED <<lint_pool, live, cleanup, made>>

EnsureLintPool ==
  IF lint_pool = NULL
  THEN MakeLintPool
  ELSE UNCHANGED <<lint_pool, live, cleanup, made>>

-----------------------------------------------------------------------------
(* The event listeners *)

\* lint_find_handling_module finds a module for the directive.
HasHandler(d) ==
  /\ d \notin Misspelled
  /\ d \in LintDirectives => loaded

\* The accumulated config_recs become those of the last line of lines.
Attach(lines, configs) ==
  IF configs = {}
  THEN lines
  ELSE [lines EXCEPT ![Len(lines)].configs = configs]

\* The memory a listener touches is not there.
AddedConfigFaults == Dangling(associated_configs)

lint_added_config_ev(c) ==
  /\ associated_configs' =
       IF associated_configs.pool = NULL
       THEN associated_configs
       ELSE [associated_configs EXCEPT !.elts = @ \cup {c}]
  /\ UNCHANGED <<registered, lint_engine, lint_pool, live, cleanup, made,
                 parsed_lines, outcome>>

ParsedLineFaults(d) ==
  /\ HasHandler(d)
  /\ \/ Dangling(parsed_lines)
     \/ Dangling(associated_configs)
     \/ associated_configs.elts # {} /\ parsed_lines.elts = <<>>

\* What has accumulated once it has been given to a line: clear_array.
ClearedConfigs_Not(configs) == configs   \* mutant: clear_array forgotten

ClearedConfigs(configs) == {}

lint_parsed_line_ev(d, lineno) ==
  IF ~HasHandler(d)
  THEN UNCHANGED <<registered, lint_engine, poolvars, outcome>>
  ELSE
    /\ EnsureLintPool
    /\ parsed_lines' =
         [pool |-> IF parsed_lines.pool = NULL THEN lint_pool'
                                               ELSE parsed_lines.pool,
          elts |-> Append(Attach(parsed_lines.elts, associated_configs.elts),
                          [lineno |-> lineno, directive |-> d, configs |-> {}])]
    /\ associated_configs' =
         [pool |-> IF associated_configs.pool = NULL THEN lint_pool'
                                                     ELSE associated_configs.pool,
          elts |-> ClearedConfigs(associated_configs.elts)]
    /\ UNCHANGED <<registered, lint_engine, outcome>>

\* find_config (external), in main_server->conf and not in its sections: the
\* first config_rec of that name, if there is one.
FindConfig(name) ==
  {c \in conf : /\ c.kind = Param(name)
                /\ \A o \in conf : o.kind = Param(name) => c.id <= o.id}

PostParseFaults ==
  \/ Dangling(associated_configs)
  \/ associated_configs.elts # {} /\ (\/ Dangling(parsed_lines)
                                      \/ parsed_lines.elts = <<>>)

\* The lines as the emission sees them: the dangling config_recs, added since
\* the last line was read, go to that line.
LinesAtPostParse_Forgotten ==   \* mutant: no look at what dangles
  parsed_lines.elts

LinesAtPostParse == Attach(parsed_lines.elts, associated_configs.elts)

\* What becomes of the configuration: lint_engine off, no file asked for,
\* the file written, or an error writing it.
PostParseResults ==
  IF \E c \in FindConfig("LintEngine") : c.value = 0
  THEN {"off"}
  ELSE IF FindConfig("LintConfigFile") = {}
       THEN {"skipped"}
       ELSE {"written", "failed"}

\* "We no longer care about parsed lines": what it still listens to.
StillListening_Lines ==   \* mutant: one of the two is not unregistered
  registered \ {"core.added-config"}

StillListening_None ==    \* mutant: every event is unregistered
  {}

StillListening == registered \ ParseEvents

\* "No need to keep it lingering around": on every way out of the listener.
AfterPostParse_Kept(result) ==   \* mutant: one early return without it
  IF result = "off"
  THEN UNCHANGED poolvars
  ELSE DestroyLintPool

AfterPostParse(result) == DestroyLintPool

lint_postparse_ev ==
  /\ registered' = StillListening
  /\ lint_engine' =
       IF FindConfig("LintEngine") = {}
       THEN lint_engine
       ELSE (CHOOSE c \in FindConfig("LintEngine") : TRUE).value
  /\ \E result \in PostParseResults :
       /\ outcome' = [result |-> result, lines |-> LinesAtPostParse,
                      pool |-> lint_pool]
       /\ AfterPostParse(result)

lint_restart_ev_Deaf ==   \* mutant: the parse events are not registered again
  /\ lint_engine' = 1
  /\ UNCHANGED <<registered, poolvars, outcome>>

lint_restart_ev ==
  /\ registered' = registered \cup ParseEvents
  /\ lint_engine' = 1
  /\ UNCHANGED <<poolvars, outcome>>

\* pr_event_unregister(&lint_module, NULL, NULL): every event of the module.
lint_mod_unload_ev_Any(name) ==   \* mutant: the module's name is not compared
  /\ registered' = {}
  /\ DestroyLintPool
  /\ UNCHANGED <<lint_engine, outcome>>

lint_mod_unload_ev(name) ==
  IF name # "mod_lint.c"
  THEN UNCHANGED <<registered, lint_engine, poolvars, outcome>>
  ELSE /\ registered' = {}
       /\ DestroyLintPool
       /\ UNCHANGED <<lint_engine, outcome>>

Registered == IF Shared THEN Events ELSE Events \ {"core.module-unload"}

lint_init_Eager ==   \* mutant: the array of config_recs is made here
  /\ MakeLintPool
  /\ registered' = Registered
  /\ associated_configs' = [pool |-> made + 1, elts |-> {}]
  /\ UNCHANGED <<parsed_lines, outcome>>

lint_init_Deaf ==    \* mutant: it does not listen to the lines
  /\ MakeLintPool
  /\ registered' = Registered \ {"core.parsed-line"}
  /\ UNCHANGED <<parsed_lines, associated_configs, outcome>>

lint_init_Mute ==    \* mutant: nor to the end of the configuration
  /\ MakeLintPool
  /\ registered' = Registered \ {"core.postparse"}
  /\ UNCHANGED <<parsed_lines, associated_configs, outcome>>

lint_init ==
  /\ MakeLintPool
  /\ registered' = Registered
  /\ UNCHANGED <<parsed_lines, associated_configs, outcome>>

-----------------------------------------------------------------------------
(* The host *)

Init ==
  /\ phase = "boot"
  /\ loaded = FALSE
  /\ pending = {}
  /\ read = <<>>
  /\ since = 0
  /\ conf = {}
  /\ nconf = 0
  /\ restarts = 0
  /\ registered = {}
  /\ lint_engine = 1
  /\ lint_pool = NULL
  /\ live = {}
  /\ cleanup = {}
  /\ made = 0
  /\ parsed_lines = NoLines
  /\ associated_configs = NoConfigs
  /\ outcome = NoOutcome

\* A static module is initialised before the configuration is read.
Boot ==
  /\ phase = "boot"
  /\ phase' = "parsing"
  /\ IF Shared
     THEN UNCHANGED <<loaded, registered, lint_engine, poolvars, outcome>>
     ELSE /\ lint_init
          /\ loaded' = TRUE
          /\ UNCHANGED lint_engine
  /\ UNCHANGED <<pending, read, since, conf, nconf, restarts>>

\* A line is parsed and its event generated; the handlers come afterwards, and
\* a directive without one makes the host refuse the configuration.
ReadLine(d) ==
  /\ phase = "parsing"
  /\ Len(read) < MaxLines
  /\ read' = Append(read, d)
  /\ IF "core.parsed-line" \in registered
     THEN lint_parsed_line_ev(d, Len(read) + 1)
     ELSE UNCHANGED <<registered, lint_engine, poolvars, outcome>>
  /\ phase' = IF "core.parsed-line" \in registered /\ ParsedLineFaults(d)
              THEN "faulted"
              ELSE IF HasHandler(d) THEN "handling" ELSE "rejected"
  /\ UNCHANGED <<loaded, pending, since, conf, nconf, restarts>>

\* The directive whose handlers run.
Current == read[Len(read)]

\* A config_rec joins the configuration, and the module may hear of it.
AddConfigRec(kind, by, value, next) ==
  /\ Cardinality(conf) < MaxConfigs
  /\ LET c == [id |-> nconf + 1, kind |-> kind, by |-> by, value |-> value]
     IN  /\ conf' = conf \cup {c}
         /\ nconf' = nconf + 1
         /\ IF "core.added-config" \in registered
            THEN lint_added_config_ev(c)
            ELSE UNCHANGED <<registered, lint_engine, poolvars, outcome>>
  /\ phase' = IF "core.added-config" \in registered /\ AddedConfigFaults
              THEN "faulted"
              ELSE next
  /\ UNCHANGED <<loaded, pending, read, since, restarts>>

\* There is a section for it to be in.
Fits(kind) ==
  kind.depth # 0 =>
    \E c \in conf : /\ c.kind.config_type # "CONF_PARAM"
                    /\ c.kind.server = kind.server
                    /\ c.kind.depth = kind.depth - 1

\* A handler of another module adds one more config_rec.
AddConfig ==
  /\ phase = "handling"
  /\ Current \in Directives
  /\ \E kind \in Kinds :
       Fits(kind) /\ AddConfigRec(kind, Len(read), 0, "handling")

\* mod_lint's own handlers add one config_rec, or refuse the configuration.
SetLintDirective(cmd) ==
  /\ phase = "handling"
  /\ Current \in LintDirectives
  /\ LET answer == IF Current = "LintEngine" THEN set_lintengine(cmd)
                                             ELSE set_lintconfigfile(cmd)
     IN  IF answer.handled
         THEN AddConfigRec(Param(Current), Len(read), answer.value, "parsing")
         ELSE /\ phase' = "rejected"
              /\ UNCHANGED <<loaded, pending, read, since, conf, nconf, restarts,
                             registered, lint_engine, poolvars, outcome>>

\* Config_recs of no line: the host's own, before the first line is read, and
\* those it makes or copies to other servers while the servers are fixed up.
AddHostConfig ==
  /\ \/ phase = "fixup"
     \/ phase = "parsing" /\ read = <<>>
  /\ \E kind \in Kinds : Fits(kind) /\ AddConfigRec(kind, 0, 0, phase)

\* LoadModule mod_lint.c: the shared module's data is that of the last time it
\* was loaded when the dynamic linker had kept it, or fresh.
LoadModule ==
  /\ phase = "handling"
  /\ Current = "LoadModule"
  /\ Shared /\ ~loaded
  /\ loaded' = TRUE
  /\ since' = Len(read)
  /\ lint_engine' \in {lint_engine, 1}
  /\ lint_init
  /\ phase' = "parsing"
  /\ UNCHANGED <<pending, read, conf, nconf, restarts>>

\* The handlers of another module's directive are done.  (A LoadModule may
\* also load another module.)
EndLine ==
  /\ phase = "handling"
  /\ Current \notin LintDirectives
  /\ phase' = "parsing"
  /\ UNCHANGED <<loaded, pending, read, since, conf, nconf, restarts,
                 registered, lint_engine, poolvars, outcome>>

\* The whole configuration has been read; the servers are fixed up.
EndOfFile ==
  /\ phase = "parsing"
  /\ phase' = "fixup"
  /\ UNCHANGED <<loaded, pending, read, since, conf, nconf, restarts,
                 registered, lint_engine, poolvars, outcome>>

PostParse ==
  /\ phase = "fixup"
  /\ IF "core.postparse" \in registered
     THEN lint_postparse_ev
     ELSE UNCHANGED <<registered, lint_engine, poolvars, outcome>>
  /\ phase' = IF "core.postparse" \in registered /\ PostParseFaults
              THEN "faulted"
              ELSE "running"
  /\ UNCHANGED <<loaded, pending, read, since, conf, nconf, restarts>>

\* The lines of an .ftpaccess file are parsed while the server is running; they
\* are not part of the server's configuration.
FtpAccess(d) ==
  /\ phase = "running"
  /\ IF "core.parsed-line" \in registered
     THEN lint_parsed_line_ev(d, 0)
     ELSE UNCHANGED <<registered, lint_engine, poolvars, outcome>>
  /\ UNCHANGED hostvars

\* SIGHUP, handled by the main loop.  A restart tells every module, and
\* unloads the shared ones, in an order the module does not choose.
Sighup ==
  /\ phase = "running"
  /\ restarts < MaxRestarts
  /\ restarts' = restarts + 1
  /\ phase' = "restarting"
  /\ pending' = {"core.restart"} \cup
                (IF Shared /\ loaded THEN {"core.module-unload"} ELSE {})
  /\ UNCHANGED <<loaded, read, since, conf, nconf,
                 registered, lint_engine, poolvars, outcome>>

Restart ==
  /\ phase = "restarting"
  /\ "core.restart" \in pending
  /\ pending' = pending \ {"core.restart"}
  /\ IF "core.restart" \in registered
     THEN lint_restart_ev
     ELSE UNCHANGED <<registered, lint_engine, poolvars, outcome>>
  /\ UNCHANGED <<phase, loaded, read, since, conf, nconf, restarts>>

Unload ==
  /\ phase = "restarting"
  /\ "core.module-unload" \in pending
  /\ pending' = pending \ {"core.module-unload"}
  /\ loaded' = FALSE
  /\ IF "core.module-unload" \in registered
     THEN lint_mod_unload_ev("mod_lint.c")
     ELSE UNCHANGED <<registered, lint_engine, poolvars, outcome>>
  /\ UNCHANGED <<phase, read, since, conf, nconf, restarts>>

\* Another shared module is unloaded, at the operator's request.
UnloadOther ==
  /\ phase = "running"
  /\ Shared
  /\ IF "core.module-unload" \in registered
     THEN lint_mod_unload_ev("mod_other.c")
     ELSE UNCHANGED <<registered, lint_engine, poolvars, outcome>>
  /\ UNCHANGED hostvars

\* The restart drops the old configuration, and the new one is read.
Reread ==
  /\ phase = "restarting"
  /\ pending = {}
  /\ phase' = "parsing"
  /\ read' = <<>>
  /\ since' = 0
  /\ conf' = {}
  /\ outcome' = NoOutcome
  /\ UNCHANGED <<loaded, pending, nconf, restarts, registered, lint_engine,
                 poolvars>>

\* The process ends: told to stop, or killed, at any point.
Exit ==
  /\ phase \notin Stopped
  /\ phase' = "exited"
  /\ UNCHANGED <<loaded, pending, read, since, conf, nconf, restarts,
                 registered, lint_engine, poolvars, outcome>>

\* What the host does by itself once it has started to read a configuration.
Progress ==
  \/ Boot
  \/ \E d \in AllDirectives : ReadLine(d)
  \/ AddConfig
  \/ \E cmd \in Commands : SetLintDirective(cmd)
  \/ AddHostConfig
  \/ LoadModule
  \/ EndLine
  \/ EndOfFile
  \/ PostParse
  \/ Restart
  \/ Unload
  \/ Reread

Environment ==
  \/ \E d \in AllDirectives : FtpAccess(d)
  \/ Sighup
  \/ UnloadOther
  \/ Exit

Next == Progress \/ Environment

Spec == Init /\ [][Next]_vars

\* Reading a configuration is a loop over a finite file, in one thread that
\* nothing else makes wait.
FairSpec == Spec /\ WF_vars(Progress)

-----------------------------------------------------------------------------
(* Properties *)

Reading == phase \in {"parsing", "handling", "fixup"}

\* The module owns at most one pool, the one lint_pool names: none is leaked
\* by a restart, an unload or a reload, and neither of the two static pointers
\* survives its pool (lint_pool_cleanup).
PoolSafety ==
  /\ live = {lint_pool} \ {NULL}
  /\ ~Dangling(parsed_lines)
  /\ ~Dangling(associated_configs)

\* No listener touches memory that is not there: config_recs never accumulate
\* without a recorded line to give them to (lint_parsed_line_ev's previous
\* line, lint_postparse_ev's last line), and no list outlives its pool.
NoFault == phase # "faulted"

\* The config_recs that a line's own handlers added.
Own(line) == {c \in conf : c.by = line.lineno}

AttributedIn(lines) ==
  \A i \in DOMAIN lines :
    IF i < Len(lines)
    THEN lines[i].configs = Own(lines[i])
    ELSE /\ Own(lines[i]) \subseteq lines[i].configs
         /\ lines[i].configs \subseteq Own(lines[i]) \cup {c \in conf : c.by = 0}

\* The assumption of lint_parsed_line_ev, that what has accumulated belongs to
\* the previous line, gives every recorded line exactly the config_recs its
\* handlers added; only the last line may be given more, the ones the host
\* adds while it fixes up the servers.
AttributionExact ==
  /\ Reading => AttributedIn(LinesAtPostParse)
  /\ phase = "running" => AttributedIn(outcome.lines)

\* The lines recorded are the lines read since the module was loaded, every
\* one, once and in order, and none of an earlier configuration.
RecordedExactly ==
  Reading /\ loaded =>
    /\ Len(parsed_lines.elts) = Len(read) - since
    /\ \A i \in DOMAIN parsed_lines.elts :
         /\ parsed_lines.elts[i].lineno = since + i
         /\ parsed_lines.elts[i].directive = read[since + i]

\* No config_rec of an earlier configuration, whose memory the restart has
\* given back, is reachable from what the module keeps or emits.
NoStaleConfigs ==
  /\ associated_configs.elts \subseteq conf
  /\ \A i \in DOMAIN parsed_lines.elts : parsed_lines.elts[i].configs \subseteq conf
  /\ \A i \in DOMAIN outcome.lines : outcome.lines[i].configs \subseteq conf

\* A file is only emitted from a pool that exists, and with the line that asked
\* for it among the recorded ones (lint_write_config is given lint_pool).
EmissionHasItsLine ==
  outcome.result \in {"written", "failed"} =>
    /\ outcome.pool # NULL
    /\ \E i \in DOMAIN outcome.lines : outcome.lines[i].directive = "LintConfigFile"

\* While the server runs nothing changes in the module: not for the lines of an
\* .ftpaccess file, nor because another module is unloaded.
QuietWhileServing ==
  [][phase = "running" => UNCHANGED <<registered, lint_engine, poolvars, outcome>>]_vars

\* Every pool the module makes is given back once the configuration is read.
Released == lint_pool # NULL ~> lint_pool = NULL \/ phase \in Stopped

\* Whenever a configuration is read to its end with the module loaded, however
\* many restarts came before, the module makes a decision about it.
Answered ==
  phase = "fixup" /\ loaded ~>
    outcome.result # "none" \/ phase \in Stopped

-----------------------------------------------------------------------------
(* The inductive invariant, in the parts the proofs use. *)

\* The pool, and what is allocated from it.
PoolInv ==
  /\ live = {lint_pool} \ {NULL}
  /\ cleanup = live
  /\ lint_pool <= made
  /\ parsed_lines.pool \in {NULL, lint_pool}
  /\ associated_configs.pool = parsed_lines.pool
  /\ associated_configs.pool = NULL => associated_configs.elts = {}
  /\ parsed_lines.pool = NULL <=> parsed_lines.elts = <<>>

\* Which events the module listens to, and when it may own a pool.
EventInv ==
  /\ phase # "faulted"
  /\ phase = "boot" => ~loaded
  /\ ~loaded => registered = {} /\ lint_pool = NULL
  /\ loaded => {"core.postparse", "core.restart"} \subseteq registered
  /\ loaded /\ Shared => "core.module-unload" \in registered
  /\ "core.module-unload" \in pending => loaded /\ Shared
  /\ phase \in {"running", "restarting"} => lint_pool = NULL
  /\ phase = "running" => registered \cap ParseEvents = {}
  /\ Reading /\ loaded => ParseEvents \subseteq registered
  /\ phase = "restarting" /\ loaded /\ "core.restart" \notin pending
       => ParseEvents \subseteq registered

\* What has been recorded of the configuration being read.
RecordInv ==
  /\ since <= Len(read)
  /\ phase = "handling" => read # <<>>
  /\ phase = "handling" /\ Current \in LintDirectives => loaded /\ since < Len(read)
  /\ RecordedExactly

\* Where the config_recs are: an earlier line has exactly its own, the last
\* line's wait to be attached.
ConfigInv ==
  /\ \A c \in conf :
       /\ c.by <= Len(read)
       /\ c.kind.name \in LintDirectives /\ Reading =>
            since < c.by /\ read[c.by] = c.kind.name /\ loaded
  /\ Reading => outcome = NoOutcome
  /\ Reading => \A i \in DOMAIN parsed_lines.elts :
       parsed_lines.elts[i].configs =
         IF i < Len(parsed_lines.elts) THEN Own(parsed_lines.elts[i]) ELSE {}
  /\ Reading /\ parsed_lines.elts # <<>> =>
       /\ {c \in conf : c.by = Len(read)} \subseteq associated_configs.elts
       /\ associated_configs.elts \subseteq
            {c \in conf : c.by = Len(read) \/ (phase = "fixup" /\ c.by = 0)}
  /\ phase = "running" => AttributedIn(outcome.lines)
=============================================================================
