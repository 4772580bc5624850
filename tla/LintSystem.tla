----------------------------- MODULE LintSystem ------------------------------
(***************************************************************************)
(* The whole module at work: ModLint's life, in which each emission is the *)
(* run of LintWriter that it is in the code (src/mod_lint.c).              *)
(*                                                                         *)
(* ModLint does all of core.postparse in one step.  Here the listener      *)
(* starts, lint_write_config makes its calls one by one, each of which can *)
(* fail or be the last one before the process is killed, and the listener  *)
(* ends.  What the emission is given is what the module has recorded and   *)
(* what the host has in its configuration, and the file it opens is the    *)
(* one an earlier emission, or an earlier process, has left.               *)
(***************************************************************************)
EXTENDS ModLint, SequencesExt

CONSTANTS
  Symbols, Rank, Static, PR_USE_DSO, PR_USE_CTRLS, MaxShort,   \* of LintWriter
  Servers,       \* how many servers there are, the main one among them
  MainSettings,  \* the optional settings the main server has
  Modules        \* the loaded modules

VARIABLES
  \* Those of LintWriter, whose locals exist while lint_write_config runs.
  input, stage, queue, fh, file, errno, result, leftover, failed, shorts, closes,
  whole,
  \* Where the host's one thread is.
  emitting,      \* has lint_postparse_ev called lint_write_config?
  \* What the properties look at.
  before         \* what lint_postparse_ev had found when it was called

Writer == INSTANCE LintWriter WITH Configurations <- {}

\* Every directive there can be, or is written, is in the order of their names.
\* Each config_rec is of one of the servers, and LoadModule makes none.
ASSUME LintSystemAssumption ==
  /\ Rank \in [DOMAIN Rank -> Nat]
  /\ ToSet(Writer!SettingNames) \cup AllDirectives \subseteq DOMAIN Rank
  /\ Servers \in Nat \ {0}
  /\ \A kind \in Kinds : /\ kind.server \in 1 .. Servers
                         /\ Writer!DirectiveOf(kind) # "LoadModule"
  /\ Modules \in Seq(Nat)

locals == <<input, stage, queue, fh, errno, result, failed, shorts, closes, whole>>
writervars == <<locals, file, leftover>>
systemvars == <<vars, writervars, emitting, before>>

-----------------------------------------------------------------------------
(* What the emission is given *)

\* Each line of each configuration has a text of its own.
TextOf(lineno) == restarts * MaxLines + lineno

\* The recorded lines of the module, as lint_find_parsed_line sees them.
RecordedLines ==
  [i \in DOMAIN LinesAtPostParse |->
    [directive |-> LinesAtPostParse[i].directive,
     arg |-> TextOf(LinesAtPostParse[i].lineno)]]

\* The config_recs of a server, those in its sections included.  The lines added
\* for them are sorted before they are written, so that the order they were added
\* in may stand for the order of the tree.
ConfOf(server) == {c \in conf : c.kind.server = server}

Nth(S, n) == CHOOSE c \in S : Cardinality({o \in S : o.id <= c.id}) = n

AsWritten(c) ==
  [config_type |-> c.kind.config_type, name |-> c.kind.name, depth |-> c.kind.depth,
   from |-> IF c.by > since THEN c.by - since ELSE 0]

ServerConf(server) ==
  [n \in 1 .. Cardinality(ConfOf(server)) |-> AsWritten(Nth(ConfOf(server), n))]

EmissionInput ==
  [lines |-> RecordedLines, servers |-> [server \in 1 .. Servers |-> ServerConf(server)],
   settings |-> MainSettings, modules |-> Modules, classes |-> <<>>]

NoInput == [lines |-> <<>>, servers |-> << <<>> >>, settings |-> {},
            modules |-> <<>>, classes |-> <<>>]

-----------------------------------------------------------------------------
(* The steps of core.postparse *)

NotBefore == [registered |-> {}, lint_engine |-> 1, parsed_lines |-> NoLines,
              associated_configs |-> NoConfigs]

NoLocals ==
  /\ input' = NoInput
  /\ stage' = "open"
  /\ queue' = <<>>
  /\ fh' = "none"
  /\ errno' = "none"
  /\ result' = "none"
  /\ failed' = "none"
  /\ shorts' = 0
  /\ closes' = 0
  /\ whole' = <<>>

\* Will the listener emit the file?
Emits ==
  /\ "core.postparse" \in registered
  /\ ~PostParseFaults
  /\ PostParseResults = {"written", "failed"}

\* lint_postparse_ev up to its call of lint_write_config.
StartEmission ==
  /\ phase = "fixup"
  /\ Emits
  /\ ~emitting
  /\ emitting' = TRUE
  /\ before' = [registered |-> registered, lint_engine |-> lint_engine,
                parsed_lines |-> parsed_lines,
                associated_configs |-> associated_configs]
  /\ parsed_lines' = [parsed_lines EXCEPT !.elts = LinesAtPostParse]
  /\ associated_configs' = [associated_configs EXCEPT !.elts = {}]
  /\ registered' = StillListening
  /\ lint_engine' =
       IF FindConfig("LintEngine") = {}
       THEN lint_engine
       ELSE (CHOOSE c \in FindConfig("LintEngine") : TRUE).value
  /\ input' = EmissionInput
  /\ UNCHANGED <<hostvars, lint_pool, live, cleanup, made, outcome, stage, queue,
                 fh, file, errno, result, leftover, failed, shorts, closes, whole>>

\* One call of lint_write_config.
EmissionStep ==
  /\ phase = "fixup"
  /\ emitting
  /\ Writer!Emit
  /\ UNCHANGED <<vars, emitting, before>>

\* The pool goes with its sub-pools; a sub-pool of NULL is nobody's.
ReleasePool_OnSuccess ==   \* mutant: the pool is kept when the emission fails
  IF result = "ok"
  THEN /\ DestroyLintPool
       /\ leftover' = IF lint_pool = NULL THEN leftover ELSE 0
  ELSE UNCHANGED <<poolvars, leftover>>

ReleasePool ==
  /\ DestroyLintPool
  /\ leftover' = IF lint_pool = NULL THEN leftover ELSE 0

\* What the listener makes of the answer: a trace message, if it is an error.
EndEmission ==
  /\ phase = "fixup"
  /\ emitting
  /\ result \in {"ok", "error"}
  /\ emitting' = FALSE
  /\ before' = NotBefore
  /\ phase' = "running"
  /\ outcome' = [result |-> IF result = "ok" THEN "written" ELSE "failed",
                 lines |-> parsed_lines.elts, pool |-> lint_pool]
  /\ ReleasePool
  /\ UNCHANGED <<loaded, pending, read, since, conf, nconf, restarts, registered,
                 lint_engine, locals, file>>

-----------------------------------------------------------------------------
(* The host around them *)

SystemInit ==
  /\ Init
  /\ input = NoInput
  /\ stage = "open"
  /\ queue = <<>>
  /\ fh = "none"
  /\ file = Writer!OldContents
  /\ errno = "none"
  /\ result = "none"
  /\ leftover = 0
  /\ failed = "none"
  /\ shorts = 0
  /\ closes = 0
  /\ whole = <<>>
  /\ emitting = FALSE
  /\ before = NotBefore

\* The steps of ModLint that no emission is part of.
HostProgress ==
  /\ ~emitting
  /\ \/ Boot
     \/ \E d \in AllDirectives : ReadLine(d)
     \/ AddConfig
     \/ \E cmd \in Commands : SetLintDirective(cmd)
     \/ AddHostConfig
     \/ LoadModule
     \/ EndLine
     \/ EndOfFile
     \/ ~Emits /\ PostParse
     \/ Restart
     \/ Unload
  /\ UNCHANGED <<writervars, emitting, before>>

\* The new configuration is read; nothing is left of the emission but the file.
RereadConfig ==
  /\ Reread
  /\ NoLocals
  /\ UNCHANGED <<file, leftover, emitting, before>>

SystemProgress ==
  HostProgress \/ RereadConfig \/ StartEmission \/ EmissionStep \/ EndEmission

\* The process may be killed between two calls of the emission.
SystemEnvironment ==
  /\ \/ \E d \in AllDirectives : FtpAccess(d)
     \/ Sighup
     \/ UnloadOther
     \/ Exit
  /\ UNCHANGED <<writervars, emitting, before>>

SystemNext == SystemProgress \/ SystemEnvironment

SystemSpec == SystemInit /\ [][SystemNext]_systemvars

\* The host's one thread goes on, and so does the emission that runs in it.
SystemFairSpec == SystemSpec /\ WF_systemvars(SystemProgress)

-----------------------------------------------------------------------------
(* Properties *)

\* The system, its emissions seen as the single steps they are in ModLint, is
\* a ModLint: whichever calls fail and wherever the process is killed, nothing
\* of a half-done core.postparse is visible before or after it.
Lifecycle == INSTANCE ModLint WITH
  registered <- IF emitting THEN before.registered ELSE registered,
  lint_engine <- IF emitting THEN before.lint_engine ELSE lint_engine,
  parsed_lines <- IF emitting THEN before.parsed_lines ELSE parsed_lines,
  associated_configs <-
    IF emitting THEN before.associated_configs ELSE associated_configs

ImplementsModLint == Lifecycle!Spec

\* Is the item a line of a configuration?  A setting of the host has no text of its
\* own, and the argument of a LoadModule is a module.
ConfigLine(item) == item.kind = "line" /\ item.arg # 0 /\ item.name # "LoadModule"

\* Is it the first line of its directive that the module heard of?
FirstHeardOf(lineno) ==
  /\ lineno > since
  /\ \A earlier \in since + 1 .. lineno - 1 : read[earlier] # read[lineno]

\* The config_recs for which the emission looks for a line of the directive.
MadeFor(directive) ==
  {c \in conf : Writer!HasDirective(c.kind) /\ Writer!DirectiveOf(c.kind) = directive}

\* How deep a line is to be indented, wherever it is to be written.
DepthsOf(lineno) ==
  (IF read[lineno] \in Writer!LooksFor THEN {0} ELSE {})
    \cup {c.kind.depth : c \in MadeFor(read[lineno])}

\* A file for which success is answered, no write having been cut short, holds
\* of the lines the host read exactly those that are the first of their
\* directive since the module was loaded and whose directive is looked up, or is
\* the one some config_rec leads to: of whatever name, in whatever section of
\* whatever server, and indented as deep as that.  It holds no line before
\* LoadModule mod_lint.c, whatever it configures, and no other line that made
\* nothing.
CompleteFile ==
  phase = "running" /\ outcome.result = "written" /\ shorts = 0 =>
    {item \in ToSet(file) : ConfigLine(item)} =
      UNION {{Writer!Line(read[n], TextOf(n), depth) : depth \in DepthsOf(n)} :
               n \in {m \in DOMAIN read : FirstHeardOf(m)}}

\* "Failed to properly reconstruct full config due to unknown config_rec name"
\* (t/lib/ProFTPD/Tests/Modules/mod_lint.pm): every config_rec that a line of its
\* own directive made has such a line in the file.
Reconstructed ==
  phase = "running" /\ outcome.result = "written" /\ shorts = 0 =>
    \A n \in DOMAIN read : \A c \in MadeFor(read[n]) : c.by = n =>
      \E item \in ToSet(file) : /\ ConfigLine(item) /\ item.name = read[n]
                                /\ item.depth = c.kind.depth

\* The configuration an item was written for, if the item can tell.
FromConfig(item) ==
  IF ConfigLine(item) THEN {(item.arg - 1) \div MaxLines} ELSE {}

\* The file never mixes what two emissions wrote, of the same process or of an
\* earlier one, whatever failed in the first; and what success is answered for
\* is of the configuration that has just been read.
OneConfiguration ==
  /\ (\E p \in DOMAIN file : file[p].kind = "old") => file = Writer!OldContents
  /\ Cardinality(UNION {FromConfig(item) : item \in ToSet(file)}) <= 1
  /\ phase = "running" /\ outcome.result = "written" =>
       UNION {FromConfig(item) : item \in ToSet(file)} \subseteq {restarts}

\* The context pools that a failing emission leaves behind are given back with
\* lint_pool, so that nothing is left of it while the server runs, and no file
\* is left open.
NothingLeft ==
  phase \in {"running", "restarting"} =>
    /\ live = {} /\ leftover = 0
    /\ fh # "open"

\* Whenever a configuration is read to its end with the module loaded, the
\* module makes a decision about it, the emission's failures included.
SystemAnswered ==
  phase = "fixup" /\ loaded ~>
    outcome.result # "none" \/ phase \in Stopped
=============================================================================
