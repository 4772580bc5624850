-------------------------- MODULE LintSystemProofs ---------------------------
(***************************************************************************)
(* Theorems about LintSystem, whatever is recorded and whichever calls of  *)
(* an emission fail: the system is a ModLint, nothing is left behind, the  *)
(* file is never of two configurations, and a file for which success is    *)
(* answered has the lines of its configuration that it should have.        *)
(***************************************************************************)
EXTENDS LintSystem, ModLintRecordProofs, FiniteSetTheorems, FunctionTheorems

\* While the listener of core.postparse runs, it has done to the module what
\* ModLint says it does in one step, except for what the answer brings.
EmittingInv ==
  /\ loaded /\ lint_pool # NULL
  /\ TypeOK /\ PoolInv
  /\ {"core.postparse", "core.restart"} \subseteq registered
  /\ registered \cap ParseEvents = {}
  /\ Shared => "core.module-unload" \in registered
  /\ "core.module-unload" \in pending => Shared
  /\ since <= Len(read)
  /\ \A c \in conf : c.by <= Len(read)
  /\ AttributedIn(parsed_lines.elts)
  /\ \E i \in DOMAIN parsed_lines.elts :
       parsed_lines.elts[i].directive = "LintConfigFile"

\* The value of the config_rec that find_config returns.
ValueIn(found) == (CHOOSE c \in found : TRUE).value

\* And it has done it to what it had found.
FoundBefore ==
  /\ "core.postparse" \in before.registered
  /\ ~Lifecycle!PostParseFaults
  /\ PostParseResults = {"written", "failed"}
  /\ registered = Lifecycle!StillListening
  /\ lint_engine = IF FindConfig("LintEngine") = {}
                   THEN before.lint_engine
                   ELSE ValueIn(FindConfig("LintEngine"))
  /\ parsed_lines.elts = Lifecycle!LinesAtPostParse

\* The file is open only during an emission, and before its answer.
HandleInv ==
  /\ stage = "open" => fh # "open"
  /\ fh = "open" => result = "none"
  /\ ~emitting => fh # "open" /\ leftover = 0

SystemInv ==
  /\ ~emitting => FullInv
  /\ emitting => phase \in {"fixup", "exited"}
  /\ emitting /\ phase = "fixup" => EmittingInv /\ FoundBefore
  /\ HandleInv

-----------------------------------------------------------------------------
(* Without an emission the system is the ModLint it extends. *)

\* The cardinality of a set is the same in both.
LEMMA SameCardinality == \A S : Lifecycle!Cardinality(S) = Cardinality(S)
  BY DEF Lifecycle!Cardinality, Cardinality

\* A config_rec is heard of as in ModLint.
LEMMA HostAdded ==
  ASSUME ~emitting, ~emitting', NEW c, lint_added_config_ev(c)
  PROVE  Lifecycle!lint_added_config_ev(c)
  BY DEF lint_added_config_ev, NULL, Lifecycle!lint_added_config_ev, Lifecycle!NULL

\* And it is added as in ModLint.
LEMMA HostAddConfigRec ==
  ASSUME ~emitting, ~emitting',
         NEW kind, NEW by, NEW value, NEW next, AddConfigRec(kind, by, value, next)
  PROVE  Lifecycle!AddConfigRec(kind, by, value, next)
  <1> DEFINE c == [id |-> nconf + 1, kind |-> kind, by |-> by, value |-> value]
  <1>1. /\ Cardinality(conf) < MaxConfigs
        /\ conf' = conf \cup {c} /\ nconf' = nconf + 1
        /\ UNCHANGED <<loaded, pending, read, since, restarts>>
        /\ phase' = IF "core.added-config" \in registered /\ AddedConfigFaults
                    THEN "faulted"
                    ELSE next
    BY DEF AddConfigRec
  <1>2. Lifecycle!AddedConfigFaults = AddedConfigFaults
    BY DEF AddedConfigFaults, Dangling, NULL,
           Lifecycle!AddedConfigFaults, Lifecycle!Dangling, Lifecycle!NULL
  <1>3. Lifecycle!Cardinality(conf) = Cardinality(conf)
    BY SameCardinality
  <1> HIDE DEF c
  <1>4. CASE "core.added-config" \in registered
    <2>1. lint_added_config_ev(c)
      BY <1>4 DEF AddConfigRec, c
    <2>2. Lifecycle!lint_added_config_ev(c)
      BY <2>1, HostAdded
    <2> QED BY <1>1, <1>2, <1>3, <1>4, <2>2 DEF Lifecycle!AddConfigRec, c
  <1>5. CASE "core.added-config" \notin registered
    <2>1. UNCHANGED <<registered, lint_engine, poolvars, outcome>>
      BY <1>5 DEF AddConfigRec
    <2> QED BY <1>1, <1>2, <1>3, <1>5, <2>1
            DEF Lifecycle!AddConfigRec, c, poolvars, Lifecycle!poolvars
  <1> QED BY <1>4, <1>5

\* The kinds of config_recs are the same, and where they fit.
LEMMA SameKinds ==
  /\ \A name : Lifecycle!Param(name) = Param(name)
  /\ \A kind : Lifecycle!Fits(kind) <=> Fits(kind)
  BY DEF Param, MainServer, Fits, Lifecycle!Param, Lifecycle!MainServer, Lifecycle!Fits

\* The handlers answer the same.
LEMMA SameAnswers ==
  ASSUME NEW cmd
  PROVE  /\ Lifecycle!set_lintengine(cmd) = set_lintengine(cmd)
         /\ Lifecycle!set_lintconfigfile(cmd) = set_lintconfigfile(cmd)
  BY DEF set_lintengine, set_lintconfigfile, get_boolean, Handled, Error, CHECK_ARGS,
         CHECK_CONF, Lifecycle!set_lintengine, Lifecycle!set_lintconfigfile,
         Lifecycle!get_boolean, Lifecycle!Handled, Lifecycle!Error,
         Lifecycle!CHECK_ARGS, Lifecycle!CHECK_CONF

\* Each step of the module and of its host is that step of ModLint.
LEMMA HostStep ==
  ASSUME ~emitting, ~emitting', Next
  PROVE  Lifecycle!Next
  <1>1. ASSUME Boot PROVE Lifecycle!Boot
    BY <1>1 DEF
      Boot, lint_init, MakeLintPool, Registered, Events, poolvars, Lifecycle!Boot,
      Lifecycle!lint_init, Lifecycle!MakeLintPool, Lifecycle!Registered,
      Lifecycle!Events, Lifecycle!poolvars
  <1>2. ASSUME NEW d \in AllDirectives, ReadLine(d)
        PROVE  Lifecycle!ReadLine(d)
    BY <1>2 DEF
      ReadLine, lint_parsed_line_ev, HasHandler, EnsureLintPool, MakeLintPool, Attach,
      ClearedConfigs, ParsedLineFaults, Dangling, LintDirectives, NULL, poolvars,
      Lifecycle!ReadLine, Lifecycle!lint_parsed_line_ev, Lifecycle!HasHandler,
      Lifecycle!EnsureLintPool, Lifecycle!MakeLintPool, Lifecycle!Attach,
      Lifecycle!ClearedConfigs, Lifecycle!ParsedLineFaults, Lifecycle!Dangling,
      Lifecycle!LintDirectives, Lifecycle!NULL, Lifecycle!poolvars
  <1>3. ASSUME AddConfig PROVE Lifecycle!AddConfig
    <2>1. /\ phase = "handling" /\ Current \in Directives
          /\ Lifecycle!Current = Current
      BY <1>3 DEF AddConfig, Current, Lifecycle!Current
    <2>2. PICK kind \in Kinds : Fits(kind) /\ AddConfigRec(kind, Len(read), 0, "handling")
      BY <1>3 DEF AddConfig
    <2>3. Lifecycle!Fits(kind) /\ Lifecycle!AddConfigRec(kind, Len(read), 0, "handling")
      BY <2>2, SameKinds, HostAddConfigRec
    <2> QED BY <2>1, <2>3 DEF Lifecycle!AddConfig
  <1>4. ASSUME NEW cmd \in Commands, SetLintDirective(cmd)
        PROVE  Lifecycle!SetLintDirective(cmd)
    BY <1>4, HostAddConfigRec, SameAnswers, SameKinds DEF
      SetLintDirective, Current, LintDirectives, poolvars, Lifecycle!SetLintDirective,
      Lifecycle!Current, Lifecycle!LintDirectives, Lifecycle!poolvars
  <1>5. ASSUME AddHostConfig PROVE Lifecycle!AddHostConfig
    <2>1. phase = "fixup" \/ (phase = "parsing" /\ read = <<>>)
      BY <1>5 DEF AddHostConfig
    <2>2. PICK kind \in Kinds : Fits(kind) /\ AddConfigRec(kind, 0, 0, phase)
      BY <1>5 DEF AddHostConfig
    <2>3. Lifecycle!Fits(kind) /\ Lifecycle!AddConfigRec(kind, 0, 0, phase)
      BY <2>2, SameKinds, HostAddConfigRec
    <2> QED BY <2>1, <2>3 DEF Lifecycle!AddHostConfig
  <1>6. ASSUME LoadModule PROVE Lifecycle!LoadModule
    BY <1>6 DEF
      LoadModule, Current, lint_init, MakeLintPool, Registered, Events, poolvars,
      Lifecycle!LoadModule, Lifecycle!Current, Lifecycle!lint_init,
      Lifecycle!MakeLintPool, Lifecycle!Registered, Lifecycle!Events,
      Lifecycle!poolvars
  <1>7. ASSUME EndLine PROVE Lifecycle!EndLine
    BY <1>7 DEF
      EndLine, Current, LintDirectives, poolvars, Lifecycle!EndLine,
      Lifecycle!Current, Lifecycle!LintDirectives, Lifecycle!poolvars
  <1>8. ASSUME EndOfFile PROVE Lifecycle!EndOfFile
    BY <1>8 DEF
      EndOfFile, poolvars, Lifecycle!EndOfFile, Lifecycle!poolvars
  <1>9. ASSUME PostParse PROVE Lifecycle!PostParse
    BY <1>9, SameKinds DEF
      PostParse, lint_postparse_ev, StillListening, ParseEvents, FindConfig,
      PostParseResults, LinesAtPostParse, Attach, AfterPostParse, DestroyLintPool,
      lint_pool_cleanup, NoLines, NoConfigs, NULL, PostParseFaults, Dangling,
      poolvars, Lifecycle!PostParse, Lifecycle!lint_postparse_ev,
      Lifecycle!StillListening, Lifecycle!ParseEvents, Lifecycle!FindConfig,
      Lifecycle!PostParseResults, Lifecycle!LinesAtPostParse, Lifecycle!Attach,
      Lifecycle!AfterPostParse, Lifecycle!DestroyLintPool,
      Lifecycle!lint_pool_cleanup, Lifecycle!NoLines, Lifecycle!NoConfigs,
      Lifecycle!NULL, Lifecycle!PostParseFaults, Lifecycle!Dangling,
      Lifecycle!poolvars
  <1>10. ASSUME Restart PROVE Lifecycle!Restart
    BY <1>10 DEF
      Restart, lint_restart_ev, ParseEvents, poolvars, Lifecycle!Restart,
      Lifecycle!lint_restart_ev, Lifecycle!ParseEvents, Lifecycle!poolvars
  <1>11. ASSUME Unload PROVE Lifecycle!Unload
    BY <1>11 DEF
      Unload, lint_mod_unload_ev, DestroyLintPool, lint_pool_cleanup, NoLines,
      NoConfigs, NULL, poolvars, Lifecycle!Unload, Lifecycle!lint_mod_unload_ev,
      Lifecycle!DestroyLintPool, Lifecycle!lint_pool_cleanup, Lifecycle!NoLines,
      Lifecycle!NoConfigs, Lifecycle!NULL, Lifecycle!poolvars
  <1>12. ASSUME Reread PROVE Lifecycle!Reread
    BY <1>12 DEF
      Reread, NoOutcome, NULL, poolvars, Lifecycle!Reread, Lifecycle!NoOutcome,
      Lifecycle!NULL, Lifecycle!poolvars
  <1>13. ASSUME NEW d \in AllDirectives, FtpAccess(d)
        PROVE  Lifecycle!FtpAccess(d)
    BY <1>13 DEF
      FtpAccess, lint_parsed_line_ev, HasHandler, EnsureLintPool, MakeLintPool,
      Attach, ClearedConfigs, LintDirectives, hostvars, NULL, poolvars,
      Lifecycle!FtpAccess, Lifecycle!lint_parsed_line_ev, Lifecycle!HasHandler,
      Lifecycle!EnsureLintPool, Lifecycle!MakeLintPool, Lifecycle!Attach,
      Lifecycle!ClearedConfigs, Lifecycle!LintDirectives, Lifecycle!hostvars,
      Lifecycle!NULL, Lifecycle!poolvars
  <1>14. ASSUME Sighup PROVE Lifecycle!Sighup
    BY <1>14 DEF
      Sighup, poolvars, Lifecycle!Sighup, Lifecycle!poolvars
  <1>15. ASSUME UnloadOther PROVE Lifecycle!UnloadOther
    BY <1>15 DEF
      UnloadOther, lint_mod_unload_ev, DestroyLintPool, lint_pool_cleanup, NoLines,
      NoConfigs, NULL, hostvars, poolvars, Lifecycle!UnloadOther,
      Lifecycle!lint_mod_unload_ev, Lifecycle!DestroyLintPool,
      Lifecycle!lint_pool_cleanup, Lifecycle!NoLines, Lifecycle!NoConfigs,
      Lifecycle!NULL, Lifecycle!hostvars, Lifecycle!poolvars
  <1>16. ASSUME Exit PROVE Lifecycle!Exit
    BY <1>16 DEF
      Exit, Stopped, poolvars, Lifecycle!Exit, Lifecycle!Stopped, Lifecycle!poolvars
  <1>17. AllDirectives = Lifecycle!AllDirectives /\ Commands = Lifecycle!Commands
    BY DEF AllDirectives, LintDirectives, Commands, Contexts, Arguments,
           Lifecycle!AllDirectives, Lifecycle!LintDirectives, Lifecycle!Commands,
           Lifecycle!Contexts, Lifecycle!Arguments
  <1>18. Progress => Lifecycle!Progress
    BY <1>1, <1>2, <1>3, <1>4, <1>5, <1>6, <1>7, <1>8, <1>9, <1>10, <1>11, <1>12, <1>13,
       <1>14, <1>15, <1>16, <1>17 DEF Progress, Lifecycle!Progress
  <1>19. Environment => Lifecycle!Environment
    BY <1>1, <1>2, <1>3, <1>4, <1>5, <1>6, <1>7, <1>8, <1>9, <1>10, <1>11, <1>12, <1>13,
       <1>14, <1>15, <1>16, <1>17 DEF Environment, Lifecycle!Environment
  <1> QED BY <1>18, <1>19 DEF Next, Lifecycle!Next

-----------------------------------------------------------------------------
(* The file handle *)

\* No function of the emission is called before the file is opened.
LEMMA AfterIsNotOpen ==
  ASSUME NEW s \in Writer!ToSet(Writer!Stages)
  PROVE  Writer!After(s) # "open"
  <1> DEFINE n == CHOOSE n \in DOMAIN Writer!Stages : Writer!Stages[n] = s
  <1>1. DOMAIN Writer!Stages = 1 .. 7 /\ Len(Writer!Stages) = 7
    BY DEF Writer!Stages
  <1>2. n \in 1 .. 7
    BY <1>1 DEF Writer!ToSet
  <1>3. ASSUME n # 7 PROVE Writer!Stages[n + 1] # "open"
    <2> HIDE DEF n
    <2>1. n \in {1, 2, 3, 4, 5, 6}
      BY <1>2, <1>3
    <2> QED BY <2>1 DEF Writer!Stages
  <1> QED BY <1>1, <1>3 DEF Writer!After

\* The handle is closed before the answer, on every way out of lint_write_config.
LEMMA HandleStep == HandleInv /\ EmissionStep => HandleInv'
  <1> SUFFICES ASSUME HandleInv, Writer!Emit, emitting, UNCHANGED emitting
               PROVE  HandleInv'
    BY DEF EmissionStep
  <1> USE DEF HandleInv
  <1>0. result = "none" /\ emitting'
    BY DEF Writer!Emit
  <1>1. CASE Writer!Open
    BY <1>0, <1>1 DEF Writer!Open, Writer!Stages
  <1>2. CASE Writer!OpenFails
    BY <1>0, <1>2 DEF Writer!OpenFails
  <1>3. CASE Writer!Write \/ Writer!ShortWrite \/ Writer!WriteFails
    BY <1>0, <1>3 DEF Writer!Write, Writer!ShortWrite, Writer!WriteFails
  <1>4. CASE Writer!NextStage
    BY <1>0, <1>4, AfterIsNotOpen DEF Writer!NextStage
  <1>5. CASE Writer!CloseAfterFailure \/ Writer!Close
    BY <1>0, <1>5 DEF Writer!CloseAfterFailure, Writer!Close
  <1> QED BY <1>1, <1>2, <1>3, <1>4, <1>5 DEF Writer!Emit

-----------------------------------------------------------------------------
(* SystemInv is inductive. *)

\* At its start the system is a ModLint that does not emit.
LEMMA SystemInitInv == SystemInit => SystemInv /\ Lifecycle!Init
  <1> SUFFICES ASSUME SystemInit PROVE SystemInv /\ Lifecycle!Init
    OBVIOUS
  <1>1. SystemInv
    BY FullInit DEF SystemInit, SystemInv, HandleInv
  <1>2. Lifecycle!Init
    BY DEF SystemInit, Init, NULL, NoLines, NoConfigs, NoOutcome, Lifecycle!Init,
           Lifecycle!NULL, Lifecycle!NoLines, Lifecycle!NoConfigs, Lifecycle!NoOutcome
  <1> QED BY <1>1, <1>2

\* A step that no emission is part of.
LEMMA HostKeeps ==
  ASSUME SystemInv, HostProgress \/ RereadConfig
  PROVE  SystemInv' /\ Lifecycle!Next
  <1>1. ~emitting /\ ~emitting' /\ Next /\ FullInv
    <2>1. CASE HostProgress
      BY <2>1 DEF HostProgress, SystemInv, Next, Progress
    <2>2. CASE RereadConfig
      BY <2>2 DEF RereadConfig, SystemInv, Next, Progress, Reread
    <2> QED BY <2>1, <2>2
  <1>2. FullInv'
    BY <1>1, FullNext
  <1>3. HandleInv'
    <2>1. CASE HostProgress
      <3>1. /\ stage' = stage /\ fh' = fh /\ result' = result
            /\ leftover' = leftover
        BY <2>1 DEF HostProgress, writervars, locals
      <3> QED BY <1>1, <3>1 DEF SystemInv, HandleInv
    <2>2. CASE RereadConfig
      <3>1. fh' = "none" /\ leftover' = leftover
        BY <2>2 DEF RereadConfig, NoLocals
      <3> QED BY <1>1, <3>1 DEF SystemInv, HandleInv
    <2> QED BY <2>1, <2>2
  <1> QED BY <1>1, <1>2, <1>3, HostStep DEF SystemInv

\* The listener is called: nothing of it is visible yet.
LEMMA StartKeeps ==
  ASSUME SystemInv, StartEmission
  PROVE  SystemInv' /\ UNCHANGED Lifecycle!vars
  <1>1. /\ phase = "fixup" /\ Emits /\ ~emitting /\ emitting' /\ FullInv /\ Reading
        /\ UNCHANGED <<hostvars, lint_pool, live, cleanup, made, outcome>>
        /\ UNCHANGED <<stage, fh, result, leftover>>
        /\ registered' = StillListening
        /\ parsed_lines' = [parsed_lines EXCEPT !.elts = LinesAtPostParse]
        /\ associated_configs' = [associated_configs EXCEPT !.elts = {}]
        /\ lint_engine' = IF FindConfig("LintEngine") = {}
                          THEN lint_engine
                          ELSE (CHOOSE c \in FindConfig("LintEngine") : TRUE).value
        /\ before' = [registered |-> registered, lint_engine |-> lint_engine,
                      parsed_lines |-> parsed_lines,
                      associated_configs |-> associated_configs]
    BY DEF StartEmission, SystemInv, Reading
  <1>2. UNCHANGED Lifecycle!vars
    BY <1>1 DEF Lifecycle!vars, Lifecycle!hostvars, Lifecycle!poolvars, hostvars
  <1>3. /\ "core.postparse" \in registered /\ ~PostParseFaults
        /\ PostParseResults = {"written", "failed"}
    BY <1>1 DEF Emits
  <1>4. FindConfig("LintConfigFile") # {}
    BY <1>3 DEF PostParseResults
  <1>5. SafeInv /\ TypeOK /\ PoolInv /\ EventInv /\ RecordInv /\ ConfigInv
    BY <1>1 DEF FullInv, SafeInv
  <1> DEFINE A == LinesAtPostParse
  <1>6. /\ lint_pool # NULL /\ loaded /\ AttributedIn(A)
        /\ \E i \in DOMAIN A : A[i].directive = "LintConfigFile"
    <2>1. lint_pool # NULL /\ \E i \in DOMAIN A : A[i].directive = "LintConfigFile"
      BY <1>1, <1>4, AskedByALine
    <2>2. AttributedIn(A)
      BY <1>1, Attribution
    <2> QED BY <1>5, <2>1, <2>2 DEF EventInv
  <1>7. A \in Seq(Lines) /\ parsed_lines.elts # <<>> /\ A # <<>>
    <2>1. /\ parsed_lines.elts \in Seq(Lines)
          /\ associated_configs.elts \in SUBSET Configs
      BY <1>5 DEF TypeOK
    <2>2. A \in Seq(Lines) /\ Len(A) = Len(parsed_lines.elts)
      BY <2>1, AttachKeeps DEF LinesAtPostParse
    <2>3. A # <<>>
      BY <1>6
    <2> QED BY <2>1, <2>2, <2>3
  <1>8. parsed_lines'.elts = A /\ parsed_lines'.pool = parsed_lines.pool
        /\ parsed_lines' \in [pool : Nat, elts : Seq(Lines)]
        /\ associated_configs'.elts = {} /\ associated_configs'.pool = associated_configs.pool
        /\ associated_configs' \in [pool : Nat, elts : SUBSET Configs]
    BY <1>1, <1>5, <1>7 DEF TypeOK
  <1> HIDE DEF A
  <1>9. lint_engine' \in CBOOLEAN /\ registered' \in SUBSET Events
    BY <1>1, <1>5 DEF TypeOK, FindConfig, Configs, StillListening
  <1>10. TypeOK'
    BY <1>1, <1>5, <1>8, <1>9 DEF TypeOK, hostvars
  <1>11. PoolInv'
    BY <1>1, <1>5, <1>7, <1>8 DEF PoolInv
  <1>12. /\ {"core.postparse", "core.restart"} \subseteq registered'
         /\ registered' \cap ParseEvents = {}
         /\ Shared => "core.module-unload" \in registered'
         /\ "core.module-unload" \in pending' => Shared
    BY <1>1, <1>5, <1>6 DEF EventInv, StillListening, ParseEvents, hostvars
  <1>13. EmittingInv'
    <2>1. AttributedIn(parsed_lines.elts)'
      BY <1>1, <1>6, <1>8 DEF AttributedIn, Own, hostvars
    <2>2. since <= Len(read) /\ \A c \in conf : c.by <= Len(read)
      BY <1>5 DEF RecordInv, ConfigInv
    <2> QED BY <1>1, <1>6, <1>8, <1>10, <1>11, <1>12, <2>1, <2>2 DEF EmittingInv, hostvars
  <1>14. FoundBefore'
    <2>1. /\ before'.registered = registered /\ before'.lint_engine = lint_engine
          /\ before'.parsed_lines = parsed_lines
          /\ before'.associated_configs = associated_configs
      BY <1>1
    <2>2. ~Lifecycle!PostParseFaults'
      BY <1>1, <1>3, <2>1 DEF PostParseFaults, Dangling, NULL, Lifecycle!PostParseFaults,
         Lifecycle!Dangling, Lifecycle!NULL
    <2>3. registered' = Lifecycle!StillListening'
      BY <1>1, <2>1 DEF StillListening, ParseEvents, Lifecycle!StillListening,
                        Lifecycle!ParseEvents
    <2>4. parsed_lines'.elts = Lifecycle!LinesAtPostParse'
      BY <1>1, <1>8, <2>1 DEF LinesAtPostParse, Attach, A, Lifecycle!LinesAtPostParse,
                              Lifecycle!Attach
    <2>5. FindConfig("LintEngine")' = FindConfig("LintEngine")
      BY <1>1 DEF FindConfig, hostvars
    <2>7. lint_engine' = IF FindConfig("LintEngine") = {}
                         THEN before'.lint_engine
                         ELSE ValueIn(FindConfig("LintEngine"))
      BY <1>1, <2>1 DEF ValueIn
    <2>6. PostParseResults' = PostParseResults
      BY <1>1 DEF PostParseResults, FindConfig, hostvars
    <2> QED BY <1>1, <1>3, <2>1, <2>2, <2>3, <2>4, <2>5, <2>6, <2>7 DEF FoundBefore
  <1>15. HandleInv'
    BY <1>1 DEF SystemInv, HandleInv
  <1> QED BY <1>1, <1>2, <1>13, <1>14, <1>15 DEF SystemInv, hostvars

\* What is known of an emission stays so as long as the module is left alone.
LEMMA EmittingStill ==
  ASSUME emitting, emitting', EmittingInv, FoundBefore, UNCHANGED <<vars, before>>
  PROVE  EmittingInv' /\ FoundBefore'
  <1>1. EmittingInv'
    BY DEF EmittingInv, TypeOK, PoolInv, AttributedIn, Own, vars, hostvars, poolvars
  <1>2. FoundBefore'
    <2>1. /\ before' = before /\ conf' = conf /\ registered' = registered
          /\ lint_engine' = lint_engine /\ parsed_lines' = parsed_lines
          /\ associated_configs' = associated_configs /\ live' = live
      BY DEF vars, hostvars, poolvars
    <2>2. FindConfig("LintEngine")' = FindConfig("LintEngine")
      BY <2>1 DEF FindConfig
    <2>3. PostParseResults' = PostParseResults
      BY <2>1 DEF FindConfig, PostParseResults
    <2>4. Lifecycle!PostParseFaults' <=> Lifecycle!PostParseFaults
      BY <2>1 DEF Lifecycle!PostParseFaults, Lifecycle!Dangling, Lifecycle!NULL
    <2>5. /\ Lifecycle!StillListening' = Lifecycle!StillListening
          /\ Lifecycle!LinesAtPostParse' = Lifecycle!LinesAtPostParse
      BY <2>1 DEF Lifecycle!StillListening, Lifecycle!LinesAtPostParse, Lifecycle!Attach
    <2> QED BY <2>1, <2>2, <2>3, <2>4, <2>5 DEF FoundBefore
  <1> QED BY <1>1, <1>2

\* One call of lint_write_config is not visible either.
LEMMA EmissionKeeps ==
  ASSUME SystemInv, EmissionStep
  PROVE  SystemInv' /\ UNCHANGED Lifecycle!vars
  <1>1. /\ phase = "fixup" /\ emitting /\ emitting' /\ UNCHANGED <<vars, before>>
        /\ phase' = "fixup"
    BY DEF EmissionStep, vars, hostvars
  <1>2. UNCHANGED Lifecycle!vars
    BY <1>1 DEF vars, hostvars, poolvars, Lifecycle!vars, Lifecycle!hostvars,
                Lifecycle!poolvars
  <1>3. EmittingInv' /\ FoundBefore'
    BY <1>1, EmittingStill DEF SystemInv
  <1>4. HandleInv'
    BY HandleStep DEF SystemInv
  <1> QED BY <1>1, <1>2, <1>3, <1>4 DEF SystemInv

\* A step that changes nothing.
LEMMA StillKeeps ==
  ASSUME SystemInv, UNCHANGED <<vars, emitting, before, fh, stage, result, leftover>>
  PROVE  SystemInv' /\ UNCHANGED Lifecycle!vars
  <1>0. /\ UNCHANGED vars /\ emitting' = emitting /\ before' = before /\ fh' = fh
        /\ stage' = stage /\ result' = result /\ leftover' = leftover /\ phase' = phase
    BY DEF vars, hostvars
  <1>1. UNCHANGED Lifecycle!vars
    BY <1>0 DEF vars, hostvars, poolvars, Lifecycle!vars, Lifecycle!hostvars,
                Lifecycle!poolvars
  <1>2. CASE ~emitting
    BY <1>0, <1>1, <1>2, FullNext DEF SystemInv, HandleInv
  <1>3. CASE emitting
    BY <1>0, <1>1, <1>3, EmittingStill DEF SystemInv, HandleInv
  <1> QED BY <1>2, <1>3

\* The listener returns: all of it is visible at once, as the step of ModLint that
\* found what was there before, and answers what the emission did.
LEMMA EndKeeps ==
  ASSUME SystemInv, EndEmission
  PROVE  SystemInv' /\ Lifecycle!PostParse
  <1>1. /\ phase = "fixup" /\ emitting /\ result \in {"ok", "error"} /\ ~emitting'
        /\ phase' = "running"
        /\ outcome' = [result |-> IF result = "ok" THEN "written" ELSE "failed",
                       lines |-> parsed_lines.elts, pool |-> lint_pool]
        /\ DestroyLintPool
        /\ leftover' = IF lint_pool = NULL THEN leftover ELSE 0
        /\ UNCHANGED <<loaded, pending, read, since, conf, nconf, restarts, registered,
                       lint_engine, stage, fh, result>>
    BY DEF EndEmission, ReleasePool, locals
  <1>2. EmittingInv /\ FoundBefore /\ HandleInv
    BY <1>1 DEF SystemInv
  <1>3. TypeOK /\ PoolInv /\ lint_pool # NULL /\ loaded
    BY <1>2 DEF EmittingInv
  <1>4. /\ lint_pool' = NULL /\ live' = {} /\ cleanup' = {} /\ made' = made
        /\ parsed_lines' = NoLines /\ associated_configs' = NoConfigs
    BY <1>1, <1>3, DestroySafe
  <1>5. /\ outcome'.lines = parsed_lines.elts /\ outcome'.pool = lint_pool
        /\ outcome'.result \in {"written", "failed"}
        /\ outcome' \in [result : Results, lines : Seq(Lines), pool : Nat]
    BY <1>1, <1>3 DEF TypeOK, Results
  <1>6. FullInv'
    <2>1. TypeOK'
      BY <1>1, <1>3, <1>4, <1>5 DEF TypeOK, NULL, NoLines, NoConfigs, Phases
    <2>2. PoolInv'
      BY <1>3, <1>4 DEF TypeOK, PoolInv, NULL, NoLines, NoConfigs
    <2>3. EventInv'
      BY <1>1, <1>2, <1>3, <1>4 DEF EventInv, EmittingInv, Reading
    <2>4. BootInv' /\ RecordInv'
      BY <1>1, <1>2 DEF BootInv, RecordInv, RecordedExactly, Reading, EmittingInv
    <2>5. AttributedIn(outcome.lines)'
      BY <1>1, <1>2, <1>5 DEF EmittingInv, AttributedIn, Own
    <2>6. ConfigInv'
      BY <1>1, <1>2, <2>5 DEF ConfigInv, EmittingInv, Reading
    <2>7. NoStaleConfigs'
      <3>1. \A i \in DOMAIN parsed_lines.elts : parsed_lines.elts[i].configs \subseteq conf
        BY <1>2 DEF EmittingInv, AttributedIn, Own
      <3>2. parsed_lines'.elts = <<>> /\ associated_configs'.elts = {}
        BY <1>4 DEF NoLines, NoConfigs
      <3> QED BY <1>1, <1>5, <3>1, <3>2 DEF NoStaleConfigs
    <2>8. EmissionHasItsLine'
      BY <1>2, <1>3, <1>5 DEF EmissionHasItsLine, EmittingInv
    <2> QED BY <2>1, <2>2, <2>3, <2>4, <2>6, <2>7, <2>8 DEF FullInv, SafeInv
  <1>7. HandleInv'
    BY <1>1, <1>2, <1>3 DEF HandleInv
  <1>8. Lifecycle!PostParse
    <2>1. Lifecycle!DestroyLintPool
      BY <1>1, <1>3, <1>4 DEF PoolInv, NULL, NoLines, NoConfigs,
         Lifecycle!DestroyLintPool, Lifecycle!lint_pool_cleanup, Lifecycle!NoLines,
         Lifecycle!NoConfigs, Lifecycle!NULL
    <2>2. Lifecycle!FindConfig("LintEngine") = FindConfig("LintEngine")
      BY SameKinds DEF FindConfig, Lifecycle!FindConfig
    <2>3. Lifecycle!PostParseResults = {"written", "failed"}
      BY <1>2, SameKinds DEF FoundBefore, PostParseResults, FindConfig,
                             Lifecycle!PostParseResults, Lifecycle!FindConfig
    <2>4. Lifecycle!lint_postparse_ev
      <3>1. /\ registered' = Lifecycle!StillListening
            /\ lint_engine' = IF Lifecycle!FindConfig("LintEngine") = {}
                              THEN before.lint_engine
                              ELSE ValueIn(Lifecycle!FindConfig("LintEngine"))
        BY <1>1, <1>2, <2>2 DEF FoundBefore
      <3>2. \E r \in Lifecycle!PostParseResults :
              /\ outcome' = [result |-> r, lines |-> Lifecycle!LinesAtPostParse,
                             pool |-> lint_pool]
              /\ Lifecycle!AfterPostParse(r)
        BY <1>1, <1>2, <2>1, <2>3 DEF FoundBefore, Lifecycle!AfterPostParse
      <3> QED BY <1>1, <3>1, <3>2 DEF ValueIn, Lifecycle!lint_postparse_ev
    <2> QED BY <1>1, <1>2, <2>4 DEF FoundBefore, Lifecycle!PostParse
  <1> QED BY <1>1, <1>6, <1>7, <1>8 DEF SystemInv

\* What the world does: nothing while an emission runs, but the end of it all.
LEMMA EnvironmentKeeps ==
  ASSUME SystemInv, SystemEnvironment
  PROVE  SystemInv' /\ Lifecycle!Next
  <1>1. emitting' = emitting /\ before' = before /\ fh' = fh /\ stage' = stage
        /\ result' = result /\ leftover' = leftover
    BY DEF SystemEnvironment, writervars, locals
  <1>2. HandleInv'
    BY <1>1 DEF SystemInv, HandleInv
  <1>3. CASE ~emitting
    <2>1. Next
      BY DEF SystemEnvironment, Next, Environment
    <2>2. FullInv' /\ Lifecycle!Next
      BY <1>1, <1>3, <2>1, FullNext, HostStep DEF SystemInv
    <2> QED BY <1>1, <1>2, <1>3, <2>2 DEF SystemInv
  <1>4. CASE emitting
    <2>1. phase \in {"fixup", "exited"}
      BY <1>4 DEF SystemInv
    <2>2. Exit
      BY <2>1 DEF SystemEnvironment, FtpAccess, Sighup, UnloadOther
    <2>3. phase' = "exited"
      BY <2>2 DEF Exit
    <2>4. Lifecycle!Exit
      BY <1>1, <2>2 DEF Exit, Stopped, poolvars, Lifecycle!Exit, Lifecycle!Stopped,
                        Lifecycle!poolvars
    <2> QED BY <1>1, <1>2, <1>4, <2>3, <2>4
            DEF SystemInv, Lifecycle!Next, Lifecycle!Environment
  <1> QED BY <1>3, <1>4

\* Every step of the system keeps the invariant, and is a step of ModLint or one
\* that ModLint does not see.
LEMMA SystemStep ==
  SystemInv /\ [SystemNext]_systemvars
    => SystemInv' /\ [Lifecycle!Next]_(Lifecycle!vars)
  <1> SUFFICES ASSUME SystemInv, [SystemNext]_systemvars
               PROVE  SystemInv' /\ [Lifecycle!Next]_(Lifecycle!vars)
    OBVIOUS
  <1>1. CASE HostProgress \/ RereadConfig
    BY <1>1, HostKeeps
  <1>2. CASE StartEmission
    BY <1>2, StartKeeps
  <1>3. CASE EmissionStep
    BY <1>3, EmissionKeeps
  <1>4. CASE EndEmission
    BY <1>4, EndKeeps DEF Lifecycle!Next, Lifecycle!Progress
  <1>5. CASE SystemEnvironment
    BY <1>5, EnvironmentKeeps
  <1>6. CASE UNCHANGED systemvars
    <2>1. UNCHANGED <<vars, emitting, before, fh, stage, result, leftover>>
      BY <1>6 DEF systemvars, writervars, locals
    <2> QED BY <2>1, StillKeeps
  <1> QED BY <1>1, <1>2, <1>3, <1>4, <1>5, <1>6 DEF SystemNext, SystemProgress

-----------------------------------------------------------------------------
(* What an emission writes, as the theorems about LintWriter know it *)

W == INSTANCE LintWriterProofs WITH Configurations <- {}

\* What those theorems assume.
LEMMA WriterAssumed == W!LintWriterAssumption /\ W!LintWriterHostAssumption
  <1>1. W!ToSet(W!SettingNames) = ToSet(Writer!SettingNames)
    BY DEF W!ToSet, ToSet, W!SettingNames, Writer!SettingNames
  <1>2. "LoadModule" \in AllDirectives
    BY DEF AllDirectives
  <1>3. W!LintWriterHostAssumption
    BY DEF W!LintWriterHostAssumption
  <1> QED BY <1>1, <1>2, <1>3, LintSystemAssumption DEF W!LintWriterAssumption

\* The emission that runs is the one they are about: first, the directive of a
\* config_rec.
LEMMA SameDirective == \A c : Writer!DirectiveOf(c) = W!DirectiveOf(c)
  <1>1. /\ Writer!NoCop = W!NoCop /\ Writer!NoDirective = W!NoDirective
        /\ Writer!config_providers = W!config_providers
    BY DEF Writer!NoCop, W!NoCop, Writer!NoDirective, W!NoDirective,
           Writer!config_providers, W!config_providers
  <1>2. \A m : Writer!lint_cop_get_module_cop(m) = W!lint_cop_get_module_cop(m)
    BY DEF Writer!lint_cop_get_module_cop, W!lint_cop_get_module_cop
  <1>3. \A c : Writer!lint_cop_get_config_cop(c) = W!lint_cop_get_config_cop(c)
    BY <1>1, <1>2 DEF Writer!lint_cop_get_config_cop, W!lint_cop_get_config_cop
  <1>4. \A c : /\ Writer!core_get_directive(c) = W!core_get_directive(c)
               /\ Writer!default_get_directive(c) = W!default_get_directive(c)
    BY <1>1 DEF Writer!core_get_directive, W!core_get_directive,
                Writer!default_get_directive, W!default_get_directive
  <1>5. \A k, c : Writer!lint_cop_get_directive(k, c) = W!lint_cop_get_directive(k, c)
    BY <1>1, <1>4 DEF Writer!lint_cop_get_directive, W!lint_cop_get_directive
  <1> QED BY <1>3, <1>5 DEF Writer!DirectiveOf, W!DirectiveOf

\* The items.
LEMMA SameItems ==
  /\ \A name : /\ Writer!Title(name) = W!Title(name)
               /\ Writer!Opening(name) = W!Opening(name)
               /\ Writer!Closing(name) = W!Closing(name)
  /\ \A k, n, a, d : Writer!Item(k, n, a, d) = W!Item(k, n, a, d)
  /\ \A n, a, d : Writer!Line(n, a, d) = W!Line(n, a, d)
  /\ Writer!Cut = W!Cut /\ Writer!OldContents = W!OldContents
  BY DEF Writer!Title, W!Title, Writer!Opening, W!Opening, Writer!Closing, W!Closing,
         Writer!Item, W!Item, Writer!Line, W!Line, Writer!Cut, W!Cut,
         Writer!OldContents, W!OldContents

\* The sequences of sequences.
LEMMA SameFlattened == \A s : Writer!FlattenSeq(s) = W!FlattenSeq(s)
  BY DEF Writer!FlattenSeq, W!FlattenSeq

\* The sorted buffer.
LEMMA SameBuffer == \A buffered : Writer!WriteBuffered(buffered) = W!WriteBuffered(buffered)
  <1>1. \A a, b : Writer!linecmp(a, b) <=> W!linecmp(a, b)
    BY DEF Writer!linecmp, W!linecmp
  <1>2. \A b, j, i : Writer!Precedes(b, j, i) <=> W!Precedes(b, j, i)
    BY <1>1 DEF Writer!Precedes, W!Precedes
  <1>3. \A S : Writer!Cardinality(S) = W!Cardinality(S)
    BY DEF Writer!Cardinality, W!Cardinality
  <1>4. \A b, i : Writer!Place(b, i) = W!Place(b, i)
    BY <1>2, <1>3 DEF Writer!Place, W!Place
  <1>5. Writer!BufferedLines = W!BufferedLines
    BY DEF Writer!BufferedLines, W!BufferedLines
  <1>6. Writer!SortedWrites = W!SortedWrites
    <2> DEFINE Chosen(b, k) == CHOOSE i \in DOMAIN b : Writer!Place(b, i) = k
               ChosenOfW(b, k) == CHOOSE i \in DOMAIN b : W!Place(b, i) = k
    <2>1. \A b, k : Chosen(b, k) = ChosenOfW(b, k)
      BY <1>4
    <2>2. /\ Writer!SortedWrites = [b \in Seq(Writer!BufferedLines) |->
                                     [k \in DOMAIN b |-> <<b[Chosen(b, k)]>>]]
          /\ W!SortedWrites = [b \in Seq(W!BufferedLines) |->
                                [k \in DOMAIN b |-> <<b[ChosenOfW(b, k)]>>]]
      BY DEF Writer!SortedWrites, W!SortedWrites
    <2> HIDE DEF Chosen, ChosenOfW
    <2> QED BY <1>5, <2>1, <2>2
  <1> QED BY <1>6 DEF Writer!WriteBuffered, W!WriteBuffered

\* The first line of a directive.
LEMMA SameFirstLine ==
  \A directive, depth : Writer!FirstLine(directive, depth) = W!FirstLine(directive, depth)
  <1>1. Writer!NoLine = W!NoLine
    BY DEF Writer!NoLine, W!NoLine
  <1>2. \A T : Writer!Min(T) = W!Min(T)
    BY DEF Writer!Min, W!Min
  <1>3. \A l, d, n : Writer!lint_find_parsed_line(l, d, n) = W!lint_find_parsed_line(l, d, n)
    BY <1>1, <1>2 DEF Writer!lint_find_parsed_line, W!lint_find_parsed_line
  <1> QED BY <1>1, <1>3, SameItems DEF Writer!FirstLine, W!FirstLine

\* The lines added for a server.
LEMMA SameConfigSet ==
  \A c : Writer!lint_add_config_set(c) = W!lint_add_config_set(c)
  <1>1. Writer!Internal = W!Internal /\ Writer!NoDirective = W!NoDirective
    BY DEF Writer!Internal, W!Internal, Writer!NoDirective, W!NoDirective
  <1>2. \A c : Writer!lint_add_config_rec(c) = W!lint_add_config_rec(c)
    BY <1>1, SameDirective, SameFirstLine
    DEF Writer!lint_add_config_rec, W!lint_add_config_rec
  <1>3. \A c : [n \in DOMAIN c |-> Writer!lint_add_config_rec(c[n])]
                 = [n \in DOMAIN c |-> W!lint_add_config_rec(c[n])]
    BY <1>2
  <1> QED BY <1>3, SameFlattened DEF Writer!lint_add_config_set, W!lint_add_config_set

\* The settings of the main server.
LEMMA SameSettings == Writer!Settings = W!Settings
  <1>1. Writer!SettingNames = W!SettingNames /\ Writer!LookedUp = W!LookedUp
        /\ Writer!Optional = W!Optional
    BY DEF Writer!SettingNames, W!SettingNames, Writer!LookedUp, W!LookedUp,
           Writer!Optional, W!Optional
  <1>2. \A name : Writer!Setting(name) = W!Setting(name)
    BY <1>1, SameFirstLine, SameItems DEF Writer!Setting, W!Setting
  <1>3. [i \in DOMAIN Writer!SettingNames |-> Writer!Setting(Writer!SettingNames[i])]
          = [i \in DOMAIN W!SettingNames |-> W!Setting(W!SettingNames[i])]
    BY <1>1, <1>2
  <1> QED BY <1>3, SameFlattened DEF Writer!Settings, W!Settings

\* What each function of the emission is to write.
LEMMA SameWrites == \A s : Writer!Writes(s) = W!Writes(s)
  <1>1. Writer!lint_write_header = W!lint_write_header
        /\ Writer!lint_write_defines = W!lint_write_defines
        /\ Writer!lint_write_ctrls = W!lint_write_ctrls
    BY SameItems DEF Writer!lint_write_header, W!lint_write_header,
       Writer!lint_write_defines, W!lint_write_defines, Writer!lint_write_ctrls,
       W!lint_write_ctrls
  <1>2. Writer!lint_write_modules = W!lint_write_modules
    <2> DEFINE Shared1(i) == IF Writer!is_static_module(input.modules[i]) THEN <<>>
                             ELSE <<Writer!Line("LoadModule", input.modules[i], 1)>>
               Shared2(i) == IF W!is_static_module(input.modules[i]) THEN <<>>
                             ELSE <<W!Line("LoadModule", input.modules[i], 1)>>
               one == [i \in DOMAIN input.modules |-> Shared1(i)]
               two == [i \in DOMAIN input.modules |-> Shared2(i)]
    <2>1. \A i : Shared1(i) = Shared2(i)
      BY SameItems DEF Writer!is_static_module, W!is_static_module
    <2>2. one = two
      BY <2>1
    <2> DEFINE path == W!FirstLine("ModulePath", 0)
               shared == W!FlattenSeq(two)
    <2>3. Writer!FirstLine("ModulePath", 0) = path /\ Writer!FlattenSeq(one) = shared
          /\ Writer!WriteBuffered(Writer!FlattenSeq(one)) = W!WriteBuffered(shared)
      BY <2>2, SameFirstLine, SameFlattened, SameBuffer
    <2> HIDE DEF Shared1, Shared2, one, two, path, shared
    <2>4. Writer!lint_write_modules =
            IF ~PR_USE_DSO THEN <<>>
            ELSE (IF path = <<>> THEN <<>> ELSE << <<W!Title("Modules")>> \o path >>)
                 \o (IF shared = <<>> THEN <<>>
                     ELSE << (IF path = <<>> THEN <<W!Title("Modules")>> ELSE <<>>)
                               \o <<W!Opening("IfModule")>> >>
                          \o W!WriteBuffered(shared)
                          \o << <<W!Opening("IfModule")>> >>)
      BY <2>3, SameItems DEF Writer!lint_write_modules, one, Shared1
    <2>5. W!lint_write_modules =
            IF ~PR_USE_DSO THEN <<>>
            ELSE (IF path = <<>> THEN <<>> ELSE << <<W!Title("Modules")>> \o path >>)
                 \o (IF shared = <<>> THEN <<>>
                     ELSE << (IF path = <<>> THEN <<W!Title("Modules")>> ELSE <<>>)
                               \o <<W!Opening("IfModule")>> >>
                          \o W!WriteBuffered(shared)
                          \o << <<W!Opening("IfModule")>> >>)
      BY DEF W!lint_write_modules, two, Shared2, path, shared
    <2> QED BY <2>4, <2>5
  <1>3. Writer!lint_write_server_config = W!lint_write_server_config
    BY SameItems, SameSettings, SameConfigSet, SameBuffer
    DEF Writer!lint_write_server_config, W!lint_write_server_config
  <1>4. Writer!lint_write_classes = W!lint_write_classes
    <2>1. \A acls : Writer!lint_write_class(acls) = W!lint_write_class(acls)
      BY SameItems DEF Writer!lint_write_class, W!lint_write_class
    <2>2. [i \in DOMAIN input.classes |-> Writer!lint_write_class(input.classes[i])]
            = [i \in DOMAIN input.classes |-> W!lint_write_class(input.classes[i])]
      BY <2>1
    <2> QED BY <2>2, SameItems, SameFlattened
            DEF Writer!lint_write_classes, W!lint_write_classes
  <1>5. Writer!lint_write_vhosts = W!lint_write_vhosts
    <2>1. [s \in 1 .. Len(input.servers) - 1 |-> Writer!lint_add_config_set(input.servers[s + 1])]
            = [s \in 1 .. Len(input.servers) - 1 |-> W!lint_add_config_set(input.servers[s + 1])]
      BY SameConfigSet
    <2> QED BY <2>1, SameItems, SameFlattened, SameBuffer
            DEF Writer!lint_write_vhosts, W!lint_write_vhosts
  <1> QED BY <1>1, <1>2, <1>3, <1>4, <1>5, Zenon DEF Writer!Writes, W!Writes

-----------------------------------------------------------------------------
(* What can be written for a configuration *)

\* A product with a positive factor is no smaller than the other one.
LEMMA Grows ==
  ASSUME NEW m \in Nat, NEW d \in Nat, d > 0
  PROVE  m * d >= m
  <1>1. PICK e \in Nat : d = e + 1
    BY d - 1 \in Nat
  <1>2. m * d = m * e + m
    BY <1>1
  <1>3. m * e >= 0
    OBVIOUS
  <1> QED BY <1>2, <1>3

\* A number tells how many times m it has in it.
LEMMA Quotient ==
  ASSUME NEW m \in Nat, NEW r \in Nat, NEW k \in Nat, k < m
  PROVE  (r * m + k) \div m = r
  <1> DEFINE a == r * m + k
             q == a \div m
             rest == a % m
  <1>1. m > 0
    OBVIOUS
  <1>2. a \in Nat /\ q \in Int /\ rest \in 0 .. m - 1 /\ a = m * q + rest
    BY <1>1
  <1> HIDE DEF q, rest
  <1>3. m * (r - q) = rest - k
    BY <1>2
  <1>4. ~(r - q > 0)
    BY <1>2, <1>3, Grows
  <1>5. ~(q - r > 0)
    <2>1. m * (q - r) = k - rest
      BY <1>2
    <2> QED BY <1>2, <2>1, Grows
  <1> QED BY <1>2, <1>4, <1>5 DEF q

\* A line's text tells which configuration it is of.
LEMMA TextTells ==
  ASSUME restarts \in Nat, NEW lineno \in 1 .. MaxLines
  PROVE  /\ TextOf(lineno) \in Nat \ {0}
         /\ (TextOf(lineno) - 1) \div MaxLines = restarts
  <1>1. MaxLines \in Nat
    BY ModLintAssumption
  <1>2. restarts * MaxLines \in Nat
    BY <1>1
  <1>3. lineno - 1 \in Nat /\ lineno - 1 < MaxLines
    BY <1>1
  <1>4. (restarts * MaxLines + (lineno - 1)) \div MaxLines = restarts
    BY <1>1, <1>3, Quotient
  <1>5. TextOf(lineno) - 1 = restarts * MaxLines + (lineno - 1)
    BY <1>2, <1>3 DEF TextOf
  <1>6. TextOf(lineno) \in Nat \ {0}
    BY <1>2, <1>3 DEF TextOf
  <1> QED BY <1>4, <1>5, <1>6

\* The items that are lines of the configuration r, or of none.
ItemsOf(r) ==
  {item \in W!Items :
    item.kind = "line" /\ item.arg # 0 /\ item.name # "LoadModule"
      => (item.arg - 1) \div MaxLines = r}

\* With those that are left of a text that was cut short.
Shown(r) == ItemsOf(r) \cup {Writer!Cut}

\* They come from that configuration, and none of them is what was in the file
\* before.
LEMMA ShownFrom ==
  ASSUME NEW r \in Nat, NEW item \in Shown(r)
  PROVE  FromConfig(item) \subseteq {r} /\ item.kind # "old"
  <1>1. Writer!Cut.kind = "cut"
    BY DEF Writer!Cut, Writer!Item
  <1>2. CASE item = Writer!Cut
    BY <1>1, <1>2 DEF FromConfig, ConfigLine
  <1>3. CASE item \in ItemsOf(r)
    <2>1. item.kind # "old"
      BY <1>3 DEF ItemsOf, W!Items, W!Kinds
    <2>2. FromConfig(item) # {} => FromConfig(item) = {(item.arg - 1) \div MaxLines}
                                   /\ (item.arg - 1) \div MaxLines = r
      BY <1>3 DEF FromConfig, ConfigLine, ItemsOf
    <2> QED BY <2>1, <2>2
  <1> QED BY <1>2, <1>3 DEF Shown

\* The host reads a finite file and makes finitely many config_recs of it.
BoundsInv == Len(read) <= MaxLines /\ IsFiniteSet(conf)

-----------------------------------------------------------------------------
(* The config_recs *)

\* The kinds of the config_recs.
MadeKinds == Kinds \cup {Param(name) : name \in LintDirectives}

\* The config_recs are told apart by their identities, which grow.
NamesInv ==
  /\ nconf \in Nat
  /\ \A c \in conf : c.id \in Nat /\ c.id <= nconf /\ c.kind \in MadeKinds
  /\ \A c, o \in conf : c.id = o.id => c = o

\* Each is of one of the servers, and its directive is no LoadModule.
LEMMA KindsMade ==
  ASSUME NEW kind \in MadeKinds
  PROVE  /\ kind.server \in 1 .. Servers /\ kind.depth \in Nat
         /\ W!DirectiveOf(kind) # "LoadModule"
  <1>1. CASE kind \in Kinds
    <2>1. kind \in ConfigKinds /\ kind.server \in 1 .. Servers
          /\ Writer!DirectiveOf(kind) # "LoadModule"
      BY <1>1, ModLintAssumption, LintSystemAssumption
    <2> QED BY <2>1, SameDirective DEF ConfigKinds
  <1>2. ASSUME NEW name \in LintDirectives, kind = Param(name)
        PROVE  /\ kind.server \in 1 .. Servers /\ kind.depth \in Nat
               /\ W!DirectiveOf(kind) # "LoadModule"
    <2>1. kind.server = 1 /\ kind.depth = 0 /\ kind.name = name
      BY <1>2 DEF Param, MainServer
    <2>2. 1 \in 1 .. Servers
      BY LintSystemAssumption
    <2>3. W!core_get_directive(kind) = name /\ W!default_get_directive(kind) = name
      BY <1>2, <2>1 DEF LintDirectives, W!core_get_directive, W!default_get_directive
    <2>4. W!lint_cop_get_config_cop(kind) \in {W!NoCop, "core", "default"}
      BY DEF W!lint_cop_get_config_cop, W!lint_cop_get_module_cop
    <2>5. W!DirectiveOf(kind) \in {W!NoDirective, name}
      BY <2>3, <2>4 DEF W!DirectiveOf, W!lint_cop_get_directive, W!NoCop
    <2>6. W!NoDirective # "LoadModule" /\ name # "LoadModule"
      BY <1>2 DEF LintDirectives, W!NoDirective
    <2> QED BY <2>1, <2>2, <2>5, <2>6
  <1> QED BY <1>1, <1>2 DEF MadeKinds

\* The config_recs of a server are numbered: the n-th in the order of their
\* identities is the one with n - 1 before it.
LEMMA NthIs ==
  ASSUME IsFiniteSet(conf), NamesInv, NEW S \in SUBSET conf
  PROVE  /\ \A n \in 1 .. Cardinality(S) : Nth(S, n) \in S
         /\ \A c \in S : \E n \in 1 .. Cardinality(S) : Nth(S, n) = c
  <1> DEFINE N == Cardinality(S)
             Upto == [c \in S |-> {o \in S : o.id <= c.id}]
             place == [c \in S |-> Cardinality(Upto[c])]
  <1>0. IsFiniteSet(S)
    BY FS_Subset
  <1>1. N \in Nat
    BY <1>0, FS_CardinalityType
  <1>2. \A c, o \in S : o \in Upto[c] <=> o.id <= c.id
    OBVIOUS
  <1>3. \A c \in S : Upto[c] \in SUBSET S
    OBVIOUS
  <1>4. \A n : Nth(S, n) = CHOOSE c \in S : place[c] = n
    BY DEF Nth
  <1>4a. \A c \in S : place[c] = Cardinality(Upto[c])
    OBVIOUS
  <1>4b. place = [c \in S |-> place[c]]
    OBVIOUS
  <1>5. \A c \in S : c.id \in Nat
    BY DEF NamesInv
  <1>5a. \A c, o \in S : c.id = o.id => c = o
    BY DEF NamesInv
  <1> HIDE DEF Upto, place
  <1>6. ASSUME NEW c \in S
        PROVE  IsFiniteSet(Upto[c]) /\ place[c] \in 1 .. N
    <2>1. IsFiniteSet(Upto[c]) /\ Cardinality(Upto[c]) <= N
      BY <1>0, <1>3, FS_Subset
    <2>2. Cardinality(Upto[c]) \in Nat
      BY <2>1, FS_CardinalityType
    <2>3. Upto[c] # {}
      BY <1>2, <1>5
    <2>4. Cardinality(Upto[c]) # 0
      BY <2>1, <2>3, FS_EmptySet
    <2> QED BY <1>1, <1>4a, <2>1, <2>2, <2>4
  <1>7. ASSUME NEW c \in S, NEW o \in S, c.id < o.id
        PROVE  place[c] # place[o]
    <2>1. Upto[c] \in SUBSET Upto[o]
      <3>1. \A p \in S : p.id <= c.id => p.id <= o.id
        BY <1>5, <1>7
      <3> QED BY <1>2, <1>3, <3>1
    <2>2. o \in Upto[o] /\ o \notin Upto[c]
      BY <1>2, <1>5, <1>7
    <2>3. Cardinality(Upto[c]) # Cardinality(Upto[o])
      BY <1>6, <2>1, <2>2, FS_Subset
    <2> QED BY <1>4a, <2>3
  <1>8. \A c, o \in S : place[c] = place[o] => c = o
    <2> SUFFICES ASSUME NEW c \in S, NEW o \in S, place[c] = place[o]
                 PROVE  c = o
      OBVIOUS
    <2>1. ~(c.id < o.id) /\ ~(o.id < c.id)
      BY <1>7
    <2> QED BY <1>5, <1>5a, <2>1
  <1>9. place \in Injection(S, 1 .. N)
    <2>1. place \in [S -> 1 .. N]
      BY <1>4b, <1>6
    <2> QED BY <1>8, <2>1, Fun_IsInj
  <1>10. IsFiniteSet(1 .. N) /\ Cardinality(1 .. N) = N
    BY <1>1, FS_Interval
  <1>11. place \in Surjection(S, 1 .. N)
    BY <1>9, <1>10, FS_Injection
  <1>12. \A n \in 1 .. N : \E c \in S : place[c] = n
    BY <1>11 DEF Surjection
  <1>13. \A n \in 1 .. N : Nth(S, n) \in S
    BY <1>4, <1>12
  <1>14. ASSUME NEW c \in S PROVE Nth(S, place[c]) = c
    BY <1>4, <1>8, <1>14
  <1> QED BY <1>6, <1>13, <1>14

\* A record of the emission's input that stands for a config_rec of that kind.
OfKind(r, kind) ==
  r.config_type = kind.config_type /\ r.name = kind.name /\ r.depth = kind.depth

\* So a server is given as a list, of its config_recs and of all of them.
LEMMA ServerConfIs ==
  ASSUME BoundsInv, NamesInv, NEW server \in 1 .. Servers
  PROVE  /\ ServerConf(server) \in Seq(W!ToSet(ServerConf(server)))
         /\ \A n \in DOMAIN ServerConf(server) :
              /\ ServerConf(server)[n].depth \in Nat
              /\ \E c \in ConfOf(server) : OfKind(ServerConf(server)[n], c.kind)
         /\ \A c \in ConfOf(server) :
              \E n \in DOMAIN ServerConf(server) : OfKind(ServerConf(server)[n], c.kind)
  <1> DEFINE S == ConfOf(server)
             N == Cardinality(S)
             list == ServerConf(server)
  <1>1. S \in SUBSET conf /\ IsFiniteSet(conf)
    BY DEF ConfOf, BoundsInv
  <1>2. N \in Nat
    BY <1>1, FS_Subset, FS_CardinalityType
  <1>3. /\ DOMAIN list = 1 .. N
        /\ \A n \in 1 .. N : list[n] = AsWritten(Nth(S, n))
        /\ list = [n \in 1 .. N |-> list[n]]
    BY DEF ServerConf
  <1>4. \A c : OfKind(AsWritten(c), c.kind) /\ AsWritten(c).depth = c.kind.depth
    BY DEF OfKind, AsWritten
  <1>5. /\ \A n \in 1 .. N : Nth(S, n) \in S
        /\ \A c \in S : \E n \in 1 .. N : Nth(S, n) = c
    BY <1>1, NthIs
  <1>6. \A c \in S : c.kind.depth \in Nat
    BY <1>1, KindsMade DEF NamesInv
  <1> HIDE DEF S, N, list
  <1>7. list \in Seq(W!ToSet(list))
    BY <1>2, <1>3 DEF W!ToSet
  <1>8. \A n \in DOMAIN list : /\ list[n].depth \in Nat
                               /\ \E c \in S : OfKind(list[n], c.kind)
    BY <1>3, <1>4, <1>5, <1>6
  <1>9. \A c \in S : \E n \in DOMAIN list : OfKind(list[n], c.kind)
    BY <1>3, <1>4, <1>5
  <1> QED BY <1>7, <1>8, <1>9 DEF S, list

-----------------------------------------------------------------------------
(* What an emission is given *)

\* The recorded lines are some of those that were read.
LEMMA RecordedOnes ==
  ASSUME FullInv, BoundsInv, phase = "fixup", loaded
  PROVE  /\ LinesAtPostParse \in Seq(Lines)
         /\ \A i \in DOMAIN LinesAtPostParse :
              /\ LinesAtPostParse[i].lineno \in 1 .. MaxLines
              /\ LinesAtPostParse[i].directive \in AllDirectives
  <1>1. TypeOK /\ RecordInv /\ RecordedExactly
    BY DEF FullInv, SafeInv, RecordInv
  <1>2. /\ parsed_lines.elts \in Seq(Lines) /\ associated_configs.elts \in SUBSET Configs
        /\ since \in Nat /\ Len(read) \in Nat
    BY <1>1 DEF TypeOK
  <1> DEFINE elts == parsed_lines.elts
             A == LinesAtPostParse
             n == Len(elts)
  <1>3. /\ A \in Seq(Lines) /\ DOMAIN A = 1 .. n
        /\ \A i \in 1 .. n : A[i].lineno = elts[i].lineno
                             /\ A[i].directive = elts[i].directive
    BY <1>2, AttachKeeps DEF LinesAtPostParse
  <1>4. n = Len(read) - since /\ \A i \in DOMAIN elts : elts[i].lineno = since + i
    BY <1>1 DEF RecordedExactly, Reading
  <1>5. DOMAIN elts = 1 .. n /\ n \in Nat /\ MaxLines \in Nat /\ Len(read) <= MaxLines
    BY <1>2, ModLintAssumption DEF BoundsInv
  <1>6. \A i \in 1 .. n : elts[i].directive \in AllDirectives
    <2>1. \A l \in Lines : l.directive \in AllDirectives
      BY DEF Lines
    <2>2. \A i \in 1 .. n : elts[i] \in Lines
      BY <1>2, <1>5
    <2> QED BY <2>1, <2>2
  <1> HIDE DEF elts, A, n
  <1>7. \A i \in 1 .. n : A[i].lineno \in 1 .. MaxLines
    BY <1>2, <1>3, <1>4, <1>5
  <1> QED BY <1>3, <1>6, <1>7 DEF A

\* The emission is given a configuration.
LEMMA InputIs ==
  ASSUME FullInv, BoundsInv, NamesInv, phase = "fixup", loaded
  PROVE  /\ W!IsConfiguration(EmissionInput)
         /\ \A i \in DOMAIN EmissionInput.lines :
              /\ EmissionInput.lines[i].directive \in AllDirectives
              /\ EmissionInput.lines[i].arg \in Nat \ {0}
              /\ (EmissionInput.lines[i].arg - 1) \div MaxLines = restarts
         /\ EmissionInput.modules = Modules
  <1> DEFINE A == LinesAtPostParse
             R == RecordedLines
             L == [directive : DOMAIN Rank, arg : Nat]
             servers == [server \in 1 .. Servers |-> ServerConf(server)]
  <1>1. A \in Seq(Lines) /\ \A i \in DOMAIN A : /\ A[i].lineno \in 1 .. MaxLines
                                                /\ A[i].directive \in AllDirectives
    BY RecordedOnes
  <1>2. restarts \in Nat
    BY DEF FullInv, SafeInv, TypeOK
  <1>3. DOMAIN A = 1 .. Len(A) /\ Len(A) \in Nat
    BY <1>1
  <1>4. /\ DOMAIN R = 1 .. Len(A)
        /\ \A i \in 1 .. Len(A) : /\ R[i] = [directive |-> A[i].directive,
                                             arg |-> TextOf(A[i].lineno)]
                                  /\ TextOf(A[i].lineno) \in Nat \ {0}
                                  /\ (TextOf(A[i].lineno) - 1) \div MaxLines = restarts
                                  /\ A[i].directive \in AllDirectives
    <2>1. R = [i \in 1 .. Len(A) |-> [directive |-> A[i].directive,
                                      arg |-> TextOf(A[i].lineno)]]
      BY <1>3 DEF RecordedLines
    <2>2. \A i \in 1 .. Len(A) : /\ TextOf(A[i].lineno) \in Nat \ {0}
                                 /\ (TextOf(A[i].lineno) - 1) \div MaxLines = restarts
                                 /\ A[i].directive \in AllDirectives
      BY <1>1, <1>2, <1>3, TextTells
    <2> HIDE DEF A, R
    <2> QED BY <2>1, <2>2
  <1>5. R \in Seq(L)
    <2>1. AllDirectives \subseteq DOMAIN Rank
      BY LintSystemAssumption
    <2>2. \A i \in 1 .. Len(A) : R[i] \in L
      BY <1>4, <2>1
    <2>3. R = [i \in 1 .. Len(A) |-> R[i]]
      BY DEF RecordedLines
    <2> HIDE DEF A, R, L
    <2> QED BY <1>3, <2>2, <2>3
  <1>6. ASSUME NEW server \in 1 .. Servers
        PROVE  /\ ServerConf(server) \in Seq(W!ToSet(ServerConf(server)))
               /\ \A n \in DOMAIN ServerConf(server) : ServerConf(server)[n].depth \in Nat
    BY <1>6, ServerConfIs
  <1>7. /\ EmissionInput.lines = R /\ EmissionInput.servers = servers
        /\ EmissionInput.modules = Modules /\ EmissionInput.classes = <<>>
    BY DEF EmissionInput
  <1>8. /\ servers \in Seq(W!ToSet(servers)) /\ servers # <<>>
        /\ DOMAIN servers = 1 .. Servers
        /\ \A server \in 1 .. Servers : servers[server] = ServerConf(server)
    <2>1. Servers \in Nat /\ 1 \in 1 .. Servers
      BY LintSystemAssumption
    <2>2. DOMAIN servers = 1 .. Servers /\ servers = [n \in 1 .. Servers |-> servers[n]]
      OBVIOUS
    <2>3. \A server \in 1 .. Servers : servers[server] = ServerConf(server)
      OBVIOUS
    <2> HIDE DEF servers
    <2>4. servers \in Seq(W!ToSet(servers))
      BY <2>1, <2>2 DEF W!ToSet
    <2>5. servers # <<>>
      BY <2>1, <2>2
    <2> QED BY <2>2, <2>3, <2>4, <2>5
  <1> HIDE DEF A, R, L, servers
  <1>10. W!IsConfiguration(EmissionInput)
    <2>1. Modules \in Seq(Nat) /\ <<>> \in Seq(Nat)
      BY LintSystemAssumption
    <2>2. EmissionInput.lines \in Seq([directive : DOMAIN Rank, arg : Nat])
      BY <1>5, <1>7 DEF L
    <2>3. \A server \in DOMAIN servers :
            /\ servers[server] \in Seq(W!ToSet(servers[server]))
            /\ \A n \in DOMAIN servers[server] : servers[server][n].depth \in Nat
      BY <1>6, <1>8
    <2> QED BY <1>7, <1>8, <2>1, <2>2, <2>3 DEF W!IsConfiguration, W!IsSeq
  <1>11. DOMAIN R = 1 .. Len(A)
    BY <1>4
  <1> QED BY <1>4, <1>7, <1>10, <1>11

\* What an emission that runs has been given.
InputInv ==
  /\ W!IsConfiguration(input)
  /\ \A i \in DOMAIN input.lines :
       /\ input.lines[i].directive \in AllDirectives
       /\ input.lines[i].arg \in Nat \ {0}
       /\ (input.lines[i].arg - 1) \div MaxLines = restarts

\* All that it can write is of that configuration, or of none.
LEMMA InputCovered ==
  ASSUME InputInv
  PROVE  W!Covers(ItemsOf(restarts), W!AllTitles)
  <1> DEFINE S == ItemsOf(restarts)
  <1>1. \A name \in W!AllTitles : W!Title(name) \in S
    BY DEF ItemsOf, W!Title, W!Item, W!Items, W!Kinds, W!Names, W!AllTitles
  <1>2. W!Fixed \subseteq S
    BY DEF W!Fixed, ItemsOf, W!Opening, W!Closing, W!Line, W!Item, W!Items, W!Kinds, W!Names
  <1>3. \A name \in DOMAIN Rank, depth \in Nat :
          W!Line(name, 0, depth) \in S \cap W!BufferedLines
    BY DEF ItemsOf, W!Line, W!BufferedLines, W!Item, W!Items, W!Kinds, W!Names
  <1>4. \A arg \in Nat, depth \in Nat : "LoadModule" \in DOMAIN Rank =>
          W!Line("LoadModule", arg, depth) \in S \cap W!BufferedLines
    BY DEF ItemsOf, W!Line, W!BufferedLines, W!Item, W!Items, W!Kinds, W!Names
  <1>5. \A name \in DOMAIN Rank, arg \in Nat, depth \in Nat :
          (arg - 1) \div MaxLines = restarts =>
            W!Line(name, arg, depth) \in S \cap W!BufferedLines
    BY DEF ItemsOf, W!Line, W!BufferedLines, W!Item, W!Items, W!Kinds, W!Names
  <1>6. W!ToSet(W!SettingNames) \subseteq DOMAIN Rank /\ "LoadModule" \in DOMAIN Rank
        /\ AllDirectives \subseteq DOMAIN Rank
    BY WriterAssumed, LintSystemAssumption DEF W!LintWriterAssumption
  <1>7. \A i \in DOMAIN input.modules : input.modules[i] \in Nat
    BY DEF InputInv, W!IsConfiguration
  <1>8. \A i \in DOMAIN input.lines : /\ input.lines[i].directive \in DOMAIN Rank
                                      /\ input.lines[i].arg \in Nat
                                      /\ (input.lines[i].arg - 1) \div MaxLines = restarts
    BY <1>6 DEF InputInv
  <1> HIDE DEF S
  <1>9. W!Holds(S, W!AllTitles)
    <2>1. \A name \in W!ToSet(W!SettingNames) : W!Line(name, 0, 0) \in W!LinesIn(S)
      BY <1>3, <1>6 DEF W!LinesIn
    <2>2. \A i \in DOMAIN input.modules :
            W!Line("LoadModule", input.modules[i], 1) \in W!LinesIn(S)
      BY <1>4, <1>6, <1>7 DEF W!LinesIn
    <2>3. \A i \in DOMAIN input.lines, depth \in Nat :
            W!Line(input.lines[i].directive, input.lines[i].arg, depth) \in W!LinesIn(S)
      BY <1>5, <1>8 DEF W!LinesIn
    <2> QED BY <1>1, <1>2, <2>1, <2>2, <2>3 DEF W!Holds
  <1>10. W!Covers(S, W!AllTitles)
    BY <1>9, WriterAssumed, W!HoldsCovers DEF InputInv
  <1> QED BY <1>10 DEF S

\* And so are the writes of each function.
LEMMA WritesOfInput ==
  ASSUME InputInv, NEW s
  PROVE  Writer!Writes(s) \in W!WritesIn(ItemsOf(restarts))
  <1>1. W!IsConfiguration(input)
    BY DEF InputInv
  <1>2. W!Writes(s) \in W!WritesIn(ItemsOf(restarts))
    BY <1>1, WriterAssumed, InputCovered, W!WritesCovered
  <1> QED BY <1>2, SameWrites

-----------------------------------------------------------------------------
(* The file *)

\* Outside an emission, while a configuration is read, its locals are as they will
\* be when it is called.
LocalsInv ==
  phase \in {"boot", "parsing", "handling", "fixup"} /\ ~emitting =>
    /\ stage = "open" /\ fh = "none" /\ queue = <<>> /\ result = "none"
    /\ errno = "none" /\ failed = "none" /\ shorts = 0 /\ closes = 0 /\ whole = <<>>

\* In an emission, the file is of this configuration since it was opened, and so is
\* what is still to be written.
WritingInv ==
  emitting =>
    /\ InputInv
    /\ queue \in W!WritesIn(ItemsOf(restarts))
    /\ stage \notin {"open", "done"} => fh # "none"
    /\ fh = "none" => queue = <<>> /\ result # "ok"
    /\ fh # "none" => file \in Seq(Shown(restarts))

\* At any time the file is the old one, or of a single configuration; of the last
\* one, if the module has said so.
FileInv ==
  /\ file = Writer!OldContents \/ \E r \in Nat : file \in Seq(Shown(r))
  /\ phase = "running" /\ outcome.result = "written" => file \in Seq(Shown(restarts))

ContentInv ==
  SystemInv /\ BoundsInv /\ NamesInv /\ LocalsInv /\ WritingInv /\ FileInv

\* Among the stages there is none before the file is opened or after the answer.
LEMMA StagesOpen ==
  /\ \A s \in Writer!ToSet(Writer!Stages) : s \notin {"open", "done"}
  /\ Head(Writer!Stages) \notin {"open", "done"}
  BY DEF Writer!ToSet, Writer!Stages

\* A call of the emission keeps the file and what is to be written of this
\* configuration.
LEMMA WritingStep ==
  ASSUME InputInv, WritingInv, FileInv, restarts \in Nat, emitting, EmissionStep
  PROVE  WritingInv' /\ FileInv'
  <1> DEFINE S == ItemsOf(restarts)
             T == Shown(restarts)
             cut == Writer!Cut
  <1>0. /\ UNCHANGED vars /\ emitting' = emitting /\ restarts' = restarts
        /\ phase' = "fixup" /\ result = "none" /\ Writer!Emit
    BY DEF EmissionStep, vars, hostvars, Writer!Emit
  <1>1. ItemsOf(restarts)' = S /\ Shown(restarts)' = T
    BY <1>0 DEF ItemsOf, Shown
  <1>2. /\ S \subseteq T /\ cut \in T
        /\ Seq(S) \subseteq Seq(T)
    <2>1. S \subseteq T /\ cut \in T
      BY DEF Shown
    <2> QED BY <2>1, W!SeqMonotonic
  <1>3. /\ queue \in W!WritesIn(S)
        /\ stage \notin {"open", "done"} => fh # "none"
        /\ fh = "none" => queue = <<>>
        /\ fh # "none" => file \in Seq(T)
    BY DEF WritingInv
  <1>3a. \A s : Writer!Writes(s) \in W!WritesIn(S)
    BY WritesOfInput
  <1>3b. <<>> \in W!WritesIn(S) /\ <<>> \in Seq(T)
    BY DEF W!WritesIn
  <1>3c. queue # <<>> => Head(queue) \in Seq(T) /\ Tail(queue) \in W!WritesIn(S)
    <2> DEFINE Q == Seq(S) \ {<<>>}
    <2>1. queue \in Seq(Q)
      BY <1>3 DEF W!WritesIn
    <2>2. Q \subseteq Seq(T)
      BY <1>2
    <2> HIDE DEF Q
    <2>3. queue # <<>> => Head(queue) \in Q /\ Tail(queue) \in Seq(Q)
      BY <2>1
    <2> QED BY <2>2, <2>3 DEF W!WritesIn, Q
  <1>3d. WritingInv' <=>
           /\ InputInv'
           /\ queue' \in W!WritesIn(S)
           /\ stage' \notin {"open", "done"} => fh' # "none"
           /\ fh' = "none" => queue' = <<>> /\ result' # "ok"
           /\ fh' # "none" => file' \in Seq(T)
    BY <1>0, <1>1 DEF WritingInv
  <1>4. InputInv'
    <2>1. input' = input
      BY <1>0 DEF Writer!Emit, Writer!Open, Writer!OpenFails, Writer!Write,
         Writer!ShortWrite, Writer!WriteFails, Writer!NextStage,
         Writer!CloseAfterFailure, Writer!Close
    <2> QED BY <1>0, <2>1 DEF InputInv
  <1>5. FileInv' <=> file' = Writer!OldContents \/ \E r \in Nat : file' \in Seq(Shown(r))
    BY <1>0 DEF FileInv, Shown, ItemsOf, Writer!OldContents, Writer!Item
  <1>6. file' = file \/ file' \in Seq(T) => FileInv'
    BY <1>5 DEF FileInv
  <1> HIDE DEF S, T, cut
  <1>7. CASE Writer!Open
    <2>1. fh' = "open" /\ file' = <<>> /\ queue' = Writer!Writes(Head(Writer!Stages))
      BY <1>7 DEF Writer!Open
    <2> QED BY <1>3a, <1>3b, <1>3d, <1>4, <1>6, <2>1
  <1>8. CASE Writer!OpenFails
    <2>1. /\ stage = "open" /\ queue' = queue /\ fh' = fh /\ file' = file
          /\ stage' = "done" /\ result' = "error"
      BY <1>8 DEF Writer!OpenFails
    <2> QED BY <1>3, <1>3d, <1>4, <1>6, <2>1
  <1>9. CASE Writer!Write
    <2>1. /\ queue # <<>> /\ queue' = Tail(queue) /\ file' = file \o Head(queue)
          /\ stage' = stage /\ fh' = fh
      BY <1>9 DEF Writer!Write
    <2>2. fh # "none" /\ file \in Seq(T) /\ Head(queue) \in Seq(T)
      BY <1>3, <1>3c, <2>1
    <2>3. file' \in Seq(T)
      BY <2>1, <2>2
    <2> QED BY <1>3, <1>3c, <1>3d, <1>4, <1>6, <2>1, <2>2, <2>3
  <1>10. CASE Writer!ShortWrite
    <2>1. /\ queue # <<>> /\ queue' = Tail(queue) /\ file' = Append(file, cut)
          /\ stage' = stage /\ fh' = fh
      BY <1>10 DEF Writer!ShortWrite, cut
    <2>2. fh # "none" /\ file \in Seq(T)
      BY <1>3, <2>1
    <2>3. file' \in Seq(T)
      BY <1>2, <2>1, <2>2
    <2> QED BY <1>3, <1>3c, <1>3d, <1>4, <1>6, <2>1, <2>2, <2>3
  <1>11. CASE Writer!WriteFails
    <2>1. queue # <<>> /\ queue' = <<>> /\ file' = file /\ fh' = fh
      BY <1>11 DEF Writer!WriteFails
    <2> QED BY <1>3, <1>3b, <1>3d, <1>4, <1>6, <2>1
  <1>12. CASE Writer!NextStage
    <2>1. /\ stage \in Writer!ToSet(Writer!Stages) /\ fh' = fh /\ file' = file
          /\ queue' = Writer!Writes(Writer!After(stage))
      BY <1>12 DEF Writer!NextStage
    <2>2. fh # "none"
      BY <1>3, <2>1, StagesOpen
    <2> QED BY <1>3, <1>3a, <1>3d, <1>4, <1>6, <2>1, <2>2
  <1>13. CASE Writer!CloseAfterFailure \/ Writer!Close
    <2>1. fh' = "closed" /\ file' = file /\ queue' = queue /\ stage \in {"failing", "close"}
      BY <1>13 DEF Writer!CloseAfterFailure, Writer!Close
    <2> QED BY <1>3, <1>3d, <1>4, <1>6, <2>1
  <1> QED BY <1>0, <1>7, <1>8, <1>9, <1>10, <1>11, <1>12, <1>13 DEF Writer!Emit

\* The phases of the host in which a configuration is being read, or is about to be.
Early == {"boot", "parsing", "handling", "fixup"}

\* What a step of ModLint can do to what the host has read and made.
ReadsOn ==
  \/ read' = read
  \/ read' = <<>>
  \/ Len(read) < MaxLines /\ \E d \in AllDirectives : read' = Append(read, d)

MakesOn ==
  \/ conf' \in {conf, {}} /\ nconf' = nconf
  \/ \E c : /\ c.id = nconf + 1 /\ c.kind \in MadeKinds
            /\ conf' = conf \cup {c} /\ nconf' = nconf + 1

\* Outside an emission, success is not answered by any step, and the configuration
\* it was answered for stays.
AnswersOn ==
  phase' = "running" /\ outcome'.result = "written" =>
    phase = "running" /\ UNCHANGED <<outcome, restarts, read, since, conf>>

\* What the host does with a config_rec.
LEMMA ConfigRecChanges ==
  ASSUME NEW kind \in MadeKinds, NEW by, NEW value, NEW next,
         AddConfigRec(kind, by, value, next)
  PROVE  /\ MakesOn /\ read' = read
         /\ phase' \in {next, "faulted"}
  <1> DEFINE c == [id |-> nconf + 1, kind |-> kind, by |-> by, value |-> value]
  <1>1. /\ conf' = conf \cup {c} /\ nconf' = nconf + 1 /\ read' = read
        /\ phase' \in {next, "faulted"}
    BY DEF AddConfigRec
  <1>2. c.id = nconf + 1 /\ c.kind \in MadeKinds
    OBVIOUS
  <1> HIDE DEF c
  <1> QED BY <1>1, <1>2 DEF MakesOn

\* Its steps that read the configuration read a line, or make a config_rec, at most.
LEMMA ReadingChanges ==
  ASSUME Boot \/ (\E d \in AllDirectives : ReadLine(d)) \/ AddConfig
         \/ (\E cmd \in Commands : SetLintDirective(cmd)) \/ AddHostConfig
         \/ LoadModule \/ EndLine \/ EndOfFile
  PROVE  /\ ReadsOn /\ MakesOn
         /\ phase \in Early /\ phase' # "running"
  <1>1. CASE Boot
    BY <1>1 DEF Boot, ReadsOn, MakesOn, Early
  <1>2. ASSUME NEW d \in AllDirectives, ReadLine(d)
        PROVE  /\ ReadsOn /\ MakesOn
               /\ phase \in Early /\ phase' # "running"
    BY <1>2 DEF ReadLine, ReadsOn, MakesOn, Early
  <1>3. CASE AddConfig
    <2>1. /\ \E kind \in MadeKinds : AddConfigRec(kind, Len(read), 0, "handling")
          /\ phase = "handling"
      BY <1>3 DEF AddConfig, MadeKinds
    <2> QED BY <2>1, ConfigRecChanges DEF ReadsOn, Early
  <1>4. ASSUME NEW cmd \in Commands, SetLintDirective(cmd)
        PROVE  /\ ReadsOn /\ MakesOn
               /\ phase \in Early /\ phase' # "running"
    <2> DEFINE answer == IF Current = "LintEngine" THEN set_lintengine(cmd)
                                                   ELSE set_lintconfigfile(cmd)
    <2>1. phase = "handling" /\ Param(Current) \in MadeKinds
      BY <1>4 DEF SetLintDirective, MadeKinds
    <2>2. \/ AddConfigRec(Param(Current), Len(read), answer.value, "parsing")
          \/ phase' = "rejected" /\ UNCHANGED <<read, conf, nconf>>
      BY <1>4 DEF SetLintDirective
    <2> HIDE DEF answer
    <2>3. CASE AddConfigRec(Param(Current), Len(read), answer.value, "parsing")
      BY <2>1, <2>3, ConfigRecChanges DEF ReadsOn, Early
    <2>4. CASE phase' = "rejected" /\ UNCHANGED <<read, conf, nconf>>
      BY <2>1, <2>4 DEF ReadsOn, MakesOn, Early
    <2> QED BY <2>2, <2>3, <2>4
  <1>5. CASE AddHostConfig
    <2>1. /\ \E kind \in MadeKinds : AddConfigRec(kind, 0, 0, phase)
          /\ phase \in {"fixup", "parsing"}
      BY <1>5 DEF AddHostConfig, MadeKinds
    <2> QED BY <2>1, ConfigRecChanges DEF ReadsOn, Early
  <1>6. CASE LoadModule
    BY <1>6 DEF LoadModule, ReadsOn, MakesOn, Early
  <1>7. CASE EndLine \/ EndOfFile
    BY <1>7 DEF EndLine, EndOfFile, ReadsOn, MakesOn, Early
  <1> QED BY <1>1, <1>2, <1>3, <1>4, <1>5, <1>6, <1>7

\* The end of the configuration without an emission: the answer is another one.
LEMMA PostParseChanges ==
  ASSUME FullInv, ~Emits, PostParse
  PROVE  /\ ReadsOn /\ MakesOn /\ AnswersOn /\ phase' \notin Early
  <1>1. /\ phase = "fixup" /\ UNCHANGED <<read, conf, nconf, restarts>>
        /\ phase' \in {"running", "faulted"}
    BY DEF PostParse
  <1>2. outcome = NoOutcome
    BY <1>1 DEF FullInv, ConfigInv, Reading
  <1>3. CASE "core.postparse" \notin registered
    <2>1. outcome' = NoOutcome
      BY <1>2, <1>3 DEF PostParse
    <2> QED BY <1>1, <2>1 DEF ReadsOn, MakesOn, AnswersOn, NoOutcome, Early
  <1>4. CASE "core.postparse" \in registered
    <2>1. PostParseFaults => phase' = "faulted"
      BY <1>4 DEF PostParse
    <2>2. ~PostParseFaults => PostParseResults \subseteq {"off", "skipped"}
      BY <1>4 DEF Emits, PostParseResults
    <2>3. outcome'.result \in PostParseResults
      BY <1>4 DEF PostParse, lint_postparse_ev
    <2> QED BY <1>1, <2>1, <2>2, <2>3 DEF ReadsOn, MakesOn, AnswersOn, Early
  <1> QED BY <1>3, <1>4

\* A step of the host outside an emission.
LEMMA HostChanges ==
  ASSUME FullInv, HostProgress
  PROVE  /\ ReadsOn /\ MakesOn /\ AnswersOn
         /\ phase' \in Early => phase \in Early
         /\ UNCHANGED <<writervars, emitting, before>> /\ ~emitting
  <1>0. UNCHANGED <<writervars, emitting, before>> /\ ~emitting
    BY DEF HostProgress
  <1>1. CASE Boot \/ (\E d \in AllDirectives : ReadLine(d)) \/ AddConfig
             \/ (\E cmd \in Commands : SetLintDirective(cmd)) \/ AddHostConfig
             \/ LoadModule \/ EndLine \/ EndOfFile
    BY <1>0, <1>1, ReadingChanges DEF AnswersOn
  <1>2. CASE ~Emits /\ PostParse
    BY <1>0, <1>2, PostParseChanges
  <1>3. CASE Restart \/ Unload
    BY <1>0, <1>3 DEF Restart, Unload, ReadsOn, MakesOn, AnswersOn, Early
  <1> QED BY <1>1, <1>2, <1>3 DEF HostProgress

\* A step of the world.
LEMMA WorldChanges ==
  ASSUME SystemEnvironment
  PROVE  /\ UNCHANGED <<read, since, conf, nconf>> /\ AnswersOn /\ phase' \notin Early
         /\ UNCHANGED <<writervars, emitting, before>>
         /\ phase = "fixup" => UNCHANGED restarts
         /\ phase # "running" => UNCHANGED restarts
  <1>1. CASE \E d \in AllDirectives : FtpAccess(d)
    <2>1. PICK d \in AllDirectives : FtpAccess(d)
      BY <1>1
    <2>2. outcome' = outcome
      BY <2>1 DEF FtpAccess, lint_parsed_line_ev
    <2> QED BY <2>1, <2>2 DEF SystemEnvironment, FtpAccess, hostvars, AnswersOn, Early
  <1>2. CASE Sighup \/ Exit
    BY <1>2 DEF SystemEnvironment, Sighup, Exit, AnswersOn, Early
  <1>3. CASE UnloadOther
    <2>1. outcome' = outcome
      BY <1>3 DEF UnloadOther, lint_mod_unload_ev
    <2> QED BY <1>3, <2>1 DEF SystemEnvironment, UnloadOther, hostvars, AnswersOn, Early
  <1> QED BY <1>1, <1>2, <1>3 DEF SystemEnvironment

\* The bounds are kept.
LEMMA BoundsKept ==
  ASSUME BoundsInv, read \in Seq(AllDirectives), ReadsOn, MakesOn
  PROVE  BoundsInv'
  <1>1. Len(read') <= MaxLines
    <2>1. MaxLines \in Nat
      BY ModLintAssumption
    <2>2. ASSUME NEW d \in AllDirectives, Len(read) < MaxLines, read' = Append(read, d)
          PROVE  Len(read') <= MaxLines
      BY <2>1, <2>2
    <2> QED BY <2>1, <2>2 DEF BoundsInv, ReadsOn
  <1>2. IsFiniteSet(conf')
    <2>1. IsFiniteSet(conf) /\ IsFiniteSet({})
      BY FS_EmptySet DEF BoundsInv
    <2>2. \A c : IsFiniteSet(conf \cup {c})
      BY <2>1, FS_AddElement
    <2> QED BY <2>1, <2>2 DEF MakesOn
  <1> QED BY <1>1, <1>2 DEF BoundsInv

\* A config_rec that joins them is a new one.
LEMMA NamesKept ==
  ASSUME NamesInv, MakesOn
  PROVE  NamesInv'
  <1>1. CASE conf' \in {conf, {}} /\ nconf' = nconf
    BY <1>1 DEF NamesInv
  <1>2. ASSUME NEW c, c.id = nconf + 1, c.kind \in MadeKinds,
               conf' = conf \cup {c}, nconf' = nconf + 1
        PROVE  NamesInv'
    <2>1. nconf \in Nat /\ nconf' \in Nat
      BY <1>2 DEF NamesInv
    <2>2. \A o \in conf' : o.id \in Nat /\ o.id <= nconf' /\ o.kind \in MadeKinds
      BY <1>2, <2>1 DEF NamesInv
    <2>3. ASSUME NEW o \in conf', NEW p \in conf', o.id = p.id PROVE o = p
      BY <1>2, <2>1, <2>3 DEF NamesInv
    <2> QED BY <2>1, <2>2, <2>3 DEF NamesInv
  <1> QED BY <1>1, <1>2 DEF MakesOn

\* What is known of the system outside and inside an emission.
LEMMA TypesOfContent ==
  ASSUME SystemInv, phase # "exited" \/ ~emitting
  PROVE  TypeOK /\ restarts \in Nat /\ read \in Seq(AllDirectives)
  BY DEF SystemInv, EmittingInv, FullInv, SafeInv, TypeOK

\* A step that leaves the file keeps what is said of it.
LEMMA FileStays ==
  ASSUME FileInv, file' = file, AnswersOn
  PROVE  FileInv'
  <1>1. Writer!OldContents' = Writer!OldContents /\ \A r : Shown(r)' = Shown(r)
    BY DEF Shown, ItemsOf, Writer!OldContents, Writer!Item
  <1>2. file' = Writer!OldContents \/ \E r \in Nat : file' \in Seq(Shown(r))
    BY <1>1 DEF FileInv
  <1>3. phase' = "running" /\ outcome'.result = "written" => file' \in Seq(Shown(restarts'))
    BY DEF FileInv, AnswersOn
  <1> QED BY <1>2, <1>3 DEF FileInv, Shown, ItemsOf, Writer!OldContents, Writer!Item

\* A step of the host outside an emission.
LEMMA ContentHost ==
  ASSUME ContentInv, HostProgress
  PROVE  BoundsInv' /\ LocalsInv' /\ WritingInv' /\ FileInv'
  <1>1. SystemInv /\ BoundsInv /\ LocalsInv /\ FileInv
    BY DEF ContentInv
  <1>2. FullInv /\ read \in Seq(AllDirectives) /\ ~emitting
    BY <1>1, TypesOfContent DEF SystemInv, HostProgress
  <1>3. /\ ReadsOn /\ MakesOn /\ AnswersOn
        /\ phase' \in Early => phase \in Early
        /\ UNCHANGED <<writervars, emitting, before>> /\ ~emitting
    BY <1>2, HostChanges
  <1>4. /\ stage' = stage /\ fh' = fh /\ queue' = queue /\ result' = result
        /\ file' = file /\ ~emitting'
        /\ UNCHANGED <<errno, failed, shorts, closes, whole>>
    BY <1>2, <1>3 DEF writervars, locals
  <1>5. BoundsInv'
    BY <1>1, <1>2, <1>3, BoundsKept
  <1>6. LocalsInv'
    BY <1>1, <1>2, <1>3, <1>4 DEF LocalsInv, Early
  <1>7. WritingInv'
    BY <1>4 DEF WritingInv
  <1>8. FileInv'
    BY <1>1, <1>3, <1>4, FileStays
  <1> QED BY <1>5, <1>6, <1>7, <1>8

\* A new configuration is read.
LEMMA ContentReread ==
  ASSUME ContentInv, RereadConfig
  PROVE  BoundsInv' /\ LocalsInv' /\ WritingInv' /\ FileInv'
  <1>1. SystemInv /\ BoundsInv /\ FileInv
    BY DEF ContentInv
  <1>2. /\ phase = "restarting" /\ phase' = "parsing" /\ read' = <<>> /\ conf' = {}
        /\ nconf' = nconf /\ emitting' = emitting /\ file' = file /\ stage' = "open" /\ fh' = "none"
        /\ queue' = <<>> /\ result' = "none" /\ errno' = "none" /\ failed' = "none"
        /\ shorts' = 0 /\ closes' = 0 /\ whole' = <<>>
    BY DEF RereadConfig, Reread, NoLocals
  <1>3. ~emitting /\ read \in Seq(AllDirectives)
    BY <1>1, <1>2, TypesOfContent DEF SystemInv
  <1>4. ReadsOn /\ MakesOn /\ AnswersOn
    BY <1>2 DEF ReadsOn, MakesOn, AnswersOn
  <1>5. BoundsInv'
    BY <1>1, <1>3, <1>4, BoundsKept
  <1>6. FileInv'
    BY <1>1, <1>2, <1>4, FileStays
  <1> QED BY <1>2, <1>3, <1>5, <1>6 DEF LocalsInv, WritingInv

\* The listener calls lint_write_config.
LEMMA ContentStart ==
  ASSUME ContentInv, StartEmission
  PROVE  BoundsInv' /\ LocalsInv' /\ WritingInv' /\ FileInv'
  <1>1. SystemInv /\ BoundsInv /\ LocalsInv /\ FileInv
    BY DEF ContentInv
  <1>2. /\ phase = "fixup" /\ ~emitting /\ emitting' /\ "core.postparse" \in registered
        /\ UNCHANGED <<phase, read, since, conf, nconf, restarts>>
        /\ input' = EmissionInput /\ stage' = stage /\ queue' = queue /\ fh' = fh
        /\ result' = result /\ file' = file /\ outcome' = outcome
    BY DEF StartEmission, Emits, hostvars
  <1>3. FullInv /\ loaded
    BY <1>1, <1>2 DEF SystemInv, FullInv, SafeInv, EventInv
  <1>4. stage = "open" /\ fh = "none" /\ queue = <<>> /\ result = "none"
    BY <1>1, <1>2 DEF LocalsInv
  <1>5. InputInv'
    <2>1. /\ W!IsConfiguration(EmissionInput)
          /\ \A i \in DOMAIN EmissionInput.lines :
               /\ EmissionInput.lines[i].directive \in AllDirectives
               /\ EmissionInput.lines[i].arg \in Nat \ {0}
               /\ (EmissionInput.lines[i].arg - 1) \div MaxLines = restarts
      BY <1>1, <1>2, <1>3, InputIs DEF ContentInv
    <2> DEFINE given == EmissionInput
    <2>2. input' = given
      BY <1>2
    <2> HIDE DEF given
    <2> QED BY <1>2, <2>1, <2>2 DEF InputInv, given
  <1>6. WritingInv'
    <2>1. <<>> \in W!WritesIn(ItemsOf(restarts'))
      BY DEF W!WritesIn
    <2> QED BY <1>2, <1>4, <1>5, <2>1 DEF WritingInv, ItemsOf
  <1>7. ReadsOn /\ MakesOn /\ AnswersOn
    BY <1>2 DEF ReadsOn, MakesOn, AnswersOn
  <1>8. FileInv'
    BY <1>1, <1>2, <1>7, FileStays
  <1>9. BoundsInv'
    BY <1>1, <1>2 DEF BoundsInv
  <1>10. LocalsInv'
    BY <1>2 DEF LocalsInv
  <1> QED BY <1>6, <1>8, <1>9, <1>10

\* lint_write_config returns: a success is that of a file that was opened.
LEMMA ContentEnd ==
  ASSUME ContentInv, EndEmission
  PROVE  BoundsInv' /\ LocalsInv' /\ WritingInv' /\ FileInv'
  <1>1. SystemInv /\ BoundsInv /\ WritingInv /\ FileInv
    BY DEF ContentInv
  <1>2. /\ phase = "fixup" /\ emitting /\ result \in {"ok", "error"} /\ ~emitting'
        /\ phase' = "running" /\ read' = read /\ conf' = conf /\ restarts' = restarts
        /\ file' = file
        /\ outcome' = [result |-> IF result = "ok" THEN "written" ELSE "failed",
                       lines |-> parsed_lines.elts, pool |-> lint_pool]
    BY DEF EndEmission
  <1>3. outcome'.result = "written" => file \in Seq(Shown(restarts))
    BY <1>1, <1>2 DEF WritingInv
  <1>4. Writer!OldContents' = Writer!OldContents /\ \A r : Shown(r)' = Shown(r)
    BY DEF Shown, ItemsOf, Writer!OldContents, Writer!Item
  <1>5. FileInv'
    <2>1. file' = Writer!OldContents \/ \E r \in Nat : file' \in Seq(Shown(r))
      BY <1>1, <1>2 DEF FileInv
    <2>2. outcome'.result = "written" => file' \in Seq(Shown(restarts'))
      BY <1>2, <1>3
    <2> QED BY <2>1, <2>2 DEF FileInv, Shown, ItemsOf, Writer!OldContents, Writer!Item
  <1> QED BY <1>1, <1>2, <1>5 DEF BoundsInv, LocalsInv, WritingInv

\* The world: while an emission runs, only the end of the process.
LEMMA ContentWorld ==
  ASSUME ContentInv, SystemEnvironment
  PROVE  BoundsInv' /\ LocalsInv' /\ WritingInv' /\ FileInv'
  <1>1. SystemInv /\ BoundsInv /\ WritingInv /\ FileInv
    BY DEF ContentInv
  <1>2. /\ UNCHANGED <<read, since, conf, nconf>> /\ AnswersOn /\ phase' \notin Early
        /\ UNCHANGED <<writervars, emitting, before>>
        /\ phase # "running" => restarts' = restarts
    BY WorldChanges
  <1>3. /\ stage' = stage /\ fh' = fh /\ queue' = queue /\ result' = result
        /\ file' = file /\ input' = input /\ emitting' = emitting
    BY <1>2 DEF writervars, locals
  <1>4. emitting => restarts' = restarts
    BY <1>1, <1>2 DEF SystemInv
  <1>5. WritingInv'
    BY <1>1, <1>3, <1>4 DEF WritingInv, InputInv, Shown, ItemsOf
  <1>6. FileInv'
    BY <1>1, <1>2, <1>3, FileStays
  <1> QED BY <1>1, <1>2, <1>5, <1>6 DEF BoundsInv, LocalsInv, Early

\* A step that changes nothing.
LEMMA ContentStill ==
  ASSUME ContentInv, UNCHANGED systemvars
  PROVE  BoundsInv' /\ LocalsInv' /\ WritingInv' /\ FileInv'
  <1>1. /\ UNCHANGED <<phase, read, since, conf, restarts>>
        /\ outcome' = outcome /\ stage' = stage /\ fh' = fh /\ queue' = queue
        /\ result' = result /\ file' = file /\ input' = input /\ emitting' = emitting
        /\ UNCHANGED <<errno, failed, shorts, closes, whole>>
    BY DEF systemvars, vars, hostvars, writervars, locals
  <1>2. FileInv'
    BY <1>1, FileStays DEF ContentInv, AnswersOn
  <1>3. WritingInv'
    BY <1>1 DEF ContentInv, WritingInv, InputInv, Shown, ItemsOf
  <1> QED BY <1>1, <1>2, <1>3 DEF ContentInv, BoundsInv, LocalsInv

\* A call of the emission.
LEMMA ContentEmission ==
  ASSUME ContentInv, EmissionStep
  PROVE  BoundsInv' /\ LocalsInv' /\ WritingInv' /\ FileInv'
  <1>1. /\ emitting /\ emitting' = emitting /\ phase = "fixup"
        /\ read' = read /\ conf' = conf
    BY DEF EmissionStep, vars, hostvars
  <1>2. InputInv /\ WritingInv /\ FileInv /\ SystemInv /\ restarts \in Nat
    BY <1>1, TypesOfContent DEF ContentInv, WritingInv
  <1>3. WritingInv' /\ FileInv'
    BY <1>1, <1>2, WritingStep
  <1> QED BY <1>1, <1>3 DEF ContentInv, BoundsInv, LocalsInv

\* The invariant of the file's contents holds at first.
LEMMA ContentInit == SystemInit => ContentInv
  <1> SUFFICES ASSUME SystemInit PROVE ContentInv
    OBVIOUS
  <1>1. SystemInv
    BY SystemInitInv
  <1>2. /\ read = <<>> /\ conf = {} /\ phase = "boot" /\ stage = "open" /\ fh = "none"
        /\ queue = <<>> /\ result = "none" /\ ~emitting /\ file = Writer!OldContents
        /\ errno = "none" /\ failed = "none" /\ shorts = 0 /\ closes = 0 /\ whole = <<>>
    BY DEF SystemInit, Init
  <1>3. Len(read) <= MaxLines /\ IsFiniteSet(conf)
    BY <1>2, FS_EmptySet, ModLintAssumption
  <1>4. NamesInv
    BY <1>2 DEF SystemInit, Init, NamesInv
  <1> QED BY <1>1, <1>2, <1>3, <1>4
          DEF ContentInv, BoundsInv, LocalsInv, WritingInv, FileInv

\* The config_recs are told apart whatever the step.
LEMMA NamesStep ==
  ASSUME ContentInv, [SystemNext]_systemvars
  PROVE  NamesInv'
  <1> SUFFICES MakesOn
    BY NamesKept DEF ContentInv
  <1>1. CASE HostProgress
    <2>1. FullInv
      BY <1>1 DEF ContentInv, SystemInv, HostProgress
    <2> QED BY <1>1, <2>1, HostChanges
  <1>2. CASE RereadConfig
    BY <1>2 DEF RereadConfig, Reread, MakesOn
  <1>3. CASE StartEmission
    BY <1>3 DEF StartEmission, hostvars, MakesOn
  <1>4. CASE EmissionStep
    BY <1>4 DEF EmissionStep, vars, hostvars, MakesOn
  <1>5. CASE EndEmission
    BY <1>5 DEF EndEmission, MakesOn
  <1>6. CASE SystemEnvironment
    BY <1>6, WorldChanges DEF MakesOn
  <1>7. CASE UNCHANGED systemvars
    BY <1>7 DEF systemvars, vars, hostvars, MakesOn
  <1> QED BY <1>1, <1>2, <1>3, <1>4, <1>5, <1>6, <1>7 DEF SystemNext, SystemProgress

\* Every step keeps it.
LEMMA ContentStep == ContentInv /\ [SystemNext]_systemvars => ContentInv'
  <1> SUFFICES ASSUME ContentInv, [SystemNext]_systemvars PROVE ContentInv'
    OBVIOUS
  <1>1. SystemInv'
    BY SystemStep DEF ContentInv
  <1>2. BoundsInv' /\ LocalsInv' /\ WritingInv' /\ FileInv'
    BY ContentHost, ContentReread, ContentStart, ContentEmission, ContentEnd,
       ContentWorld, ContentStill DEF SystemNext, SystemProgress
  <1>3. NamesInv'
    BY NamesStep
  <1> QED BY <1>1, <1>2, <1>3 DEF ContentInv

\* A file in which nothing comes from another configuration than r.
LEMMA OfOne ==
  ASSUME NEW r \in Nat, file \in Seq(Shown(r))
  PROVE  /\ \A p \in DOMAIN file : file[p].kind # "old"
         /\ UNION {FromConfig(item) : item \in ToSet(file)} \subseteq {r}
  <1>1. \A p \in DOMAIN file : file[p] \in Shown(r)
    OBVIOUS
  <1>2. \A item \in ToSet(file) : item \in Shown(r)
    BY <1>1 DEF ToSet
  <1> QED BY <1>1, <1>2, ShownFrom

\* The old file says nothing of a configuration.
LEMMA OfNone ==
  ASSUME file = Writer!OldContents
  PROVE  UNION {FromConfig(item) : item \in ToSet(file)} = {}
  <1>1. file[1].kind = "old" /\ DOMAIN file = {1}
    <2> DEFINE old == Writer!Item("old", "", 0, 0)
    <2>1. old.kind = "old"
      BY DEF Writer!Item
    <2>2. file = <<old>>
      BY DEF Writer!OldContents
    <2> HIDE DEF old
    <2>3. file[1] = old /\ DOMAIN file = 1 .. 1
      BY <2>2
    <2> QED BY <2>1, <2>3
  <1>2. ToSet(file) = {file[1]}
    BY <1>1 DEF ToSet
  <1>3. FromConfig(file[1]) = {}
    BY <1>1 DEF FromConfig, ConfigLine
  <1> QED BY <1>2, <1>3

-----------------------------------------------------------------------------
(* What an emission has been given *)

\* What it has been given: a line for each one the host has read since the module
\* was loaded, and for each server a record for each of its config_recs.
GivenInv ==
  /\ W!IsConfiguration(input)
  /\ DOMAIN input.servers = 1 .. Servers
  /\ DOMAIN input.lines = 1 .. Len(read) - since
  /\ \A i \in DOMAIN input.lines :
       /\ input.lines[i].directive = read[since + i]
       /\ input.lines[i].arg = TextOf(since + i)
  /\ \A s \in 1 .. Servers :
       /\ \A n \in DOMAIN input.servers[s] :
            \E c \in ConfOf(s) : OfKind(input.servers[s][n], c.kind)
       /\ \A c \in ConfOf(s) :
            \E n \in DOMAIN input.servers[s] : OfKind(input.servers[s][n], c.kind)

\* It stays what it has been given.
LEMMA GivenStays ==
  ASSUME GivenInv, UNCHANGED <<input, read, since, conf, restarts>>
  PROVE  GivenInv'
  <1>1. W!IsConfiguration(input)' <=> W!IsConfiguration(input)
    BY DEF W!IsConfiguration, W!IsSeq, W!ToSet
  <1>2. \A s : ConfOf(s)' = ConfOf(s)
    BY DEF ConfOf
  <1>3. \A n : TextOf(n)' = TextOf(n)
    BY DEF TextOf
  <1> QED BY <1>1, <1>2, <1>3 DEF GivenInv, OfKind

\* That is what it is given when lint_postparse_ev calls lint_write_config.
LEMMA GivenAtStart ==
  ASSUME FullInv, BoundsInv, NamesInv, phase = "fixup", loaded,
         input' = EmissionInput, UNCHANGED <<read, since, conf, restarts>>
  PROVE  GivenInv'
  <1> DEFINE A == LinesAtPostParse
             R == RecordedLines
             servers == [server \in 1 .. Servers |-> ServerConf(server)]
             given == EmissionInput
             n == Len(read) - since
  <1>1. TypeOK /\ RecordedExactly /\ Reading
    BY DEF FullInv, SafeInv, RecordInv, Reading
  <1>2. /\ parsed_lines.elts \in Seq(Lines) /\ associated_configs.elts \in SUBSET Configs
        /\ since \in Nat /\ Len(read) \in Nat
    BY <1>1 DEF TypeOK
  <1>3. /\ DOMAIN A = 1 .. n
        /\ \A i \in 1 .. n : A[i].lineno = since + i /\ A[i].directive = read[since + i]
    <2> DEFINE elts == parsed_lines.elts
    <2>1. /\ Len(elts) = n /\ DOMAIN elts = 1 .. n
          /\ \A i \in DOMAIN elts : elts[i].lineno = since + i
                                    /\ elts[i].directive = read[since + i]
      BY <1>1, <1>2 DEF RecordedExactly
    <2>2. /\ DOMAIN A = 1 .. Len(elts)
          /\ \A i \in 1 .. Len(elts) : /\ A[i].lineno = elts[i].lineno
                                       /\ A[i].directive = elts[i].directive
      BY <1>2, AttachKeeps DEF LinesAtPostParse
    <2> HIDE DEF elts, A, n
    <2> QED BY <2>1, <2>2
  <1>4. /\ DOMAIN R = DOMAIN A
        /\ \A i \in DOMAIN A : R[i].directive = A[i].directive
                               /\ R[i].arg = TextOf(A[i].lineno)
    BY DEF RecordedLines
  <1>5. /\ DOMAIN R = 1 .. n
        /\ \A i \in 1 .. n : R[i].directive = read[since + i]
                             /\ R[i].arg = TextOf(since + i)
    <2> HIDE DEF A, R, n
    <2> QED BY <1>3, <1>4
  <1>6. given.lines = R /\ given.servers = servers
    BY DEF EmissionInput
  <1>7. /\ DOMAIN servers = 1 .. Servers
        /\ \A s \in 1 .. Servers : servers[s] = ServerConf(s)
    OBVIOUS
  <1>8. \A s \in 1 .. Servers :
          /\ \A m \in DOMAIN ServerConf(s) :
               \E c \in ConfOf(s) : OfKind(ServerConf(s)[m], c.kind)
          /\ \A c \in ConfOf(s) :
               \E m \in DOMAIN ServerConf(s) : OfKind(ServerConf(s)[m], c.kind)
    BY ServerConfIs
  <1>9. W!IsConfiguration(given)
    BY InputIs
  <1> HIDE DEF A, R, servers, given, n
  <1>10. input' = given
    BY DEF given
  <1>11. W!IsConfiguration(input)'
    BY <1>9, <1>10 DEF W!IsConfiguration, W!IsSeq, W!ToSet
  <1>12. DOMAIN input'.lines = 1 .. Len(read') - since'
         /\ \A i \in DOMAIN input'.lines :
              /\ input'.lines[i].directive = read'[since' + i]
              /\ input'.lines[i].arg = TextOf(since + i)'
    BY <1>5, <1>6, <1>10 DEF n, TextOf
  <1>13. \A s : ConfOf(s)' = ConfOf(s)
    BY DEF ConfOf
  <1>14. /\ DOMAIN input'.servers = 1 .. Servers
         /\ \A s \in 1 .. Servers : input'.servers[s] = ServerConf(s)
    BY <1>6, <1>7, <1>10
  <1>15. \A s \in 1 .. Servers :
          /\ \A m \in DOMAIN input'.servers[s] :
               \E c \in ConfOf(s) : OfKind(input'.servers[s][m], c.kind)
          /\ \A c \in ConfOf(s) :
               \E m \in DOMAIN input'.servers[s] : OfKind(input'.servers[s][m], c.kind)
    BY <1>8, <1>14
  <1> QED BY <1>11, <1>12, <1>13, <1>14, <1>15 DEF GivenInv, OfKind

-----------------------------------------------------------------------------
(* The emission that runs is one of LintWriter *)

\* The stages, and the one after each.
LEMMA SameStages ==
  /\ Writer!Stages = W!Stages
  /\ \A s : Writer!ToSet(s) = W!ToSet(s)
  /\ \A s : Writer!After(s) = W!After(s)
  <1>1. Writer!Stages = W!Stages
    BY DEF Writer!Stages, W!Stages
  <1>2. \A s : Writer!ToSet(s) = W!ToSet(s)
    BY DEF Writer!ToSet, W!ToSet
  <1> QED BY <1>1, <1>2 DEF Writer!After, W!After

\* A call of it is a call of that one.
LEMMA SameEmit == Writer!Emit => W!Emit
  <1> USE SameStages, SameWrites, SameFlattened
  <1>1. Writer!Open => W!Open
    BY DEF Writer!Open, W!Open
  <1>2. Writer!OpenFails => W!OpenFails
    BY DEF Writer!OpenFails, W!OpenFails
  <1>3. Writer!Write => W!Write
    BY DEF Writer!Write, W!Write
  <1>4. Writer!ShortWrite => W!ShortWrite
    BY SameItems DEF Writer!ShortWrite, W!ShortWrite
  <1>5. Writer!WriteFails => W!WriteFails
    BY DEF Writer!WriteFails, W!WriteFails, Writer!LeavesContext, W!LeavesContext
  <1>6. Writer!NextStage => W!NextStage
    BY DEF Writer!NextStage, W!NextStage
  <1>7. Writer!CloseAfterFailure => W!CloseAfterFailure
    BY DEF Writer!CloseAfterFailure, W!CloseAfterFailure, Writer!Restored, W!Restored
  <1>8. Writer!Close => W!Close
    BY DEF Writer!Close, W!Close
  <1> QED BY <1>1, <1>2, <1>3, <1>4, <1>5, <1>6, <1>7, <1>8 DEF Writer!Emit, W!Emit

\* So it keeps what is known of LintWriter's, as the end of the process does.
LEMMA RunKept ==
  ASSUME W!ContentInv, Writer!Emit \/ UNCHANGED writervars
  PROVE  W!ContentInv'
  <1>1. W!Emit \/ UNCHANGED W!vars
    BY SameEmit DEF writervars, locals, W!vars
  <1> QED BY <1>1, WriterAssumed, W!ContentNext DEF W!Next

\* And it begins as it does, but for what the file may hold.
LEMMA RunAtStart ==
  ASSUME W!IsConfiguration(input)', stage' = "open", fh' = "none", queue' = <<>>,
         result' = "none", errno' = "none", failed' = "none", shorts' = 0, closes' = 0,
         whole' = <<>>
  PROVE  W!ContentInv'
  <1>1. /\ W!ToSet(W!Stages) = {"header", "defines", "modules", "server", "classes",
                                "ctrls", "vhosts"}
        /\ "open" \notin W!ToSet(W!Stages)
    BY WriterAssumed, W!StageNames
  <1>2. W!EmissionInv'
    BY <1>1 DEF W!EmissionInv, W!StageInv, W!HandleInv, W!AnswerInv
  <1>3. W!DiskInv'
    <2>1. <<>> \in W!WritesType /\ <<>> \in Seq(W!Items)
      BY WriterAssumed, W!NoWrites
    <2> QED BY <2>1 DEF W!DiskInv, W!DiskTypes
  <1>4. W!WholeInv'
    BY <1>1 DEF W!WholeInv
  <1> QED BY <1>2, <1>3, <1>4 DEF W!ContentInv, W!RunInv

\* What an emission is given, what it does with it, and what it leaves when it has
\* answered success.
WholeFileInv ==
  /\ emitting => W!ContentInv
  /\ emitting /\ phase = "fixup" => GivenInv
  /\ phase = "running" /\ outcome.result = "written" =>
       GivenInv /\ (shorts = 0 => file = W!Everything)

\* A step that leaves the emission's variables, outside an emission.
LEMMA WholeStays ==
  ASSUME WholeFileInv, ~emitting', AnswersOn, UNCHANGED writervars
  PROVE  WholeFileInv'
  <1>1. input' = input /\ shorts' = shorts /\ file' = file
    BY DEF writervars, locals
  <1>2. W!Everything' = W!Everything
    BY <1>1, WriterAssumed, W!SameSoFar
  <1>3. ASSUME phase' = "running", outcome'.result = "written"
        PROVE  GivenInv' /\ (shorts' = 0 => file' = W!Everything')
    <2>1. phase = "running" /\ UNCHANGED <<outcome, restarts, read, since, conf>>
      BY <1>3 DEF AnswersOn
    <2>2. GivenInv /\ (shorts = 0 => file = W!Everything)
      BY <1>3, <2>1 DEF WholeFileInv
    <2> QED BY <1>1, <1>2, <2>1, <2>2, GivenStays
  <1> QED BY <1>3 DEF WholeFileInv

\* The steps of the system keep it: those of the host,
LEMMA WholeHost ==
  ASSUME ContentInv, WholeFileInv, HostProgress
  PROVE  WholeFileInv'
  <1>1. FullInv
    BY DEF ContentInv, SystemInv, HostProgress
  <1>2. /\ AnswersOn /\ ~emitting
        /\ UNCHANGED <<writervars, emitting, before>>
    BY <1>1, HostChanges
  <1> QED BY <1>2, WholeStays

\* a new configuration,
LEMMA WholeReread ==
  ASSUME ContentInv, WholeFileInv, RereadConfig
  PROVE  WholeFileInv'
  <1>1. phase = "restarting" /\ phase' = "parsing" /\ emitting' = emitting
    BY DEF RereadConfig, Reread
  <1>2. ~emitting
    BY <1>1 DEF ContentInv, SystemInv
  <1> QED BY <1>1, <1>2 DEF WholeFileInv

\* the call of lint_write_config,
LEMMA WholeStart ==
  ASSUME ContentInv, WholeFileInv, StartEmission
  PROVE  WholeFileInv'
  <1>1. /\ phase = "fixup" /\ ~emitting /\ emitting' /\ "core.postparse" \in registered
        /\ UNCHANGED <<phase, read, since, conf, nconf, restarts>>
        /\ input' = EmissionInput
        /\ UNCHANGED <<stage, queue, fh, result, errno, failed, shorts, closes, whole>>
    BY DEF StartEmission, Emits, hostvars
  <1>2. FullInv /\ BoundsInv /\ loaded
    BY <1>1 DEF ContentInv, SystemInv, FullInv, SafeInv, EventInv
  <1>3. /\ stage = "open" /\ fh = "none" /\ queue = <<>> /\ result = "none"
        /\ errno = "none" /\ failed = "none" /\ shorts = 0 /\ closes = 0 /\ whole = <<>>
    BY <1>1 DEF ContentInv, LocalsInv
  <1>4. GivenInv'
    BY <1>1, <1>2, GivenAtStart DEF ContentInv
  <1>5. W!ContentInv'
    BY <1>1, <1>3, <1>4, RunAtStart DEF GivenInv
  <1> QED BY <1>1, <1>4, <1>5 DEF WholeFileInv

\* its calls,
LEMMA WholeEmission ==
  ASSUME ContentInv, WholeFileInv, EmissionStep
  PROVE  WholeFileInv'
  <1>1. /\ phase = "fixup" /\ emitting /\ emitting' /\ Writer!Emit
        /\ UNCHANGED <<phase, read, since, conf, nconf, restarts>>
    BY DEF EmissionStep, vars, hostvars
  <1>2. input' = input
    BY <1>1 DEF Writer!Emit, Writer!Open, Writer!OpenFails, Writer!Write,
       Writer!ShortWrite, Writer!WriteFails, Writer!NextStage,
       Writer!CloseAfterFailure, Writer!Close
  <1>3. W!ContentInv' /\ GivenInv'
    BY <1>1, <1>2, RunKept, GivenStays DEF WholeFileInv
  <1> QED BY <1>1, <1>3 DEF WholeFileInv

\* its answer,
LEMMA WholeEnd ==
  ASSUME ContentInv, WholeFileInv, EndEmission
  PROVE  WholeFileInv'
  <1>1. /\ phase = "fixup" /\ emitting /\ ~emitting'
        /\ UNCHANGED <<read, since, conf, nconf, restarts, input, file, shorts>>
        /\ outcome' = [result |-> IF result = "ok" THEN "written" ELSE "failed",
                       lines |-> parsed_lines.elts, pool |-> lint_pool]
    BY DEF EndEmission, locals
  <1>2. GivenInv'
    BY <1>1, GivenStays DEF WholeFileInv
  <1>3. ASSUME outcome'.result = "written", shorts' = 0
        PROVE  file' = W!Everything'
    <2>1. W!ContentInv /\ W!Written
      BY <1>1, <1>3 DEF WholeFileInv, W!Written
    <2>2. file = W!Everything
      BY <2>1, WriterAssumed, W!WrittenFile
    <2>3. W!Everything' = W!Everything
      BY <1>1, WriterAssumed, W!SameSoFar
    <2> QED BY <1>1, <2>2, <2>3
  <1> QED BY <1>1, <1>2, <1>3 DEF WholeFileInv

\* and what the world does.
LEMMA WholeWorld ==
  ASSUME ContentInv, WholeFileInv, SystemEnvironment
  PROVE  WholeFileInv'
  <1>1. /\ UNCHANGED <<read, since, conf, nconf>> /\ AnswersOn /\ phase' \notin Early
        /\ UNCHANGED <<writervars, emitting, before>>
    BY WorldChanges
  <1>2. CASE ~emitting
    BY <1>1, <1>2, WholeStays
  <1>3. CASE emitting
    <2>1. phase \in {"fixup", "exited"}
      BY <1>3 DEF ContentInv, SystemInv
    <2>2. phase' \notin {"fixup", "running"}
      BY <1>1, <2>1 DEF Early, AnswersOn, SystemEnvironment, FtpAccess, Sighup,
                        UnloadOther, Exit
    <2>3. W!ContentInv'
      BY <1>1, <1>3, RunKept DEF WholeFileInv
    <2> QED BY <1>1, <2>2, <2>3 DEF WholeFileInv
  <1> QED BY <1>2, <1>3

\* A step that changes nothing.
LEMMA WholeStill ==
  ASSUME ContentInv, WholeFileInv, UNCHANGED systemvars
  PROVE  WholeFileInv'
  <1>1. /\ UNCHANGED <<phase, read, since, conf, nconf, restarts, outcome, emitting>>
        /\ UNCHANGED writervars /\ input' = input /\ shorts' = shorts /\ file' = file
    BY DEF systemvars, vars, hostvars, writervars, locals
  <1>2. GivenInv => GivenInv'
    BY <1>1, GivenStays
  <1>3. emitting => W!ContentInv'
    BY <1>1, RunKept DEF WholeFileInv
  <1>4. W!Everything' = W!Everything
    BY <1>1, WriterAssumed, W!SameSoFar
  <1> QED BY <1>1, <1>2, <1>3, <1>4 DEF WholeFileInv

-----------------------------------------------------------------------------
(* The lines of the configuration that are in the file *)

\* What is known of the lines that the host has read.
LinesRead == read \in Seq(AllDirectives) /\ since \in Nat /\ restarts \in Nat

\* What is written for a directive is the first line of it since the module was
\* loaded, and no other.
LEMMA FirstWritten ==
  ASSUME GivenInv, LinesRead, NEW item, NEW d, NEW depth
  PROVE  ~W!Never(item, W!FirstLine(d, depth)) <=>
           \E n \in DOMAIN read : /\ FirstHeardOf(n) /\ d = read[n]
                                  /\ item = W!Line(d, TextOf(n), depth)
  <1> DEFINE lines == input.lines
             first == W!FirstLine(d, depth)
  <1>1. /\ since \in Nat /\ Len(read) \in Nat /\ DOMAIN read = 1 .. Len(read)
    BY DEF LinesRead
  <1>2. /\ DOMAIN lines = 1 .. Len(read) - since
        /\ \A i \in DOMAIN lines : lines[i].directive = read[since + i]
                                   /\ lines[i].arg = TextOf(since + i)
    BY DEF GivenInv
  <1>3. \/ first = <<>> /\ \A i \in DOMAIN lines : lines[i].directive # d
        \/ \E i \in DOMAIN lines :
             /\ first = <<W!Line(d, lines[i].arg, depth)>>
             /\ lines[i].directive = d
             /\ \A j \in 1 .. i - 1 : lines[j].directive # d
    <2>1. W!IsConfiguration(input)
      BY DEF GivenInv
    <2> QED BY <2>1, WriterAssumed, W!FirstLineIs
  <1> HIDE DEF lines, first
  <1>4. ASSUME NEW n \in DOMAIN read, FirstHeardOf(n), d = read[n]
        PROVE  /\ n - since \in DOMAIN lines /\ lines[n - since].directive = d
               /\ \A j \in 1 .. (n - since) - 1 : lines[j].directive # d
    <2>1. n > since /\ \A earlier \in since + 1 .. n - 1 : read[earlier] # d
      BY <1>4 DEF FirstHeardOf
    <2>2. n - since \in DOMAIN lines /\ since + (n - since) = n
      BY <1>1, <1>2, <2>1
    <2>3. ASSUME NEW j \in 1 .. (n - since) - 1 PROVE lines[j].directive # d
      <3>1. j \in DOMAIN lines /\ since + j \in since + 1 .. n - 1
        BY <1>1, <1>2
      <3> QED BY <1>2, <2>1, <3>1
    <2> QED BY <1>2, <1>4, <2>2, <2>3
  <1>5. CASE first = <<>> /\ \A i \in DOMAIN lines : lines[i].directive # d
    <2>1. W!Never(item, first)
      BY <1>5 DEF W!Never
    <2> QED BY <1>4, <1>5, <2>1 DEF first
  <1>6. ASSUME NEW i \in DOMAIN lines, first = <<W!Line(d, lines[i].arg, depth)>>,
               lines[i].directive = d, \A j \in 1 .. i - 1 : lines[j].directive # d
        PROVE  ~W!Never(item, first) <=>
                 \E n \in DOMAIN read : /\ FirstHeardOf(n) /\ d = read[n]
                                        /\ item = W!Line(d, TextOf(n), depth)
    <2> DEFINE one == W!Line(d, lines[i].arg, depth)
    <2>1. /\ i \in Nat \ {0} /\ since + i \in DOMAIN read /\ read[since + i] = d
          /\ one = W!Line(d, TextOf(since + i), depth)
      BY <1>1, <1>2, <1>6
    <2>2. ~W!Never(item, first) <=> item = one
      <3> HIDE DEF one
      <3>1. first = <<one>>
        BY <1>6 DEF one
      <3>2. DOMAIN first = {1} /\ first[1] = one
        BY <3>1
      <3> QED BY <3>2 DEF W!Never
    <2> HIDE DEF one
    <2>3. FirstHeardOf(since + i)
      <3>1. ASSUME NEW earlier \in since + 1 .. since + i - 1 PROVE read[earlier] # d
        <4>1. earlier - since \in 1 .. i - 1 /\ earlier - since \in DOMAIN lines
              /\ since + (earlier - since) = earlier
          BY <1>1, <1>2, <2>1
        <4> QED BY <1>2, <1>6, <4>1
      <3> QED BY <1>1, <2>1, <3>1 DEF FirstHeardOf
    <2>4. ASSUME NEW n \in DOMAIN read, FirstHeardOf(n), d = read[n]
          PROVE  n = since + i
      <3>1. /\ n - since \in DOMAIN lines /\ lines[n - since].directive = d
            /\ \A j \in 1 .. (n - since) - 1 : lines[j].directive # d
        BY <1>4, <2>4
      <3>2. n \in Nat /\ n - since \in Nat \ {0}
        BY <1>1, <1>2, <3>1
      <3>3. ~(n - since < i)
        BY <1>1, <1>6, <2>1, <3>1, <3>2
      <3>4. ~(i < n - since)
        BY <1>6, <2>1, <3>1, <3>2
      <3> QED BY <1>1, <2>1, <3>2, <3>3, <3>4
    <2> QED BY <2>1, <2>2, <2>3, <2>4
  <1> QED BY <1>3, <1>5, <1>6 DEF first

\* What is added for a config_rec is the first line of the directive it leads to,
\* as deep as the config_rec is, or nothing.
LEMMA RecordIs ==
  ASSUME NEW r, NEW kind, OfKind(r, kind)
  PROVE  W!lint_add_config_rec(r) =
           IF Writer!HasDirective(kind)
           THEN W!FirstLine(Writer!DirectiveOf(kind), kind.depth)
           ELSE <<>>
  <1>1. W!DirectiveOf(r) = W!DirectiveOf(kind)
    BY DEF OfKind, W!DirectiveOf, W!lint_cop_get_directive, W!lint_cop_get_config_cop,
           W!core_get_directive, W!default_get_directive
  <1>2. Writer!DirectiveOf(kind) = W!DirectiveOf(kind)
    BY SameDirective
  <1>3. Writer!Internal = W!Internal /\ Writer!NoDirective = W!NoDirective
    BY DEF Writer!Internal, W!Internal, Writer!NoDirective, W!NoDirective
  <1> QED BY <1>1, <1>2, <1>3
          DEF OfKind, W!lint_add_config_rec, Writer!HasDirective

\* So a config_rec writes an item exactly when that is the first line of its
\* directive, indented as deep as the config_rec.
LEMMA RecordWrites ==
  ASSUME GivenInv, LinesRead, NEW item, NEW r, NEW kind, OfKind(r, kind)
  PROVE  ~W!Never(item, W!lint_add_config_rec(r)) <=>
           /\ Writer!HasDirective(kind)
           /\ \E n \in DOMAIN read : /\ FirstHeardOf(n)
                                     /\ Writer!DirectiveOf(kind) = read[n]
                                     /\ item = W!Line(read[n], TextOf(n), kind.depth)
  <1>1. CASE Writer!HasDirective(kind)
    BY <1>1, RecordIs, FirstWritten
  <1>2. CASE ~Writer!HasDirective(kind)
    <2>1. W!lint_add_config_rec(r) = <<>>
      BY <1>2, RecordIs
    <2> QED BY <1>2, <2>1 DEF W!Never
  <1> QED BY <1>1, <1>2

\* Which of the lines of the configuration the whole file has.
LEMMA LineInFile ==
  ASSUME GivenInv, NamesInv, LinesRead,
         NEW item, item.arg # 0, item.name # "LoadModule"
  PROVE  ~W!Never(item, W!Everything) <=>
           \E n \in DOMAIN read :
             /\ FirstHeardOf(n)
             /\ \E depth \in DepthsOf(n) : item = Writer!Line(read[n], TextOf(n), depth)
  <1> DEFINE Written(d, depth) ==
               \E n \in DOMAIN read : /\ FirstHeardOf(n) /\ d = read[n]
                                      /\ item = W!Line(read[n], TextOf(n), depth)
  <1>1. /\ W!IsConfiguration(input) /\ DOMAIN input.servers = 1 .. Servers
        /\ \A s \in 1 .. Servers :
             /\ \A m \in DOMAIN input.servers[s] :
                  \E c \in ConfOf(s) : OfKind(input.servers[s][m], c.kind)
             /\ \A c \in ConfOf(s) :
                  \E m \in DOMAIN input.servers[s] : OfKind(input.servers[s][m], c.kind)
    BY DEF GivenInv
  <1>2. W!LooksFor = Writer!LooksFor
    BY DEF W!LooksFor, Writer!LooksFor, W!LookedUp, Writer!LookedUp
  <1>3. W!Never(item, W!Everything) <=>
          /\ \A d \in W!LooksFor : W!Never(item, W!FirstLine(d, 0))
          /\ \A s \in DOMAIN input.servers : \A m \in DOMAIN input.servers[s] :
               W!Never(item, W!lint_add_config_rec(W!Rec(s, m)))
    BY <1>1, WriterAssumed, W!LineWritten
  <1>4. \A d : ~W!Never(item, W!FirstLine(d, 0)) <=> Written(d, 0)
    BY FirstWritten
  <1>5. \A s, m : W!Rec(s, m) = input.servers[s][m]
    BY DEF W!Rec
  <1>6. \A r, kind : OfKind(r, kind) =>
          (~W!Never(item, W!lint_add_config_rec(r)) <=>
             /\ Writer!HasDirective(kind)
             /\ Written(Writer!DirectiveOf(kind), kind.depth))
    BY RecordWrites
  <1>7. conf = UNION {ConfOf(s) : s \in 1 .. Servers}
    <2>1. \A c \in conf : c.kind.server \in 1 .. Servers
      BY KindsMade DEF NamesInv
    <2> QED BY <2>1 DEF ConfOf
  <1>8. (\E s \in DOMAIN input.servers : \E m \in DOMAIN input.servers[s] :
           ~W!Never(item, W!lint_add_config_rec(W!Rec(s, m))))
        <=> \E c \in conf : /\ Writer!HasDirective(c.kind)
                            /\ Written(Writer!DirectiveOf(c.kind), c.kind.depth)
    <2> HIDE DEF Written
    <2>1. ASSUME NEW s \in 1 .. Servers, NEW m \in DOMAIN input.servers[s],
                 ~W!Never(item, W!lint_add_config_rec(input.servers[s][m]))
          PROVE  \E c \in conf : /\ Writer!HasDirective(c.kind)
                                 /\ Written(Writer!DirectiveOf(c.kind), c.kind.depth)
      <3>1. PICK c \in ConfOf(s) : OfKind(input.servers[s][m], c.kind)
        BY <1>1
      <3> QED BY <1>6, <1>7, <2>1, <3>1
    <2>2. ASSUME NEW c \in conf, Writer!HasDirective(c.kind),
                 Written(Writer!DirectiveOf(c.kind), c.kind.depth)
          PROVE  \E s \in 1 .. Servers : \E m \in DOMAIN input.servers[s] :
                   ~W!Never(item, W!lint_add_config_rec(input.servers[s][m]))
      <3>1. PICK s \in 1 .. Servers : c \in ConfOf(s)
        BY <1>7
      <3>2. PICK m \in DOMAIN input.servers[s] : OfKind(input.servers[s][m], c.kind)
        BY <1>1, <3>1
      <3> QED BY <1>6, <2>2, <3>2
    <2> QED BY <1>1, <1>5, <2>1, <2>2
  <1>9. ~W!Never(item, W!Everything) <=>
          \/ \E d \in Writer!LooksFor : Written(d, 0)
          \/ \E c \in conf : /\ Writer!HasDirective(c.kind)
                             /\ Written(Writer!DirectiveOf(c.kind), c.kind.depth)
    <2> HIDE DEF Written
    <2> QED BY <1>2, <1>3, <1>4, <1>8
  <1>10. \A n \in DOMAIN read : \A depth :
           depth \in DepthsOf(n) <=>
             \/ read[n] \in Writer!LooksFor /\ depth = 0
             \/ \E c \in conf : /\ Writer!HasDirective(c.kind)
                                /\ Writer!DirectiveOf(c.kind) = read[n]
                                /\ depth = c.kind.depth
    BY DEF DepthsOf, MadeFor
  <1>11. \A n, depth : Writer!Line(read[n], TextOf(n), depth)
                         = W!Line(read[n], TextOf(n), depth)
    BY SameItems
  <1> DEFINE Named == \E n \in DOMAIN read :
                        /\ FirstHeardOf(n)
                        /\ \E depth \in DepthsOf(n) :
                             item = Writer!Line(read[n], TextOf(n), depth)
  <1>12. ASSUME NEW d \in Writer!LooksFor, Written(d, 0) PROVE Named
    BY <1>10, <1>11, <1>12
  <1>13. ASSUME NEW c \in conf, Writer!HasDirective(c.kind),
                Written(Writer!DirectiveOf(c.kind), c.kind.depth)
         PROVE  Named
    <2>1. PICK n \in DOMAIN read :
            /\ FirstHeardOf(n) /\ Writer!DirectiveOf(c.kind) = read[n]
            /\ item = W!Line(read[n], TextOf(n), c.kind.depth)
      BY <1>13
    <2>2. c.kind.depth \in DepthsOf(n)
      BY <1>10, <1>13, <2>1
    <2> QED BY <1>11, <2>1, <2>2
  <1>14. ASSUME Named
         PROVE  \/ \E d \in Writer!LooksFor : Written(d, 0)
                \/ \E c \in conf : /\ Writer!HasDirective(c.kind)
                                   /\ Written(Writer!DirectiveOf(c.kind), c.kind.depth)
    <2>1. PICK n \in DOMAIN read :
            /\ FirstHeardOf(n)
            /\ \E depth \in DepthsOf(n) : item = Writer!Line(read[n], TextOf(n), depth)
      BY <1>14
    <2>2. PICK depth \in DepthsOf(n) : item = W!Line(read[n], TextOf(n), depth)
      BY <1>11, <2>1
    <2>3. CASE read[n] \in Writer!LooksFor /\ depth = 0
      BY <2>1, <2>2, <2>3
    <2>4. ASSUME NEW c \in conf, Writer!HasDirective(c.kind),
                 Writer!DirectiveOf(c.kind) = read[n], depth = c.kind.depth
          PROVE  Written(Writer!DirectiveOf(c.kind), c.kind.depth)
      BY <2>1, <2>2, <2>4
    <2> HIDE DEF Written
    <2> QED BY <1>10, <2>2, <2>3, <2>4
  <1> HIDE DEF Written
  <1> QED BY <1>9, <1>12, <1>13, <1>14

-----------------------------------------------------------------------------
(* The theorems *)

\* Every reachable state of the composition satisfies SystemInv.
LEMMA SystemInvariant == SystemSpec => []SystemInv
  BY SystemInitInv, SystemStep, PTL DEF SystemSpec

\* Whatever the emissions do, call by call, fail at any of them or be cut off by
\* the end of the process, what ModLint keeps goes through the steps of ModLint
\* and no others: none of its theorems is lost by looking inside core.postparse.
THEOREM SystemIsModLint == SystemSpec => ImplementsModLint
  BY SystemInitInv, SystemInvariant, SystemStep, PTL
  DEF SystemSpec, ImplementsModLint, Lifecycle!Spec

\* While the server runs and while it restarts no pool of the module exists, no
\* context pool that a failing emission has left, and the file is not open.
THEOREM NothingIsLeft == SystemSpec => []NothingLeft
  <1>1. SystemInv => NothingLeft
    <2> SUFFICES ASSUME SystemInv, phase \in {"running", "restarting"}
                 PROVE  live = {} /\ leftover = 0 /\ fh # "open"
      BY DEF NothingLeft
    <2>1. ~emitting /\ FullInv
      BY DEF SystemInv
    <2> QED BY <2>1 DEF SystemInv, HandleInv, FullInv, SafeInv, EventInv, PoolInv
  <1> QED BY <1>1, SystemInvariant, PTL

\* Every reachable state satisfies it.
LEMMA ContentInvariant == SystemSpec => []ContentInv
  BY ContentInit, ContentStep, PTL DEF SystemSpec

\* The file never mixes what two emissions wrote, whichever calls failed in the
\* first one, wherever it was cut off, and whether they are of one process or of
\* two; and a file for which lint_write_config has answered success while the server
\* runs is of the configuration that has just been read.
THEOREM FileOfOneConfiguration == SystemSpec => []OneConfiguration
  <1>1. ContentInv => OneConfiguration
    <2> SUFFICES ASSUME ContentInv PROVE OneConfiguration
      OBVIOUS
    <2> DEFINE Of == UNION {FromConfig(item) : item \in ToSet(file)}
    <2>1. FileInv /\ SystemInv
      BY DEF ContentInv
    <2>2. (\E p \in DOMAIN file : file[p].kind = "old") => file = Writer!OldContents
      BY <2>1, OfOne DEF FileInv
    <2>3. Cardinality(Of) <= 1
      <3>1. \E r \in Nat : Of \subseteq {r}
        BY <2>1, OfOne, OfNone DEF FileInv
      <3> HIDE DEF Of
      <3>2. Of = {} \/ \E r \in Nat : Of = {r}
        BY <3>1
      <3>3. Cardinality({}) = 0 /\ \A r : Cardinality({r}) = 1
        BY FS_EmptySet, FS_Singleton
      <3> QED BY <3>2, <3>3
    <2>4. phase = "running" /\ outcome.result = "written" => Of \subseteq {restarts}
      <3>1. phase = "running" => restarts \in Nat
        BY <2>1, TypesOfContent
      <3> QED BY <2>1, <3>1, OfOne DEF FileInv
    <2> QED BY <2>2, <2>3, <2>4 DEF OneConfiguration
  <1> QED BY <1>1, ContentInvariant, PTL

\* Every reachable state satisfies WholeFileInv.
LEMMA WholeFileInvariant == SystemSpec => []WholeFileInv
  <1>1. SystemInit => WholeFileInv
    BY DEF SystemInit, Init, NoOutcome, WholeFileInv
  <1>2. ContentInv /\ WholeFileInv /\ [SystemNext]_systemvars => WholeFileInv'
    BY WholeHost, WholeReread, WholeStart, WholeEmission, WholeEnd, WholeWorld, WholeStill
    DEF SystemNext, SystemProgress
  <1> QED BY <1>1, <1>2, ContentInvariant, PTL DEF SystemSpec

\* Whatever the configuration, whichever module adds whichever config_recs, of
\* whatever names, in whatever sections and servers, and whenever mod_lint was
\* loaded: when success is answered and no write was cut short, the lines of the
\* configuration that the file has are the first of their directive since the module
\* was loaded, if the directive is looked up or is the one that some config_rec
\* leads to, as deep as that; and all of those are there (lint_parsed_line_ev,
\* lint_find_parsed_line, lint_cop_get_directive, lint_add_config_rec).
THEOREM FileIsComplete == SystemSpec => []CompleteFile
  <1>1. ContentInv /\ WholeFileInv => CompleteFile
    <2> SUFFICES ASSUME ContentInv, WholeFileInv, phase = "running",
                        outcome.result = "written", shorts = 0
                 PROVE  {item \in ToSet(file) : ConfigLine(item)} =
                          UNION {{Writer!Line(read[n], TextOf(n), depth) :
                                    depth \in DepthsOf(n)} :
                                   n \in {m \in DOMAIN read : FirstHeardOf(m)}}
      BY DEF CompleteFile
    <2>1. GivenInv /\ NamesInv /\ file = W!Everything
      BY DEF ContentInv, WholeFileInv
    <2>2. TypeOK /\ BoundsInv
      BY DEF ContentInv, SystemInv, FullInv, SafeInv
    <2>3. read \in Seq(AllDirectives) /\ LinesRead
      BY <2>2 DEF TypeOK, LinesRead
    <2> DEFINE Named(item) ==
                 \E n \in DOMAIN read :
                   /\ FirstHeardOf(n)
                   /\ \E depth \in DepthsOf(n) :
                        item = Writer!Line(read[n], TextOf(n), depth)
    <2>4. \A item : item \in ToSet(file) <=> ~W!Never(item, W!Everything)
      BY <2>1 DEF ToSet, W!Never
    <2>5. \A item : ConfigLine(item) => (item \in ToSet(file) <=> Named(item))
      BY <2>1, <2>3, <2>4, LineInFile DEF ConfigLine
    <2>6. ASSUME NEW item, Named(item) PROVE ConfigLine(item)
      <3>1. PICK n \in DOMAIN read :
              \E depth \in DepthsOf(n) : item = Writer!Line(read[n], TextOf(n), depth)
        BY <2>6
      <3>2. PICK depth \in DepthsOf(n) : item = Writer!Line(read[n], TextOf(n), depth)
        BY <3>1
      <3>3. item.kind = "line" /\ item.arg = TextOf(n) /\ item.name = read[n]
        BY <3>2 DEF Writer!Line, Writer!Item
      <3>4. TextOf(n) # 0
        <4>1. n \in 1 .. MaxLines /\ restarts \in Nat
          BY <2>2, <2>3, ModLintAssumption DEF BoundsInv, LinesRead
        <4> QED BY <4>1, TextTells
      <3>5. read[n] # "LoadModule"
        <4>1. "LoadModule" \notin Writer!LooksFor
          BY DEF Writer!LooksFor, Writer!LookedUp
        <4>2. CASE read[n] \in Writer!LooksFor
          BY <4>1, <4>2
        <4>3. CASE read[n] \notin Writer!LooksFor
          <5>1. PICK c \in MadeFor(read[n]) : depth = c.kind.depth
            BY <3>2, <4>3 DEF DepthsOf
          <5>2. c \in conf /\ Writer!DirectiveOf(c.kind) = read[n]
            BY <5>1 DEF MadeFor
          <5> QED BY <2>1, <5>2, KindsMade, SameDirective DEF NamesInv
        <4> QED BY <4>2, <4>3
      <3> QED BY <3>3, <3>4, <3>5 DEF ConfigLine
    <2>7. \A item : Named(item) <=>
            item \in UNION {{Writer!Line(read[n], TextOf(n), depth) :
                               depth \in DepthsOf(n)} :
                              n \in {m \in DOMAIN read : FirstHeardOf(m)}}
      OBVIOUS
    <2> HIDE DEF Named
    <2> QED BY <2>5, <2>6, <2>7
  <1> QED BY <1>1, ContentInvariant, WholeFileInvariant, PTL
==============================================================================
