--------------------------- MODULE ModLintProofs ----------------------------
(***************************************************************************)
(* Theorems about ModLint, for any directives, any build (static or        *)
(* shared), and any number of lines, config_recs and restarts.             *)
(***************************************************************************)
EXTENDS ModLint, TLAPS

SafeInv == TypeOK /\ PoolInv /\ EventInv

-----------------------------------------------------------------------------
(* What Attach does to a list of lines. *)

\* Attaching config_recs keeps the lines, their numbers and directives, and
\* changes the config_recs of the last line only.
LEMMA AttachKeeps ==
  ASSUME NEW lines \in Seq(Lines), NEW configs \in SUBSET Configs
  PROVE  /\ Attach(lines, configs) \in Seq(Lines)
         /\ Len(Attach(lines, configs)) = Len(lines)
         /\ DOMAIN Attach(lines, configs) = 1 .. Len(lines)
         /\ \A i \in 1 .. Len(lines) :
              /\ Attach(lines, configs)[i].lineno = lines[i].lineno
              /\ Attach(lines, configs)[i].directive = lines[i].directive
              /\ Attach(lines, configs)[i].configs =
                   IF i = Len(lines) /\ configs # {} THEN configs
                                                     ELSE lines[i].configs
  <1> DEFINE A == Attach(lines, configs)
  <1>1. CASE configs = {} \/ lines = <<>>
    <2>1. A = lines
      BY <1>1 DEF Attach
    <2>2. lines = <<>> => 1 .. Len(lines) = {}
      OBVIOUS
    <2> QED BY <1>1, <2>1, <2>2
  <1>2. CASE configs # {} /\ lines # <<>>
    <2> DEFINE n == Len(lines)
               last == [lines[n] EXCEPT !.configs = configs]
    <2>1. n \in 1 .. n /\ \A i \in 1 .. n : lines[i] \in Lines
      BY <1>2
    <2>2. last \in Lines /\ last.lineno = lines[n].lineno
          /\ last.directive = lines[n].directive /\ last.configs = configs
      BY <2>1 DEF Lines
    <2>3. A = [lines EXCEPT ![n] = last]
      BY <1>2, <2>1 DEF Attach
    <2> HIDE DEF last
    <2>4. A \in Seq(Lines) /\ Len(A) = n
      BY <2>1, <2>2, <2>3
    <2>5. \A i \in 1 .. n : A[i] = IF i = n THEN last ELSE lines[i]
      BY <2>1, <2>3
    <2> QED BY <1>2, <2>2, <2>4, <2>5
  <1> QED BY <1>1, <1>2

-----------------------------------------------------------------------------
(* Type correctness, the pool and the events: SafeInv is inductive. *)

\* Before the host starts, the module owns nothing.
LEMMA SafeInit == Init => SafeInv
  <1> SUFFICES ASSUME Init PROVE SafeInv
    OBVIOUS
  <1> USE DEF Init, NoLines, NoConfigs, NULL
  <1>1. TypeOK
    <2>1. outcome \in [result : Results, lines : Seq(Lines), pool : Nat]
      BY DEF NoOutcome, Results
    <2>2. phase \in Phases
      BY DEF Phases
    <2>3. /\ parsed_lines \in [pool : Nat, elts : Seq(Lines)]
          /\ associated_configs \in [pool : Nat, elts : SUBSET Configs]
      OBVIOUS
    <2>4. loaded \in BOOLEAN /\ lint_engine \in CBOOLEAN
      BY DEF CBOOLEAN
    <2>6. read \in Seq(AllDirectives)
      OBVIOUS
    <2>5. /\ pending \in SUBSET {"core.restart", "core.module-unload"}
          /\ conf \in SUBSET Configs /\ registered \in SUBSET Events
          /\ live \in SUBSET Pools /\ cleanup \in SUBSET Pools
      OBVIOUS
    <2> QED BY <2>1, <2>2, <2>3, <2>4, <2>5, <2>6 DEF TypeOK
  <1>2. PoolInv
    BY DEF PoolInv
  <1>3. EventInv
    BY DEF EventInv, Reading
  <1> QED BY <1>1, <1>2, <1>3 DEF SafeInv

\* Destroying the pool takes both lists with it.
LEMMA DestroySafe ==
  ASSUME TypeOK, PoolInv, DestroyLintPool
  PROVE  /\ lint_pool' = NULL /\ live' = {} /\ cleanup' = {} /\ made' = made
         /\ parsed_lines' = NoLines /\ associated_configs' = NoConfigs
  <1>1. CASE lint_pool \in cleanup
    BY <1>1 DEF TypeOK, PoolInv, DestroyLintPool, lint_pool_cleanup, NULL, Pools
  <1>2. CASE lint_pool \notin cleanup
    BY <1>2 DEF TypeOK, PoolInv, DestroyLintPool, NULL, Pools, NoLines, NoConfigs
  <1> QED BY <1>1, <1>2

\* A line's event, for a line that has a handler: the line is appended, what
\* had accumulated goes to the line before, and everything is in the one pool.
LEMMA LineEventSafe ==
  ASSUME TypeOK, PoolInv,
         NEW d \in AllDirectives, NEW lineno \in Nat,
         HasHandler(d), lint_parsed_line_ev(d, lineno)
  PROVE  /\ lint_pool' \in Pools /\ made' \in Nat /\ lint_pool' <= made'
         /\ live' = {lint_pool'} /\ cleanup' = {lint_pool'}
         /\ parsed_lines' = [pool |-> lint_pool',
               elts |-> Append(LinesAtPostParse,
                 [lineno |-> lineno, directive |-> d, configs |-> {}])]
         /\ associated_configs' = [pool |-> lint_pool', elts |-> {}]
         /\ parsed_lines' \in [pool : Nat, elts : Seq(Lines)]
         /\ parsed_lines'.pool = lint_pool' /\ parsed_lines'.elts # <<>>
         /\ UNCHANGED <<registered, lint_engine, outcome>>
  <1>1. /\ lint_pool' \in Pools /\ made' \in Nat /\ lint_pool' <= made'
        /\ live' = {lint_pool'} /\ cleanup' = {lint_pool'}
        /\ lint_pool # NULL => lint_pool' = lint_pool
    BY DEF lint_parsed_line_ev, EnsureLintPool, MakeLintPool, TypeOK, PoolInv, NULL,
           Pools
  <1>2. /\ parsed_lines' = [pool |-> lint_pool',
               elts |-> Append(LinesAtPostParse,
                 [lineno |-> lineno, directive |-> d, configs |-> {}])]
        /\ associated_configs' = [pool |-> lint_pool', elts |-> {}]
        /\ UNCHANGED <<registered, lint_engine, outcome>>
    BY <1>1 DEF lint_parsed_line_ev, TypeOK, PoolInv, NULL, ClearedConfigs,
                LinesAtPostParse
  <1>3. LinesAtPostParse \in Seq(Lines)
    BY AttachKeeps DEF TypeOK, LinesAtPostParse
  <1>4. [lineno |-> lineno, directive |-> d, configs |-> {}] \in Lines
    BY DEF Lines
  <1> HIDE DEF LinesAtPostParse
  <1>5. /\ parsed_lines'.elts \in Seq(Lines)
        /\ parsed_lines'.elts # <<>>
        /\ parsed_lines'.pool = lint_pool'
    BY <1>2, <1>3, <1>4
  <1>6. parsed_lines' \in [pool : Nat, elts : Seq(Lines)]
    BY <1>1, <1>2, <1>5 DEF Pools
  <1> QED BY <1>1, <1>2, <1>5, <1>6

\* An event about an added config_rec only extends what has accumulated.
LEMMA ConfigEventSafe ==
  ASSUME TypeOK, PoolInv, NEW c \in Configs, lint_added_config_ev(c)
  PROVE  /\ TypeOK /\ PoolInv
         /\ associated_configs' \in [pool : Nat, elts : SUBSET Configs]
         /\ associated_configs'.pool = associated_configs.pool
         /\ associated_configs.pool = NULL => associated_configs' = associated_configs
         /\ associated_configs.pool # NULL =>
              associated_configs'.elts = associated_configs.elts \cup {c}
         /\ UNCHANGED <<registered, lint_engine, lint_pool, live, cleanup, made,
                        parsed_lines, outcome>>
  BY DEF lint_added_config_ev, TypeOK, PoolInv

\* Steps of the host the module does not see keep its part of the invariant.
LEMMA UnseenSafe ==
  ASSUME SafeInv, UNCHANGED <<registered, lint_engine, poolvars, outcome>>,
         phase' \in Phases, pending' \in SUBSET {"core.restart", "core.module-unload"},
         read' \in Seq(AllDirectives), since' \in Nat, conf' \in SUBSET Configs,
         nconf' \in Nat, restarts' \in Nat, UNCHANGED loaded
  PROVE  TypeOK' /\ PoolInv'
  <1>1. TypeOK'
    BY DEF SafeInv, TypeOK, poolvars
  <1>2. PoolInv'
    BY DEF SafeInv, PoolInv, poolvars
  <1> QED BY <1>1, <1>2

\* lint_init of a static module.
LEMMA SafeBoot == SafeInv /\ Boot => SafeInv'
  <1> SUFFICES ASSUME SafeInv, Boot PROVE SafeInv'
    OBVIOUS
  <1>0. phase' = "parsing" /\ phase' \in Phases /\ phase = "boot"
    BY DEF Boot, Phases
  <1>1. CASE Shared
    <2>1. UNCHANGED <<loaded, registered, lint_engine, poolvars, outcome>>
          /\ UNCHANGED <<pending, read, since, conf, nconf, restarts>>
      BY <1>1 DEF Boot
    <2>2. TypeOK' /\ PoolInv'
      BY <1>0, <2>1, UnseenSafe DEF SafeInv, TypeOK
    <2>3. EventInv'
      BY <1>0, <2>1 DEF SafeInv, EventInv, Reading, poolvars
    <2> QED BY <2>2, <2>3 DEF SafeInv
  <1>2. CASE ~Shared
    <2>1. /\ lint_init /\ loaded' /\ loaded' \in BOOLEAN /\ UNCHANGED lint_engine
          /\ UNCHANGED <<pending, read, since, conf, nconf, restarts>>
      BY <1>2 DEF Boot
    <2>2. ~loaded /\ lint_pool = NULL
      BY <1>0 DEF SafeInv, EventInv
    <2>3. /\ registered' = Events \ {"core.module-unload"}
          /\ lint_pool' = made + 1 /\ made' = made + 1
          /\ live' = {made + 1} /\ cleanup' = {made + 1}
          /\ UNCHANGED <<parsed_lines, associated_configs, outcome>>
      BY <1>2, <2>1, <2>2 DEF lint_init, Registered, MakeLintPool, SafeInv, PoolInv
    <2>4. TypeOK'
      BY <1>0, <2>1, <2>3 DEF SafeInv, TypeOK, Pools, NULL
    <2>5. PoolInv'
      BY <2>2, <2>3 DEF SafeInv, PoolInv, TypeOK, NULL
    <2>6. EventInv'
      BY <1>0, <1>2, <2>1, <2>3 DEF SafeInv, EventInv, Reading, Events, ParseEvents
    <2> QED BY <2>4, <2>5, <2>6 DEF SafeInv
  <1> QED BY <1>1, <1>2

\* A line is read, whether or not the module hears of it and recognises it.
LEMMA SafeReadLine ==
  ASSUME SafeInv, NEW d \in AllDirectives, ReadLine(d)
  PROVE  SafeInv'
  <1>0. /\ phase = "parsing"
        /\ read' = Append(read, d) /\ read' \in Seq(AllDirectives)
        /\ UNCHANGED <<loaded, pending, since, conf, nconf, restarts>>
        /\ Len(read) + 1 \in Nat
    BY DEF ReadLine, SafeInv, TypeOK
  <1>1. ~ParsedLineFaults(d)
    BY DEF ParsedLineFaults, Dangling, SafeInv, TypeOK, PoolInv, NULL
  <1>2. phase' \in {"handling", "rejected"} /\ phase' \in Phases
    BY <1>1 DEF ReadLine, Phases, Stopped
  <1>3. CASE UNCHANGED <<registered, lint_engine, poolvars, outcome>>
    <2>1. TypeOK' /\ PoolInv'
      BY <1>0, <1>2, <1>3, UnseenSafe DEF SafeInv, TypeOK
    <2>2. EventInv'
      BY <1>0, <1>2, <1>3 DEF SafeInv, EventInv, Reading, poolvars
    <2> QED BY <2>1, <2>2 DEF SafeInv
  <1>4. CASE HasHandler(d) /\ lint_parsed_line_ev(d, Len(read) + 1)
            /\ "core.parsed-line" \in registered
    <2>1. /\ lint_pool' \in Pools /\ made' \in Nat /\ lint_pool' <= made'
          /\ live' = {lint_pool'} /\ cleanup' = {lint_pool'}
          /\ parsed_lines'.pool = lint_pool'
          /\ parsed_lines' \in [pool : Nat, elts : Seq(Lines)]
          /\ associated_configs' = [pool |-> lint_pool', elts |-> {}]
          /\ parsed_lines'.elts # <<>>
          /\ UNCHANGED <<registered, lint_engine, outcome>>
      <3>1. TypeOK /\ PoolInv
        BY DEF SafeInv
      <3> QED BY <1>0, <1>4, <3>1, LineEventSafe
    <2>2. TypeOK'
      BY <1>0, <1>2, <2>1 DEF SafeInv, TypeOK, Pools
    <2>3. PoolInv'
      BY <2>1 DEF SafeInv, PoolInv, Pools
    <2>4. loaded
      BY <1>4 DEF SafeInv, EventInv
    <2>5. EventInv'
      BY <1>0, <1>2, <2>1, <2>4 DEF SafeInv, EventInv, Reading
    <2> QED BY <2>2, <2>3, <2>5 DEF SafeInv
  <1>5. CASE "core.parsed-line" \notin registered
    BY <1>3, <1>5 DEF ReadLine
  <1>6. CASE "core.parsed-line" \in registered
    <2>1. lint_parsed_line_ev(d, Len(read) + 1)
      BY <1>6 DEF ReadLine
    <2>2. CASE ~HasHandler(d)
      <3>1. UNCHANGED <<registered, lint_engine, poolvars, outcome>>
        BY <2>1, <2>2 DEF lint_parsed_line_ev
      <3> QED BY <1>3, <3>1
    <2> QED BY <1>4, <1>6, <2>1, <2>2
  <1> QED BY <1>5, <1>6

\* The kinds of the config_recs that mod_lint's own handlers add.
LEMMA ParamIs ==
  ASSUME NEW name \in LintDirectives
  PROVE  Param(name) \in ConfigKinds /\ Param(name).name = name
  BY DEF Param, ConfigKinds, ConfigTypes, ConfigNames, MainServer

\* A config_rec is added, by the host or by a handler.
LEMMA SafeAddConfigRec ==
  ASSUME SafeInv, NEW kind \in ConfigKinds, NEW by \in Nat,
         NEW value \in CBOOLEAN, NEW next \in {"parsing", "handling", "fixup"},
         phase \in {"parsing", "handling", "fixup"},
         AddConfigRec(kind, by, value, next)
  PROVE  SafeInv' /\ phase' = next
  <1> DEFINE c == [id |-> nconf + 1, kind |-> kind, by |-> by, value |-> value]
  <1>1. c \in Configs
    BY DEF SafeInv, TypeOK, Configs
  <1>2. /\ conf' = conf \cup {c} /\ nconf' = nconf + 1
        /\ UNCHANGED <<loaded, pending, read, since, restarts>>
    BY DEF AddConfigRec
  <1>3. phase' = next /\ phase' \in Phases
    <2>1. ~AddedConfigFaults
      BY DEF AddedConfigFaults, Dangling, SafeInv, PoolInv, NULL
    <2> QED BY <2>1 DEF AddConfigRec, Phases
  <1>4. \/ lint_added_config_ev(c)
        \/ UNCHANGED <<registered, lint_engine, poolvars, outcome>>
    BY DEF AddConfigRec
  <1>5. conf' \in SUBSET Configs /\ nconf' \in Nat
    BY <1>1, <1>2 DEF SafeInv, TypeOK
  <1> HIDE DEF c
  <1>6. CASE lint_added_config_ev(c)
    <2>1. /\ associated_configs' \in [pool : Nat, elts : SUBSET Configs]
          /\ associated_configs'.pool = associated_configs.pool
          /\ associated_configs.pool = NULL => associated_configs' = associated_configs
          /\ UNCHANGED <<registered, lint_engine, lint_pool, live, cleanup, made,
                         parsed_lines, outcome>>
      BY <1>1, <1>6, ConfigEventSafe DEF SafeInv
    <2>2. TypeOK'
      BY <1>2, <1>3, <1>5, <2>1 DEF SafeInv, TypeOK
    <2>3. PoolInv'
      BY <2>1 DEF SafeInv, PoolInv
    <2>4. EventInv'
      BY <1>2, <1>3, <2>1 DEF SafeInv, EventInv, Reading
    <2> QED BY <1>3, <2>2, <2>3, <2>4 DEF SafeInv
  <1>7. CASE UNCHANGED <<registered, lint_engine, poolvars, outcome>>
    <2>1. TypeOK' /\ PoolInv'
      BY <1>2, <1>3, <1>5, <1>7, UnseenSafe DEF SafeInv, TypeOK
    <2>2. EventInv'
      BY <1>2, <1>3, <1>7 DEF SafeInv, EventInv, Reading, poolvars
    <2> QED BY <1>3, <2>1, <2>2 DEF SafeInv
  <1> QED BY <1>4, <1>6, <1>7

\* What the two handlers of mod_lint answer with.
LEMMA AnswerType ==
  ASSUME NEW cmd \in Commands
  PROVE  /\ set_lintengine(cmd).value \in CBOOLEAN
         /\ set_lintconfigfile(cmd).value \in CBOOLEAN
  BY DEF set_lintengine, set_lintconfigfile, get_boolean, Handled, Error, CBOOLEAN

\* The handlers of the module: a config_rec, or an error.
LEMMA SafeSetLint ==
  ASSUME SafeInv, NEW cmd \in Commands, SetLintDirective(cmd)
  PROVE  SafeInv'
  <1> DEFINE answer == IF Current = "LintEngine" THEN set_lintengine(cmd)
                                                 ELSE set_lintconfigfile(cmd)
  <1>1. answer.value \in CBOOLEAN
    BY AnswerType
  <1>2. /\ phase = "handling" /\ Param(Current) \in ConfigKinds
        /\ Len(read) \in Nat
    BY ParamIs DEF SetLintDirective, SafeInv, TypeOK
  <1>3. \/ AddConfigRec(Param(Current), Len(read), answer.value, "parsing")
        \/ /\ phase' = "rejected"
           /\ UNCHANGED <<loaded, pending, read, since, conf, nconf, restarts,
                          registered, lint_engine, poolvars, outcome>>
    BY DEF SetLintDirective
  <1> HIDE DEF answer
  <1>4. CASE AddConfigRec(Param(Current), Len(read), answer.value, "parsing")
    BY <1>1, <1>2, <1>4, SafeAddConfigRec
  <1>5. CASE /\ phase' = "rejected"
             /\ UNCHANGED <<loaded, pending, read, since, conf, nconf, restarts,
                            registered, lint_engine, poolvars, outcome>>
    <2>1. TypeOK' /\ PoolInv'
      BY <1>5, UnseenSafe DEF SafeInv, TypeOK, Phases, Stopped
    <2>2. EventInv'
      BY <1>5 DEF SafeInv, EventInv, Reading, poolvars
    <2> QED BY <2>1, <2>2 DEF SafeInv
  <1> QED BY <1>3, <1>4, <1>5

\* lint_init of a shared module, at any line.
LEMMA SafeLoadModule == SafeInv /\ LoadModule => SafeInv'
  <1> SUFFICES ASSUME SafeInv, LoadModule PROVE SafeInv'
    OBVIOUS
  <1>1. /\ Shared /\ ~loaded /\ loaded' /\ loaded' \in BOOLEAN
        /\ phase' = "parsing" /\ phase' \in Phases /\ since' \in Nat /\ lint_init
        /\ UNCHANGED <<pending, read, conf, nconf, restarts>>
    BY DEF LoadModule, Phases, SafeInv, TypeOK
  <1>2. lint_engine' \in CBOOLEAN
    <2>1. lint_engine \in CBOOLEAN
      BY DEF SafeInv, TypeOK
    <2> QED BY <2>1 DEF LoadModule, CBOOLEAN
  <1>3. lint_pool = NULL
    BY <1>1 DEF SafeInv, EventInv
  <1>4. /\ registered' = Events
        /\ lint_pool' = made + 1 /\ made' = made + 1
        /\ live' = {made + 1} /\ cleanup' = {made + 1}
        /\ UNCHANGED <<parsed_lines, associated_configs, outcome>>
    BY <1>1, <1>3 DEF lint_init, Registered, MakeLintPool, SafeInv, PoolInv
  <1>5. TypeOK'
    BY <1>1, <1>2, <1>4 DEF SafeInv, TypeOK, Pools, NULL
  <1>6. PoolInv'
    BY <1>3, <1>4 DEF SafeInv, PoolInv, TypeOK, NULL
  <1>7. EventInv'
    BY <1>1, <1>4 DEF SafeInv, EventInv, Reading, Events, ParseEvents
  <1> QED BY <1>5, <1>6, <1>7 DEF SafeInv

\* lint_postparse_ev, on each of its ways out.
LEMMA SafePostParse == SafeInv /\ PostParse => SafeInv'
  <1> SUFFICES ASSUME SafeInv, PostParse PROVE SafeInv'
    OBVIOUS
  <1>0. /\ phase = "fixup"
        /\ UNCHANGED <<loaded, pending, read, since, conf, nconf, restarts>>
    BY DEF PostParse
  <1>1. ~PostParseFaults
    BY DEF PostParseFaults, Dangling, SafeInv, PoolInv, NULL
  <1>2. phase' = "running" /\ phase' \in Phases
    BY <1>1 DEF PostParse, Phases
  <1>3. CASE "core.postparse" \notin registered
    <2>1. UNCHANGED <<registered, lint_engine, poolvars, outcome>> /\ ~loaded
      BY <1>3 DEF PostParse, SafeInv, EventInv
    <2>2. TypeOK' /\ PoolInv'
      BY <1>0, <1>2, <2>1, UnseenSafe DEF SafeInv, TypeOK
    <2>3. EventInv'
      BY <1>0, <1>2, <2>1 DEF SafeInv, EventInv, Reading, poolvars
    <2> QED BY <2>2, <2>3 DEF SafeInv
  <1>4. CASE "core.postparse" \in registered
    <2>1. lint_postparse_ev
      BY <1>4 DEF PostParse
    <2>2. /\ lint_pool' = NULL /\ live' = {} /\ cleanup' = {} /\ made' = made
          /\ parsed_lines' = NoLines /\ associated_configs' = NoConfigs
      BY <2>1, DestroySafe DEF lint_postparse_ev, AfterPostParse, SafeInv
    <2>3. registered' = registered \ ParseEvents
      BY <2>1 DEF lint_postparse_ev, StillListening
    <2>4. lint_engine' \in CBOOLEAN
      <3>1. \A c \in FindConfig("LintEngine") : c.value \in CBOOLEAN
        BY DEF FindConfig, SafeInv, TypeOK, Configs
      <3>2. lint_engine \in CBOOLEAN
        BY DEF SafeInv, TypeOK
      <3>3. lint_engine' = IF FindConfig("LintEngine") = {} THEN lint_engine
              ELSE (CHOOSE c \in FindConfig("LintEngine") : TRUE).value
        BY <2>1 DEF lint_postparse_ev
      <3> QED BY <3>1, <3>2, <3>3
    <2>5. outcome' \in [result : Results, lines : Seq(Lines), pool : Nat]
      <3>1. LinesAtPostParse \in Seq(Lines)
        BY AttachKeeps DEF LinesAtPostParse, SafeInv, TypeOK
      <3>2. PostParseResults \subseteq Results
        BY DEF PostParseResults, Results
      <3>3. lint_pool \in Nat
        BY DEF SafeInv, TypeOK
      <3>4. PICK result \in PostParseResults :
              outcome' = [result |-> result, lines |-> LinesAtPostParse,
                          pool |-> lint_pool]
        BY <2>1 DEF lint_postparse_ev
      <3> QED BY <3>1, <3>2, <3>3, <3>4
    <2>6. TypeOK'
      BY <1>0, <1>2, <2>2, <2>3, <2>4, <2>5
      DEF SafeInv, TypeOK, NULL, NoLines, NoConfigs
    <2>7. PoolInv'
      BY <2>2 DEF SafeInv, PoolInv, TypeOK, NULL, NoLines, NoConfigs
    <2>8. EventInv'
      BY <1>0, <1>2, <2>2, <2>3 DEF SafeInv, EventInv, Reading, ParseEvents
    <2> QED BY <2>6, <2>7, <2>8 DEF SafeInv
  <1> QED BY <1>3, <1>4

\* lint_restart_ev.
LEMMA SafeRestart == SafeInv /\ Restart => SafeInv'
  <1> SUFFICES ASSUME SafeInv, Restart PROVE SafeInv'
    OBVIOUS
  <1>0. /\ phase = "restarting" /\ pending' = pending \ {"core.restart"}
        /\ UNCHANGED <<phase, loaded, read, since, conf, nconf, restarts>>
    BY DEF Restart
  <1>1. CASE "core.restart" \notin registered
    <2>1. UNCHANGED <<registered, lint_engine, poolvars, outcome>> /\ ~loaded
      BY <1>1 DEF Restart, SafeInv, EventInv
    <2>2. TypeOK' /\ PoolInv'
      BY <1>0, <2>1, UnseenSafe DEF SafeInv, TypeOK
    <2>3. EventInv'
      BY <1>0, <2>1 DEF SafeInv, EventInv, Reading, poolvars
    <2> QED BY <2>2, <2>3 DEF SafeInv
  <1>2. CASE "core.restart" \in registered
    <2>1. /\ registered' = registered \cup ParseEvents
          /\ lint_engine' = 1 /\ UNCHANGED <<poolvars, outcome>>
      BY <1>2 DEF Restart, lint_restart_ev
    <2>2. lint_engine' \in CBOOLEAN
      BY <2>1 DEF CBOOLEAN
    <2>3. TypeOK'
      BY <1>0, <2>1, <2>2 DEF SafeInv, TypeOK, poolvars, Events, ParseEvents
    <2>4. PoolInv'
      BY <2>1 DEF SafeInv, PoolInv, poolvars
    <2>5. loaded
      BY <1>2 DEF SafeInv, EventInv
    <2>6. EventInv'
      BY <1>0, <2>1, <2>5 DEF SafeInv, EventInv, Reading, poolvars
    <2> QED BY <2>3, <2>4, <2>6 DEF SafeInv
  <1> QED BY <1>1, <1>2

\* lint_mod_unload_ev, for the module itself.
LEMMA SafeUnload == SafeInv /\ Unload => SafeInv'
  <1> SUFFICES ASSUME SafeInv, Unload PROVE SafeInv'
    OBVIOUS
  <1>0. /\ phase = "restarting" /\ pending' = pending \ {"core.module-unload"}
        /\ loaded' = FALSE /\ loaded' \in BOOLEAN
        /\ "core.module-unload" \in registered
        /\ UNCHANGED <<phase, read, since, conf, nconf, restarts>>
    BY DEF Unload, SafeInv, EventInv
  <1>1. /\ registered' = {} /\ DestroyLintPool /\ UNCHANGED <<lint_engine, outcome>>
    BY <1>0 DEF Unload, lint_mod_unload_ev
  <1>2. /\ lint_pool' = NULL /\ live' = {} /\ cleanup' = {} /\ made' = made
        /\ parsed_lines' = NoLines /\ associated_configs' = NoConfigs
    BY <1>1, DestroySafe DEF SafeInv
  <1>3. TypeOK'
    BY <1>0, <1>1, <1>2 DEF SafeInv, TypeOK, NULL, NoLines, NoConfigs
  <1>4. PoolInv'
    BY <1>2 DEF SafeInv, PoolInv, TypeOK, NULL, NoLines, NoConfigs
  <1>5. EventInv'
    BY <1>0, <1>1, <1>2 DEF SafeInv, EventInv, Reading
  <1> QED BY <1>3, <1>4, <1>5 DEF SafeInv

\* While the server runs, neither of the two events that may still come changes
\* anything.
LEMMA QuietWhenRunning ==
  ASSUME SafeInv,
         UnloadOther \/ \E d \in AllDirectives : FtpAccess(d)
  PROVE  UNCHANGED vars
  <1>1. CASE UnloadOther
    BY <1>1 DEF UnloadOther, lint_mod_unload_ev, vars
  <1>2. CASE \E d \in AllDirectives : FtpAccess(d)
    <2>1. "core.parsed-line" \notin registered
      BY <1>2 DEF FtpAccess, SafeInv, EventInv, ParseEvents
    <2> QED BY <1>2, <2>1 DEF FtpAccess, vars
  <1> QED BY <1>1, <1>2

\* The steps that move the host only.
LEMMA SafeHostSteps ==
  ASSUME SafeInv, EndLine \/ EndOfFile \/ Sighup \/ Reread \/ Exit
  PROVE  SafeInv'
  <1>1. CASE EndLine
    <2>1. TypeOK' /\ PoolInv'
      BY <1>1, UnseenSafe DEF EndLine, SafeInv, TypeOK, Phases
    <2>2. EventInv'
      BY <1>1 DEF EndLine, SafeInv, EventInv, Reading, poolvars
    <2> QED BY <2>1, <2>2 DEF SafeInv
  <1>2. CASE EndOfFile
    <2>1. TypeOK' /\ PoolInv'
      BY <1>2, UnseenSafe DEF EndOfFile, SafeInv, TypeOK, Phases
    <2>2. EventInv'
      BY <1>2 DEF EndOfFile, SafeInv, EventInv, Reading, poolvars
    <2> QED BY <2>1, <2>2 DEF SafeInv
  <1>3. CASE Sighup
    <2>1. TypeOK' /\ PoolInv'
      BY <1>3, UnseenSafe DEF Sighup, SafeInv, TypeOK, Phases
    <2>2. EventInv'
      BY <1>3 DEF Sighup, SafeInv, EventInv, Reading, poolvars
    <2> QED BY <2>1, <2>2 DEF SafeInv
  <1>4. CASE Reread
    <2>1. /\ phase = "restarting" /\ phase' = "parsing" /\ pending = {}
          /\ read' = <<>> /\ since' = 0 /\ conf' = {} /\ outcome' = NoOutcome
          /\ UNCHANGED <<loaded, pending, nconf, restarts, registered, lint_engine,
                         poolvars>>
      BY <1>4 DEF Reread
    <2>2. outcome' \in [result : Results, lines : Seq(Lines), pool : Nat]
      BY <2>1 DEF NoOutcome, Results, NULL
    <2>3. TypeOK'
      BY <2>1, <2>2 DEF SafeInv, TypeOK, poolvars, Phases
    <2>4. PoolInv'
      BY <2>1 DEF SafeInv, PoolInv, poolvars
    <2>5. EventInv'
      BY <2>1 DEF SafeInv, EventInv, Reading, poolvars
    <2> QED BY <2>3, <2>4, <2>5 DEF SafeInv
  <1>5. CASE Exit
    <2>1. TypeOK' /\ PoolInv'
      BY <1>5, UnseenSafe DEF Exit, SafeInv, TypeOK, Phases, Stopped
    <2>2. EventInv'
      BY <1>5 DEF Exit, SafeInv, EventInv, Reading, poolvars
    <2> QED BY <2>1, <2>2 DEF SafeInv
  <1> QED BY <1>1, <1>2, <1>3, <1>4, <1>5

\* Stuttering.
LEMMA SafeUnchanged == SafeInv /\ UNCHANGED vars => SafeInv'
  <1> SUFFICES ASSUME SafeInv, UNCHANGED vars PROVE SafeInv'
    OBVIOUS
  <1> USE DEF vars, hostvars, poolvars
  <1>1. TypeOK'
    BY DEF SafeInv, TypeOK
  <1>2. PoolInv'
    BY DEF SafeInv, PoolInv
  <1>3. EventInv'
    BY DEF SafeInv, EventInv, Reading
  <1> QED BY <1>1, <1>2, <1>3 DEF SafeInv

\* Every step keeps the inductive invariant.
LEMMA SafeNext == SafeInv /\ [Next]_vars => SafeInv'
  <1> SUFFICES ASSUME SafeInv, [Next]_vars PROVE SafeInv'
    OBVIOUS
  <1>1. CASE Boot
    BY <1>1, SafeBoot
  <1>2. CASE \E d \in AllDirectives : ReadLine(d)
    BY <1>2, SafeReadLine
  <1>3. CASE AddConfig
    <2>1. phase = "handling" /\ Len(read) \in Nat
      BY <1>3 DEF AddConfig, SafeInv, TypeOK
    <2>2. PICK kind \in Kinds : AddConfigRec(kind, Len(read), 0, "handling")
      BY <1>3 DEF AddConfig
    <2>3. 0 \in CBOOLEAN /\ kind \in ConfigKinds
      BY ModLintAssumption DEF CBOOLEAN
    <2> QED BY <2>1, <2>2, <2>3, SafeAddConfigRec
  <1>4. CASE \E cmd \in Commands : SetLintDirective(cmd)
    BY <1>4, SafeSetLint
  <1>5. CASE AddHostConfig
    <2>1. phase \in {"parsing", "fixup"} /\ 0 \in Nat
      BY <1>5 DEF AddHostConfig
    <2>2. PICK kind \in Kinds : AddConfigRec(kind, 0, 0, phase)
      BY <1>5 DEF AddHostConfig
    <2>3. 0 \in CBOOLEAN /\ kind \in ConfigKinds
      BY ModLintAssumption DEF CBOOLEAN
    <2> QED BY <2>1, <2>2, <2>3, SafeAddConfigRec
  <1>6. CASE LoadModule
    BY <1>6, SafeLoadModule
  <1>7. CASE EndLine \/ EndOfFile \/ Sighup \/ Reread \/ Exit
    BY <1>7, SafeHostSteps
  <1>8. CASE PostParse
    BY <1>8, SafePostParse
  <1>9. CASE Restart
    BY <1>9, SafeRestart
  <1>10. CASE Unload
    BY <1>10, SafeUnload
  <1>11. CASE UnloadOther \/ \E d \in AllDirectives : FtpAccess(d)
    BY <1>11, QuietWhenRunning, SafeUnchanged
  <1>12. CASE UNCHANGED vars
    BY <1>12, SafeUnchanged
  <1> QED
    BY <1>1, <1>2, <1>3, <1>4, <1>5, <1>6, <1>7, <1>8, <1>9, <1>10, <1>11, <1>12
    DEF Next, Progress, Environment

\* Types, the ownership of the pool (PoolInv) and the registration of the
\* listeners (EventInv) are as they should be in every reachable state.
THEOREM SafeInvariant == Spec => []SafeInv
  BY SafeInit, SafeNext, PTL DEF Spec

-----------------------------------------------------------------------------
(* The theorems that need nothing else. *)

\* Every variable keeps its type, in every build and for every bound.
THEOREM TypeCorrect == Spec => []TypeOK
  <1>1. SafeInv => TypeOK
    BY DEF SafeInv
  <1> QED BY <1>1, SafeInvariant, PTL

\* At most one pool, the one lint_pool names, and no pointer that outlives it
\* (lint_pool_cleanup, lint_postparse_ev, lint_mod_unload_ev, lint_init).
THEOREM PoolSafe == Spec => []PoolSafety
  <1>1. SafeInv => PoolSafety
    BY DEF SafeInv, TypeOK, PoolInv, PoolSafety, Dangling, NULL
  <1> QED BY <1>1, SafeInvariant, PTL

\* No listener ever follows a null or a dangling pointer (the previous line in
\* lint_parsed_line_ev, the last line in lint_postparse_ev).
THEOREM FaultFree == Spec => []NoFault
  <1>1. SafeInv => NoFault
    BY DEF SafeInv, EventInv, NoFault
  <1> QED BY <1>1, SafeInvariant, PTL

\* Nothing in the module changes while the server runs.
THEOREM Quiet == Spec => QuietWhileServing
  <1>1. SafeInv /\ [Next]_vars =>
          [phase = "running" => UNCHANGED <<registered, lint_engine, poolvars, outcome>>]_vars
    <2> SUFFICES ASSUME SafeInv, Next, phase = "running"
                 PROVE  UNCHANGED <<registered, lint_engine, poolvars, outcome>>
      OBVIOUS
    <2>1. CASE UnloadOther \/ \E d \in AllDirectives : FtpAccess(d)
      BY <2>1, QuietWhenRunning DEF vars
    <2>2. CASE Sighup \/ Exit
      BY <2>2 DEF Sighup, Exit
    <2> QED
      BY <2>1, <2>2
      DEF Next, Progress, Environment, Boot, ReadLine, AddConfig, SetLintDirective,
          AddHostConfig, LoadModule, EndLine, EndOfFile, PostParse, Restart, Unload,
          Reread
  <1> QED BY <1>1, SafeInvariant, PTL DEF Spec, QuietWhileServing
=============================================================================
