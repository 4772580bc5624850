------------------------ MODULE ModLintRecordProofs -------------------------
(***************************************************************************)
(* Theorems about what ModLint records: the lines, and the config_recs of  *)
(* each line.  They stand on the inductive invariant of ModLintProofs.     *)
(***************************************************************************)
EXTENDS ModLintProofs

\* Nothing has been read before the host starts.
BootInv == phase = "boot" => read = <<>> /\ conf = {} /\ outcome = NoOutcome

FullInv ==
  /\ SafeInv
  /\ BootInv
  /\ RecordInv
  /\ ConfigInv
  /\ NoStaleConfigs
  /\ EmissionHasItsLine

-----------------------------------------------------------------------------
(* Consequences of the invariant. *)

\* Without a pool nothing is recorded.
LEMMA NothingWithoutPool ==
  ASSUME SafeInv, lint_pool = NULL
  PROVE  parsed_lines.elts = <<>> /\ associated_configs.elts = {}
  BY DEF SafeInv, PoolInv

\* While a configuration is read, a module that has recorded a line is loaded.
LEMMA RecordingIsLoaded ==
  ASSUME SafeInv, parsed_lines.elts # <<>>
  PROVE  /\ loaded /\ lint_pool # NULL /\ associated_configs.pool # NULL
  <1>1. lint_pool # NULL
    BY NothingWithoutPool
  <1>2. loaded
    BY <1>1 DEF SafeInv, EventInv
  <1>3. associated_configs.pool # NULL
    BY DEF SafeInv, PoolInv
  <1> QED BY <1>1, <1>2, <1>3

\* What the lines look like once the accumulated config_recs are attached: each
\* line has its own, and the last one may have the host's in addition.
LEMMA Attribution ==
  ASSUME FullInv, Reading
  PROVE  /\ AttributedIn(LinesAtPostParse)
         /\ phase # "fixup" =>
              \A i \in 1 .. Len(parsed_lines.elts) :
                LinesAtPostParse[i].configs = Own(LinesAtPostParse[i])
  <1> DEFINE lines == parsed_lines.elts
             n == Len(lines)
             A == LinesAtPostParse
  <1>1. /\ lines \in Seq(Lines) /\ n \in Nat
        /\ associated_configs.elts \in SUBSET Configs
    BY DEF FullInv, SafeInv, TypeOK
  <1>2. /\ Len(A) = n /\ DOMAIN A = 1 .. n
        /\ \A i \in 1 .. n :
             /\ A[i].lineno = lines[i].lineno
             /\ A[i].configs = IF i = n /\ associated_configs.elts # {}
                               THEN associated_configs.elts
                               ELSE lines[i].configs
    BY <1>1, AttachKeeps DEF LinesAtPostParse
  <1>3. \A i \in 1 .. n : Own(A[i]) = Own(lines[i])
    BY <1>2 DEF Own
  <1>4. \A i \in 1 .. n : i < n => lines[i].configs = Own(lines[i])
    BY <1>1 DEF FullInv, ConfigInv
  <1>5. n > 0 => lines[n].configs = {}
    BY <1>1 DEF FullInv, ConfigInv
  <1>6. n > 0 => lines[n].lineno = Len(read)
    <2> SUFFICES ASSUME n > 0 PROVE lines[n].lineno = Len(read)
      OBVIOUS
    <2>1. loaded
      BY <1>1, RecordingIsLoaded DEF FullInv
    <2>2. n = Len(read) - since /\ lines[n].lineno = since + n
      BY <1>1, <2>1 DEF FullInv, RecordInv, RecordedExactly
    <2>3. Len(read) \in Nat /\ since \in Nat
      BY DEF FullInv, SafeInv, TypeOK
    <2> QED BY <1>1, <2>2, <2>3
  <1>7. n > 0 => /\ Own(lines[n]) \subseteq associated_configs.elts
                 /\ associated_configs.elts \subseteq
                      Own(lines[n]) \cup {c \in conf : c.by = 0}
                 /\ phase # "fixup" => associated_configs.elts = Own(lines[n])
    <2> SUFFICES ASSUME n > 0
                 PROVE  /\ Own(lines[n]) \subseteq associated_configs.elts
                        /\ associated_configs.elts \subseteq
                             Own(lines[n]) \cup {c \in conf : c.by = 0}
                        /\ phase # "fixup" => associated_configs.elts = Own(lines[n])
      OBVIOUS
    <2>1. Own(lines[n]) = {c \in conf : c.by = Len(read)}
      BY <1>6 DEF Own
    <2>2. /\ {c \in conf : c.by = Len(read)} \subseteq associated_configs.elts
          /\ associated_configs.elts \subseteq
               {c \in conf : c.by = Len(read) \/ (phase = "fixup" /\ c.by = 0)}
      BY <1>1 DEF FullInv, ConfigInv
    <2> QED BY <2>1, <2>2
  <1> HIDE DEF A, lines, n
  <1>8. n > 0 => A[n].configs = associated_configs.elts
    <2>1. n > 0 => n \in 1 .. n
      BY <1>1
    <2> QED BY <1>2, <1>5, <2>1
  <1>9. AttributedIn(A)
    <2> SUFFICES ASSUME NEW i \in 1 .. n
                 PROVE IF i < n
                       THEN A[i].configs = Own(A[i])
                       ELSE /\ Own(A[i]) \subseteq A[i].configs
                            /\ A[i].configs \subseteq Own(A[i]) \cup {c \in conf : c.by = 0}
      BY <1>2 DEF AttributedIn
    <2>1. CASE i < n
      BY <1>1, <1>2, <1>3, <1>4, <2>1
    <2>2. CASE i = n
      BY <1>1, <1>3, <1>7, <1>8, <2>2
    <2> QED BY <1>1, <2>1, <2>2
  <1>10. ASSUME phase # "fixup", NEW i \in 1 .. n
         PROVE  A[i].configs = Own(A[i])
    <2>1. CASE i < n
      BY <1>1, <1>2, <1>3, <1>4, <2>1
    <2>2. CASE i = n
      BY <1>1, <1>3, <1>7, <1>8, <1>10, <2>2
    <2> QED BY <1>1, <2>1, <2>2
  <1> QED BY <1>9, <1>10 DEF A, lines, n

-----------------------------------------------------------------------------
(* Every step keeps the invariant. *)

\* Before the host starts, nothing has been read or recorded.
LEMMA FullInit == Init => FullInv
  <1> SUFFICES ASSUME Init PROVE FullInv
    OBVIOUS
  <1>1. SafeInv
    BY SafeInit
  <1>2. /\ phase = "boot" /\ read = <<>> /\ since = 0 /\ conf = {}
        /\ parsed_lines.elts = <<>> /\ associated_configs.elts = {}
        /\ outcome = NoOutcome /\ outcome.lines = <<>> /\ outcome.result = "none"
    BY DEF Init, NoLines, NoConfigs, NoOutcome
  <1> QED
    BY <1>1, <1>2 DEF FullInv, BootInv, RecordInv, RecordedExactly, ConfigInv,
                      NoStaleConfigs, EmissionHasItsLine, Reading

\* Steps that leave the configuration and what is recorded of it alone.
LEMMA FullStill ==
  ASSUME FullInv, SafeInv',
         UNCHANGED <<loaded, read, since, conf, parsed_lines, associated_configs,
                     outcome>>,
         phase' = "boot" => phase = "boot",
         phase' = "handling" => phase = "handling",
         phase' = "running" => phase = "running",
         phase' = "parsing" => phase \in {"boot", "parsing", "handling"},
         phase' = "fixup" => Reading
  PROVE  FullInv'
  <1>1. BootInv'
    BY DEF FullInv, BootInv
  <1>2. CASE phase = "boot"
    <2>1. /\ read = <<>> /\ conf = {} /\ outcome = NoOutcome /\ lint_pool = NULL
          /\ since <= Len(read) /\ since = 0
      BY <1>2 DEF FullInv, BootInv, SafeInv, EventInv, RecordInv, TypeOK
    <2>2. parsed_lines.elts = <<>> /\ associated_configs.elts = {}
      BY <2>1, NothingWithoutPool DEF FullInv
    <2>3. RecordInv'
      BY <1>2, <2>1, <2>2 DEF RecordInv, RecordedExactly
    <2>4. ConfigInv'
      BY <1>2, <2>1, <2>2 DEF ConfigInv, Reading
    <2>5. NoStaleConfigs' /\ EmissionHasItsLine'
      BY DEF FullInv, NoStaleConfigs, EmissionHasItsLine
    <2> QED BY <1>1, <2>3, <2>4, <2>5 DEF FullInv
  <1>3. CASE phase # "boot"
    <2>1. Reading' => Reading
      BY <1>3 DEF Reading
    <2>2. RecordInv'
      BY <2>1 DEF FullInv, RecordInv, RecordedExactly, Current
    <2>3. ConfigInv'
      <3>1. \A line : Own(line)' = Own(line)
        BY DEF Own
      <3>2. phase = "fixup" => phase' # "parsing" /\ phase' # "handling"
        OBVIOUS
      <3>3. phase' = "running" => AttributedIn(outcome.lines)'
        BY <3>1 DEF FullInv, ConfigInv, AttributedIn
      <3> QED BY <2>1, <3>1, <3>2, <3>3 DEF FullInv, ConfigInv, Reading
    <2>4. NoStaleConfigs' /\ EmissionHasItsLine'
      BY DEF FullInv, NoStaleConfigs, EmissionHasItsLine
    <2> QED BY <1>1, <2>2, <2>3, <2>4 DEF FullInv
  <1> QED BY <1>2, <1>3

\* lint_init, at the start or at a line: the module has nothing recorded, and
\* counts from the lines already read.
LEMMA FullStart ==
  ASSUME FullInv, SafeInv', Boot \/ LoadModule
  PROVE  FullInv'
  <1>1. CASE Boot /\ Shared
    <2>1. /\ UNCHANGED <<loaded, poolvars, outcome, read, since, conf>>
          /\ phase = "boot" /\ phase' = "parsing"
      BY <1>1 DEF Boot
    <2> QED BY <2>1, FullStill DEF poolvars
  <1>2. CASE (Boot /\ ~Shared) \/ LoadModule
    <2>1. /\ phase' = "parsing" /\ since' = Len(read) /\ ~loaded
          /\ UNCHANGED <<read, conf, parsed_lines, associated_configs, outcome>>
      <3>1. CASE Boot /\ ~Shared
        <4>1. read = <<>> /\ since <= Len(read) /\ since \in Nat /\ ~loaded
          BY <3>1 DEF Boot, FullInv, BootInv, RecordInv, SafeInv, TypeOK, EventInv
        <4> QED BY <3>1, <4>1 DEF Boot, lint_init
      <3>2. CASE LoadModule
        BY <3>2 DEF LoadModule, lint_init
      <3> QED BY <1>2, <3>1, <3>2
    <2>2. parsed_lines.elts = <<>> /\ associated_configs.elts = {} /\ Len(read) \in Nat
      BY <2>1, NothingWithoutPool DEF FullInv, SafeInv, EventInv, TypeOK
    <2>3. outcome = NoOutcome /\ \A c \in conf : c.kind.name \notin LintDirectives
      BY <1>2, <2>1 DEF Boot, LoadModule, FullInv, BootInv, ConfigInv, Reading
    <2>4. BootInv' /\ NoStaleConfigs' /\ EmissionHasItsLine'
      BY <2>1 DEF FullInv, BootInv, NoStaleConfigs, EmissionHasItsLine
    <2>5. RecordInv'
      BY <2>1, <2>2 DEF RecordInv, RecordedExactly
    <2>6. ConfigInv'
      <3>1. \A c \in conf : c.by <= Len(read)
        BY DEF FullInv, ConfigInv
      <3> QED BY <2>1, <2>2, <2>3, <3>1 DEF ConfigInv
    <2> QED BY <2>4, <2>5, <2>6 DEF FullInv
  <1> QED BY <1>1, <1>2

\* A line the module does not hear of, or does not recognise: it is not loaded,
\* or the host refuses the configuration.
LEMMA FullReadUnseen ==
  ASSUME FullInv, SafeInv', NEW d \in AllDirectives, ReadLine(d),
         ~loaded \/ ~HasHandler(d)
  PROVE  FullInv'
  <1>0. /\ phase = "parsing" /\ read' = Append(read, d)
        /\ UNCHANGED <<loaded, pending, since, conf, nconf, restarts>>
        /\ read \in Seq(AllDirectives) /\ Len(read) \in Nat /\ since \in Nat
    BY DEF ReadLine, FullInv, SafeInv, TypeOK
  <1>1. UNCHANGED <<registered, lint_engine, poolvars, outcome>>
    <2>1. ~loaded => "core.parsed-line" \notin registered
      BY DEF FullInv, SafeInv, EventInv
    <2> QED BY <2>1 DEF ReadLine, lint_parsed_line_ev
  <1>2. ~ParsedLineFaults(d)
    BY DEF ParsedLineFaults, Dangling, FullInv, SafeInv, TypeOK, PoolInv, NULL
  <1>3. phase' = IF HasHandler(d) THEN "handling" ELSE "rejected"
    BY <1>2 DEF ReadLine
  <1>4. BootInv' /\ NoStaleConfigs' /\ EmissionHasItsLine'
    BY <1>0, <1>1, <1>3 DEF FullInv, BootInv, NoStaleConfigs, EmissionHasItsLine, poolvars
  <1>5. \A c \in conf : c.by \in Nat /\ c.by <= Len(read)
    BY DEF FullInv, ConfigInv, SafeInv, TypeOK, Configs
  <1>6. Len(read') = Len(read) + 1 /\ read'[Len(read')] = d /\ read' # <<>>
    BY <1>0
  <1>7. CASE ~HasHandler(d)
    <2>1. RecordInv'
      BY <1>0, <1>3, <1>6, <1>7 DEF FullInv, RecordInv, RecordedExactly, Reading
    <2>2. ConfigInv'
      BY <1>0, <1>3, <1>5, <1>6, <1>7 DEF ConfigInv, Reading
    <2> QED BY <1>4, <2>1, <2>2 DEF FullInv
  <1>8. CASE HasHandler(d) /\ ~loaded
    <2>1. parsed_lines.elts = <<>>
      BY <1>8, RecordingIsLoaded DEF FullInv
    <2>2. d \notin LintDirectives
      BY <1>8 DEF HasHandler
    <2>3. RecordInv'
      BY <1>0, <1>6, <1>8, <2>2 DEF FullInv, RecordInv, RecordedExactly, Current
    <2>4. outcome = NoOutcome /\ \A c \in conf : c.kind.name \notin LintDirectives
      BY <1>0, <1>8 DEF FullInv, ConfigInv, Reading
    <2>5. ConfigInv'
      BY <1>0, <1>1, <1>3, <1>5, <1>6, <1>8, <2>1, <2>4 DEF ConfigInv, poolvars
    <2> QED BY <1>4, <2>3, <2>5 DEF FullInv
  <1> QED BY <1>7, <1>8

\* lint_parsed_line_ev for a line it recognises.
LEMMA FullReadSeen ==
  ASSUME FullInv, SafeInv', NEW d \in AllDirectives, ReadLine(d),
         loaded, HasHandler(d)
  PROVE  FullInv'
  <1> DEFINE lines == parsed_lines.elts
             n == Len(lines)
             A == LinesAtPostParse
             new == [lineno |-> Len(read) + 1, directive |-> d, configs |-> {}]
             m == Len(read)
  <1>1. /\ phase = "parsing" /\ read' = Append(read, d)
        /\ UNCHANGED <<loaded, pending, since, conf, nconf, restarts>>
        /\ read \in Seq(AllDirectives) /\ m \in Nat /\ since \in Nat
    BY DEF ReadLine, FullInv, SafeInv, TypeOK
  <1>2. "core.parsed-line" \in registered /\ TypeOK /\ PoolInv
    BY <1>1 DEF FullInv, SafeInv, EventInv, Reading, ParseEvents
  <1>3. lint_parsed_line_ev(d, m + 1)
    BY <1>2 DEF ReadLine
  <1>4. /\ parsed_lines'.elts = Append(A, new)
        /\ associated_configs'.elts = {}
        /\ outcome' = outcome
    <2>1. m + 1 \in Nat
      BY <1>1
    <2> QED BY <1>2, <1>3, <2>1, LineEventSafe
  <1>5. phase' = "handling"
    <2>1. ~ParsedLineFaults(d)
      BY DEF ParsedLineFaults, Dangling, FullInv, SafeInv, TypeOK, PoolInv, NULL
    <2> QED BY <2>1 DEF ReadLine
  <1>6. /\ A \in Seq(Lines) /\ Len(A) = n /\ n \in Nat
        /\ \A i \in 1 .. n : A[i].lineno = lines[i].lineno
                             /\ A[i].directive = lines[i].directive
    <2>1. lines \in Seq(Lines) /\ associated_configs.elts \in SUBSET Configs
      BY <1>2 DEF TypeOK
    <2>2. n \in Nat
      BY <2>1
    <2> HIDE DEF n
    <2> QED BY <2>1, <2>2, AttachKeeps DEF LinesAtPostParse, n
  <1>7. \A i \in 1 .. n : A[i].configs = Own(A[i])
    BY <1>1, Attribution DEF Reading
  <1>8. /\ n = m - since
        /\ \A i \in 1 .. n : /\ A[i].lineno = since + i
                             /\ A[i].directive = read[since + i]
    <2>1. DOMAIN lines = 1 .. n
      BY DEF FullInv, SafeInv, TypeOK
    <2>2. /\ Len(lines) = Len(read) - since
          /\ \A i \in DOMAIN lines : /\ lines[i].lineno = since + i
                                     /\ lines[i].directive = read[since + i]
      BY <1>1 DEF FullInv, RecordInv, RecordedExactly, Reading
    <2> QED BY <1>6, <2>1, <2>2
  <1>9. \A c \in conf : /\ c.by \in Nat /\ c.by <= m
                        /\ c.kind.name \in LintDirectives =>
                             since < c.by /\ read[c.by] = c.kind.name
    BY <1>1 DEF FullInv, ConfigInv, SafeInv, TypeOK, Configs, Reading
  <1>10. /\ Len(read') = m + 1 /\ read'[m + 1] = d /\ read' # <<>>
         /\ \A i \in 1 .. m : read'[i] = read[i]
    BY <1>1
  <1>11. outcome = NoOutcome
    BY <1>1 DEF FullInv, ConfigInv, Reading
  <1> DEFINE B == parsed_lines'.elts
  <1>12. /\ DOMAIN B = 1 .. (n + 1) /\ Len(B) = n + 1
         /\ \A i \in 1 .. n : B[i] = A[i]
         /\ B[n + 1] = new
    <2>1. new \in Lines
      BY <1>1 DEF Lines
    <2> HIDE DEF A, n, new
    <2> QED BY <1>4, <1>6, <2>1
  <1>14. new.lineno = m + 1 /\ new.directive = d /\ new.configs = {}
    OBVIOUS
  <1>15. since <= m
    BY <1>1 DEF FullInv, RecordInv
  <1> HIDE DEF A, lines, n, new, m
  <1>20. BootInv'
    BY <1>5 DEF BootInv
  <1>21. RecordInv'
    <2>1. /\ Len(B) = Len(read') - since'
          /\ \A i \in DOMAIN B : /\ B[i].lineno = since' + i
                                 /\ B[i].directive = read'[since' + i]
      <3>1. Len(B) = Len(read') - since' /\ since' + (n + 1) = m + 1
        BY <1>1, <1>6, <1>8, <1>10, <1>12
      <3>2. ASSUME NEW i \in DOMAIN B
            PROVE  B[i].lineno = since' + i /\ B[i].directive = read'[since' + i]
        <4>1. CASE i = n + 1
          BY <1>10, <1>12, <1>14, <3>1, <4>1
        <4>2. CASE i \in 1 .. n
          <5>1. since + i \in 1 .. m
            BY <1>1, <1>6, <1>8, <4>2
          <5> QED BY <1>1, <1>8, <1>10, <1>12, <4>2, <5>1
        <4> QED BY <1>6, <1>12, <4>1, <4>2
      <3> QED BY <3>1, <3>2
    <2>2. since' <= Len(read') /\ since' < Len(read')
      BY <1>1, <1>10, <1>15
    <2> HIDE DEF B
    <2>3. RecordedExactly'
      BY <2>1 DEF RecordedExactly, B
    <2> QED BY <1>1, <1>10, <2>2, <2>3 DEF RecordInv
  <1>22. \A i \in DOMAIN B : B[i].configs = IF i < Len(B) THEN Own(B[i]) ELSE {}
    <2> SUFFICES ASSUME NEW i \in DOMAIN B
                 PROVE B[i].configs = IF i < Len(B) THEN Own(B[i]) ELSE {}
      OBVIOUS
    <2> HIDE DEF B
    <2>0. Len(B) = n + 1
      BY <1>12
    <2>1. CASE i = n + 1
      <3>1. ~(i < n + 1)
        BY <1>6, <2>1
      <3>2. B[i].configs = {}
        BY <1>12, <1>14, <2>1
      <3> QED BY <2>0, <3>1, <3>2
    <2>2. CASE i \in 1 .. n
      <3>1. i < n + 1 /\ B[i] = A[i] /\ A[i].configs = Own(A[i])
        BY <1>6, <1>7, <1>12, <2>2
      <3>2. B[i].configs = Own(B[i])
        BY <3>1
      <3> QED BY <2>0, <3>1, <3>2
    <2> QED BY <1>6, <1>12, <2>1, <2>2
  <1>23. ConfigInv'
    <2>1. \A c \in conf' : /\ c.by <= Len(read')
                           /\ c.kind.name \in LintDirectives =>
                                since' < c.by /\ read'[c.by] = c.kind.name /\ loaded'
      BY <1>1, <1>9, <1>10
    <2>2. {c \in conf' : c.by = Len(read')} = {}
      BY <1>1, <1>9, <1>10
    <2>3. \A i \in DOMAIN B :
            B[i].configs = IF i < Len(B) THEN {c \in conf' : c.by = B[i].lineno} ELSE {}
      BY <1>1, <1>22 DEF Own
    <2> HIDE DEF B
    <2> QED BY <1>4, <1>5, <1>11, <2>1, <2>2, <2>3 DEF ConfigInv, Own, B
  <1>24. NoStaleConfigs'
    <2>1. \A i \in DOMAIN B : B[i].configs \subseteq conf
      BY <1>22 DEF Own
    <2>2. \A i \in DOMAIN outcome.lines : outcome.lines[i].configs \subseteq conf
      BY DEF FullInv, NoStaleConfigs
    <2> HIDE DEF B
    <2> QED BY <1>1, <1>4, <2>1, <2>2 DEF NoStaleConfigs, B
  <1>25. EmissionHasItsLine'
    BY <1>4 DEF FullInv, EmissionHasItsLine
  <1> QED BY <1>20, <1>21, <1>23, <1>24, <1>25 DEF FullInv

\* A config_rec is added: it waits to be attached to the last line recorded, if
\* there is one.
LEMMA FullAddConfigRec ==
  ASSUME FullInv, SafeInv',
         NEW kind \in ConfigKinds, NEW by \in Nat,
         NEW value \in CBOOLEAN, NEW next \in {"parsing", "handling", "fixup"},
         Reading, phase' = next,
         AddConfigRec(kind, by, value, next),
         next = "handling" => phase = "handling",
         next = "fixup" <=> phase = "fixup",
         by = Len(read) \/ (phase = "fixup" /\ by = 0),
         kind.name \in LintDirectives =>
           phase = "handling" /\ kind.name = Current /\ by = Len(read)
  PROVE  FullInv'
  <1> DEFINE c == [id |-> nconf + 1, kind |-> kind, by |-> by, value |-> value]
             lines == parsed_lines.elts
             n == Len(lines)
  <1>1. c \in Configs /\ c.by = by /\ c.kind = kind
    BY DEF FullInv, SafeInv, TypeOK, Configs
  <1>2. /\ conf' = conf \cup {c}
        /\ UNCHANGED <<loaded, pending, read, since, restarts>>
        /\ \/ "core.added-config" \in registered /\ lint_added_config_ev(c)
           \/ /\ "core.added-config" \notin registered
              /\ UNCHANGED <<registered, lint_engine, poolvars, outcome>>
    BY DEF AddConfigRec
  <1> HIDE DEF c
  <1>3. UNCHANGED <<parsed_lines, outcome>>
    BY <1>2 DEF lint_added_config_ev, poolvars
  <1>4. associated_configs'.elts =
          IF associated_configs.pool # NULL THEN associated_configs.elts \cup {c}
                                            ELSE associated_configs.elts
    <2>1. CASE "core.added-config" \in registered
      <3>1. TypeOK /\ PoolInv /\ lint_added_config_ev(c)
        BY <1>2, <2>1 DEF FullInv, SafeInv
      <3> QED BY <1>1, <3>1, ConfigEventSafe
    <2>2. CASE "core.added-config" \notin registered
      <3>1. ~loaded
        BY <2>2 DEF FullInv, SafeInv, EventInv, ParseEvents
      <3>2. associated_configs.pool = NULL
        BY <3>1 DEF FullInv, SafeInv, EventInv, PoolInv
      <3> QED BY <1>2, <2>2, <3>2 DEF poolvars
    <2> QED BY <2>1, <2>2
  <1>5. /\ read \in Seq(AllDirectives) /\ Len(read) \in Nat /\ since \in Nat
        /\ lines \in Seq(Lines) /\ n \in Nat /\ DOMAIN lines = 1 .. n
    BY DEF FullInv, SafeInv, TypeOK
  <1>6. lines # <<>> => associated_configs.pool # NULL /\ loaded
    BY RecordingIsLoaded DEF FullInv
  <1>7. outcome = NoOutcome /\ outcome.lines = <<>> /\ outcome.result = "none"
    BY DEF FullInv, ConfigInv, NoOutcome
  <1>8. BootInv'
    BY DEF BootInv
  <1>9. RecordInv'
    <2>1. phase' = "handling" => phase = "handling"
      OBVIOUS
    <2> QED BY <1>2, <1>3, <2>1 DEF FullInv, RecordInv, RecordedExactly, Current
  <1>10. \A i \in 1 .. n : i < n => lines[i].lineno < Len(read) /\ lines[i].lineno > 0
    <2> SUFFICES ASSUME NEW i \in 1 .. n, i < n
                 PROVE lines[i].lineno < Len(read) /\ lines[i].lineno > 0
      OBVIOUS
    <2>1. loaded
      BY <1>5, <1>6
    <2>2. n = Len(read) - since /\ lines[i].lineno = since + i
      BY <1>5, <2>1 DEF FullInv, RecordInv, RecordedExactly
    <2> QED BY <1>5, <2>2
  <1>11. \A i \in 1 .. n : lines[i].configs = IF i < n THEN Own(lines[i]) ELSE {}
    BY <1>5 DEF FullInv, ConfigInv
  <1>12. \A i \in 1 .. n : i < n =>
           {o \in conf' : o.by = lines[i].lineno} = Own(lines[i])
    <2> SUFFICES ASSUME NEW i \in 1 .. n, i < n
                 PROVE {o \in conf' : o.by = lines[i].lineno} = Own(lines[i])
      OBVIOUS
    <2>1. c.by # lines[i].lineno
      BY <1>1, <1>5, <1>10
    <2> QED BY <1>2, <2>1 DEF Own
  <1>13. \A o \in conf : /\ o.by <= Len(read)
                         /\ o.kind.name \in LintDirectives =>
                              since < o.by /\ read[o.by] = o.kind.name /\ loaded
    BY DEF FullInv, ConfigInv
  <1>14. /\ c.by <= Len(read)
         /\ c.kind.name \in LintDirectives =>
              since < c.by /\ read[c.by] = c.kind.name /\ loaded
    BY <1>1, <1>5 DEF FullInv, RecordInv, Current
  <1>15. lines # <<>> =>
           /\ {o \in conf : o.by = Len(read)} \subseteq associated_configs.elts
           /\ associated_configs.elts \subseteq
                {o \in conf : o.by = Len(read) \/ (phase = "fixup" /\ o.by = 0)}
    BY DEF FullInv, ConfigInv
  <1>16. lines # <<>> =>
           /\ {o \in conf' : o.by = Len(read)} \subseteq associated_configs'.elts
           /\ associated_configs'.elts \subseteq
                {o \in conf' : o.by = Len(read) \/ (phase' = "fixup" /\ o.by = 0)}
    BY <1>1, <1>2, <1>4, <1>6, <1>15
  <1>17. ConfigInv'
    <2>1. \A i \in 1 .. n :
            lines[i].configs = IF i < n THEN {o \in conf' : o.by = lines[i].lineno}
                                        ELSE {}
      BY <1>11, <1>12
    <2>2. \A o \in conf' : /\ o.by <= Len(read)
                           /\ o.kind.name \in LintDirectives =>
                                since < o.by /\ read[o.by] = o.kind.name /\ loaded
      BY <1>2, <1>13, <1>14
    <2>3. phase' # "running"
      OBVIOUS
    <2> QED BY <1>2, <1>3, <1>5, <1>7, <1>16, <2>1, <2>2, <2>3 DEF ConfigInv, Own
  <1>18. NoStaleConfigs'
    <2>1. associated_configs'.elts \subseteq conf'
      BY <1>2, <1>4 DEF FullInv, NoStaleConfigs
    <2>2. \A i \in DOMAIN lines : lines[i].configs \subseteq conf'
      BY <1>2 DEF FullInv, NoStaleConfigs
    <2> QED BY <1>3, <1>7, <2>1, <2>2 DEF NoStaleConfigs
  <1>19. EmissionHasItsLine'
    BY <1>3, <1>7 DEF EmissionHasItsLine
  <1> QED BY <1>8, <1>9, <1>17, <1>18, <1>19 DEF FullInv

\* The three places a config_rec comes from, and the refusals of the handlers.
LEMMA FullAddSteps ==
  ASSUME FullInv, SafeInv',
         AddConfig \/ AddHostConfig \/ \E cmd \in Commands : SetLintDirective(cmd)
  PROVE  FullInv'
  <1>0. Len(read) \in Nat /\ SafeInv /\ 0 \in CBOOLEAN
    BY DEF FullInv, SafeInv, TypeOK, CBOOLEAN
  <1>1. CASE AddConfig
    <2>1. PICK kind \in Kinds : AddConfigRec(kind, Len(read), 0, "handling")
      BY <1>1 DEF AddConfig
    <2>2. /\ phase = "handling" /\ kind \in ConfigKinds
          /\ kind.name \notin LintDirectives
      BY <1>1, ModLintAssumption DEF AddConfig
    <2>3. phase' = "handling"
      BY <1>0, <2>1, <2>2, SafeAddConfigRec
    <2> QED BY <1>0, <2>1, <2>2, <2>3, FullAddConfigRec DEF Reading
  <1>2. CASE AddHostConfig
    <2>1. /\ phase = "fixup" \/ (phase = "parsing" /\ read = <<>>)
          /\ \E kind \in Kinds : AddConfigRec(kind, 0, 0, phase)
      BY <1>2 DEF AddHostConfig
    <2>2. PICK kind \in Kinds : AddConfigRec(kind, 0, 0, phase)
      BY <2>1
    <2>3. /\ kind \in ConfigKinds /\ kind.name \notin LintDirectives
          /\ read = <<>> => Len(read) = 0
      BY ModLintAssumption
    <2>4. phase' = phase
      BY <1>0, <2>1, <2>2, <2>3, SafeAddConfigRec
    <2> QED BY <1>0, <2>1, <2>2, <2>3, <2>4, FullAddConfigRec DEF Reading
  <1>3. ASSUME NEW cmd \in Commands, SetLintDirective(cmd)
        PROVE  FullInv'
    <2> DEFINE answer == IF Current = "LintEngine" THEN set_lintengine(cmd)
                                                   ELSE set_lintconfigfile(cmd)
    <2>1. answer.value \in CBOOLEAN
      BY AnswerType
    <2>2. /\ phase = "handling" /\ Current \in LintDirectives
          /\ \/ AddConfigRec(Param(Current), Len(read), answer.value, "parsing")
             \/ /\ phase' = "rejected"
                /\ UNCHANGED <<loaded, pending, read, since, conf, nconf, restarts,
                               registered, lint_engine, poolvars, outcome>>
      BY <1>3 DEF SetLintDirective
    <2> HIDE DEF answer
    <2>3. CASE AddConfigRec(Param(Current), Len(read), answer.value, "parsing")
      <3>1. Param(Current) \in ConfigKinds /\ Param(Current).name = Current
        BY <2>2, ParamIs
      <3>2. phase' = "parsing"
        BY <1>0, <2>1, <2>2, <2>3, <3>1, SafeAddConfigRec
      <3> QED BY <1>0, <2>1, <2>2, <2>3, <3>1, <3>2, FullAddConfigRec DEF Reading
    <2>4. CASE /\ phase' = "rejected"
               /\ UNCHANGED <<loaded, pending, read, since, conf, nconf, restarts,
                              registered, lint_engine, poolvars, outcome>>
      BY <2>4, FullStill DEF poolvars
    <2> QED BY <2>2, <2>3, <2>4
  <1> QED BY <1>1, <1>2, <1>3

\* A file is only asked for by a config_rec of LintConfigFile, whose line is
\* among the recorded ones.
LEMMA AskedByALine ==
  ASSUME FullInv, Reading, FindConfig("LintConfigFile") # {}
  PROVE  /\ lint_pool # NULL
         /\ \E i \in DOMAIN LinesAtPostParse :
              LinesAtPostParse[i].directive = "LintConfigFile"
  <1>1. PICK c \in conf : c.kind.name = "LintConfigFile"
    BY ParamIs DEF FindConfig, LintDirectives
  <1>2. /\ c.by \in Nat /\ c.by <= Len(read) /\ since < c.by
        /\ read[c.by] = "LintConfigFile" /\ loaded
    BY <1>1 DEF FullInv, ConfigInv, SafeInv, TypeOK, Configs, LintDirectives
  <1> DEFINE lines == parsed_lines.elts
             k == c.by - since
  <1>3. /\ lines \in Seq(Lines) /\ since \in Nat /\ Len(read) \in Nat
        /\ associated_configs.elts \in SUBSET Configs
    BY DEF FullInv, SafeInv, TypeOK
  <1>4. k \in 1 .. Len(lines) /\ lines[k].directive = "LintConfigFile"
    <2>1. /\ Len(lines) = Len(read) - since
          /\ \A i \in DOMAIN lines : lines[i].directive = read[since + i]
      BY <1>2 DEF FullInv, RecordInv, RecordedExactly
    <2>2. k \in DOMAIN lines /\ since + k = c.by
      BY <1>2, <1>3, <2>1
    <2> QED BY <1>2, <1>3, <2>1, <2>2
  <1>5. lint_pool # NULL
    BY <1>3, <1>4, RecordingIsLoaded DEF FullInv
  <1>6. /\ k \in DOMAIN LinesAtPostParse
        /\ LinesAtPostParse[k].directive = lines[k].directive
    BY <1>3, <1>4, AttachKeeps DEF LinesAtPostParse
  <1> QED BY <1>4, <1>5, <1>6

\* lint_postparse_ev: what is emitted has the lines as they should be.
LEMMA FullPostParse ==
  ASSUME FullInv, SafeInv', PostParse
  PROVE  FullInv'
  <1>1. /\ phase = "fixup" /\ Reading
        /\ UNCHANGED <<loaded, pending, read, since, conf, nconf, restarts>>
    BY DEF PostParse, Reading
  <1>2. phase' = "running"
    <2>1. ~PostParseFaults
      BY DEF PostParseFaults, Dangling, FullInv, SafeInv, PoolInv, NULL
    <2> QED BY <2>1 DEF PostParse
  <1>3. parsed_lines'.elts = <<>> /\ associated_configs'.elts = {}
    <2>1. lint_pool' = NULL
      BY <1>2 DEF SafeInv, EventInv
    <2> QED BY <2>1 DEF SafeInv, PoolInv
  <1>4. BootInv' /\ RecordInv'
    <2>1. since <= Len(read)
      BY DEF FullInv, RecordInv
    <2> QED BY <1>1, <1>2, <2>1 DEF BootInv, RecordInv, RecordedExactly, Reading
  <1>5. \A c \in conf : c.by <= Len(read)
    BY DEF FullInv, ConfigInv
  <1>6. CASE "core.postparse" \notin registered
    <2>1. outcome' = outcome /\ outcome = NoOutcome
      BY <1>1, <1>6 DEF PostParse, FullInv, ConfigInv
    <2>2. outcome'.lines = <<>> /\ outcome'.result = "none"
      BY <2>1 DEF NoOutcome
    <2>3. ConfigInv'
      BY <1>1, <1>2, <1>3, <1>5, <2>2 DEF ConfigInv, AttributedIn, Reading
    <2>4. NoStaleConfigs' /\ EmissionHasItsLine'
      BY <1>3, <2>2 DEF NoStaleConfigs, EmissionHasItsLine
    <2> QED BY <1>4, <2>3, <2>4 DEF FullInv
  <1>7. CASE "core.postparse" \in registered
    <2>1. PICK result \in PostParseResults :
            outcome' = [result |-> result, lines |-> LinesAtPostParse, pool |-> lint_pool]
      BY <1>7 DEF PostParse, lint_postparse_ev
    <2>2. /\ outcome'.lines = LinesAtPostParse /\ outcome'.pool = lint_pool
          /\ outcome'.result = result
      BY <2>1
    <2>3. AttributedIn(LinesAtPostParse)
      BY <1>1, Attribution
    <2> DEFINE A == LinesAtPostParse
    <2>4. ConfigInv'
      <3> HIDE DEF A
      <3>1. AttributedIn(outcome.lines)'
        BY <1>1, <2>2, <2>3 DEF AttributedIn, Own, A
      <3> QED BY <1>1, <1>2, <1>3, <1>5, <3>1 DEF ConfigInv, Reading
    <2>5. NoStaleConfigs'
      <3>1. \A i \in DOMAIN A : A[i].configs \subseteq conf
        BY <2>3 DEF AttributedIn, Own
      <3> HIDE DEF A
      <3> QED BY <1>1, <1>3, <2>2, <3>1 DEF NoStaleConfigs, A
    <2>6. EmissionHasItsLine'
      <3> SUFFICES ASSUME result \in {"written", "failed"}
                   PROVE  /\ lint_pool # NULL
                          /\ \E i \in DOMAIN A : A[i].directive = "LintConfigFile"
        BY <2>2 DEF EmissionHasItsLine
      <3>1. FindConfig("LintConfigFile") # {}
        BY DEF PostParseResults
      <3> QED BY <1>1, <3>1, AskedByALine
    <2> QED BY <1>4, <2>4, <2>5, <2>6 DEF FullInv
  <1> QED BY <1>6, <1>7

\* lint_mod_unload_ev for the module: nothing recorded is left.
LEMMA FullUnload ==
  ASSUME FullInv, SafeInv', Unload
  PROVE  FullInv'
  <1>1. /\ phase = "restarting" /\ phase' = "restarting"
        /\ UNCHANGED <<read, since, conf>> /\ ~loaded'
    BY DEF Unload
  <1>2. outcome' = outcome
    BY DEF Unload, lint_mod_unload_ev
  <1>3. parsed_lines'.elts = <<>> /\ associated_configs'.elts = {}
    <2>1. lint_pool' = NULL
      BY <1>1 DEF SafeInv, EventInv
    <2> QED BY <2>1 DEF SafeInv, PoolInv
  <1>4. BootInv' /\ RecordInv' /\ ConfigInv'
    BY <1>1, <1>3 DEF FullInv, BootInv, RecordInv, RecordedExactly, ConfigInv, Reading
  <1>5. NoStaleConfigs' /\ EmissionHasItsLine'
    BY <1>1, <1>2, <1>3 DEF FullInv, NoStaleConfigs, EmissionHasItsLine
  <1> QED BY <1>4, <1>5 DEF FullInv

\* The next configuration starts with nothing recorded.
LEMMA FullReread ==
  ASSUME FullInv, SafeInv', Reread
  PROVE  FullInv'
  <1>1. /\ phase = "restarting" /\ phase' = "parsing"
        /\ read' = <<>> /\ since' = 0 /\ conf' = {} /\ outcome' = NoOutcome
        /\ UNCHANGED <<loaded, poolvars>>
    BY DEF Reread
  <1>2. parsed_lines'.elts = <<>> /\ associated_configs'.elts = {}
    <2>1. lint_pool = NULL
      BY <1>1 DEF FullInv, SafeInv, EventInv
    <2> QED BY <1>1, <2>1, NothingWithoutPool DEF FullInv, poolvars
  <1>3. outcome'.lines = <<>> /\ outcome'.result = "none"
    BY <1>1 DEF NoOutcome
  <1>4. BootInv' /\ RecordInv' /\ ConfigInv'
    BY <1>1, <1>2 DEF BootInv, RecordInv, RecordedExactly, ConfigInv
  <1>5. NoStaleConfigs' /\ EmissionHasItsLine'
    BY <1>2, <1>3 DEF NoStaleConfigs, EmissionHasItsLine
  <1> QED BY <1>4, <1>5 DEF FullInv

\* Steps after which nothing the invariant speaks of has changed.
LEMMA FullHostSteps ==
  ASSUME FullInv, SafeInv',
         \/ EndLine \/ EndOfFile \/ Sighup \/ Exit \/ Restart \/ UNCHANGED vars
         \/ UnloadOther \/ \E d \in AllDirectives : FtpAccess(d)
  PROVE  FullInv'
  <1>1. CASE EndLine \/ EndOfFile \/ Sighup \/ Exit
    BY <1>1, FullStill
    DEF EndLine, EndOfFile, Sighup, Exit, poolvars, Reading
  <1>2. CASE Restart
    <2>1. /\ phase' = phase /\ phase = "restarting"
          /\ UNCHANGED <<loaded, read, since, conf, poolvars, outcome>>
      BY <1>2 DEF Restart, lint_restart_ev
    <2> QED BY <2>1, FullStill DEF poolvars
  <1>3. CASE UnloadOther \/ (\E d \in AllDirectives : FtpAccess(d)) \/ UNCHANGED vars
    <2>1. UNCHANGED vars
      BY <1>3, QuietWhenRunning DEF FullInv
    <2> QED BY <2>1, FullStill DEF vars, hostvars, poolvars, Reading
  <1> QED BY <1>1, <1>2, <1>3

\* The invariant is inductive.
LEMMA FullNext == FullInv /\ [Next]_vars => FullInv'
  <1> SUFFICES ASSUME FullInv, [Next]_vars PROVE FullInv'
    OBVIOUS
  <1>0. SafeInv'
    BY SafeNext DEF FullInv
  <1>1. CASE Boot \/ LoadModule
    BY <1>0, <1>1, FullStart
  <1>2. ASSUME NEW d \in AllDirectives, ReadLine(d)
        PROVE  FullInv'
    BY <1>0, <1>2, FullReadUnseen, FullReadSeen
  <1>3. CASE AddConfig \/ AddHostConfig \/ \E cmd \in Commands : SetLintDirective(cmd)
    BY <1>0, <1>3, FullAddSteps
  <1>4. CASE PostParse
    BY <1>0, <1>4, FullPostParse
  <1>5. CASE Unload
    BY <1>0, <1>5, FullUnload
  <1>6. CASE Reread
    BY <1>0, <1>6, FullReread
  <1>7. CASE \/ EndLine \/ EndOfFile \/ Sighup \/ Exit \/ Restart \/ UNCHANGED vars
             \/ UnloadOther \/ \E d \in AllDirectives : FtpAccess(d)
    BY <1>0, <1>7, FullHostSteps
  <1> QED
    BY <1>1, <1>2, <1>3, <1>4, <1>5, <1>6, <1>7 DEF Next, Progress, Environment

\* What has been recorded, and where the config_recs are, is as RecordInv and
\* ConfigInv say in every reachable state.
THEOREM FullInvariant == Spec => []FullInv
  BY FullInit, FullNext, PTL DEF Spec

-----------------------------------------------------------------------------
(* The theorems. *)

\* The lines recorded are the lines read since the module was loaded, each one
\* once and in order (lint_parsed_line_ev, and the pool destroyed on each way
\* out of lint_postparse_ev).
THEOREM LinesRecorded == Spec => []RecordedExactly
  <1>1. FullInv => RecordedExactly
    BY DEF FullInv, RecordInv
  <1> QED BY <1>1, FullInvariant, PTL

\* Each recorded line has exactly the config_recs its handlers added; only the
\* last one may be given the host's (the previous-line assumption of
\* lint_parsed_line_ev and the last-line assumption of lint_postparse_ev).
THEOREM ConfigsAttributed == Spec => []AttributionExact
  <1>1. FullInv => AttributionExact
    BY Attribution DEF FullInv, ConfigInv, AttributionExact
  <1> QED BY <1>1, FullInvariant, PTL

\* No config_rec of an earlier configuration is kept or emitted.
THEOREM NothingStale == Spec => []NoStaleConfigs
  <1>1. FullInv => NoStaleConfigs
    BY DEF FullInv
  <1> QED BY <1>1, FullInvariant, PTL

\* lint_write_config is called with a pool, and with the line that asked for the
\* file among the recorded ones.
THEOREM EmissionGrounded == Spec => []EmissionHasItsLine
  <1>1. FullInv => EmissionHasItsLine
    BY DEF FullInv
  <1> QED BY <1>1, FullInvariant, PTL
=============================================================================
