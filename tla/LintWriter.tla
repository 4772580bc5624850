----------------------------- MODULE LintWriter -----------------------------
(***************************************************************************)
(* The emission: lint_write_config and the functions it calls, one for     *)
(* each section of the file (src/mod_lint.c), over the text API            *)
(* (src/lib/lint/text.c).                                                  *)
(*                                                                         *)
(* The file is a sequence of items.  An item is one line of text, known by *)
(* what it is, its directive, its argument, and its depth of indentation.  *)
(* A write is the sequence of the items one call of pr_fsio_write is given.*)
(* The process can be killed between any two of them (pr_signals_handle).  *)
(***************************************************************************)
EXTENDS LintCop, LintLines, SequencesExt

CONSTANTS
  Configurations,  \* what there may be to write: see Configuration below
  Rank,            \* the strcmp order of the directives: directive -> Nat
  Static,          \* the static modules
  PR_USE_DSO, PR_USE_CTRLS,
  MaxShort         \* bound: writes that the filesystem cuts short

(***************************************************************************)
(* A configuration, as the host has read it:                               *)
(*   lines    the recorded lines, [directive, arg]                         *)
(*   servers  the config_recs of each server, the main one first, as the   *)
(*            preorder list of the tree, [config_type, name, depth, from]; *)
(*            from is the position of the line that made it, 0 for none    *)
(*   settings the optional settings the main server has                    *)
(*   modules  the loaded modules, numbered in the order of their names     *)
(*   classes  the number of ACLs of each class                             *)
(***************************************************************************)

\* What the main server has: some settings only if they are set, some as the
\* user wrote them if that line can be found.
SettingNames == <<"DefaultAddress", "MaxConnectionRate", "MaxInstances", "PidFile",
  "Port", "ScoreboardFile", "ScoreboardMutex", "ServerAdmin", "ServerName",
  "ServerType", "SocketBindTight", "SocketOptions", "TCPBacklog", "TraceLog",
  "Trace", "TraceOptions", "UseIPv6", "UseReverseDNS">>
Optional == {"MaxInstances", "ServerAdmin", "ServerName"}
LookedUp == {"MaxConnectionRate", "SocketOptions", "TraceLog", "Trace", "TraceOptions"}

IsSeq(s) == s \in Seq(ToSet(s))

IsConfiguration(c) ==
  /\ c.lines \in Seq([directive : DOMAIN Rank, arg : Nat])
  /\ IsSeq(c.servers) /\ c.servers # <<>>
  /\ \A s \in DOMAIN c.servers :
       /\ IsSeq(c.servers[s])
       /\ \A n \in DOMAIN c.servers[s] : c.servers[s][n].depth \in Nat
  /\ c.modules \in Seq(Nat)
  /\ c.classes \in Seq(Nat)

ASSUME LintWriterAssumption ==
  /\ Rank \in [DOMAIN Rank -> Nat]
  /\ ToSet(SettingNames) \cup {"LoadModule"} \subseteq DOMAIN Rank
  /\ \A c \in Configurations : IsConfiguration(c)

VARIABLES
  input,    \* the configuration being written
  stage,    \* the function that is running
  queue,    \* the writes it has still to make
  fh,       \* the file handle: "none", "open", "closed"
  file,     \* the items on the disk
  errno,
  result,   \* what lint_write_config returns: "none" yet, "ok", "error";
            \* "dead" when the process is killed before it does
  leftover, \* context pools that a failing function did not destroy
  \* What the properties look at.
  failed,   \* the errno of the first call that failed, or "none"
  shorts,   \* writes cut short
  closes,   \* calls of pr_fsio_close
  whole     \* all that the functions called so far are to write

vars == <<input, stage, queue, fh, file, errno, result, leftover, failed, shorts,
          closes, whole>>

-----------------------------------------------------------------------------
(* Items *)

Item(kind, name, arg, depth) ==
  [kind |-> kind, name |-> name, arg |-> arg, depth |-> depth]
Title(name) == Item("title", name, 0, 0)
Opening(name) == Item("open", name, 0, 0)
Closing(name) == Item("close", name, 0, 0)
Line(name, arg, depth) == Item("line", name, arg, depth)
BufferedLines == [kind : {"line"}, name : DOMAIN Rank, arg : Nat, depth : Nat]
OldContents == <<Item("old", "", 0, 0)>>
Cut == Item("cut", "", 0, 0)

\* buffered_linecmp: strcmp of the texts.  A blank is smaller than the first
\* letter of a directive, so the deeper of two lines comes first.
linecmp(a, b) ==
  \/ a.depth > b.depth
  \/ /\ a.depth = b.depth
     /\ \/ Rank[a.name] < Rank[b.name]
        \/ Rank[a.name] = Rank[b.name] /\ a.arg < b.arg

\* lint_text_write_buffered_lines: sorted, then written one by one.
WriteBuffered_Unsorted(buffered) ==   \* mutant: qsort forgotten
  [i \in DOMAIN buffered |-> <<buffered[i]>>]

\* Of two lines that compare as equal, which are the same text, either may come
\* first.
Precedes(buffered, j, i) ==
  \/ linecmp(buffered[j], buffered[i])
  \/ ~linecmp(buffered[i], buffered[j]) /\ j < i

\* The line in the k-th place has k - 1 others before it.
Place(buffered, i) ==
  Cardinality({j \in DOMAIN buffered : Precedes(buffered, j, i)}) + 1

\* The writes of each buffer there can be.
SortedWrites[buffered \in Seq(BufferedLines)] ==
  [k \in DOMAIN buffered |->
    <<buffered[CHOOSE i \in DOMAIN buffered : Place(buffered, i) = k]>>]

WriteBuffered(buffered) == SortedWrites[buffered]

-----------------------------------------------------------------------------
(* The sections: the writes each function makes, in order. *)

\* The recorded lines that are the first of their directive: at most one.
FirstLine(directive, depth) ==
  LET directives == [i \in DOMAIN input.lines |-> input.lines[i].directive]
      i == lint_find_parsed_line(directives, directive, NoLine)
  IN  IF i = NoLine THEN <<>> ELSE <<Line(directive, input.lines[i].arg, depth)>>

\* Names that begin with an underscore are the host's own.
Internal == {"_host"}

\* lint_add_config_rec: one config_rec, without those below it.
lint_add_config_rec(c) ==
  IF \/ c.name \in Internal
     \/ c.config_type # "CONF_PARAM"
     \/ DirectiveOf(c) = NoDirective
  THEN <<>>
  ELSE FirstLine(DirectiveOf(c), c.depth)

\* lint_add_server_rec, lint_add_config_set: every config_rec of the tree, the
\* ones below a section that is itself skipped included.
lint_add_config_set_Top(conf) ==   \* mutant: the subsets are not descended into
  FlattenSeq([i \in DOMAIN conf |->
    IF conf[i].depth = 0 THEN lint_add_config_rec(conf[i]) ELSE <<>>])

lint_add_config_set(conf) ==
  FlattenSeq([i \in DOMAIN conf |-> lint_add_config_rec(conf[i])])

lint_write_header == << <<Title("header")>> >>

lint_write_defines == <<>>

\* The list of static modules, which the host keeps, has it.
is_static_module(m) == m \in Static

lint_write_modules ==
  LET path == FirstLine("ModulePath", 0)
      shared == FlattenSeq([i \in DOMAIN input.modules |->
                  IF is_static_module(input.modules[i])
                  THEN <<>>
                  ELSE <<Line("LoadModule", input.modules[i], 1)>>])
  IN  IF ~PR_USE_DSO
      THEN <<>>
      ELSE (IF path = <<>> THEN <<>> ELSE << <<Title("Modules")>> \o path >>)
           \o
           (IF shared = <<>> THEN <<>>
            ELSE << (IF path = <<>> THEN <<Title("Modules")>> ELSE <<>>)
                      \o <<Opening("IfModule")>> >>
                 \o WriteBuffered(shared)
                 \o << <<Opening("IfModule")>> >>)

Setting(name) ==
  IF name \in LookedUp THEN FirstLine(name, 0)
  ELSE IF name \in Optional \ input.settings THEN <<>>
  ELSE <<Line(name, 0, 0)>>

Settings == FlattenSeq([i \in DOMAIN SettingNames |-> Setting(SettingNames[i])])

lint_write_server_config ==
  << <<Title("Server Config")>> >>
    \o WriteBuffered(Settings \o lint_add_config_set(input.servers[1]))

lint_write_class(acls) ==
  << <<Opening("Class")>> >>
    \o [i \in 1 .. acls |-> <<Item("comment", "From", 0, 1)>>]
    \o << <<Line("Satisfy", 0, 1)>>, <<Closing("Class")>> >>

lint_write_classes ==
  << <<Title("Classes")>> >>
    \o FlattenSeq([i \in DOMAIN input.classes |-> lint_write_class(input.classes[i])])

lint_write_ctrls ==
  IF PR_USE_CTRLS THEN << <<Title("Controls")>> >> ELSE <<>>

\* The config_recs of the other servers, all of them in one buffer.
lint_write_vhosts ==
  << <<Title("VirtualHosts")>> >>
    \o WriteBuffered(FlattenSeq(
         [s \in 1 .. Len(input.servers) - 1 |->
            lint_add_config_set(input.servers[s + 1])]))

\* The order in which lint_write_config calls them.
Stages == <<"header", "defines", "modules", "server", "classes", "ctrls", "vhosts">>

Writes(s) ==
  CASE s = "header"  -> lint_write_header
    [] s = "defines" -> lint_write_defines
    [] s = "modules" -> lint_write_modules
    [] s = "server"  -> lint_write_server_config
    [] s = "classes" -> lint_write_classes
    [] s = "ctrls"   -> lint_write_ctrls
    [] s = "vhosts"  -> lint_write_vhosts
    [] OTHER         -> <<>>

After(s) ==
  LET i == CHOOSE i \in DOMAIN Stages : Stages[i] = s
  IN  IF i = Len(Stages) THEN "close" ELSE Stages[i + 1]

-----------------------------------------------------------------------------
(* lint_write_config *)

Init ==
  /\ input \in Configurations
  /\ stage = "open"
  /\ queue = <<>>
  /\ fh = "none"
  /\ file = OldContents
  /\ errno = "none"
  /\ result = "none"
  /\ leftover = 0
  /\ failed = "none"
  /\ shorts = 0
  /\ closes = 0
  /\ whole = <<>>

\* pr_fsio_open with O_TRUNC: whatever was in the file is gone.
Open_KeepsOld ==   \* mutant: O_TRUNC forgotten
  /\ stage = "open"
  /\ fh' = "open"
  /\ stage' = Head(Stages)
  /\ queue' = Writes(Head(Stages))
  /\ whole' = FlattenSeq(Writes(Head(Stages)))
  /\ UNCHANGED <<input, file, errno, result, leftover, failed, shorts, closes>>

Open ==
  /\ stage = "open"
  /\ fh' = "open"
  /\ file' = <<>>
  /\ stage' = Head(Stages)
  /\ queue' = Writes(Head(Stages))
  /\ whole' = FlattenSeq(Writes(Head(Stages)))
  /\ UNCHANGED <<input, errno, result, leftover, failed, shorts, closes>>

OpenFails ==
  /\ stage = "open"
  /\ errno' = "EOPEN"
  /\ failed' = "EOPEN"
  /\ result' = "error"
  /\ stage' = "done"
  /\ UNCHANGED <<input, queue, fh, file, leftover, shorts, closes, whole>>

\* lint_text_write_text
Write ==
  /\ queue # <<>>
  /\ file' = file \o Head(queue)
  /\ queue' = Tail(queue)
  /\ UNCHANGED <<input, stage, fh, errno, result, leftover, failed, shorts, closes,
                 whole>>

\* Fewer bytes are written than were asked for; only a negative result is an
\* error.
ShortWrite ==
  /\ queue # <<>>
  /\ shorts < MaxShort
  /\ file' = Append(file, Cut)
  /\ queue' = Tail(queue)
  /\ shorts' = shorts + 1
  /\ UNCHANGED <<input, stage, fh, errno, result, leftover, failed, closes, whole>>

\* lint_write_modules returns from two failing writes, those of its IfModule
\* lines, without destroying its context pool.
LeavesContext(write) ==
  stage = "modules" /\ \E item \in ToSet(write) : item.kind = "open"

\* The section's function returns -1 at once.
WriteFails_GoesOn ==   \* mutant: the result of a write is not looked at
  /\ queue # <<>>
  /\ errno' = "EWRITE"
  /\ failed' = IF failed = "none" THEN "EWRITE" ELSE failed
  /\ queue' = Tail(queue)
  /\ UNCHANGED <<input, stage, fh, file, result, leftover, shorts, closes, whole>>

WriteFails ==
  /\ queue # <<>>
  /\ errno' = "EWRITE"
  /\ failed' = "EWRITE"
  /\ leftover' = IF LeavesContext(Head(queue)) THEN leftover + 1 ELSE leftover
  /\ queue' = <<>>
  /\ stage' = "failing"
  /\ UNCHANGED <<input, fh, file, result, shorts, closes, whole>>

\* The function returns, and the next one is called.
NextStage ==
  /\ stage \in ToSet(Stages)
  /\ queue = <<>>
  /\ stage' = After(stage)
  /\ LET writes == Writes(After(stage))
     IN  /\ queue' = writes
         /\ whole' = whole \o FlattenSeq(writes)
  /\ UNCHANGED <<input, fh, file, errno, result, leftover, failed, shorts, closes>>

\* What errno is once the file is closed on the way out: the one saved before,
\* whatever the close did to it.
Restored_Not(xerrno, closeErrno) ==   \* mutant: errno is not put back
  closeErrno

Restored(xerrno, closeErrno) == xerrno

CloseAfterFailure_Not ==   \* mutant: the file is left open
  /\ stage = "failing"
  /\ result' = "error"
  /\ stage' = "done"
  /\ UNCHANGED <<input, queue, fh, file, errno, leftover, failed, shorts, closes,
                 whole>>

CloseAfterFailure_Ok ==    \* mutant: the -1 of a section's function is lost
  /\ stage = "failing"
  /\ fh' = "closed"
  /\ closes' = closes + 1
  /\ result' = "ok"
  /\ stage' = "done"
  /\ UNCHANGED <<input, queue, file, errno, leftover, failed, shorts, whole>>

CloseAfterFailure ==
  /\ stage = "failing"
  /\ fh' = "closed"
  /\ closes' = closes + 1
  /\ \E closeErrno \in {errno, "ECLOSE"} : errno' = Restored(errno, closeErrno)
  /\ result' = "error"
  /\ stage' = "done"
  /\ UNCHANGED <<input, queue, file, leftover, failed, shorts, whole>>

Close ==
  /\ stage = "close"
  /\ fh' = "closed"
  /\ closes' = closes + 1
  /\ \E closed \in BOOLEAN :
       /\ result' = IF closed THEN "ok" ELSE "error"
       /\ errno' = IF closed THEN errno ELSE "ECLOSE"
       /\ failed' = IF closed THEN failed ELSE "ECLOSE"
  /\ stage' = "done"
  /\ UNCHANGED <<input, queue, file, leftover, shorts, whole>>

\* The process is killed; the kernel closes what it had open.
Kill ==
  /\ result = "none"
  /\ result' = "dead"
  /\ UNCHANGED <<input, stage, queue, fh, file, errno, leftover, failed, shorts,
                 closes, whole>>

Emit ==
  /\ result = "none"
  /\ \/ Open
     \/ OpenFails
     \/ Write
     \/ ShortWrite
     \/ WriteFails
     \/ NextStage
     \/ CloseAfterFailure
     \/ Close

Next == Emit \/ Kill

Spec == Init /\ [][Next]_vars

-----------------------------------------------------------------------------
(* Properties *)

\* The items of the section a title begins.
Section(name) ==
  LET titles == {p \in DOMAIN file : file[p].kind = "title"}
      first == CHOOSE p \in titles : file[p].name = name
      later == {p \in titles : p > first}
  IN  SubSeq(file, first + 1, IF later = {} THEN Len(file) ELSE Min(later) - 1)

Written == result = "ok" /\ shorts = 0

Times(item, items) == Cardinality({p \in DOMAIN items : items[p] = item})

SectionOf(s) == IF s = 1 THEN "Server Config" ELSE "VirtualHosts"
OtherThan(s) == IF s = 1 THEN "VirtualHosts" ELSE "Server Config"

\* The recorded line that made a config_rec, as it is written.
LineOf(c) == Line(input.lines[c.from].directive, input.lines[c.from].arg, c.depth)

\* The directives whose first line is written whether or not a config_rec is.
LooksFor == LookedUp \cup (IF PR_USE_DSO THEN {"ModulePath"} ELSE {})

\* No directive is used twice.
OneLineEach(c) ==
  \A i, j \in DOMAIN c.lines : c.lines[i].directive = c.lines[j].directive => i = j

\* A config_rec that is written, if its line is found.
HasDirective(r) ==
  /\ r.name \notin Internal
  /\ r.config_type = "CONF_PARAM"
  /\ DirectiveOf(r) # NoDirective

\* How the handlers of the host add config_recs: of those a line makes, all of
\* them as deep, one has its directive, and no other line's; and there are no
\* config_recs for the lines that are looked up.  Lines that leave no config_rec,
\* and config_recs of no line, there may be.  This is not so in <Global>, whose
\* config_recs the host copies to every server.
MadeOfItsLines(c) ==
  /\ \A i \in DOMAIN c.lines : c.lines[i].arg # 0
  /\ \A s \in DOMAIN c.servers : \A n \in DOMAIN c.servers[s] :
       LET r == c.servers[s][n]
       IN  /\ r.from # 0 /\ r.config_type = "CONF_PARAM" =>
                /\ r.from \in DOMAIN c.lines
                /\ \E m \in DOMAIN c.servers[s] :
                     /\ HasDirective(c.servers[s][m])
                     /\ c.servers[s][m].from = r.from
                     /\ c.servers[s][m].depth = r.depth
           /\ HasDirective(r) =>
                \A i \in DOMAIN c.lines :
                  c.lines[i].directive = DirectiveOf(r) <=> i = r.from
           /\ HasDirective(r) /\ r.from # 0 =>
                /\ DirectiveOf(r) \notin LookedUp
                /\ \A t \in DOMAIN c.servers : \A m \in DOMAIN c.servers[t] :
                     HasDirective(c.servers[t][m]) /\ c.servers[t][m].from = r.from =>
                       t = s /\ m = n

ASSUME LintWriterHostAssumption ==
  \A c \in Configurations : OneLineEach(c) => MadeOfItsLines(c)

\* When no directive is used twice, every line that made config_recs, of a
\* section or not, whatever their names and however many, is written exactly
\* once, indented as deep as it was, in the section of its own server and not in
\* the other one (all virtual hosts share theirs); and what is written is either such a line, one that is looked up, or
\* a setting of the main server (lint_add_config_set, lint_cop_get_directive,
\* lint_find_parsed_line).
EmittedOnce ==
  Written /\ OneLineEach(input) =>
    /\ \A s \in DOMAIN input.servers : \A n \in DOMAIN input.servers[s] :
         LET c == input.servers[s][n]
         IN  c.from # 0 /\ c.config_type = "CONF_PARAM" =>
               /\ Times(LineOf(c), Section(SectionOf(s))) = 1
               /\ Times(LineOf(c), Section(OtherThan(s))) = 0
    /\ \A i \in DOMAIN input.lines : input.lines[i].directive \in LookedUp =>
         Times(Line(input.lines[i].directive, input.lines[i].arg, 0),
               Section("Server Config")) = 1
    /\ \A s \in {1, 2} : \A item \in ToSet(Section(SectionOf(s))) :
         \/ \E t \in DOMAIN input.servers : \E n \in DOMAIN input.servers[t] :
              /\ input.servers[t][n].from # 0
              /\ item = LineOf(input.servers[t][n])
         \/ s = 1 /\ item.name \in ToSet(SettingNames)

\* "Emitting normalized configs": whatever the order of the configuration, the
\* lines of a server's section are in the order of their texts.
Normalized ==
  Written =>
    \A s \in {1, 2} :
      LET lines == Section(SectionOf(s))
      IN  \A p, q \in DOMAIN lines : p < q => ~linecmp(lines[q], lines[p])

\* The caller is told of a failure exactly when some call failed, and by the
\* errno of that call, not by that of the close that follows it.
FailureReported ==
  stage = "done" =>
    /\ result = "error" <=> failed # "none"
    /\ errno = failed

\* The file is closed on every way out, and never twice.
HandleClosed ==
  /\ closes <= 1
  /\ stage = "done" => fh # "open"
  /\ fh = "closed" <=> closes = 1

\* Nothing is written behind a failure: what the disk holds is what had been
\* written before it.
NothingAfterFailure == [][failed # "none" => UNCHANGED file]_vars

\* "The real test: will ProFTPD read what we just wrote?" (t/lib/ProFTPD/Tests/
\* Modules/mod_lint.pm): the host refuses a section that is not closed.
SectionsClosed ==
  Written =>
    \A name \in {"IfModule", "Class"} :
      Times(Opening(name), file) = Times(Closing(name), file)

\* "Simply to write them back out, in order, generating the single config
\* file" (lint_parsed_line_ev): no recorded line that made a config_rec of the
\* main server is missing from the file.
WrittenBack ==
  Written =>
    \A n \in DOMAIN input.servers[1] :
      LET c == input.servers[1][n]
      IN  c.from # 0 /\ c.config_type = "CONF_PARAM" => Times(LineOf(c), file) > 0

\* The emission keeps the promise of LintEmission: at any moment, even if the
\* process is killed then, the disk holds the old file, a part, or the whole of
\* what is to be written, and only success or a lost text goes with the answer.
Disk ==
  IF file = OldContents THEN "old"
  ELSE IF stage \in {"close", "done"} /\ file = whole THEN "whole"
  ELSE "part"

Emission == INSTANCE LintEmission WITH
  disk <- Disk, lost <- shorts > 0, answer <- result

KeepsPromise == Emission!Spec
=============================================================================
