------------------------------ MODULE LintText -------------------------------
(***************************************************************************)
(* The text API (src/lib/lint/text.c) with its sizes: what is written of a *)
(* text, what is buffered of it, and how a call answers.                   *)
(*                                                                         *)
(* A text is what the caller's format and arguments stand for: a key, by   *)
(* which strcmp orders texts, and a length; of two texts of one key the    *)
(* shorter is a prefix of the longer.  The API formats it into an array of *)
(* LINT_BUFFER_SIZE bytes, and keeps two things: the copy in the array, a  *)
(* string, and the length it was told.  They agree when the text fits.     *)
(***************************************************************************)
EXTENDS Integers, FiniteSetsExt, SequencesExt

CONSTANTS
  Texts,             \* what callers write: records [key, len]
  LINT_BUFFER_SIZE,
  SIZE_MAX,          \* the largest size_t, which is also what a -1 becomes
  MaxCalls           \* bound: calls of the API

ASSUME LintTextAssumption ==
  /\ LINT_BUFFER_SIZE \in Nat /\ LINT_BUFFER_SIZE >= 2
  /\ SIZE_MAX \in Nat /\ SIZE_MAX > LINT_BUFFER_SIZE
  /\ MaxCalls \in Nat
  /\ Texts \subseteq [key : Nat \ {0}, len : 0 .. SIZE_MAX - 1]

VARIABLES
  buffered_lines,  \* the caller's array of struct lint_buffered_line
  disk,            \* what has been written: see Chunk
  errno,
  i,               \* the loop variable of lint_text_write_buffered_lines; 0 outside
  call,            \* the last call: its function, which of the pointers it was
                   \* given are NULL, and its answer once it has one
  \* What the properties look at.
  added,           \* what the calls of lint_text_add_fmt formatted, in order
  cause,           \* the errno of the write of the last call that failed, or "none"
  short,           \* the texts of the last call of which a write took only a part
  mark,            \* how much was on the disk when the last call began
  held,            \* the buffered lines when the last call began
  calls            \* how many calls

vars == <<buffered_lines, disk, errno, i, call, added, cause, short, mark, held, calls>>

-----------------------------------------------------------------------------
(* Texts *)

NULL == "NULL"
NoText == [key |-> 0, len |-> 0]
NoString == [key |-> 0, len |-> 0, kept |-> 0, textsz |-> 0]

\* A formatted text, struct lint_buffered_line: of the text of that key and
\* length the copy has the first kept bytes, and textsz is what pr_vsnprintf
\* returned.  A key of 0 is garbage.
Formatted == [key : Nat, len : Nat, kept : Nat, textsz : 0 .. SIZE_MAX]

\* pr_vsnprintf (external) is given one byte less than there is, and uses one
\* for the NUL; it returns the length of the text, or -1 when it cannot format
\* it, and then the array holds anything up to the NUL the API puts at its end.
pr_vsnprintf(text) ==
  {[key |-> text.key, len |-> text.len,
    kept |-> Min({text.len, LINT_BUFFER_SIZE - 2}), textsz |-> text.len]}
  \cup
  [key : {0}, len : {0}, kept : {0, LINT_BUFFER_SIZE - 1}, textsz : {SIZE_MAX}]

Format_Full(text) ==   \* mutant: the size of the array, not of the text
  {[f EXCEPT !.textsz = LINT_BUFFER_SIZE - 1] : f \in pr_vsnprintf(text)}

Format(text) == pr_vsnprintf(text)

\* strcmp(a, b) < 0, of the copies.
Before(a, b) ==
  /\ b.kept # 0
  /\ \/ a.kept = 0
     \/ a.key < b.key
     \/ a.key = b.key /\ a.kept < b.kept

\* What n bytes of a formatted text are on the disk: own bytes of its copy, and
\* foreign ones from behind it.  A garbage copy is all foreign.
Chunk(f, n) ==
  LET own == IF f.key = 0 THEN 0 ELSE Min({n, f.kept})
  IN  [of |-> f, own |-> own, foreign |-> n - own]

-----------------------------------------------------------------------------
(* The functions *)

\* The answers a function can give: what it returns, the errno it leaves, what
\* it puts on the disk, and of its write, the errno it failed with and the text it
\* took only a part of.
Answer(res, err, put, why, cut) ==
  [res |-> res, errno |-> err, put |-> put, why |-> why, cut |-> cut]
Nothing == Answer(0, errno, <<>>, "none", {})
EINVAL == Answer(-1, "EINVAL", <<>>, "none", {})

\* errno as it is put back after a trace message, which may have changed it.
Restored_Not(xerrno, traced) == traced   \* mutant: it is not

Restored(xerrno, traced) == xerrno

Rest(text, n) == IF n = text.textsz THEN {} ELSE {text}

\* pr_fsio_write (external) takes some of the bytes, or fails; nothing has
\* SIZE_MAX bytes to take.
lint_text_write_text(fh, text) ==
  IF fh = NULL \/ text = NoString THEN {EINVAL}
  ELSE IF text.textsz = 0 THEN {Nothing}
  ELSE {Answer(n, Restored(e, e), <<Chunk(text, n)>>, "none", Rest(text, n)) :
          n \in {0, 1, text.textsz} \ {SIZE_MAX}, e \in {errno, "ETRACE"}}
       \cup
       {Answer(-1, Restored("EWRITE", e), <<>>, "EWRITE", {}) :
          e \in {"EWRITE", "ETRACE"}}

\* lint_text_write_fmt, with the lint_text_write_msg it calls.
lint_text_write_fmt(fh, fmt) ==
  IF fh = NULL \/ fmt = NoText THEN {EINVAL}
  ELSE UNION {lint_text_write_text(fh, f) : f \in Format(fmt)}

-----------------------------------------------------------------------------
(* The calls *)

Idle == i = 0

Init ==
  /\ buffered_lines = <<>>
  /\ disk = <<>>
  /\ errno = "none"
  /\ i = 0
  /\ call = [name |-> "none", missing |-> {}, res |-> 0]
  /\ added = <<>>
  /\ cause = "none"
  /\ short = {}
  /\ mark = 0
  /\ held = <<>>
  /\ calls = 0

Begin ==
  /\ Idle
  /\ calls < MaxCalls
  /\ calls' = calls + 1
  /\ mark' = Len(disk)
  /\ held' = buffered_lines

\* The call returns that answer, or has it of one of its writes.
Return(name, missing, answer) ==
  /\ call' = [name |-> name, missing |-> missing, res |-> answer.res]
  /\ errno' = answer.errno
  /\ disk' = disk \o answer.put
  /\ cause' = answer.why
  /\ short' = answer.cut \cup IF Idle THEN {} ELSE short

\* The pointer of that name among a call's missing ones, when it is NULL.
Pointer(name, null) == IF null THEN {name} ELSE {}

\* Called by itself, with a string and its length, as lint_write_header does.
WriteText(fh, text) ==
  /\ Begin
  /\ \E answer \in lint_text_write_text(fh, text) :
       Return("write_text", Pointer("fh", fh = NULL) \cup Pointer("text", text = NoString),
              answer)
  /\ UNCHANGED <<buffered_lines, i, added>>

WriteFmt(fh, fmt) ==
  /\ Begin
  /\ \E answer \in lint_text_write_fmt(fh, fmt) :
       Return("write_fmt", Pointer("fh", fh = NULL) \cup Pointer("fmt", fmt = NoText),
              answer)
  /\ UNCHANGED <<buffered_lines, i, added>>

\* lint_text_add_fmt, with the lint_text_add_msg it calls: the line is a copy
\* of the array, and the length.
AddFmt(p, list, fmt) ==
  /\ Begin
  /\ LET missing == Pointer("p", p = NULL) \cup Pointer("list", list = NULL)
                      \cup Pointer("fmt", fmt = NoText)
     IN  IF p = NULL \/ list = NULL \/ fmt = NoText
         THEN /\ Return("add_fmt", missing, EINVAL)
              /\ UNCHANGED <<buffered_lines, added>>
         ELSE \E f \in Format(fmt) :
                /\ buffered_lines' = Append(buffered_lines, f)
                /\ added' = Append(added, f)
                /\ Return("add_fmt", missing, Nothing)
  /\ UNCHANGED i

\* The orders qsort may leave: it is not stable, and texts cut to the same copy
\* are equal.
Sorted(lines) ==
  {s \in {[n \in DOMAIN lines |-> lines[p[n]]] :
            p \in Bijection(DOMAIN lines, DOMAIN lines)} :
     \A m, n \in DOMAIN s : m < n => ~Before(s[n], s[m])}

\* lint_text_write_buffered_lines up to its loop.
WriteBuffered(fh, list) ==
  /\ Begin
  /\ Return("write_buffered", Pointer("fh", fh = NULL) \cup Pointer("list", list = NULL),
            IF fh = NULL THEN EINVAL ELSE Nothing)
  /\ IF fh = NULL \/ list = NULL
     THEN UNCHANGED <<buffered_lines, i>>
     ELSE /\ buffered_lines' \in Sorted(buffered_lines)
          /\ i' = 1
  /\ UNCHANGED added

\* One turn of it: the first failing write ends it.
Turn_GoesOn ==   \* mutant: the answer of the write is not looked at
  /\ i \in DOMAIN buffered_lines
  /\ \E answer \in lint_text_write_text("fh", buffered_lines[i]) :
       /\ Return("write_buffered", {}, [answer EXCEPT !.res = 0])
       /\ i' = i + 1
  /\ UNCHANGED <<buffered_lines, added, mark, held, calls>>

Turn ==
  /\ i \in DOMAIN buffered_lines
  /\ \E answer \in lint_text_write_text("fh", buffered_lines[i]) :
       /\ Return("write_buffered", {}, [answer EXCEPT !.res = Min({@, 0})])
       /\ i' = IF answer.res < 0 THEN 0 ELSE i + 1
  /\ UNCHANGED <<buffered_lines, added, mark, held, calls>>

EndOfLoop ==
  /\ i > Len(buffered_lines)
  /\ i' = 0
  /\ Return("write_buffered", {}, Nothing)
  /\ UNCHANGED <<buffered_lines, added, mark, held, calls>>

\* What WriteText is called with: a string and its length.
Strings == {[key |-> t.key, len |-> t.len, kept |-> t.len, textsz |-> t.len] :
              t \in Texts}

Next ==
  \/ \E fh \in {NULL, "fh"} :
       \/ \E text \in {NoString} \cup Strings : WriteText(fh, text)
       \/ \E fmt \in {NoText} \cup Texts : WriteFmt(fh, fmt)
       \/ \E list \in {NULL, "list"} : WriteBuffered(fh, list)
  \/ \E p \in {NULL, "pool"}, list \in {NULL, "list"}, fmt \in {NoText} \cup Texts :
       AddFmt(p, list, fmt)
  \/ Turn
  \/ EndOfLoop

Spec == Init /\ [][Next]_vars

-----------------------------------------------------------------------------
(* Properties *)

\* Nothing but the bytes of its text is ever written for a text that fits the
\* array with its NUL, whether at once or from the buffer: textsz, which the
\* write trusts, is then the length of the copy.  Only a text that is too long,
\* by one byte already, or that cannot be formatted is followed by bytes from
\* behind its copy (lint_text_write_msg, lint_text_add_msg).
ForeignOnlyFromLong ==
  \A n \in DOMAIN disk :
    disk[n].foreign > 0 =>
      disk[n].of.key = 0 \/ disk[n].of.len > LINT_BUFFER_SIZE - 2

\* The pointers a function cannot do without: write_buffered_lines can without
\* its list.
Needed ==
  [write_text |-> {"fh", "text"}, write_fmt |-> {"fh", "fmt"},
   add_fmt |-> {"p", "list", "fmt"}, write_buffered |-> {"fh"}]

\* A call answers -1 exactly when a pointer it needs is NULL or a write of it has
\* failed, and errno says which, whatever a trace message in between did to it.  A
\* call that is given a NULL, needed or not, touches neither the disk nor the
\* buffer.
AnswerTellsCause ==
  Idle /\ call.name # "none" =>
    LET refused == call.missing \cap Needed[call.name] # {}
    IN  /\ call.res < 0 <=> refused \/ cause # "none"
        /\ call.res < 0 => errno = IF refused THEN "EINVAL" ELSE cause
        /\ call.missing # {} => Len(disk) = mark /\ buffered_lines = held

\* The lines that have a text.
Nonempty(lines) ==
  FlattenSeq([n \in DOMAIN lines |->
    IF lines[n].textsz = 0 THEN <<>> ELSE <<lines[n]>>])

\* What a call of lint_text_write_buffered_lines puts on the disk is, in the
\* order of their texts, of each line with a text one write, until one fails: of
\* all of them when it answers 0, and of fewer when it answers -1.  Each is all of
\* its text only if no write took less than it was given, which the answer does not
\* tell: 0 means that no write has failed, not that the lines are on the disk.  The
\* buffer keeps every line, for the next call.
BufferWritten ==
  Idle /\ call.name = "write_buffered" /\ call.missing = {} =>
    LET put == [n \in 1 .. Len(disk) - mark |-> disk[mark + n]]
        of == [n \in DOMAIN put |-> put[n].of]
        lines == Nonempty(buffered_lines)
        whole == [n \in DOMAIN lines |-> Chunk(lines[n], lines[n].textsz)]
    IN  /\ buffered_lines \in Sorted(added)
        /\ IsPrefix(of, lines)
        /\ call.res = 0 <=> of = lines
        /\ call.res = 0 /\ short = {} <=> put = whole
=============================================================================
