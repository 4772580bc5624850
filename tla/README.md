# mod_lint in TLA+

`mod_lint` is a ProFTPD module. While the host reads its configuration, the
module records each line it is told about and the `config_rec`s the line leads
to; when the configuration is complete it emits one normalised file with the
whole of it (`LintConfigFile`). This directory holds a TLA+ model of the module,
the TLC configurations that check it, and theorems about it that TLAPS checks.

Line numbers below are those of `src/mod_lint.c` unless another file is named.

## The system

| Component | State | Operations | Modelled by |
|---|---|---|---|
| Lifecycle and event listeners (785-994) | `lint_pool`, `parsed_lines`, `associated_configs`, `lint_engine`, the registered events | `lint_init`, `lint_added_config_ev`, `lint_parsed_line_ev`, `lint_postparse_ev`, `lint_restart_ev`, `lint_mod_unload_ev`, `lint_pool_cleanup` | `ModLint`, proofs in `ModLintProofs`, `ModLintRecordProofs` |
| Configuration handlers (750-780) | none; they add `config_rec`s | `set_lintconfigfile`, `set_lintengine` | `LintConf` |
| Lookup of recorded lines (87-119) | reads `parsed_lines` | `lint_find_parsed_line` and the loop its comment gives | `LintLines`, `LintFind`, proofs in `LintFindProofs` |
| Emission (121-744) | the file, its handle, buffered lines, context pools, `errno` | `lint_write_config` and one function for each section | `LintWriter`; its promise in `LintEmission`; its recursion in `LintWalk`; inside the module's life in `LintSystem`; proofs in `LintWriterProofs`, `LintWalkProofs`, `LintSystemProofs` |
| Text API (`lib/lint/text.c`) | none of its own | write a text, buffer a line, sort and write the buffer | `LintText`, proofs in `LintTextProofs`; as the emission uses it, `LintWriter` |
| Cop API (`lib/lint/cop.c`, `cop/core.c`, `cop/default.c`) | the member `m` of two static cops, which nothing reads | `config_rec` to cop to directive | `LintCop`, without `m` |
| Host (ProFTPD, not in this repository) | configuration, pools, events, modules | parses, adds `config_rec`s, restarts, loads and unloads | external actions of `ModLint` |
| Tests, build, documentation | | | not modelled |

### How the parts interact

Everything runs in one thread of one process. The host calls the module:

1. `lint_init`, at start for a static module, or in the middle of a
   configuration when a line says `LoadModule mod_lint.c`;
2. for each line, `core.parsed-line` *before* the line's handlers run;
3. for each `config_rec` a handler adds, `core.added-config`; the host also adds
   some of its own, before the first line and while it fixes up its servers;
4. `core.postparse` once the configuration is complete: the listener gives the
   dangling `config_rec`s to the last line, stops listening to both parse events,
   emits the file if asked to, and destroys its pool on every way out;
5. `core.restart` after SIGHUP, and `core.module-unload` for a shared module,
   in an order the module does not choose; then the configuration is read again;
6. `core.parsed-line` again for `.ftpaccess` files while sessions are served, and
   `core.module-unload` for other modules: the module must not react to either.

The emission reads the host's configuration tree, turns each `config_rec` into
the name of a directive (cop API), finds the first recorded line of that
directive (lookup), buffers it, sorts the buffer and writes it (text API).

### What is hard here

There is no concurrency in the module. The difficulty is the *protocol*: static
pointers into a pool that comes and goes, listeners that come and go, a
previous-line heuristic that depends on the order of events, and data of the
host (`config_rec`s) that a restart frees while the module keeps running. In the
emission it is partial failure: an open, a write or a close that fails, a write
that is cut short, a kill, and a file that an earlier emission has left. In the
text API it is two lengths of one text that may differ. In the lookup and the cops
it is the loss of information: a `config_rec` does not know its line, so it is found
again by a name.

What makes each component correct:

- lifecycle: one pool at most, no pointer outlives it, no listener follows a
  missing pointer; each line recorded once and in order; each line has exactly
  its own `config_rec`s; nothing of an earlier configuration is left; each
  configuration gets an answer and each pool is given back; nothing happens
  while the server runs;
- handlers: one Boolean argument, or one absolute path, in the server config;
- lookup: the loop skips no line of its directive;
- emission: each line of the configuration once and in its own server's section;
  sorted; errors reported with the `errno` of the call that failed; the file
  closed once; no write behind a failure; its recursion visits every `config_rec`
  once, with texts in pools that still exist when they are written;
- text API: nothing is written but the caller's text, as long as it fits; an
  answer of -1 goes with its cause; an answer of 0 says that no write has failed, and
  not that none was cut short;
- cops: a `config_rec` leads to the directive that made it, although it may have
  another name;
- together: the file is about one configuration, the one just read, and says all
  that the module has heard of; no step of an emission shows outside it.

## Modules

| Module | What it is |
|---|---|
| `LintConf` | the two handlers as operators from a command to an answer; `CHECK_ARGS`, `CHECK_CONF` and `get_boolean` of the host as they are used |
| `ModLint` | the module inside its host: one action per host step, one operator per listener |
| `ModLintProofs` | theorems about `ModLint`: types, memory, events |
| `ModLintRecordProofs` | theorems about `ModLint`: what is recorded and emitted |
| `LintLines` | `lint_find_parsed_line`, over the directives of the recorded lines |
| `LintFind` | the documented loop over it |
| `LintFindProofs` | theorems about `LintFind`: no line is skipped |
| `LintCop` | from a `config_rec` to a directive |
| `LintWriter` | the emission as a machine of stages, one per function, each with the writes it makes |
| `LintWriterProofs` | theorems about `LintWriter`: failures, the handle, the promise, the order of the lines, each of them once |
| `LintEmission` | what an emission promises, whatever is in the file |
| `LintWalk` | the recursion over a server's `config_rec`s, call by call, with its pools, up to the write of the buffer |
| `LintWalkProofs` | theorems about `LintWalk`, for every tree |
| `LintText` | the text API with sizes: every call, with every pointer missing or there |
| `LintTextProofs` | theorems about `LintText`: what is written, and the answers |
| `LintSystem` | `ModLint` with `LintWriter` running inside its `core.postparse` |
| `LintSystemProofs` | theorems about `LintSystem`: it is a `ModLint`, nothing is left, the file is of one configuration, and complete |
| `LintLemmas` | lemmas about sets of numbers and about sequences that the proofs share |
| `MCModLint`, `MCLintWriter`, `MCLintWalk`, `MCLintText`, `MCLintSystem` | constants for TLC; documents to emit; trees; texts |

`LintLines` and `LintCop` are extended by `LintWriter` and `LintWalk`; `LintWalk`
takes the items and the expected result of its walk from an instance of
`LintWriter`; `LintSystem` extends `ModLint` and instantiates `LintWriter`.
`LintWriter` implements `LintEmission`, and `LintSystem` implements `ModLint`.

### LintConf and the code

The handlers are operators that `ModLint` applies to every command there is
(`SetLintDirective`). Both are for the server config only (752, 768), although
`mod_lint.html` (46) gives `LintEngine` the contexts `<VirtualHost>` and `<Global>` too; the
model does as the code does.

### ModLint and the code

A pool is a number, 0 is `NULL`, and `made` numbers them. `live` is the set of
the module's pools that exist, `cleanup` those `lint_pool_cleanup` is registered
for. A static pointer is a record of the pool its target is in and the target:
`Dangling(ptr)` says that pool is gone. `DestroyLintPool` runs the cleanup as
`destroy_pool` does. The listeners touch memory under the conditions
`ParsedLineFaults`, `AddedConfigFaults` and `PostParseFaults`; a step in which one
of them holds takes the host to the phase `"faulted"`, which `NoFault` says is
never reached.

`parsed_lines.elts` is the list of recorded lines, `associated_configs.elts` what
has accumulated. A line's text, file and handling module are left out: its
number tells it from every other line. A `config_rec` has an identity, the line whose
handler added it (`by`, 0 for none), its kind, which is its type, its name, its server and
the number of sections it is in, and its value. `read`, `since` and
`outcome` are only there for the properties: the lines of this configuration, how
many came before the module was loaded, what the last `core.postparse` did.

The host may do what its handlers and its users may, as far as the module can tell. `ReadLine`
takes any directive, the misspelled included, in any order: a line's event
precedes its handlers, and a directive no module handles makes the host refuse
the configuration after its event. `AddConfig` lets a handler add any number of
`config_rec`s of any of the `Kinds` there are, whatever the directive is called, at the
top of any server or in a section of it (`Fits`); `AddHostConfig` adds such ones of no line,
as the host does before the first one and when it fixes up its servers. What no other
module adds is a `LintEngine` or a `LintConfigFile`. `LoadModule` can come on any line; `lint_engine` is then either
what it was (the dynamic linker kept the data) or fresh. `Restart` and `Unload`
come in either order. `Exit` ends the process anywhere. Registering an event twice
has the effect of registering it once, as in the host.

### LintWriter and the code

`stage` is the function of `lint_write_config` that is running and `queue` the
writes it has still to make; `Writes(stage)` is computed when the function is
entered, since nothing it reads changes meanwhile. An item is one line of text:
its kind, directive, argument and depth. Sorting compares depth, then the rank of
the directive, then the argument, which is `strcmp` on indented texts, a blank being
smaller than any letter. A tree of `config_rec`s is its preorder list with depths,
the order in which `lint_add_config_set` visits it. Each write can succeed, be cut
short (`MaxShort` bounds how often), or fail; `pr_fsio_open` and `pr_fsio_close` can
fail; a kill can come between any two steps.

`leftover` counts the context pools that a function did not destroy: the two early
returns of `lint_write_modules` (330, 351), the only two of their kind.

### LintWalk and the code

`LintWriter` takes a server's `config_rec`s for their preorder list. `LintWalk` has the
same list only to read the pointers `xas_list`, `subset` and `next` off it, and runs
`lint_add_config_set` (235-277) with a stack of calls: a call is the `config_rec` it is
at, what it does next with it, the depth of its indent, and the pool the indent is
in. `lint_add_config_rec` (178-233) is `SkipRec`, or `GetCop` and `AddLine`; the two
ways on are `Descend` and `NoDescent`. A `config_rec` without children may have no
subset, or an empty one: the code descends into the second. `live` is the set of
pools there are: the context pool, and one `iter_pool` for each running call but the
outermost. A call hands the pool it was given down to the next one (`p`), and a buffered line
remembers the pool it was allocated from. When the outermost call has returned, the
caller writes the buffer (`WriteLines`, 533) and destroys the context pool
(`DestroyContext`, 535, 539), whether the write failed or not; until then every buffered line has
to be alive.

### LintText and the code

A formatted text has two lengths: `kept`, the bytes of the copy in the array of
`LINT_BUFFER_SIZE`, and `textsz`, what `pr_vsnprintf` returned, as a `size_t`. A text is
its key and its length; the bytes of a copy are told apart only as its own and as
`foreign`, those a write takes from behind its NUL. `pr_vsnprintf` is external: it
formats all of the text, as much as fits, or nothing, when it returns -1 and the
array holds anything. `pr_fsio_write` is external too: it takes none, some or all
of what it is given, or fails; of `SIZE_MAX` bytes it cannot take all. `qsort` may leave any sorted order. Every function is
called with every combination of pointers, and in any order; the loop of
`lint_text_write_buffered_lines` is a step for each line. `errno` after a trace message
is any; the model keeps the saved copy the code puts back.

### LintSystem and the code

`lint_postparse_ev` is one action of `ModLint`. In `LintSystem` it is three: `StartEmission`,
the listener up to its call of `lint_write_config`; `EmissionStep`, any step of
`LintWriter`; `EndEmission`, from the answer to `destroy_pool`. A configuration that is not
emitted ends with `ModLint`'s own action. The input of the emission is what the
module has recorded and what the host has in its configuration: each server with its
`config_rec`s, in the order they were added, which stands for the order of the tree since what is
written for them is sorted. A line's text is
a number of its own for each line of each configuration, so that what is in the
file can be traced back to it. Only one thread runs: while `emitting`, nothing of the
host moves but a signal that ends the process. The file is the one thing that
survives the emission, restarts, and the process; the contents it starts with stand for
whatever an earlier process left in it, which covers a kill and a new start.

`before` is a history variable: what the listener found when it was called. With it
the system is shown to be a `ModLint` (`ImplementsModLint`): the emission's steps are
stutters, and `EndEmission` is the whole of `core.postparse`.

### Mutated variants

Some operators are preceded by variants marked `mutant`. Each is the operator
beside it with a mistake somebody could make, and is used by no definition. They
are kept to show that the properties notice such a mistake: with the variant in
place of the operator, TLC finds the property violated.

## What the runs check

| Run | Configuration | Shows |
|---|---|---|
| `modlint_static` | `ModLint_static.cfg` | types, `PoolSafety`, `NoFault`, `AttributionExact`, `RecordedExactly`, `NoStaleConfigs`, `EmissionHasItsLine`, `QuietWhileServing`, and under `FairSpec` `Released` and `Answered`, for a static module |
| `modlint_shared` | `ModLint_shared.cfg` | the same, but for the types, of a shared one, loaded on any line and unloaded by restarts |
| `find_loop` | `LintFind.cfg` | `VisitsInOrder`, `VisitsAll`: the documented loop skips no line |
| `writer` | `LintWriter.cfg` | `EmittedOnce`, `Normalized`, `FailureReported`, `HandleClosed`, `NothingAfterFailure`, and that `LintWriter` implements `LintEmission` (`KeepsPromise`), for every document of at most two lines and a few with every section |
| `text_api` | `LintText.cfg` | `ForeignOnlyFromLong`, `AnswerTellsCause`, `BufferWritten`: what any four calls write and answer |
| `walk` | `LintWalk.cfg` | `WalkIsPreorder`, `IndentPools`, `LinesAlive`: the recursion gives what `LintWriter` takes it to give, and ends on every tree |
| `system` | `LintSystem.cfg` | `OneConfiguration`, `NothingLeft`, `SystemAnswered`, and that `LintSystem` implements `ModLint` (`ImplementsModLint`) |
| `system_content` | `LintSystem_content.cfg` | `CompleteFile`: which lines of the configuration are in the file, over two servers and with `config_rec`s of other names than their directives |
| `find_loop_once` | `LintFind_once.cfg` | violated: the documented loop does not end when the last line is of its directive |
| `writer_sections` | `LintWriter_closed.cfg` | violated: `<IfModule>` is written where `</IfModule>` is meant (349) |
| `writer_back` | `LintWriter_back.cfg` | violated: of two lines of one directive the second is lost, the first written twice (207) |
| `system_late_load` | `LintSystem_late.cfg` | violated: a line before `LoadModule mod_lint.c` has a `config_rec` and is missing from the file (213) |

### Bounds

- `MaxLines = 4`, `MaxConfigs = 3`, `MaxRestarts = 2`, liveness included. Four
  lines hold `LoadModule`, both directives of the module, and one more before,
  between or after; three `config_recs` let one line have two while another has one;
  two restarts reach a second reload and a pool made lazily twice. One directive of
  another module and one misspelled one, and `config_rec`s of one kind besides the module's
  own: the code treats all others alike until it emits them.
- `MaxLength = 5` for the loop: every list of two directives up to five lines.
- `writer`: documents of up to two lines out of thirteen (two directives in
  either server, at the top or inside a section, with two arguments; one that adds
  two `config_rec`s of other names; three that are looked up or belong to the
  module), and of no or two lines with and without every optional section, one or three
  modules, and classes. A duplicate needs two lines, and so does a wrong section. One
  short write: a failure can be the first or come after it.
- `text_api`: an array of four bytes; texts that are empty, that fit it exactly with
  its NUL, that are one byte too long, and longer. Two buffered texts, of one key or
  of two, a write of the buffer and one more call take four calls; `SIZE_MAX` is 15, and
  only has to be more than any text.
- `walk`: every tree of up to four `config_rec`s, of eight kinds: parameters of two
  modules with recorded lines, of one without, one the heuristic knows, one of the
  host's own, one without a name, and sections without subset and with an
  empty one. Four reach a return over two levels and a sibling after it.
- `system`: `MaxLines = 3`, `MaxConfigs = 2`, one restart; one directive besides the two of
  the module, which is looked up as those two are not. Three lines are `LoadModule`,
  `LintConfigFile` and one that is heard of or not, before or after; the restart lets a
  second emission meet the first one's file. No write is cut short here (`MaxShort = 0`):
  `writer` has those.
- `system_content`: `MaxLines = 4`, `MaxConfigs = 3`, no restart, two servers. `User` makes
  `config_rec`s named `UserName`, at the top of the first server or in a section of the
  second; so does any other line, or none. Four lines are those of `system` and one more, so
  that a directive is used twice, before and after `LoadModule`; with the one of
  `LintConfigFile` three `config_rec`s are a section and one in it.
- `system_late_load`: two servers, three lines and two `config_rec`s: a line before
  `LoadModule`, that, and `LintConfigFile`.

Deadlock is checked by `walk`, where every tree must be walked to its end. Elsewhere
it is not: the host may exit, an emission ends, and a caller need not call.

### Fairness

`FairSpec` assumes weak fairness of `Progress`, the steps the host takes by itself
once it starts to read a configuration: reading is a loop over a finite file in
one thread, and each listener returns. That the file is finite is what
`MaxLines` and `MaxConfigs` stand for. `SystemFairSpec` assumes the same of
`SystemProgress`, which has the steps of the emission besides: they are loops over
finite lists in that thread, and each call of the filesystem returns. Nothing is
assumed of signals, `.ftpaccess` files, unloads and exits. `LintFind` assumes weak
fairness of its loop, which is code that runs to its end.

## What is proved

Each component has its theorems, all of them `Spec => []Inv` or `Spec => P` for a property
that a run checks, or for an inductive invariant they rest on. They hold for every
value of the constants that satisfies the module's assumption.

| Theorem | Property | Module |
|---|---|---|
| `SafeInvariant` | the inductive invariant `SafeInv` | `ModLintProofs` |
| `TypeCorrect` | `TypeOK` | |
| `PoolSafe` | `PoolSafety` | |
| `FaultFree` | `NoFault` | |
| `Quiet` | `QuietWhileServing` | |
| `FullInvariant` | the inductive invariant `FullInv`, on top of `SafeInv` | `ModLintRecordProofs` |
| `LinesRecorded` | `RecordedExactly` | |
| `ConfigsAttributed` | `AttributionExact` | |
| `NothingStale` | `NoStaleConfigs` | |
| `EmissionGrounded` | `EmissionHasItsLine` | |
| `FailuresReported` | `FailureReported` | `LintWriterProofs` |
| `HandlesClosed` | `HandleClosed` | |
| `FailuresStopWriting` | `NothingAfterFailure` | |
| `PromiseKept` | `KeepsPromise`: `LintWriter` implements `LintEmission` | |
| `FileNormalized` | `Normalized` | |
| `LinesEmittedOnce` | `EmittedOnce` | |
| `WalkInvariant` | the inductive invariant `WalkInv` | `LintWalkProofs` |
| `WalkInPreorder` | `WalkIsPreorder` | |
| `IndentPoolsKept` | `IndentPools` | |
| `LinesStayAlive` | `LinesAlive` | |
| `TextInvariant` | the inductive invariant `TextInv` | `LintTextProofs` |
| `ForeignBytesOnlyFromLongTexts` | `ForeignOnlyFromLong` | |
| `AnswersTellTheCause` | `AnswerTellsCause` | |
| `BufferedLinesAreWritten` | `BufferWritten` | |
| `VisitsTyped` | `TypeOK` of `LintFind` | `LintFindProofs` |
| `VisitedInOrder` | `VisitsInOrder` | |
| `SystemIsModLint` | `ImplementsModLint`: `LintSystem` implements `ModLint` | `LintSystemProofs` |
| `NothingIsLeft` | `NothingLeft` | |
| `FileOfOneConfiguration` | `OneConfiguration` | |
| `FileIsComplete` | `CompleteFile` | |

**`ModLint`**, for any sets of directives, either build, and any value of the three bounds,
from `ModLintAssumption`. `SafeInv` is `TypeOK /\ PoolInv /\ EventInv`. `NoFault` is far from
inductive: that no listener follows a missing pointer needs `PoolInv`, that the two lists
are in the pool `lint_pool` names or nowhere, that the array of accumulated
`config_rec`s is only made together with the first line, and that every live pool has
its cleanup; and `EventInv`, that a pool only exists while the module is loaded and a
configuration is read, which in turn needs to know which listeners are registered in
each phase.

`FullInv` adds `RecordInv`, that the n-th recorded line is the n-th line read since the
module was loaded, and `ConfigInv`, that each recorded line but the last has its own
`config_rec`s and those of the last one wait in the array. `AttributionExact` follows
from the two (lemma `Attribution`): the accumulated `config_rec`s belong to the line
whose number is `Len(read)`, which by `RecordInv` is the last one recorded. A
`config_rec` of `LintConfigFile` is only ever added while its own line is handled, which
is after the module recorded it (`AskedByALine`): that is why an emission has its line.

The lemmas follow the actions. `AttachKeeps` says what attaching `config_rec`s does to a
list of lines, `LineEventSafe` and `ConfigEventSafe` what the two parse listeners do,
`NothingWithoutPool` that nothing is recorded without a pool.

**`LintWriter`**, for any configuration to emit, either build and any number of short
writes. `FailureReported`, `HandleClosed` and `NothingAfterFailure` need no assumption. None
of them is inductive: each is about the end of an emission, or about any step after a
failure. `EmissionInv` says of each stage what the handle, `errno` and the answer are
(`StageInv`, `HandleInv`, `AnswerInv`): a failure empties the queue and leaves one way on, the
close that reports it. `AfterAStage` says that no stage has writes left once the functions
have all returned.

The other three need `LintWriterAssumption`: the directives have an order, and the
configurations are such as the host has (`IsConfiguration`). `RunInv` adds to `EmissionInv`
what is on the disk (`DiskInv`): until a write is cut short, what is in the file and what is
still in the queue are together what the functions called so far are to write, and after one
the file holds a cut text and can never be taken for a whole one (`CutIsNotWhole`).
`PromiseInv` has besides what was there before the file is opened (`OldInv`). With it each
step of the emission is a step or a stutter of `LintEmission` (`PromiseStep`).

`Normalized` is about the finished file, which is cut back into sections by the titles in
it. `ContentInv` adds to `RunInv` that the functions called so far have written their
`Part`s in order and nothing else. Which titles a part can hold follows from what each
function writes (`WritesCovered`, `PartTitles`), so that each server's section is found
whole between its title and the next (`SectionIs`, `ServerSections`); its lines are the
buffer in another order (`SortedLines`), in which none comes before a smaller one.
`LinecmpOrder` says that `buffered_linecmp` is a strict weak order, without which a sorted
buffer would mean nothing.

`EmittedOnce` also needs `LintWriterHostAssumption`, what the host's handlers do with a line in
a configuration that uses no directive twice: of the `config_rec`s a line makes, all
equally deep and of one server, one has the line's directive and no other line's
(`MadeOfItsLines`); and the directives that are looked up by name make none. Lines without a
`config_rec`, `config_rec`s of no line, and a line with several of any name are all allowed.
A line of `<Global>` is not, whose `config_rec`s the host copies into each server, so that
the code writes it as often. TLC evaluates the assumption on the documents of each run of
`LintWriter`. The proof counts: `OnceConcat`, `FlattenOnce` and `OnceRearranged`
(`LintLemmas`) say how often something is in a concatenation and in a sorted buffer,
`OneRecordEach` that one of a server's `config_rec`s writes the line, `ServerNever` that those
of the others write it never, and `SettingLines` that a setting is never taken for it.
`SectionOnce` puts the sections between the titles together. `LineWritten` says the same of
a configuration whose directives may repeat: a line of it is in the whole file just when
it is the first of its directive and that directive is looked up or a `config_rec` writes it.

**`LintWalk`**, for every tree, of any size and shape, and any lines, from
`LintWalkAssumption`. `WalkInv` relates the stack of calls to the tree: `Path` says that each
call is at a `config_rec` that is a child of the one the call below it is at,
`BufferInv` that what is buffered is what `LintWriter` gives for a prefix of the preorder
list, whose end, `pos`, depends on what the top call has done (`DoneWith`), and `PoolInv`
that the live pools are exactly those of the running calls, in the order of the stack.
That each call has been handed the context pool, which outlives them all, is part of `Path`,
and that every buffered line was allocated from it, of `BufferInv`. `StageInv` says that the
caller goes on only when the outermost call has returned. `LinesAlive` follows: until the
caller destroys the context pool, whatever is still to be written is in it.
That the recursion is the preorder walk is then its case of an empty stack. The
lemmas on trees (`TreeShape`, `FirstBelow`, `NextAfter`) say what the pointers `subset` and
`next` are in the preorder list: the first below, and the first behind all that are below.

**`LintText`**, for any size of the array and of `size_t`, any texts, any number and order
of calls, from `LintTextAssumption`. `ForeignOnlyFromLong` follows from what each function
does to its text (`FormatHonest`, `ChunkHonest`). `AnswerTellsCause` is a part of `TextInv`,
since the loop answers for a call made some steps earlier (`WriteTextAnswers`).
`BufferWritten` needs the loop: `LoopInv` says that what the call has put on the disk are
the texts of the first lines of the sorted buffer, in their order and without the empty
ones, `SameLines` that sorting has kept every line, and `EndInv` where the loop has stopped.
Both also say that a text is whole on the disk if no write was short, and only then: an
answer of 0 is that of a whole buffer just when none was.

**`LintFind`**, for any list of lines and any directive, from `LintFindAssumption`. `FindInv`:
the lines visited are the first of those of the directive, in order, and the loop is at
the next; or it has come around to the first, which it does when the last line of all is
one of them (`ComeAround`). The theorem says that no line is skipped before that.

**`LintSystem`**, from `ModLintAssumption`. `SystemInv` has `FullInv` between emissions, and
during one `EmittingInv`, what the module is like while its listener is in the emission,
`FoundBefore`, that this is what `core.postparse` makes of the state `before`, but for what
the answer brings, and `HandleInv`, where the emission has its file. Each step
is a step or a stutter of `ModLint`, with `before` for the module's state while the
emission runs; so what is proved of `ModLint` holds of the system.

`OneConfiguration` needs `LintSystemAssumption` too: every directive has its place in the
order. Its invariant is `ContentInv`: the host reads at most `MaxLines` lines (`BoundsInv`),
so that a line's text tells its configuration (`Quotient`, `TextTells`); what an emission was
given is of the configuration being read (`InputInv`), and so is all that its functions
write, by `WritesCovered` of `LintWriterProofs` (`WritesOfInput`); from the moment the file
is open it holds of nothing else (`WritingInv`), and whatever the emission comes to,
the next one truncates the file before it writes (`FileInv`).

`CompleteFile` needs the rest of `LintSystemAssumption`: the server of each kind of
`config_rec` is one of the `Servers`, and none is turned into `LoadModule`. The names, the
types, the depth and the values are any. `WholeFileInv` carries what was true when the
emission started to the moment its success is known. The `config_rec`s have different
identities, in the order they were made (`NamesInv`, a part of `ContentInv`) and are of
kinds there are (`KindsMade`), so that the lists the emission is given, one for each server,
have each of them once (`NthIs`, `ServerConfIs`). What it is given has a line for every line
read since the module was loaded, which is `RecordedExactly`, and for each server a
`config_rec` for every one there is of that server (`GivenInv`). And the emission inside
`core.postparse` is one of `LintWriter`: `SameEmit` maps its steps, so that `ContentInv` of
`LintWriterProofs`, which does not depend on where the input came from, holds here too
(`RunAtStart`, `RunKept`), and an answer of success means that the whole file was written.
What is left is which lines that file has. A `config_rec` leads to a line of it just when
the module makes an item of it, by the name its cop gives (`RecordIs`, `RecordWrites`,
`LineInFile`); then `LineWritten`, with the first line of a directive in the list being the
first since `LoadModule` (`FirstWritten`), and no text standing for two lines (`TextTells`).
The equivalence says both that nothing the module heard of is lost and that nothing it did
not hear of, or heard of a second time, is there.

**Induction.** Where a proof goes over the length of a list, it is over a set of numbers
that has 0 and with n also n + 1 (`LintLemmas`, from the well-foundedness of `<`). On it rest
the lemmas about `FlattenSeq`, which defines its result by recursion: that this function
exists (`FlattensExists`), and how it goes with `Append` and `\o`. `Places` counts: of n lines
in a strict order with ties broken, exactly one has k - 1 before it.
### What is only model-checked

- the liveness properties `Released`, `Answered`, `VisitsAll` and `SystemAnswered`: liveness
  under fairness is out of the prover's reach;
- the configuration handlers and the cops, on their own: operators of the models above.

## What is not modelled

- The layout and wording of the file, and trace messages. Each text is one item.
- Texts longer than the array in the emission: `LintWriter` takes each text for one that
  fits; what happens to a longer one is in `LintText`.
- The other failures of the walk: `lint_text_add_fmt` answers -1 only for a missing pointer
  (`AnswerTellsCause`), and the walk has none missing, so that its error paths are
  never taken.
- The `errno` of a cop lookup that finds nothing, and the member `m` of the two static
  cops (`lib/lint/cop.c`, 103): nothing reads either.
- What `destroy_pool` does to `errno`: between a failing call and the `close` behind it a
  section's function destroys its pool, which is taken to leave `errno` alone.
- A host that removes `config_rec`s of the configuration it is reading.
- Out of memory: the host's pools end the process.
- The unit tests and the stubs of the host they link (`t/api/`), the integration tests,
  the build and the documentation: not part of the running module. `LintText` makes
  the calls of the text API's tests.

## Plan

Done: `LintConf`, `ModLint`, `LintLines`, `LintFind`, `LintCop`, `LintEmission`, `LintWriter`,
`LintWalk`, `LintText`, `LintSystem`, and the theorems above: every invariant, action
property and refinement of a passing run has its theorem. What is left to TLC is liveness.
