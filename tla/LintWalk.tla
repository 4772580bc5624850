------------------------------ MODULE LintWalk -------------------------------
(***************************************************************************)
(* The walk over a server's config_recs (src/mod_lint.c): the recursion of *)
(* lint_add_server_rec, lint_add_config_set and lint_add_config_rec, step  *)
(* by step, with the pools its texts live in, up to the write of what it   *)
(* has buffered and the end of the context pool, which its callers do.     *)
(*                                                                         *)
(* LintWriter takes the tree for its preorder list, and the walk for one   *)
(* pass over that list.  Here the tree is walked along its pointers.       *)
(***************************************************************************)
EXTENDS LintCop, LintLines, SequencesExt

CONSTANTS
  Trees,      \* the trees of config_recs: see below
  Lines       \* the recorded lines, [directive, arg], as in LintWriter

(***************************************************************************)
(* A tree is the list of its config_recs in preorder, [config_type, name,  *)
(* depth, empty]; empty tells the one without children whose subset is a   *)
(* set with nothing in it from the one whose subset is NULL.  A server     *)
(* without configuration is the tree without config_recs.  The list begins *)
(* at the top, and a config_rec is at most one deeper than the one before. *)
(***************************************************************************)
ConfigRecs == [config_type : STRING, name : STRING, depth : Nat, empty : BOOLEAN]

IsTree(list) ==
  /\ list \in Seq(ConfigRecs)
  /\ \A n \in DOMAIN list :
       list[n].depth <= IF n = 1 THEN 0 ELSE list[n - 1].depth + 1

ASSUME LintWalkAssumption ==
  /\ \A list \in Trees : IsTree(list)
  /\ Lines \in Seq([directive : STRING \ {NoDirective}, arg : Nat])

VARIABLES
  tree,
  stack,           \* the running calls of lint_add_config_set, the last on top
  cop,             \* the cop in hand
  stage,           \* of the caller: "walk", "written" or "over"
  buffered_lines,  \* what has been buffered: the item, and the pool it is in
  live,            \* the pools that exist
  made             \* pools ever made

vars == <<tree, stack, cop, stage, buffered_lines, live, made>>

\* What LintWriter says of the same lines.
Writer == INSTANCE LintWriter WITH
  Configurations <- {}, Rank <- [name \in STRING |-> 0], Static <- {}, PR_USE_DSO <- TRUE,
  PR_USE_CTRLS <- TRUE, MaxShort <- 0,
  input <- [lines |-> Lines], stage <- "server", queue <- <<>>, fh <- "open",
  file <- <<>>, errno <- "none", result <- "none", leftover <- 0,
  failed <- "none", shorts <- 0, closes <- 0, whole <- <<>>

-----------------------------------------------------------------------------
(* The pointers of the tree; NULL is 0. *)

NULL == 0
Depth(n) == IF n = NULL THEN -1 ELSE tree[n].depth

\* set->xas_list, of the subset of n, or of the server's conf when n is NULL.
xas_list(n) ==
  IF n + 1 \in DOMAIN tree /\ Depth(n + 1) = Depth(n) + 1 THEN n + 1 ELSE NULL

\* Is c->subset not NULL?
HasSubset_Sections(n) ==   \* mutant: only the sections are descended into
  tree[n].config_type # "CONF_PARAM" /\ (tree[n].empty \/ xas_list(n) # NULL)

HasSubset(n) == tree[n].empty \/ xas_list(n) # NULL

\* c->next
NextConfig(n) ==
  LET up == {m \in DOMAIN tree : m > n /\ tree[m].depth <= tree[n].depth}
  IN  IF up # {} /\ tree[Min(up)].depth = tree[n].depth THEN Min(up) ELSE NULL

-----------------------------------------------------------------------------
(* The recursion *)

ctx_pool == 1
StaticText == 0     \* the "" of the outermost call is in no pool

\* A call: the pool it is given, the config_rec it is at, what it does next with
\* it, the depth of its indent, and the pool that text is in.
Call(p, set, depth, pool) ==
  [p |-> p, c |-> xas_list(set), at |-> "rec", depth |-> depth, indent |-> pool]

Top == stack[Len(stack)]
Current == tree[Top.c]
At(where) == stack # <<>> /\ Top.c # NULL /\ Top.at = where
GoOn(where) == stack' = [stack EXCEPT ![Len(stack)].at = where]

Init ==
  /\ tree \in Trees
  /\ stack = <<Call(ctx_pool, NULL, 0, StaticText)>>
  /\ cop = NoCop
  /\ stage = "walk"
  /\ buffered_lines = <<>>
  /\ live = {ctx_pool}
  /\ made = 1

\* lint_add_config_rec: names of the host's own, and sections, are passed over.
SkipRec ==
  /\ At("rec")
  /\ Current.name \in Writer!Internal \/ Current.config_type # "CONF_PARAM"
  /\ GoOn("subset")
  /\ UNCHANGED <<tree, cop, stage, buffered_lines, live, made>>

GetCop ==
  /\ At("rec")
  /\ Current.name \notin Writer!Internal /\ Current.config_type = "CONF_PARAM"
  /\ cop' = lint_cop_get_config_cop(Current)
  /\ GoOn("directive")
  /\ UNCHANGED <<tree, stage, buffered_lines, live, made>>

\* The line is copied to the pool the call was given.
AddLine ==
  /\ At("directive")
  /\ LET directive == lint_cop_get_directive(cop, Current)
         line == lint_find_parsed_line([i \in DOMAIN Lines |-> Lines[i].directive],
                                       directive, NoLine)
     IN  buffered_lines' =
           IF line = NoLine
           THEN buffered_lines
           ELSE Append(buffered_lines,
                  [item |-> Writer!Line(directive, Lines[line].arg, Top.depth),
                   pool |-> Top.p])
  /\ cop' = NoCop
  /\ GoOn("subset")
  /\ UNCHANGED <<tree, stage, live, made>>

\* iter_pool is made for the indent of the call below, which goes on with the
\* pool of this one.
Descend_IterPool ==   \* mutant: iter_pool is the pool it is given, too
  /\ At("subset")
  /\ HasSubset(Top.c)
  /\ made' = made + 1
  /\ live' = live \cup {made + 1}
  /\ stack' = Append([stack EXCEPT ![Len(stack)].at = "next"],
                     Call(made + 1, Top.c, Top.depth + 1, made + 1))
  /\ UNCHANGED <<tree, cop, stage, buffered_lines>>

Descend ==
  /\ At("subset")
  /\ HasSubset(Top.c)
  /\ made' = made + 1
  /\ live' = live \cup {made + 1}
  /\ stack' = Append([stack EXCEPT ![Len(stack)].at = "next"],
                     Call(Top.p, Top.c, Top.depth + 1, made + 1))
  /\ UNCHANGED <<tree, cop, stage, buffered_lines>>

NoDescent ==
  /\ At("subset")
  /\ ~HasSubset(Top.c)
  /\ GoOn("next")
  /\ UNCHANGED <<tree, cop, stage, buffered_lines, live, made>>

Advance ==
  /\ At("next")
  /\ stack' = [stack EXCEPT ![Len(stack)].c = NextConfig(Top.c),
                            ![Len(stack)].at = "rec"]
  /\ UNCHANGED <<tree, cop, stage, buffered_lines, live, made>>

\* The list is at its end, or was empty; the caller destroys its iter_pool.
Return_Kept ==   \* mutant: it does not
  /\ stack # <<>> /\ Top.c = NULL
  /\ stack' = Front(stack)
  /\ UNCHANGED <<tree, cop, stage, buffered_lines, live, made>>

Return ==
  /\ stack # <<>> /\ Top.c = NULL
  /\ stack' = Front(stack)
  /\ live' = live \ {Top.indent}
  /\ UNCHANGED <<tree, cop, stage, buffered_lines, made>>

\* lint_add_server_rec has returned, and its caller writes the buffer, all of it
\* or up to a write that fails.
WriteLines ==
  /\ stack = <<>> /\ stage = "walk"
  /\ stage' = "written"
  /\ UNCHANGED <<tree, stack, cop, buffered_lines, live, made>>

\* Either way it destroys its context pool.
DestroyContext ==
  /\ stage = "written"
  /\ stage' = "over"
  /\ live' = live \ {ctx_pool}
  /\ UNCHANGED <<tree, stack, cop, buffered_lines, made>>

\* Any other state without a step is a deadlock.
Done == stage = "over" /\ UNCHANGED vars

Next ==
  \/ SkipRec \/ GetCop \/ AddLine \/ Descend \/ NoDescent \/ Advance \/ Return
  \/ WriteLines \/ DestroyContext \/ Done

Spec == Init /\ [][Next]_vars

-----------------------------------------------------------------------------
(* Properties *)

\* At its end the walk has buffered what one pass over the preorder list gives,
\* in that order and with those depths: each config_rec once, those below skipped
\* ones and parameters included, and each with the indent of its own depth after
\* any number of returns (lint_add_config_set of LintWriter).
WalkIsPreorder ==
  stack = <<>> =>
    [n \in DOMAIN buffered_lines |-> buffered_lines[n].item]
      = Writer!lint_add_config_set(tree)

\* The indent of every running call is in a pool that exists, and no other pool
\* but the context pool does: each is destroyed when its call has returned, and
\* not before; and at the end none of them is left.
IndentPools ==
  live = (IF stage = "over" THEN {} ELSE {ctx_pool})
           \cup ({stack[n].indent : n \in DOMAIN stack} \ {StaticText})

\* Until the buffer has been written every line in it, which was allocated from
\* the pool handed down to the call that added it, is in a pool that still exists,
\* although by then that call has returned and the pools made on the way to it are
\* destroyed.
LinesAlive ==
  stage = "walk" => \A n \in DOMAIN buffered_lines : buffered_lines[n].pool \in live
=============================================================================
