--------------------------- MODULE LintWalkProofs ----------------------------
(***************************************************************************)
(* Theorems about LintWalk, for every tree of config_recs, of any size.    *)
(***************************************************************************)
EXTENDS LintWalk, LintLemmas

\* The depth of a config_rec of the tree t; the server's conf is above them all.
DepthIn(t, n) == IF n = NULL THEN -1 ELSE t[n].depth

\* Those after n, up to m, are below n.
Below(t, m, n) == \A l \in n + 1 .. m : t[l].depth > DepthIn(t, n)

\* The last of those below n, or n itself, is the pos-th of the preorder list.
EndsAt(t, n, pos) ==
  /\ n <= pos /\ pos <= Len(t)
  /\ Below(t, pos, n)
  /\ pos = Len(t) \/ t[pos + 1].depth <= DepthIn(t, n)

\* Every call is given the context pool.
Calls(t) == [p : {ctx_pool}, c : 0 .. Len(t), at : {"rec", "directive", "subset", "next"},
             depth : Nat, indent : Nat]

\* The set that the k-th of the running calls s walks is the subset of this
\* config_rec, or the server's conf.
SetOf(s, k) == IF k = 1 THEN NULL ELSE s[k - 1].c

\* The k-th of them may be at c.
MayBeAt(t, s, k, c) ==
  c # NULL => t[c].depth = k - 1 /\ SetOf(s, k) < c /\ Below(t, c, SetOf(s, k))

\* The running calls walk down one path of the tree, each one deeper than the one
\* that called it.
Path(t, s) ==
  /\ s \in Seq(Calls(t))
  /\ \A k \in 1 .. Len(s) :
       /\ s[k].depth = k - 1
       /\ k < Len(s) => s[k].c # NULL /\ s[k].at = "next"
       /\ MayBeAt(t, s, k, s[k].c)

\* The config_recs that the walk is done with are the first pos of the list.
DoneWith(t, s, pos) ==
  IF s = <<>> THEN pos = Len(t)
  ELSE LET top == s[Len(s)]
       IN  /\ top.c = NULL => EndsAt(t, SetOf(s, Len(s)), pos)
           /\ top.c # NULL => /\ top.at \in {"rec", "directive"} => pos = top.c - 1
                              /\ top.at = "subset" => pos = top.c
                              /\ top.at = "next" => EndsAt(t, top.c, pos)

\* The lines are in the context pool.
LineItems == [kind : {"line"}, name : STRING, arg : Nat, depth : Nat]
BufferTypes(b) == b \in Seq([item : LineItems, pool : {ctx_pool}])
ItemsOf(b) == [n \in DOMAIN b |-> b[n].item]

\* What is buffered is what the config_recs give that the walk is done with.
BufferInv ==
  /\ BufferTypes(buffered_lines)
  /\ \E pos \in 0 .. Len(tree) :
       /\ DoneWith(tree, stack, pos)
       /\ ItemsOf(buffered_lines) = Writer!lint_add_config_set(SubSeq(tree, 1, pos))

\* Between its lookup and its use the cop is that of the config_rec.
CopInv ==
  At("directive") => /\ Current.name \notin Writer!Internal
                     /\ Current.config_type = "CONF_PARAM"
                     /\ cop = lint_cop_get_config_cop(Current)

\* The indents of the calls are in pools of their own, each made after those of
\* the calls above it.
Pools(s, n) ==
  \A k \in 1 .. Len(s) :
    /\ s[k].indent <= n
    /\ IF k = 1 THEN s[k].indent = StaticText ELSE s[k].indent > ctx_pool
    /\ \A j \in 1 .. Len(s) : j < k => s[j].indent < s[k].indent

PoolsOf(s) == {ctx_pool} \cup ({s[n].indent : n \in DOMAIN s} \ {StaticText})

PoolInv ==
  /\ made \in Nat /\ made >= ctx_pool
  /\ Pools(stack, made)
  /\ live = IF stage = "over" THEN {} ELSE PoolsOf(stack)

\* The caller goes on when the walk has returned.
StageInv ==
  /\ stage \in {"walk", "written", "over"}
  /\ stage # "walk" => stack = <<>>

WalkInv ==
  tree \in Trees /\ Path(tree, stack) /\ BufferInv /\ CopInv /\ PoolInv /\ StageInv

-----------------------------------------------------------------------------
(* The pointers of the tree *)

\* What a tree is.
LEMMA TreeShape ==
  ASSUME NEW t \in Trees
  PROVE  /\ t \in Seq(ConfigRecs) /\ Len(t) \in Nat /\ DOMAIN t = 1 .. Len(t)
         /\ \A n \in 1 .. Len(t) :
              /\ t[n] \in ConfigRecs /\ t[n].depth \in Nat
              /\ t[n].depth <= IF n = 1 THEN 0 ELSE t[n - 1].depth + 1
         /\ \A n \in 0 .. Len(t) : DepthIn(t, n) \in Int
  <1>1. t \in Seq(ConfigRecs)
        /\ \A n \in DOMAIN t : t[n].depth <= IF n = 1 THEN 0 ELSE t[n - 1].depth + 1
    BY LintWalkAssumption DEF IsTree
  <1>2. Len(t) \in Nat /\ DOMAIN t = 1 .. Len(t)
    BY <1>1, LenProperties
  <1>3. \A n \in 1 .. Len(t) : t[n] \in ConfigRecs
    BY <1>1, ElementOfSeq
  <1>4. \A n \in 1 .. Len(t) : t[n].depth \in Nat
    BY <1>3 DEF ConfigRecs
  <1>5. \A n \in 0 .. Len(t) : DepthIn(t, n) \in Int
    <2> SUFFICES ASSUME NEW n \in 0 .. Len(t) PROVE DepthIn(t, n) \in Int
      OBVIOUS
    <2>1. n # 0 => n \in 1 .. Len(t)
      BY <1>2
    <2> QED BY <1>4, <2>1 DEF DepthIn, NULL
  <1> QED BY <1>1, <1>2, <1>3, <1>4, <1>5

\* A config_rec below n comes right after it, and is one deeper; without one, n is
\* the last of its own.
LEMMA FirstBelow ==
  ASSUME tree \in Trees, NEW n \in 0 .. Len(tree)
  PROVE  /\ xas_list(n) \in 0 .. Len(tree)
         /\ xas_list(n) # NULL =>
              /\ xas_list(n) = n + 1 /\ tree[n + 1].depth = DepthIn(tree, n) + 1
              /\ Below(tree, n + 1, n)
         /\ xas_list(n) = NULL => EndsAt(tree, n, n)
  <1> USE DEF NULL
  <1>0. DepthIn(tree, n) \in Int /\ Depth(n) = DepthIn(tree, n)
        /\ (n + 1 \in DOMAIN tree => Depth(n + 1) = tree[n + 1].depth
                                     /\ tree[n + 1].depth \in Nat
                                     /\ tree[n + 1].depth <= DepthIn(tree, n) + 1)
    BY TreeShape DEF DepthIn, Depth
  <1>1. DOMAIN tree = 1 .. Len(tree) /\ Len(tree) \in Nat /\ n \in Nat
    BY TreeShape
  <1>2. CASE n + 1 \in DOMAIN tree /\ Depth(n + 1) = Depth(n) + 1
    <2>1. xas_list(n) = n + 1 /\ tree[n + 1].depth = DepthIn(tree, n) + 1
      BY <1>0, <1>2 DEF xas_list
    <2>2. Below(tree, n + 1, n)
      BY <1>0, <1>1, <2>1 DEF Below
    <2> QED BY <1>1, <1>2, <2>1, <2>2
  <1>3. CASE ~ (n + 1 \in DOMAIN tree /\ Depth(n + 1) = Depth(n) + 1)
    <2>1. xas_list(n) = NULL
      BY <1>3 DEF xas_list
    <2>2. n = Len(tree) \/ tree[n + 1].depth <= DepthIn(tree, n)
      <3> SUFFICES ASSUME n # Len(tree) PROVE tree[n + 1].depth <= DepthIn(tree, n)
        OBVIOUS
      <3>1. n + 1 \in DOMAIN tree
        <4> DEFINE L == Len(tree)
        <4>1. L \in Nat /\ n \in 0 .. L /\ n # L /\ DOMAIN tree = 1 .. L
          BY <1>1
        <4> HIDE DEF L
        <4>2. n + 1 \in 1 .. L
          BY <4>1
        <4> QED BY <4>1, <4>2
      <3> DEFINE a == tree[n + 1].depth
                 b == DepthIn(tree, n)
      <3>2. a \in Nat /\ b \in Int /\ a <= b + 1 /\ a # b + 1
        BY <1>0, <1>3, <3>1
      <3> HIDE DEF a, b
      <3>3. a <= b
        BY <3>2
      <3> QED BY <3>3 DEF a, b
    <2>3. Below(tree, n, n)
      BY <1>1 DEF Below
    <2>4. n <= n /\ n <= Len(tree)
      BY <1>1
    <2>5. EndsAt(tree, n, n)
      BY ONLY <2>2, <2>3, <2>4 DEF EndsAt
    <2> QED BY <1>1, <2>1, <2>5
  <1> QED BY <1>2, <1>3

\* The next config_rec of the same set comes right after the last below this one.
LEMMA NextAfter ==
  ASSUME tree \in Trees, NEW n \in 1 .. Len(tree), NEW pos \in 0 .. Len(tree),
         EndsAt(tree, n, pos)
  PROVE  NextConfig(n) = IF pos < Len(tree) /\ tree[pos + 1].depth = tree[n].depth
                         THEN pos + 1 ELSE NULL
  <1> DEFINE up == {m \in DOMAIN tree : m > n /\ tree[m].depth <= tree[n].depth}
  <1>1. DOMAIN tree = 1 .. Len(tree) /\ Len(tree) \in Nat
        /\ \A m \in 1 .. Len(tree) : tree[m].depth \in Nat
    BY TreeShape
  <1>2. DepthIn(tree, n) = tree[n].depth
    BY DEF DepthIn, NULL
  <1>3. \A m \in n + 1 .. pos : tree[m].depth > tree[n].depth
    BY <1>2 DEF EndsAt, Below
  <1>4. n <= pos /\ (pos < Len(tree) => tree[pos + 1].depth <= tree[n].depth)
    <2>1. n <= pos /\ (pos = Len(tree) \/ tree[pos + 1].depth <= DepthIn(tree, n))
      BY DEF EndsAt
    <2>2. pos < Len(tree) => pos # Len(tree)
      BY <1>1
    <2> QED BY <1>2, <2>1, <2>2
  <1>5. \A m \in up : m \in Nat /\ m >= pos + 1 /\ m <= Len(tree)
    <2> SUFFICES ASSUME NEW m \in up PROVE m \in Nat /\ m >= pos + 1 /\ m <= Len(tree)
      OBVIOUS
    <2>1. m \in 1 .. Len(tree) /\ m > n /\ tree[m].depth <= tree[n].depth
      BY <1>1
    <2>2. ~ (m \in n + 1 .. pos)
      BY <1>1, <1>3, <2>1
    <2> QED BY <1>1, <2>1, <2>2
  <1>6. CASE pos = Len(tree)
    <2>1. up = {}
      BY <1>1, <1>5, <1>6
    <2> QED BY <1>1, <1>6, <2>1 DEF NextConfig
  <1>7. CASE pos # Len(tree)
    <2>1. pos + 1 \in up /\ pos < Len(tree)
      BY <1>1, <1>4, <1>7
    <2>2. Min(up) = pos + 1
      <3>1. up \in SUBSET Nat /\ up # {}
        BY <1>5, <2>1
      <3> HIDE DEF up
      <3>2. Min(up) \in up /\ \A m \in up : Min(up) <= m
        BY <3>1, MinOfNaturals
      <3> QED BY <1>5, <2>1, <3>2
    <2> QED BY <2>1, <2>2 DEF NextConfig
  <1> QED BY <1>6, <1>7

-----------------------------------------------------------------------------
(* The running calls *)

\* The call on top.
LEMMA TopCall ==
  ASSUME NEW t, NEW s, Path(t, s), s # <<>>
  PROVE  /\ s \in Seq(Calls(t)) /\ Len(s) \in Nat \ {0} /\ DOMAIN s = 1 .. Len(s)
         /\ Len(s) \in 1 .. Len(s)
         /\ s[Len(s)] \in Calls(t) /\ s[Len(s)].depth = Len(s) - 1
         /\ MayBeAt(t, s, Len(s), s[Len(s)].c)
         /\ Len(s) > 1 => /\ Len(s) - 1 \in 1 .. Len(s)
                          /\ SetOf(s, Len(s)) = s[Len(s) - 1].c
                          /\ SetOf(s, Len(s)) # NULL
  <1>1. s \in Seq(Calls(t)) /\ Len(s) \in Nat \ {0} /\ DOMAIN s = 1 .. Len(s)
    BY EmptySeq, LenProperties DEF Path
  <1>2. Len(s) \in 1 .. Len(s)
    BY <1>1
  <1>3. s[Len(s)] \in Calls(t)
    BY <1>1, <1>2, ElementOfSeq
  <1>4. s[Len(s)].depth = Len(s) - 1 /\ MayBeAt(t, s, Len(s), s[Len(s)].c)
    BY <1>2 DEF Path
  <1>5. ASSUME Len(s) > 1
        PROVE  /\ Len(s) - 1 \in 1 .. Len(s)
               /\ SetOf(s, Len(s)) = s[Len(s) - 1].c
               /\ SetOf(s, Len(s)) # NULL
    <2> DEFINE L == Len(s)
    <2>0. L \in Nat /\ L > 1
      BY <1>1, <1>5
    <2> HIDE DEF L
    <2>0a. L - 1 \in 1 .. L /\ L - 1 < L /\ L # 1
      BY <2>0
    <2>1. Len(s) - 1 \in 1 .. Len(s) /\ Len(s) - 1 < Len(s) /\ Len(s) # 1
      BY <2>0a DEF L
    <2>2. SetOf(s, Len(s)) = s[Len(s) - 1].c
      BY <2>1 DEF SetOf
    <2> QED BY <2>1, <2>2 DEF Path
  <1> QED BY <1>1, <1>2, <1>3, <1>4, <1>5

\* The set it walks: of the config_rec the call below is at, which has a depth.
LEMMA TopSet ==
  ASSUME NEW t \in Trees, NEW s, Path(t, s), s # <<>>
  PROVE  /\ SetOf(s, Len(s)) \in 0 .. Len(t)
         /\ DepthIn(t, SetOf(s, Len(s))) = Len(s) - 2
  <1>1. /\ s \in Seq(Calls(t)) /\ Len(s) \in Nat \ {0}
        /\ Len(s) > 1 => /\ Len(s) - 1 \in 1 .. Len(s)
                         /\ SetOf(s, Len(s)) = s[Len(s) - 1].c
                         /\ SetOf(s, Len(s)) # NULL
    BY TopCall
  <1>2. Len(t) \in Nat
    BY TreeShape
  <1>3. CASE Len(s) = 1
    BY <1>2, <1>3 DEF SetOf, DepthIn, NULL
  <1>4. CASE Len(s) # 1
    <2> DEFINE k == Len(s) - 1
    <2>0. Len(s) > 1
      <3> DEFINE L == Len(s)
      <3>1. L \in Nat \ {0} /\ L # 1
        BY <1>1, <1>4
      <3> HIDE DEF L
      <3>2. L > 1
        BY <3>1
      <3> QED BY <3>2 DEF L
    <2>1. k \in 1 .. Len(s) /\ SetOf(s, Len(s)) = s[k].c /\ s[k].c # NULL
      BY <1>1, <2>0
    <2>2. s[k] \in Calls(t)
      BY <1>1, <2>1, ElementOfSeq
    <2>3. s[k].c \in 0 .. Len(t) /\ t[s[k].c].depth = k - 1
      BY <2>1, <2>2 DEF Path, MayBeAt, Calls
    <2> QED BY <1>1, <2>1, <2>3 DEF DepthIn
  <1> QED BY <1>3, <1>4

\* The call on top goes on.
LEMMA SetTop ==
  ASSUME NEW t, NEW s, Path(t, s), s # <<>>,
         NEW x \in Calls(t), x.depth = Len(s) - 1, MayBeAt(t, s, Len(s), x.c),
         NEW s2 \in Seq(Calls(t)), Len(s2) = Len(s),
         \A j \in 1 .. Len(s) : s2[j] = IF j = Len(s) THEN x ELSE s[j]
  PROVE  /\ Path(t, s2) /\ s2 # <<>> /\ Len(s2) = Len(s) /\ s2[Len(s2)] = x
         /\ \A k \in 1 .. Len(s) : k < Len(s) => s2[k] = s[k]
         /\ \A k \in 1 .. Len(s) : SetOf(s2, k) = SetOf(s, k)
  <1> DEFINE L == Len(s)
  <1>1. s \in Seq(Calls(t)) /\ L \in Nat \ {0} /\ L \in 1 .. L
    BY TopCall
  <1>2. /\ s2 \in Seq(Calls(t)) /\ Len(s2) = L
        /\ \A j \in 1 .. L : s2[j] = IF j = L THEN x ELSE s[j]
    OBVIOUS
  <1>3. ASSUME NEW k \in 1 .. L PROVE SetOf(s2, k) = SetOf(s, k)
    <2>1. k # 1 => k - 1 \in 1 .. L /\ k - 1 # L
      BY <1>1
    <2> QED BY <1>2, <2>1 DEF SetOf
  <1>4. ASSUME NEW k \in 1 .. L
        PROVE  /\ s2[k].depth = k - 1
               /\ k < L => s2[k].c # NULL /\ s2[k].at = "next"
               /\ MayBeAt(t, s2, k, s2[k].c)
    <2>1. CASE k = L
      <3>1. s2[k] = x /\ SetOf(s2, k) = SetOf(s, L) /\ ~ (k < L)
        <4>1. s2[k] = x
          BY <1>2, <2>1
        <4>2. SetOf(s2, k) = SetOf(s, L)
          BY <1>3, <2>1
        <4>3. ~ (k < L)
          <5> HIDE DEF L
          <5> QED BY <1>1, <2>1
        <4> QED BY <4>1, <4>2, <4>3
      <3> QED BY <2>1, <3>1 DEF MayBeAt
    <2>2. CASE k # L
      <3>1. s2[k] = s[k] /\ SetOf(s2, k) = SetOf(s, k)
        BY <1>2, <1>3, <2>2
      <3>2. /\ s[k].depth = k - 1
            /\ k < L => s[k].c # NULL /\ s[k].at = "next"
            /\ MayBeAt(t, s, k, s[k].c)
        BY DEF Path
      <3> QED BY <3>1, <3>2 DEF MayBeAt
    <2> QED BY <2>1, <2>2
  <1>5. Path(t, s2)
    BY <1>2, <1>4 DEF Path
  <1>6. s2 # <<>>
    BY <1>1, <1>2, EmptySeq
  <1>7. \A k \in 1 .. L : k < L => s2[k] = s[k]
    BY <1>1, <1>2
  <1>8. s2[L] = x
    BY <1>1, <1>2
  <1> QED BY <1>2, <1>3, <1>5, <1>6, <1>7, <1>8

\* It calls another one, which begins with a set of the config_rec it is at.
LEMMA PushCall ==
  ASSUME NEW t, NEW s, Path(t, s), s # <<>>, s[Len(s)].c # NULL, s[Len(s)].at = "next",
         NEW x \in Calls(t), x.depth = Len(s),
         x.c # NULL => /\ t[x.c].depth = Len(s) /\ s[Len(s)].c < x.c
                       /\ Below(t, x.c, s[Len(s)].c),
         NEW s2, s2 = Append(s, x)
  PROVE  /\ Path(t, s2) /\ s2 # <<>> /\ Len(s2) = Len(s) + 1 /\ s2[Len(s2)] = x
         /\ \A k \in 1 .. Len(s) : s2[k] = s[k]
         /\ SetOf(s2, Len(s2)) = s[Len(s)].c
  <1> DEFINE L == Len(s)
  <1>1. s \in Seq(Calls(t)) /\ L \in Nat \ {0} /\ L \in 1 .. L
    BY TopCall
  <1>2. /\ s2 \in Seq(Calls(t)) /\ Len(s2) = L + 1 /\ s2[L + 1] = x
        /\ \A j \in 1 .. L : s2[j] = s[j]
    BY <1>1, AppendProperties
  <1>3. SetOf(s2, L + 1) = s[L].c
    <2>1. L + 1 # 1 /\ L + 1 - 1 = L
      BY <1>1
    <2> QED BY <1>1, <1>2, <2>1 DEF SetOf
  <1>4. ASSUME NEW k \in 1 .. L + 1
        PROVE  /\ s2[k].depth = k - 1
               /\ k < L + 1 => s2[k].c # NULL /\ s2[k].at = "next"
               /\ MayBeAt(t, s2, k, s2[k].c)
    <2>1. CASE k = L + 1
      <3>1. s2[k] = x /\ SetOf(s2, k) = s[L].c /\ k - 1 = L
        BY <1>1, <1>2, <1>3, <2>1
      <3>2. ~ (k < L + 1)
        BY <1>1, <2>1
      <3> QED BY <3>1, <3>2 DEF MayBeAt
    <2>2. CASE k # L + 1
      <3>1. k \in 1 .. L /\ (k # 1 => k - 1 \in 1 .. L) /\ (k < L \/ k = L)
        BY <1>1, <2>2
      <3>2. s2[k] = s[k] /\ SetOf(s2, k) = SetOf(s, k)
        BY <1>2, <3>1 DEF SetOf
      <3>3. s[k].depth = k - 1 /\ s[k].c # NULL /\ s[k].at = "next"
            /\ MayBeAt(t, s, k, s[k].c)
        BY <3>1 DEF Path
      <3> QED BY <3>2, <3>3 DEF MayBeAt
    <2> QED BY <2>1, <2>2
  <1>5. Path(t, s2)
    BY <1>2, <1>4 DEF Path
  <1>6. s2 # <<>>
    BY <1>1, <1>2, EmptySeq
  <1> QED BY <1>1, <1>2, <1>3, <1>5, <1>6

\* It returns.
LEMMA PopCall ==
  ASSUME NEW t, NEW s, Path(t, s), s # <<>>, NEW s2, s2 = Front(s)
  PROVE  /\ Path(t, s2) /\ Len(s2) = Len(s) - 1
         /\ \A k \in 1 .. Len(s2) : s2[k] = s[k]
         /\ s2 = <<>> <=> Len(s) = 1
         /\ s2 # <<>> => /\ s2[Len(s2)].c = SetOf(s, Len(s))
                         /\ s2[Len(s2)].c # NULL /\ s2[Len(s2)].at = "next"
  <1> DEFINE L == Len(s)
  <1>1. s \in Seq(Calls(t)) /\ L \in Nat \ {0} /\ L \in 1 .. L
    BY TopCall
  <1>2. /\ s2 \in Seq(Calls(t)) /\ Len(s2) = L - 1
        /\ \A j \in 1 .. L - 1 : s2[j] = s[j]
    <2>1. s2 = SubSeq(s, 1, L - 1)
      BY DEF Front
    <2> HIDE DEF L
    <2>2. s \in [1 .. L -> Calls(t)]
      BY <1>1, LenProperties DEF L
    <2>3. \A j \in 1 .. L - 1 : s[j] \in Calls(t)
      BY <1>1, <2>2
    <2>4. L - 1 \in Int /\ (1 <= L - 1 \/ L - 1 = 0) /\ L - 1 - 1 + 1 = L - 1
      BY <1>1
    <2>5. /\ s2 \in Seq(Calls(t))
          /\ Len(s2) = IF 1 <= L - 1 THEN L - 1 - 1 + 1 ELSE 0
          /\ \A j \in 1 .. L - 1 - 1 + 1 : s2[j] = s[1 + j - 1]
      BY ONLY <2>1, <2>3, <2>4, SubSeqProperties
    <2>6. \A j \in 1 .. L - 1 : 1 + j - 1 = j
      BY <1>1
    <2> QED BY <2>4, <2>5, <2>6
  <1>3. ASSUME NEW k \in 1 .. L - 1
        PROVE  /\ s2[k].depth = k - 1
               /\ s2[k].c # NULL /\ s2[k].at = "next"
               /\ MayBeAt(t, s2, k, s2[k].c)
    <2>1. k \in 1 .. L /\ (k # 1 => k - 1 \in 1 .. L - 1) /\ k < L
      BY <1>1
    <2>2. s2[k] = s[k] /\ SetOf(s2, k) = SetOf(s, k)
      BY <1>2, <2>1 DEF SetOf
    <2>3. s[k].depth = k - 1 /\ s[k].c # NULL /\ s[k].at = "next"
          /\ MayBeAt(t, s, k, s[k].c)
      BY <2>1 DEF Path
    <2> QED BY <2>2, <2>3 DEF MayBeAt
  <1>4. Path(t, s2)
    BY <1>2, <1>3 DEF Path
  <1>5. s2 = <<>> <=> L = 1
    BY <1>1, <1>2, EmptySeq
  <1>6. ASSUME L # 1
        PROVE  /\ s2[L - 1].c = SetOf(s, L)
               /\ s2[L - 1].c # NULL /\ s2[L - 1].at = "next"
    <2>1. L - 1 \in 1 .. L - 1
      <3> HIDE DEF L
      <3> QED BY <1>1, <1>6
    <2> QED BY <1>2, <1>3, <1>6, <2>1 DEF SetOf
  <1> QED BY <1>2, <1>4, <1>5, <1>6

-----------------------------------------------------------------------------
(* The lines *)

\* The directives of the recorded lines.
Directives == [n \in DOMAIN Lines |-> Lines[n].directive]

\* The line for a directive, at a depth, if it has been recorded.
LineOf(directive, depth) ==
  LET line == lint_find_parsed_line(Directives, directive, NoLine)
  IN  IF line = NoLine THEN <<>> ELSE <<Writer!Line(directive, Lines[line].arg, depth)>>

\* A line that is found is one of the directive; there is none without one.
LEMMA FoundLine ==
  ASSUME NEW directive,
         NEW line, line = lint_find_parsed_line(Directives, directive, NoLine),
         line # NoLine
  PROVE  /\ line \in DOMAIN Lines /\ Lines[line].directive = directive
         /\ directive \in STRING /\ directive # NoDirective
         /\ Lines[line].arg \in Nat
  <1> DEFINE D == STRING \ {NoDirective}
             L == Len(Lines)
             R == [directive : D, arg : Nat]
  <1>1. Lines \in Seq(R) /\ L \in Nat /\ DOMAIN Lines = 1 .. L
    BY LintWalkAssumption, LenProperties
  <1>2. \A n \in 1 .. L : Lines[n] \in R
    BY <1>1, ElementOfSeq
  <1>2a. \A r \in R : r.directive \in D /\ r.arg \in Nat
    OBVIOUS
  <1> HIDE DEF D, R
  <1>3. Directives \in Seq(D) /\ Len(Directives) = L
        /\ \A n \in 1 .. L : Directives[n] = Lines[n].directive
    <2>1. Directives = [n \in 1 .. L |-> Lines[n].directive]
      BY <1>1 DEF Directives
    <2>2. Directives \in [1 .. L -> D]
      BY <1>2, <1>2a, <2>1
    <2> HIDE DEF L
    <2> QED BY <1>1, <2>1, <2>2
  <1>4. line \in 1 .. L /\ Directives[line] = directive
    <2>1. NoLine \in Nat
      BY DEF NoLine
    <2> QED BY <1>3, <2>1, FindsFirstLine
  <1>5. Lines[line].directive \in D /\ Lines[line].arg \in Nat
    BY <1>2, <1>2a, <1>4
  <1> QED BY <1>1, <1>3, <1>4, <1>5 DEF D

\* What lint_add_config_rec of LintWriter gives.
LEMMA RecLines ==
  ASSUME NEW c \in ConfigRecs
  PROVE  /\ Writer!lint_add_config_rec(c) =
              IF c.name \in Writer!Internal \/ c.config_type # "CONF_PARAM" THEN <<>>
              ELSE LineOf(DirectiveOf(c), c.depth)
         /\ Writer!lint_add_config_rec(c) \in Seq(LineItems)
  <1> DEFINE d == DirectiveOf(c)
             out == c.name \in Writer!Internal \/ c.config_type # "CONF_PARAM"
  <1>1. Writer!DirectiveOf(c) = d
    <2>1. Writer!NoCop = NoCop /\ Writer!NoDirective = NoDirective
          /\ Writer!config_providers = config_providers
      BY DEF Writer!NoCop, NoCop, Writer!NoDirective, NoDirective,
             Writer!config_providers, config_providers
    <2>2. \A m : Writer!lint_cop_get_module_cop(m) = lint_cop_get_module_cop(m)
      BY DEF Writer!lint_cop_get_module_cop, lint_cop_get_module_cop
    <2>3. Writer!lint_cop_get_config_cop(c) = lint_cop_get_config_cop(c)
      BY <2>1, <2>2 DEF Writer!lint_cop_get_config_cop, lint_cop_get_config_cop
    <2>4. Writer!core_get_directive(c) = core_get_directive(c)
          /\ Writer!default_get_directive(c) = default_get_directive(c)
      BY <2>1 DEF Writer!core_get_directive, core_get_directive,
                  Writer!default_get_directive, default_get_directive
    <2>5. \A k : Writer!lint_cop_get_directive(k, c) = lint_cop_get_directive(k, c)
      BY <2>1, <2>4 DEF Writer!lint_cop_get_directive, lint_cop_get_directive
    <2> QED BY <2>3, <2>5 DEF Writer!DirectiveOf, DirectiveOf
  <1>2. Writer!FirstLine(d, c.depth) = LineOf(d, c.depth)
    <2>1. Writer!NoLine = NoLine
      BY DEF Writer!NoLine, NoLine
    <2>2. \A T : Writer!Min(T) = Min(T)
      BY DEF Writer!Min, Min
    <2> HIDE DEF d
    <2>3. Writer!lint_find_parsed_line(Directives, d, NoLine)
            = lint_find_parsed_line(Directives, d, NoLine)
      BY <2>1, <2>2 DEF Writer!lint_find_parsed_line, lint_find_parsed_line
    <2>4. [n \in DOMAIN Lines |-> Lines[n].directive] = Directives
      BY DEF Directives
    <2> QED BY <2>1, <2>3, <2>4 DEF Writer!FirstLine, LineOf
  <1>3. Writer!NoDirective = NoDirective
    BY DEF Writer!NoDirective, NoDirective
  <1>4. Writer!lint_add_config_rec(c) =
          IF out \/ d = NoDirective THEN <<>> ELSE LineOf(d, c.depth)
    BY <1>1, <1>2, <1>3 DEF Writer!lint_add_config_rec
  <1> DEFINE line == lint_find_parsed_line(Directives, d, NoLine)
  <1> HIDE DEF d, out
  <1>5. d = NoDirective => line = NoLine
    BY FoundLine
  <1>6. LineOf(d, c.depth) = IF line = NoLine THEN <<>>
                             ELSE <<Writer!Line(d, Lines[line].arg, c.depth)>>
    BY DEF LineOf
  <1>7. line # NoLine => Writer!Line(d, Lines[line].arg, c.depth) \in LineItems
    <2> SUFFICES ASSUME line # NoLine
                 PROVE  Writer!Line(d, Lines[line].arg, c.depth) \in LineItems
      OBVIOUS
    <2>1. d \in STRING /\ Lines[line].arg \in Nat
      BY FoundLine
    <2>2. c.depth \in Nat
      BY DEF ConfigRecs
    <2> HIDE DEF line
    <2> QED BY <2>1, <2>2 DEF Writer!Line, Writer!Item, LineItems
  <1> HIDE DEF line
  <1>8. LineOf(d, c.depth) \in Seq(LineItems)
    BY <1>6, <1>7
  <1>9. Writer!lint_add_config_rec(c) = IF out THEN <<>> ELSE LineOf(d, c.depth)
    BY <1>4, <1>5, <1>6
  <1>10. Writer!lint_add_config_rec(c) \in Seq(LineItems)
    BY <1>8, <1>9
  <1> QED BY <1>9, <1>10 DEF d, out

\* What it gives for the first n of them, from what it gives for one less.
LEMMA SetLines ==
  ASSUME NEW t \in Seq(ConfigRecs)
  PROVE  /\ Writer!lint_add_config_set(<<>>) = <<>>
         /\ Writer!lint_add_config_set(t) \in Seq(LineItems)
         /\ \A n \in 1 .. Len(t) :
              /\ Writer!lint_add_config_set(SubSeq(t, 1, n - 1)) \in Seq(LineItems)
              /\ Writer!lint_add_config_set(SubSeq(t, 1, n)) =
                   Writer!lint_add_config_set(SubSeq(t, 1, n - 1))
                     \o Writer!lint_add_config_rec(t[n])
  <1> DEFINE Rec(c) == Writer!lint_add_config_rec(c)
             Recs(u) == [n \in 1 .. Len(u) |-> Rec(u[n])]
             S == Seq(LineItems)
  <1>1. \A c \in ConfigRecs : Rec(c) \in S
    BY RecLines
  <1>2. \A u \in Seq(ConfigRecs) : Writer!lint_add_config_set(u) = FlattenSeq(Recs(u))
    <2> SUFFICES ASSUME NEW u \in Seq(ConfigRecs)
                 PROVE  Writer!lint_add_config_set(u) = FlattenSeq(Recs(u))
      OBVIOUS
    <2>1. DOMAIN u = 1 .. Len(u)
      BY LenProperties
    <2> QED BY <2>1 DEF Writer!lint_add_config_set, Writer!FlattenSeq, FlattenSeq
  <1> HIDE DEF Rec
  <1>3. \A u \in Seq(ConfigRecs) :
          /\ Recs(u) \in Seq(S) /\ Len(Recs(u)) = Len(u)
          /\ \A n \in 1 .. Len(u) : Recs(u)[n] = Rec(u[n])
    <2> HIDE DEF S
    <2> SUFFICES ASSUME NEW u \in Seq(ConfigRecs)
                 PROVE  /\ Recs(u) \in Seq(S) /\ Len(Recs(u)) = Len(u)
                        /\ \A n \in 1 .. Len(u) : Recs(u)[n] = Rec(u[n])
      OBVIOUS
    <2>1. Len(u) \in Nat /\ u \in [1 .. Len(u) -> ConfigRecs]
      BY LenProperties
    <2>2. Recs(u) \in [1 .. Len(u) -> S]
      BY <1>1, <2>1
    <2> QED BY <2>1, <2>2
  <1> HIDE DEF Recs
  <1>4. <<>> \in Seq(ConfigRecs) /\ Len(<<>>) = 0
    BY EmptySeq
  <1>5. Writer!lint_add_config_set(<<>>) = <<>>
    <2>1. Recs(<<>>) = <<>>
      BY <1>3, <1>4, EmptySeq
    <2>2. FlattenSeq(Recs(<<>>)) = <<>>
      BY <1>3, <1>4, <2>1, FlattenSeqType
    <2> QED BY <1>2, <1>4, <2>2
  <1>6. \A u \in Seq(ConfigRecs) : Writer!lint_add_config_set(u) \in Seq(LineItems)
    BY <1>2, <1>3, FlattenSeqType
  <1>7. ASSUME NEW n \in 1 .. Len(t)
        PROVE  Writer!lint_add_config_set(SubSeq(t, 1, n)) =
                 Writer!lint_add_config_set(SubSeq(t, 1, n - 1)) \o Rec(t[n])
    <2> DEFINE u == SubSeq(t, 1, n - 1)
               v == SubSeq(t, 1, n)
    <2>1. Len(t) \in Nat /\ t \in [1 .. Len(t) -> ConfigRecs]
      BY LenProperties
    <2>2. /\ u \in Seq(ConfigRecs) /\ Len(u) = n - 1
          /\ v \in Seq(ConfigRecs) /\ Len(v) = n
          /\ \A k \in 1 .. n - 1 : u[k] = t[k]
          /\ \A k \in 1 .. n : v[k] = t[k]
      BY <2>1
    <2> HIDE DEF u, v
    <2>3. Recs(v) = Append(Recs(u), Rec(t[n]))
      <3> DEFINE a == Recs(u)
                 b == Recs(v)
                 x == Rec(t[n])
      <3>1. /\ a \in Seq(S) /\ Len(a) = n - 1 /\ b \in Seq(S) /\ Len(b) = n
            /\ \A k \in 1 .. n - 1 : a[k] = Rec(u[k])
            /\ \A k \in 1 .. n : b[k] = Rec(v[k])
        BY <1>3, <2>2
      <3>2. x \in S /\ v[n] = t[n]
        BY <1>1, <2>1, <2>2
      <3> HIDE DEF a, b, S
      <3>3. /\ Append(a, x) \in Seq(S) /\ Len(Append(a, x)) = n
            /\ \A k \in 1 .. n : Append(a, x)[k] = IF k = n THEN x ELSE a[k]
        <4>1. /\ Append(a, x) \in Seq(S) /\ Len(Append(a, x)) = Len(a) + 1
              /\ \A k \in 1 .. Len(a) : Append(a, x)[k] = a[k]
              /\ Append(a, x)[Len(a) + 1] = x
          BY <3>1, <3>2, AppendProperties
        <4> HIDE DEF x
        <4> QED BY <3>1, <4>1
      <3>4. ASSUME NEW k \in 1 .. n PROVE b[k] = Append(a, x)[k]
        <4>1. k # n => k \in 1 .. n - 1
          OBVIOUS
        <4> QED BY <2>2, <3>1, <3>2, <3>3, <4>1
      <3> HIDE DEF x
      <3>5. b = Append(a, x)
        BY ONLY <3>1, <3>3, <3>4, SeqEqual
      <3> QED BY <3>5 DEF a, b, x
    <2>4. Recs(u) \in Seq(Seq(LineItems)) /\ Rec(t[n]) \in Seq(LineItems)
      BY <1>1, <1>3, <2>1, <2>2
    <2>5. FlattenSeq(Append(Recs(u), Rec(t[n]))) = FlattenSeq(Recs(u)) \o Rec(t[n])
      BY <2>4, FlattenSeqAppend
    <2>6. Writer!lint_add_config_set(v) = Writer!lint_add_config_set(u) \o Rec(t[n])
      BY <1>2, <2>2, <2>3, <2>5
    <2> QED BY <2>6 DEF u, v
  <1>8. \A n \in 1 .. Len(t) : SubSeq(t, 1, n - 1) \in Seq(ConfigRecs)
    BY LenProperties
  <1> QED BY <1>5, <1>6, <1>7, <1>8 DEF Rec

-----------------------------------------------------------------------------
(* The steps *)

\* The first state: nothing is done, and the outermost call begins.
LEMMA WalkInit == Init => WalkInv
  <1> SUFFICES ASSUME Init PROVE WalkInv
    OBVIOUS
  <1> USE DEF Init
  <1>1. tree \in Trees /\ Len(tree) \in Nat
    BY TreeShape
  <1>2. /\ xas_list(0) \in 0 .. Len(tree)
        /\ xas_list(0) # NULL =>
             /\ xas_list(0) = 0 + 1 /\ tree[0 + 1].depth = DepthIn(tree, 0) + 1
             /\ Below(tree, 0 + 1, 0)
        /\ xas_list(0) = NULL => EndsAt(tree, 0, 0)
    <2>1. 0 \in 0 .. Len(tree)
      BY <1>1
    <2> QED BY <1>1, <2>1, FirstBelow
  <1> DEFINE x == Call(ctx_pool, NULL, 0, StaticText)
  <1>3. /\ x \in Calls(tree) /\ x.c = xas_list(0) /\ x.at = "rec" /\ x.depth = 0
        /\ x.indent = StaticText
    BY <1>2 DEF Call, Calls, NULL, StaticText
  <1> HIDE DEF x
  <1>4. stack = <<x>> /\ stack # <<>> /\ Len(stack) = 1 /\ stack[1] = x
        /\ stack \in Seq(Calls(tree)) /\ DOMAIN stack = {1}
    BY <1>3 DEF x
  <1>5. DepthIn(tree, 0) = -1 /\ SetOf(stack, 1) = 0
    BY DEF DepthIn, SetOf, NULL
  <1>6. Path(tree, stack)
    <2>1. MayBeAt(tree, stack, 1, x.c)
      BY <1>2, <1>3, <1>5 DEF MayBeAt, NULL
    <2>2. ASSUME NEW k \in 1 .. Len(stack)
          PROVE  /\ stack[k].depth = k - 1
                 /\ k < Len(stack) => stack[k].c # NULL /\ stack[k].at = "next"
                 /\ MayBeAt(tree, stack, k, stack[k].c)
      <3>1. k = 1 /\ ~ (k < Len(stack)) /\ stack[k] = x /\ k - 1 = 0
        BY <1>4
      <3> HIDE DEF Init
      <3> QED BY <1>3, <2>1, <3>1
    <2> HIDE DEF Init
    <2> QED BY <1>4, <2>2 DEF Path
  <1>7. BufferInv
    <2>1. BufferTypes(buffered_lines) /\ ItemsOf(buffered_lines) = <<>>
      BY DEF BufferTypes, ItemsOf
    <2>2. DoneWith(tree, stack, 0)
      <3>1. x.c # NULL => x.c - 1 = 0
        BY <1>2, <1>3
      <3> HIDE DEF Init
      <3> QED BY <1>2, <1>3, <1>4, <1>5, <3>1 DEF DoneWith
    <2>3. SubSeq(tree, 1, 0) = <<>>
      BY SubSeqEmpty
    <2>4. Writer!lint_add_config_set(<<>>) = <<>>
      BY <1>1, TreeShape, SetLines
    <2>5. 0 \in 0 .. Len(tree)
      BY <1>1
    <2> HIDE DEF Init
    <2> QED BY <2>1, <2>2, <2>3, <2>4, <2>5 DEF BufferInv
  <1>8. CopInv
    BY <1>3, <1>4 DEF CopInv, At, Top
  <1>9. PoolInv
    <2>1. PoolsOf(stack) = {ctx_pool}
      <3>1. {stack[n].indent : n \in DOMAIN stack} = {StaticText}
        BY <1>3, <1>4
      <3> QED BY <3>1 DEF PoolsOf
    <2>2. Pools(stack, 1)
      <3>1. \A k \in 1 .. Len(stack) : k = 1 /\ stack[k] = x
        BY <1>4
      <3> HIDE DEF Init
      <3> QED BY <1>3, <3>1 DEF Pools, StaticText
    <2> QED BY <2>1, <2>2 DEF PoolInv, ctx_pool
  <1>10. StageInv
    BY DEF StageInv
  <1> HIDE DEF Init
  <1> QED BY <1>1, <1>6, <1>7, <1>8, <1>9, <1>10 DEF WalkInv

\* While a call is running the caller waits.
LEMMA Walking ==
  ASSUME WalkInv, stack # <<>>
  PROVE  stage = "walk" /\ (stage' = stage => StageInv')
  BY DEF WalkInv, StageInv

\* The pools of the calls are the same when the call on top goes on.
LEMMA SamePools ==
  ASSUME NEW s, NEW s2, NEW n, Len(s2) = Len(s), DOMAIN s = 1 .. Len(s),
         DOMAIN s2 = 1 .. Len(s),
         \A k \in 1 .. Len(s) : s2[k].indent = s[k].indent
  PROVE  (Pools(s, n) => Pools(s2, n)) /\ PoolsOf(s2) = PoolsOf(s)
  <1>1. Pools(s, n) => Pools(s2, n)
    BY DEF Pools
  <1>2. {s2[k].indent : k \in DOMAIN s2} = {s[k].indent : k \in DOMAIN s}
    OBVIOUS
  <1> QED BY <1>1, <1>2 DEF PoolsOf

\* The call on top goes on, to the place that x tells.
LEMMA MoveTop ==
  ASSUME WalkInv, stack # <<>>,
         NEW x \in Calls(tree), x.depth = Top.depth, x.indent = Top.indent,
         MayBeAt(tree, stack, Len(stack), x.c),
         stack' = [stack EXCEPT ![Len(stack)] = x]
  PROVE  /\ Path(tree, stack') /\ stack' # <<>> /\ Top' = x
         /\ SetOf(stack', Len(stack')) = SetOf(stack, Len(stack))
         /\ \A n : Pools(stack, n) => Pools(stack', n)
         /\ PoolsOf(stack') = PoolsOf(stack)
  <1>1. /\ Path(tree, stack) /\ DOMAIN stack = 1 .. Len(stack)
        /\ Top.depth = Len(stack) - 1 /\ Len(stack) \in 1 .. Len(stack)
    BY TopCall DEF WalkInv, Top
  <1>2. /\ Path(tree, stack') /\ stack' # <<>> /\ Len(stack') = Len(stack)
        /\ stack'[Len(stack')] = x
        /\ \A k \in 1 .. Len(stack) : k < Len(stack) => stack'[k] = stack[k]
        /\ \A k \in 1 .. Len(stack) : SetOf(stack', k) = SetOf(stack, k)
    <2>1. x.depth = Len(stack) - 1
      BY <1>1
    <2> DEFINE s2 == stack'
    <2>2. s2 = [stack EXCEPT ![Len(stack)] = x]
      OBVIOUS
    <2>2a. stack \in Seq(Calls(tree))
      BY <1>1 DEF Path
    <2> HIDE DEF s2
    <2>2b. /\ s2 \in Seq(Calls(tree)) /\ Len(s2) = Len(stack)
           /\ \A j \in 1 .. Len(stack) :
                s2[j] = IF j = Len(stack) THEN x ELSE stack[j]
      BY <1>1, <2>2, <2>2a, ExceptSeq
    <2>3. Path(tree, s2)
      BY ONLY <1>1, <2>1, <2>2b, stack # <<>>, x \in Calls(tree),
              MayBeAt(tree, stack, Len(stack), x.c), SetTop
    <2>4. s2 # <<>> /\ s2[Len(s2)] = x
      BY ONLY <1>1, <2>1, <2>2b, stack # <<>>, x \in Calls(tree),
              MayBeAt(tree, stack, Len(stack), x.c), SetTop
    <2>5. \A k \in 1 .. Len(stack) : k < Len(stack) => s2[k] = stack[k]
      BY ONLY <1>1, <2>1, <2>2b, stack # <<>>, x \in Calls(tree),
              MayBeAt(tree, stack, Len(stack), x.c), SetTop
    <2>6. \A k \in 1 .. Len(stack) : SetOf(s2, k) = SetOf(stack, k)
      BY ONLY <1>1, <2>1, <2>2b, stack # <<>>, x \in Calls(tree),
              MayBeAt(tree, stack, Len(stack), x.c), SetTop
    <2> QED BY <2>2b, <2>3, <2>4, <2>5, <2>6 DEF s2
  <1>3. ASSUME NEW k \in 1 .. Len(stack) PROVE stack'[k].indent = stack[k].indent
    <2>1. k < Len(stack) \/ k = Len(stack)
      <3>1. Len(stack) \in Nat
        BY LenProperties DEF WalkInv, Path
      <3> QED BY <3>1
    <2> QED BY <1>2, <2>1 DEF Top
  <1>4. DOMAIN stack' = 1 .. Len(stack)
    BY <1>2, TopCall
  <1>5. PoolsOf(stack') = PoolsOf(stack) /\ \A n : Pools(stack, n) => Pools(stack', n)
    BY <1>1, <1>2, <1>3, <1>4, SamePools
  <1> QED BY <1>1, <1>2, <1>5 DEF Top

\* It stays at its config_rec.
LEMMA GoOnKeeps ==
  ASSUME WalkInv, stack # <<>>,
         NEW w \in {"rec", "directive", "subset", "next"}, GoOn(w)
  PROVE  /\ Path(tree, stack') /\ stack' # <<>>
         /\ Top'.c = Top.c /\ Top'.at = w /\ Top'.depth = Top.depth
         /\ SetOf(stack', Len(stack')) = SetOf(stack, Len(stack))
         /\ \A n : Pools(stack, n) => Pools(stack', n)
         /\ PoolsOf(stack') = PoolsOf(stack)
  <1> DEFINE x == [Top EXCEPT !.at = w]
  <1>1. Path(tree, stack)
    BY DEF WalkInv
  <1>2. /\ Top \in Calls(tree) /\ MayBeAt(tree, stack, Len(stack), Top.c)
        /\ Len(stack) \in 1 .. Len(stack) /\ DOMAIN stack = 1 .. Len(stack)
    BY <1>1, TopCall DEF Top
  <1>3. /\ x \in Calls(tree) /\ x.c = Top.c /\ x.at = w /\ x.depth = Top.depth
        /\ x.indent = Top.indent
    BY <1>2 DEF Calls
  <1>4. stack' = [stack EXCEPT ![Len(stack)] = x]
    BY DEF GoOn, Top
  <1> HIDE DEF x
  <1> QED BY <1>2, <1>3, <1>4, MoveTop

\* The config_rec on top.
LEMMA TopRec ==
  ASSUME WalkInv, stack # <<>>, Top.c # NULL
  PROVE  /\ Top.c \in 1 .. Len(tree) /\ Current \in ConfigRecs
         /\ Current.depth = Top.depth /\ Len(tree) \in Nat
         /\ DepthIn(tree, Top.c) = Top.depth
  <1>1. /\ Top \in Calls(tree) /\ Top.depth = Len(stack) - 1
        /\ MayBeAt(tree, stack, Len(stack), Top.c)
    BY TopCall DEF Top, WalkInv
  <1>2. Top.c \in 0 .. Len(tree) /\ Len(tree) \in Nat
        /\ \A n \in 1 .. Len(tree) : tree[n] \in ConfigRecs
    BY <1>1, TreeShape DEF Calls, WalkInv
  <1>3. Top.c \in 1 .. Len(tree)
    BY <1>2 DEF NULL
  <1>4. Current \in ConfigRecs /\ Current.depth = Top.depth
    BY <1>1, <1>2, <1>3 DEF Current, MayBeAt
  <1> QED BY <1>2, <1>3, <1>4 DEF Current, DepthIn

\* A config_rec is done with: what it gives is in the buffer.
LEMMA OneMore ==
  ASSUME WalkInv, stack # <<>>, Top.c # NULL, Top.at \in {"rec", "directive"},
         GoOn("subset"), tree' = tree, BufferTypes(buffered_lines'),
         ItemsOf(buffered_lines') =
           ItemsOf(buffered_lines) \o Writer!lint_add_config_rec(Current)
  PROVE  BufferInv'
  <1>1. PICK pos \in 0 .. Len(tree) :
          /\ DoneWith(tree, stack, pos)
          /\ ItemsOf(buffered_lines) = Writer!lint_add_config_set(SubSeq(tree, 1, pos))
    BY DEF WalkInv, BufferInv
  <1>2. pos = Top.c - 1
    BY <1>1 DEF DoneWith, Top
  <1>3. Top.c \in 1 .. Len(tree) /\ Top.c \in 0 .. Len(tree) /\ Current = tree[Top.c]
    BY TopRec DEF Current
  <1>4. tree \in Seq(ConfigRecs)
    BY TreeShape DEF WalkInv
  <1>5. ItemsOf(buffered_lines') = Writer!lint_add_config_set(SubSeq(tree, 1, Top.c))
    BY <1>1, <1>2, <1>3, <1>4, SetLines
  <1>6. stack' # <<>> /\ Top'.c = Top.c /\ Top'.at = "subset"
    BY GoOnKeeps
  <1>7. DoneWith(tree, stack', Top.c)
    BY <1>6 DEF DoneWith, Top
  <1> QED BY <1>3, <1>5, <1>7 DEF BufferInv

\* Nothing is buffered, and as much is done with.
LEMMA NoMore ==
  ASSUME WalkInv, UNCHANGED <<tree, buffered_lines>>,
         \A pos \in 0 .. Len(tree) : DoneWith(tree, stack, pos) => DoneWith(tree, stack', pos)
  PROVE  BufferInv'
  BY DEF WalkInv, BufferInv

\* No cop is in hand.
LEMMA NoCopInHand ==
  ASSUME stack' = <<>> \/ Top'.c = NULL \/ Top'.at # "directive"
  PROVE  CopInv'
  BY DEF CopInv, At

\* lint_add_config_rec passes a config_rec over.
LEMMA SkipRecStep ==
  ASSUME WalkInv, SkipRec
  PROVE  WalkInv'
  <1>1. stack # <<>> /\ Top.c # NULL /\ Top.at = "rec" /\ GoOn("subset")
        /\ UNCHANGED <<tree, cop, stage, buffered_lines, live, made>>
        /\ (Current.name \in Writer!Internal \/ Current.config_type # "CONF_PARAM")
    BY DEF SkipRec, At
  <1>2. /\ Path(tree, stack') /\ Top'.at = "subset"
        /\ \A n : Pools(stack, n) => Pools(stack', n)
        /\ PoolsOf(stack') = PoolsOf(stack)
    BY <1>1, GoOnKeeps
  <1>3. BufferInv'
    <2>1. Writer!lint_add_config_rec(Current) = <<>>
      BY <1>1, TopRec, RecLines
    <2>2. BufferTypes(buffered_lines)
      BY DEF WalkInv, BufferInv
    <2>3. ItemsOf(buffered_lines) \in Seq(LineItems)
      <3>1. PICK pos \in 0 .. Len(tree) :
              ItemsOf(buffered_lines) = Writer!lint_add_config_set(SubSeq(tree, 1, pos))
        BY DEF WalkInv, BufferInv
      <3>2. SubSeq(tree, 1, pos) \in Seq(ConfigRecs)
        BY TreeShape DEF WalkInv
      <3> QED BY <3>1, <3>2, SetLines
    <2>4. ItemsOf(buffered_lines') = ItemsOf(buffered_lines) \o <<>>
      BY <1>1, <2>3, ConcatEmptySeq
    <2> QED BY <1>1, <2>1, <2>2, <2>4, OneMore
  <1>4. CopInv'
    BY <1>1, <1>2, NoCopInHand
  <1>5. PoolInv'
    BY <1>1, <1>2 DEF WalkInv, PoolInv
  <1>6. StageInv'
    BY <1>1, Walking
  <1> QED BY <1>1, <1>2, <1>3, <1>4, <1>5, <1>6 DEF WalkInv

\* The cop of a config_rec is looked up.
LEMMA GetCopStep ==
  ASSUME WalkInv, GetCop
  PROVE  WalkInv'
  <1>1. /\ stack # <<>> /\ Top.c # NULL /\ Top.at = "rec" /\ GoOn("directive")
        /\ UNCHANGED <<tree, stage, buffered_lines, live, made>>
        /\ Current.name \notin Writer!Internal /\ Current.config_type = "CONF_PARAM"
        /\ cop' = lint_cop_get_config_cop(Current)
    BY DEF GetCop, At
  <1>2. /\ Path(tree, stack') /\ stack' # <<>>
        /\ Top'.c = Top.c /\ Top'.at = "directive"
        /\ \A n : Pools(stack, n) => Pools(stack', n)
        /\ PoolsOf(stack') = PoolsOf(stack)
    BY <1>1, GoOnKeeps
  <1>3. BufferInv'
    <2>1. ASSUME NEW pos, DoneWith(tree, stack, pos) PROVE DoneWith(tree, stack', pos)
      BY <1>1, <1>2, <2>1 DEF DoneWith, Top
    <2> QED BY <1>1, <2>1, NoMore
  <1>4. CopInv'
    <2>1. Current' = Current
      BY <1>1, <1>2 DEF Current
    <2> QED BY <1>1, <2>1 DEF CopInv
  <1>5. PoolInv'
    BY <1>1, <1>2 DEF WalkInv, PoolInv
  <1>6. StageInv'
    BY <1>1, Walking
  <1> QED BY <1>1, <1>2, <1>3, <1>4, <1>5, <1>6 DEF WalkInv

\* The line of its directive is buffered, if there is one.
LEMMA AddLineStep ==
  ASSUME WalkInv, AddLine
  PROVE  WalkInv'
  <1> DEFINE directive == lint_cop_get_directive(cop, Current)
             line == lint_find_parsed_line(Directives, directive, NoLine)
             item == Writer!Line(directive, Lines[line].arg, Top.depth)
             b == buffered_lines
  <1>1. /\ At("directive") /\ stack # <<>> /\ Top.c # NULL /\ Top.at = "directive"
        /\ GoOn("subset") /\ UNCHANGED <<tree, stage, live, made>>
        /\ buffered_lines' = IF line = NoLine THEN buffered_lines
                             ELSE Append(buffered_lines, [item |-> item, pool |-> Top.p])
    BY DEF AddLine, At, Directives
  <1>2. /\ Path(tree, stack') /\ Top'.at = "subset"
        /\ \A n : Pools(stack, n) => Pools(stack', n)
        /\ PoolsOf(stack') = PoolsOf(stack)
    BY <1>1, GoOnKeeps
  <1>3. BufferInv'
    <2>1. directive = DirectiveOf(Current) /\ Current.name \notin Writer!Internal
          /\ Current.config_type = "CONF_PARAM"
      BY <1>1 DEF WalkInv, CopInv, DirectiveOf
    <2>2. Current.depth = Top.depth /\ Current \in ConfigRecs
      BY <1>1, TopRec
    <2>3. Writer!lint_add_config_rec(Current) = IF line = NoLine THEN <<>> ELSE <<item>>
      BY <2>1, <2>2, RecLines DEF LineOf
    <2>3a. Writer!lint_add_config_rec(Current) \in Seq(LineItems)
      BY <2>2, RecLines
    <2>4. BufferTypes(b)
      BY DEF WalkInv, BufferInv
    <2> DEFINE R == [item : LineItems, pool : {ctx_pool}]
    <2>5. b \in Seq(R) /\ Len(b) \in Nat /\ DOMAIN b = 1 .. Len(b)
      BY <2>4, LenProperties DEF BufferTypes
    <2>6. ItemsOf(b) \in Seq(LineItems) /\ Len(ItemsOf(b)) = Len(b)
          /\ \A n \in 1 .. Len(b) : ItemsOf(b)[n] = b[n].item
      <3>1. \A n \in 1 .. Len(b) : b[n] \in R
        BY <2>5, ElementOfSeq
      <3>2. \A n \in 1 .. Len(b) : b[n].item \in LineItems
        BY <3>1
      <3>3. ItemsOf(b) = [n \in 1 .. Len(b) |-> b[n].item]
        BY <2>5 DEF ItemsOf
      <3>4. ItemsOf(b) \in [1 .. Len(b) -> LineItems]
        BY <3>2, <3>3
      <3> QED BY <2>5, <3>3, <3>4
    <2> HIDE DEF line, item, R
    <2>7. CASE line = NoLine
      <3>1. b' = b
        BY <1>1, <2>7
      <3>2. ItemsOf(b) \o <<>> = ItemsOf(b)
        BY <2>6, ConcatEmptySeq
      <3> QED BY <1>1, <2>3, <2>4, <2>7, <3>1, <3>2, OneMore
    <2>8. CASE line # NoLine
      <3> DEFINE e == [item |-> item, pool |-> ctx_pool]
      <3>0. <<item>> \in Seq(LineItems)
        BY <2>3, <2>3a, <2>8
      <3>0a. item \in LineItems
        <4>1. 1 \in 1 .. Len(<<item>>) /\ <<item>>[1] = item
          OBVIOUS
        <4> QED BY <3>0, <4>1, ElementOfSeq
      <3>1. b' = Append(b, e) /\ e \in R /\ e.item = item
        <4>1. Top.p = ctx_pool
          BY <1>1, TopCall DEF WalkInv, Top, Calls
        <4> QED BY <1>1, <2>8, <3>0a, <4>1 DEF R
      <3> HIDE DEF e
      <3>2. /\ b' \in Seq(R) /\ Len(b') = Len(b) + 1 /\ b'[Len(b) + 1] = e
            /\ \A n \in 1 .. Len(b) : b'[n] = b[n]
        BY <2>5, <3>1, AppendProperties
      <3>3. DOMAIN b' = 1 .. Len(b) + 1
        BY <3>2, LenProperties
      <3>4. /\ ItemsOf(b) \o <<item>> \in Seq(LineItems)
            /\ Len(ItemsOf(b) \o <<item>>) = Len(b) + 1
            /\ \A n \in 1 .. Len(b) : (ItemsOf(b) \o <<item>>)[n] = ItemsOf(b)[n]
            /\ (ItemsOf(b) \o <<item>>)[Len(b) + 1] = item
        <4> DEFINE a == ItemsOf(b)
        <4>1. a \in Seq(LineItems) /\ Len(a) = Len(b)
          BY <2>6
        <4> HIDE DEF a
        <4>2. a \o <<item>> = Append(a, item)
          BY <3>0a, <4>1, AppendIsConcat
        <4> QED BY <2>5, <3>0a, <4>1, <4>2, AppendProperties DEF a
      <3>5. ItemsOf(b') \in Seq(LineItems) /\ Len(ItemsOf(b')) = Len(b) + 1
            /\ \A n \in 1 .. Len(b) + 1 : ItemsOf(b')[n] = b'[n].item
        <4>1. \A n \in 1 .. Len(b) + 1 : b'[n] \in R
          BY <3>2, ElementOfSeq
        <4>2. \A n \in 1 .. Len(b) + 1 : b'[n].item \in LineItems
          BY <4>1 DEF R
        <4>3. ItemsOf(b') = [n \in 1 .. Len(b) + 1 |-> b'[n].item]
          BY <3>3 DEF ItemsOf
        <4>4. ItemsOf(b') \in [1 .. Len(b) + 1 -> LineItems]
          BY <4>2, <4>3
        <4> DEFINE k == Len(b) + 1
                   f == ItemsOf(b')
        <4>5. k \in Nat /\ f \in [1 .. k -> LineItems]
          BY <2>5, <4>4
        <4> HIDE DEF k, f
        <4>6. f \in Seq(LineItems) /\ Len(f) = k
          BY <4>5
        <4> QED BY <4>3, <4>6 DEF k, f
      <3>6. ASSUME NEW n \in 1 .. Len(b) + 1
            PROVE  ItemsOf(b')[n] = (ItemsOf(b) \o <<item>>)[n]
        <4>1. CASE n = Len(b) + 1
          BY <3>1, <3>2, <3>4, <3>5, <4>1
        <4>2. CASE n # Len(b) + 1
          <5>1. n \in 1 .. Len(b)
            BY <2>5, <4>2
          <5> QED BY <2>6, <3>2, <3>4, <3>5, <5>1
        <4> QED BY <4>1, <4>2
      <3>7. ItemsOf(b') = ItemsOf(b) \o <<item>>
        <4> DEFINE f == ItemsOf(b')
                   g == ItemsOf(b) \o <<item>>
        <4>1. f \in Seq(LineItems) /\ g \in Seq(LineItems) /\ Len(f) = Len(g)
          BY <3>4, <3>5
        <4>2. \A n \in 1 .. Len(f) : f[n] = g[n]
          BY <3>5, <3>6
        <4> HIDE DEF f, g
        <4>3. f = g
          BY ONLY <4>1, <4>2, SeqEqual
        <4> QED BY <4>3 DEF f, g
      <3>8. BufferTypes(b')
        BY <3>2 DEF BufferTypes, R
      <3> QED BY <1>1, <2>3, <2>8, <3>7, <3>8, OneMore
    <2> QED BY <2>7, <2>8
  <1>4. CopInv'
    BY <1>1, <1>2, NoCopInHand
  <1>5. PoolInv'
    BY <1>1, <1>2 DEF WalkInv, PoolInv
  <1>6. StageInv'
    BY <1>1, Walking
  <1> QED BY <1>1, <1>2, <1>3, <1>4, <1>5, <1>6 DEF WalkInv

\* A call for the subset begins, with an indent in a new pool.
LEMMA DescendStep ==
  ASSUME WalkInv, Descend
  PROVE  WalkInv'
  <1> DEFINE y == [Top EXCEPT !.at = "next"]
             s1 == [stack EXCEPT ![Len(stack)].at = "next"]
             x == Call(Top.p, Top.c, Top.depth + 1, made + 1)
             L == Len(stack)
  <1>1. /\ stack # <<>> /\ Top.c # NULL /\ Top.at = "subset"
        /\ made' = made + 1 /\ live' = live \cup {made + 1}
        /\ stack' = Append(s1, x)
        /\ UNCHANGED <<tree, cop, stage, buffered_lines>>
    BY DEF Descend, At
  <1>2. /\ Path(tree, stack) /\ stack \in Seq(Calls(tree)) /\ L \in Nat \ {0}
        /\ L \in 1 .. L /\ DOMAIN stack = 1 .. L
        /\ Top \in Calls(tree) /\ Top.depth = L - 1 /\ MayBeAt(tree, stack, L, Top.c)
    BY <1>1, TopCall DEF WalkInv, Top
  <1>3. /\ Top.c \in 1 .. Len(tree) /\ Top.c \in 0 .. Len(tree) /\ Len(tree) \in Nat
        /\ DepthIn(tree, Top.c) = Top.depth
    BY <1>1, TopRec
  <1>4. made \in Nat /\ made >= 1 /\ Pools(stack, made) /\ live = PoolsOf(stack)
        /\ stage' # "over"
    BY <1>1, Walking DEF WalkInv, PoolInv, ctx_pool
  <1>5. /\ y \in Calls(tree) /\ y.c = Top.c /\ y.at = "next" /\ y.depth = Top.depth
        /\ y.indent = Top.indent
    BY <1>2 DEF Calls
  <1>6. s1 = [stack EXCEPT ![L] = y]
    BY DEF Top
  <1> HIDE DEF y, s1, L
  <1>7. /\ s1 \in Seq(Calls(tree)) /\ Len(s1) = L
        /\ \A j \in 1 .. L : s1[j] = IF j = L THEN y ELSE stack[j]
    <2>1. Len(stack) \in 1 .. Len(stack) /\ stack \in Seq(Calls(tree))
      BY <1>2 DEF L
    <2>2. /\ [stack EXCEPT ![Len(stack)] = y] \in Seq(Calls(tree))
          /\ Len([stack EXCEPT ![Len(stack)] = y]) = Len(stack)
          /\ \A j \in 1 .. Len(stack) :
               [stack EXCEPT ![Len(stack)] = y][j] = IF j = Len(stack) THEN y ELSE stack[j]
      BY ONLY <1>5, <2>1, ExceptSeq
    <2> QED BY <1>6, <2>2 DEF L
  <1>8. y.depth = L - 1 /\ MayBeAt(tree, stack, L, y.c)
    BY <1>2, <1>5
  <1>9. Path(tree, s1)
    BY <1>1, <1>2, <1>5, <1>7, <1>8, SetTop DEF L
  <1>10. s1 # <<>> /\ s1[L] = y /\ \A k \in 1 .. L : s1[k].indent = stack[k].indent
    <2>1. s1[L] = y
      BY <1>2, <1>7
    <2>2. ASSUME NEW k \in 1 .. L PROVE s1[k].indent = stack[k].indent
      BY <1>5, <1>7 DEF Top, L
    <2>3. s1 # <<>>
      BY <1>2, <1>7, EmptySeq
    <2> QED BY <2>1, <2>2, <2>3
  <1>11. /\ xas_list(Top.c) \in 0 .. Len(tree)
         /\ xas_list(Top.c) # NULL =>
              /\ xas_list(Top.c) = Top.c + 1
              /\ tree[Top.c + 1].depth = DepthIn(tree, Top.c) + 1
              /\ Below(tree, Top.c + 1, Top.c)
         /\ xas_list(Top.c) = NULL => EndsAt(tree, Top.c, Top.c)
    BY <1>3, FirstBelow DEF WalkInv
  <1>12. /\ x \in Calls(tree) /\ x.c = xas_list(Top.c) /\ x.at = "rec"
         /\ x.depth = L /\ x.indent = made + 1
    <2>1. Top.depth + 1 = L /\ L \in Nat /\ made + 1 \in Nat /\ Top.p = ctx_pool
      BY <1>2, <1>4 DEF Calls
    <2> QED BY <1>11, <2>1 DEF Call, Calls
  <1> HIDE DEF x
  <1>13. x.c # NULL => /\ tree[x.c].depth = L /\ s1[L].c < x.c
                       /\ Below(tree, x.c, s1[L].c)
    <2> SUFFICES ASSUME x.c # NULL
                 PROVE  tree[x.c].depth = L /\ Top.c < x.c /\ Below(tree, x.c, Top.c)
      BY <1>5, <1>10
    <2>1. x.c = Top.c + 1 /\ tree[x.c].depth = Top.depth + 1 /\ Below(tree, x.c, Top.c)
      BY <1>3, <1>11, <1>12
    <2> QED BY <1>2, <1>3, <2>1
  <1>14. s1[L].c # NULL /\ s1[L].at = "next"
    BY <1>1, <1>5, <1>10
  <1>15. Path(tree, stack')
    BY <1>1, <1>7, <1>9, <1>10, <1>12, <1>13, <1>14, PushCall
  <1>16. /\ stack' # <<>> /\ Len(stack') = L + 1 /\ stack'[L + 1] = x
         /\ \A k \in 1 .. L : stack'[k] = s1[k]
    <2>1. Append(s1, x) \in Seq(Calls(tree)) /\ Append(s1, x) # <<>>
          /\ Len(Append(s1, x)) = Len(s1) + 1
          /\ (\A k \in 1 .. Len(s1) : Append(s1, x)[k] = s1[k])
          /\ Append(s1, x)[Len(s1) + 1] = x
      BY <1>7, <1>12, AppendProperties
    <2> QED BY <1>1, <1>7, <2>1
  <1>17. SetOf(stack', L + 1) = Top.c
    <2>1. L + 1 # 1 /\ L + 1 - 1 = L /\ L \in 1 .. L
      BY <1>2
    <2> QED BY <1>5, <1>10, <1>16, <2>1 DEF SetOf
  <1>18. Top' = x
    BY <1>16 DEF Top
  <1>19. BufferInv'
    <2>1. ASSUME NEW pos \in 0 .. Len(tree), DoneWith(tree, stack, pos)
          PROVE  DoneWith(tree, stack', pos)
      <3>1. pos = Top.c
        BY <1>1, <2>1 DEF DoneWith, Top
      <3>2. x.c # NULL => pos = x.c - 1
        BY <1>3, <1>11, <1>12, <3>1
      <3>3. x.c = NULL => EndsAt(tree, Top.c, pos)
        BY <1>11, <1>12, <3>1
      <3> QED BY <1>12, <1>16, <1>17, <3>2, <3>3 DEF DoneWith
    <2> QED BY <1>1, <2>1, NoMore
  <1>20. CopInv'
    BY <1>1, <1>12, <1>18, NoCopInHand
  <1>21. PoolInv'
    <2>1. ASSUME NEW k \in 1 .. L + 1
          PROVE  /\ k # L + 1 => k \in 1 .. L /\ stack'[k].indent = stack[k].indent
                 /\ k = L + 1 => stack'[k].indent = made + 1
      <3>1. k # L + 1 => k \in 1 .. L
        BY <1>2
      <3> QED BY <1>10, <1>12, <1>16, <3>1
    <2>2. \A k \in 1 .. L : stack[k].indent \in Nat /\ stack[k].indent <= made
      <3>1. \A k \in 1 .. L : stack[k] \in Calls(tree)
        BY <1>2, ElementOfSeq DEF L
      <3>2. \A k \in 1 .. L : stack[k].indent <= made
        BY <1>4 DEF Pools, L
      <3> QED BY <3>1, <3>2 DEF Calls
    <2>3. Pools(stack', made + 1)
      <3> SUFFICES ASSUME NEW k \in 1 .. L + 1
                   PROVE  /\ stack'[k].indent <= made + 1
                          /\ IF k = 1 THEN stack'[k].indent = StaticText
                                      ELSE stack'[k].indent > ctx_pool
                          /\ \A j \in 1 .. L + 1 :
                               j < k => stack'[j].indent < stack'[k].indent
        BY <1>16 DEF Pools
      <3>1. CASE k = L + 1
        <4>1. stack'[k].indent = made + 1 /\ k # 1
          BY <1>2, <2>1, <3>1
        <4>2. ASSUME NEW j \in 1 .. L + 1, j < k
              PROVE  stack'[j].indent < made + 1
          <5>1. j # L + 1
            BY <1>2, <3>1, <4>2
          <5>2. j \in 1 .. L /\ stack'[j].indent = stack[j].indent
            BY <2>1, <5>1
          <5> QED BY <1>4, <2>2, <5>2
        <4> QED BY <1>4, <4>1, <4>2 DEF ctx_pool
      <3>2. CASE k # L + 1
        <4>1. k \in 1 .. L /\ stack'[k].indent = stack[k].indent
          BY <2>1, <3>2
        <4>2. ASSUME NEW j \in 1 .. L + 1, j < k
              PROVE  j \in 1 .. L /\ stack'[j].indent = stack[j].indent
          <5>1. j # L + 1
            BY <1>2, <4>1, <4>2
          <5> QED BY <2>1, <5>1
        <4>3. /\ stack[k].indent <= made
              /\ IF k = 1 THEN stack[k].indent = StaticText
                          ELSE stack[k].indent > ctx_pool
              /\ \A j \in 1 .. L : j < k => stack[j].indent < stack[k].indent
          BY <1>4, <4>1 DEF Pools, L
        <4>4. stack[k].indent <= made + 1
          BY <1>4, <2>2, <4>1
        <4> QED BY <4>1, <4>2, <4>3, <4>4
      <3> QED BY <3>1, <3>2
    <2>4. PoolsOf(stack') = PoolsOf(stack) \cup {made + 1}
      <3>1. DOMAIN stack' = 1 .. L + 1
        BY <1>15, <1>16, TopCall
      <3>2. {stack'[n].indent : n \in 1 .. L + 1} =
              {stack[n].indent : n \in 1 .. L} \cup {made + 1}
        <4>1. ASSUME NEW n \in 1 .. L + 1
              PROVE  stack'[n].indent \in {stack[m].indent : m \in 1 .. L} \cup {made + 1}
          <5>1. n # L + 1 => n \in 1 .. L /\ stack'[n].indent = stack[n].indent
            BY <2>1
          <5>2. n = L + 1 => stack'[n].indent = made + 1
            BY <2>1
          <5> QED BY <5>1, <5>2
        <4>2. ASSUME NEW m \in 1 .. L
              PROVE  stack[m].indent \in {stack'[n].indent : n \in 1 .. L + 1}
          <5>1. m \in 1 .. L + 1 /\ m # L + 1
            BY <1>2
          <5> QED BY <2>1, <5>1
        <4>3. made + 1 \in {stack'[n].indent : n \in 1 .. L + 1}
          <5>1. L + 1 \in 1 .. L + 1
            BY <1>2
          <5> QED BY <2>1, <5>1
        <4> QED BY <4>1, <4>2, <4>3
      <3>3. made + 1 # StaticText
        BY <1>4 DEF StaticText
      <3>4. PoolsOf(stack') = {ctx_pool} \cup
              ({stack'[n].indent : n \in 1 .. L + 1} \ {StaticText})
        BY <3>1 DEF PoolsOf
      <3>5. PoolsOf(stack) = {ctx_pool} \cup
              ({stack[n].indent : n \in 1 .. L} \ {StaticText})
        BY <1>2 DEF PoolsOf
      <3> QED BY <3>2, <3>3, <3>4, <3>5
    <2> QED BY <1>1, <1>4, <2>3, <2>4 DEF PoolInv, ctx_pool
  <1>22. StageInv'
    BY <1>1, Walking
  <1> QED BY <1>1, <1>15, <1>19, <1>20, <1>21, <1>22 DEF WalkInv

\* There is no subset to walk.
LEMMA NoDescentStep ==
  ASSUME WalkInv, NoDescent
  PROVE  WalkInv'
  <1>1. /\ stack # <<>> /\ Top.c # NULL /\ Top.at = "subset" /\ GoOn("next")
        /\ ~HasSubset(Top.c)
        /\ UNCHANGED <<tree, cop, stage, buffered_lines, live, made>>
    BY DEF NoDescent, At
  <1>2. /\ Path(tree, stack') /\ stack' # <<>>
        /\ Top'.c = Top.c /\ Top'.at = "next"
        /\ \A n : Pools(stack, n) => Pools(stack', n)
        /\ PoolsOf(stack') = PoolsOf(stack)
    BY <1>1, GoOnKeeps
  <1>3. EndsAt(tree, Top.c, Top.c)
    <2>1. Top.c \in 0 .. Len(tree)
      BY <1>1, TopRec
    <2>2. xas_list(Top.c) = NULL
      BY <1>1 DEF HasSubset
    <2> QED BY <2>1, <2>2, FirstBelow DEF WalkInv
  <1>4. BufferInv'
    <2>1. ASSUME NEW pos, DoneWith(tree, stack, pos) PROVE DoneWith(tree, stack', pos)
      <3>1. pos = Top.c
        BY <1>1, <2>1 DEF DoneWith, Top
      <3> QED BY <1>1, <1>2, <1>3, <3>1 DEF DoneWith, Top
    <2> QED BY <1>1, <2>1, NoMore
  <1>5. CopInv'
    BY <1>1, <1>2, NoCopInHand
  <1>6. PoolInv'
    BY <1>1, <1>2 DEF WalkInv, PoolInv
  <1>7. StageInv'
    BY <1>1, Walking
  <1> QED BY <1>1, <1>2, <1>4, <1>5, <1>6, <1>7 DEF WalkInv

\* The call on top goes to the next config_rec of its set, or to its end; then
\* all that is below the config_rec whose subset the set is has been walked.
LEMMA AdvanceStep ==
  ASSUME WalkInv, Advance
  PROVE  WalkInv'
  <1> DEFINE next == NextConfig(Top.c)
             x == [Top EXCEPT !.c = next, !.at = "rec"]
             set == SetOf(stack, Len(stack))
  <1>1. /\ stack # <<>> /\ Top.c # NULL /\ Top.at = "next"
        /\ stack' = [stack EXCEPT ![Len(stack)] = x]
        /\ UNCHANGED <<tree, cop, stage, buffered_lines, live, made>>
    BY DEF Advance, At, Top
  <1>2. /\ Path(tree, stack) /\ Top \in Calls(tree) /\ Top.depth = Len(stack) - 1
        /\ MayBeAt(tree, stack, Len(stack), Top.c) /\ Len(stack) \in Nat
    BY <1>1, TopCall DEF WalkInv, Top
  <1>3. /\ Top.c \in 1 .. Len(tree) /\ Len(tree) \in Nat /\ DepthIn(tree, Top.c) = Top.depth
        /\ tree[Top.c].depth = Top.depth
    BY <1>1, TopRec DEF Current
  <1>4. set \in 0 .. Len(tree) /\ DepthIn(tree, set) = Len(stack) - 2
    BY <1>1, <1>2, TopSet DEF WalkInv
  <1>5. set < Top.c /\ Below(tree, Top.c, set)
    BY <1>1, <1>2 DEF MayBeAt
  <1>6. PICK pos \in 0 .. Len(tree) :
          /\ DoneWith(tree, stack, pos)
          /\ ItemsOf(buffered_lines) = Writer!lint_add_config_set(SubSeq(tree, 1, pos))
    BY DEF WalkInv, BufferInv
  <1>7. EndsAt(tree, Top.c, pos)
    BY <1>1, <1>6 DEF DoneWith, Top
  <1>8. next = IF pos < Len(tree) /\ tree[pos + 1].depth = Top.depth THEN pos + 1 ELSE NULL
    BY <1>3, <1>7, NextAfter DEF WalkInv
  <1>9. \A n \in 1 .. Len(tree) : tree[n].depth \in Nat
    BY TreeShape DEF WalkInv
  <1> HIDE DEF set, next
  <1>10. Below(tree, pos, set)
    <2> SUFFICES ASSUME NEW l \in set + 1 .. pos PROVE tree[l].depth > DepthIn(tree, set)
      BY DEF Below
    <2>1. CASE l <= Top.c
      <3>1. l \in set + 1 .. Top.c
        BY <1>3, <1>4, <2>1
      <3> QED BY <1>5, <3>1 DEF Below
    <2>2. CASE ~ (l <= Top.c)
      <3>1. l \in Top.c + 1 .. pos /\ l \in 1 .. Len(tree)
        BY <1>3, <1>4, <2>2
      <3>2. tree[l].depth > Top.depth
        BY <1>3, <1>7, <3>1 DEF EndsAt, Below
      <3>3. tree[l].depth \in Nat
        BY <1>9, <3>1
      <3> QED BY <1>2, <1>4, <3>2, <3>3
    <2> QED BY <2>1, <2>2
  <1>11. Top.c <= pos /\ (pos # Len(tree) => pos < Len(tree) /\ pos + 1 \in 1 .. Len(tree)
                                             /\ tree[pos + 1].depth <= Top.depth)
    <2>1. Top.c <= pos /\ (pos = Len(tree) \/ tree[pos + 1].depth <= Top.depth)
      BY <1>3, <1>7 DEF EndsAt
    <2>2. pos # Len(tree) => pos < Len(tree) /\ pos + 1 \in 1 .. Len(tree)
      <3> DEFINE M == Len(tree)
      <3>1. M \in Nat /\ pos \in 0 .. M
        BY <1>3
      <3> HIDE DEF M
      <3>2. pos # M => pos < M /\ pos + 1 \in 1 .. M
        BY <3>1
      <3> QED BY <3>2 DEF M
    <2> QED BY <2>1, <2>2
  <1>12. next \in 0 .. Len(tree)
    <2>1. NULL \in 0 .. Len(tree)
      BY <1>3 DEF NULL
    <2>2. pos < Len(tree) => pos + 1 \in 0 .. Len(tree)
      BY <1>3
    <2> QED BY <1>8, <2>1, <2>2
  <1>13. /\ x \in Calls(tree) /\ x.c = next /\ x.at = "rec" /\ x.depth = Top.depth
         /\ x.indent = Top.indent
    BY <1>2, <1>12 DEF Calls
  <1>14. ASSUME next # NULL
         PROVE  MayBeAt(tree, stack, Len(stack), next) /\ pos = next - 1
    <2>1. next = pos + 1 /\ tree[pos + 1].depth = Top.depth
      BY <1>8, <1>14
    <2>2. set < next
      BY <1>3, <1>4, <1>5, <1>11, <2>1
    <2>3. Below(tree, next, set)
      <3> SUFFICES ASSUME NEW l \in set + 1 .. pos + 1
                   PROVE  tree[l].depth > DepthIn(tree, set)
        BY <2>1 DEF Below
      <3>1. CASE l = pos + 1
        BY <1>2, <1>4, <2>1, <3>1
      <3>2. CASE l # pos + 1
        <4>1. l \in set + 1 .. pos
          BY <1>4, <3>2
        <4> QED BY <1>10, <4>1 DEF Below
      <3> QED BY <3>1, <3>2
    <2>4. MayBeAt(tree, stack, Len(stack), next)
      BY <1>2, <2>1, <2>2, <2>3 DEF MayBeAt, set
    <2>5. pos = next - 1
      BY <2>1
    <2> QED BY <2>4, <2>5
  <1>15. ASSUME next = NULL
         PROVE  EndsAt(tree, set, pos) /\ MayBeAt(tree, stack, Len(stack), next)
    <2>1. EndsAt(tree, set, pos)
      <3>1. set <= pos /\ pos <= Len(tree)
        BY <1>3, <1>4, <1>5, <1>11
      <3>2. pos = Len(tree) \/ tree[pos + 1].depth <= DepthIn(tree, set)
        <4> SUFFICES ASSUME pos # Len(tree)
                     PROVE  tree[pos + 1].depth <= DepthIn(tree, set)
          OBVIOUS
        <4>1. /\ pos < Len(tree) /\ pos + 1 \in 1 .. Len(tree)
              /\ tree[pos + 1].depth <= Top.depth
          BY <1>11
        <4>2. tree[pos + 1].depth \in Nat
          BY <1>9, <4>1
        <4>3. tree[pos + 1].depth # Top.depth
          BY <1>8, <1>15, <4>1 DEF NULL
        <4> QED BY <1>2, <1>4, <4>1, <4>2, <4>3
      <3> QED BY <1>10, <3>1, <3>2 DEF EndsAt
    <2>2. MayBeAt(tree, stack, Len(stack), next)
      BY <1>15 DEF MayBeAt
    <2> QED BY <2>1, <2>2
  <1>16. MayBeAt(tree, stack, Len(stack), x.c)
    BY <1>13, <1>14, <1>15
  <1> HIDE DEF x
  <1>17. /\ Path(tree, stack') /\ stack' # <<>> /\ Top' = x
         /\ SetOf(stack', Len(stack')) = SetOf(stack, Len(stack))
         /\ \A n : Pools(stack, n) => Pools(stack', n)
         /\ PoolsOf(stack') = PoolsOf(stack)
    BY <1>1, <1>13, <1>16, MoveTop
  <1>18. BufferInv'
    <2>1. DoneWith(tree, stack', pos)
      BY <1>13, <1>14, <1>15, <1>17 DEF DoneWith, Top, set
    <2> QED BY <1>1, <1>6, <2>1 DEF BufferInv, WalkInv
  <1>19. CopInv'
    BY <1>1, <1>13, <1>17, NoCopInHand
  <1>20. PoolInv'
    BY <1>1, <1>17 DEF WalkInv, PoolInv
  <1>21. StageInv'
    BY <1>1, Walking
  <1> QED BY <1>1, <1>17, <1>18, <1>19, <1>20, <1>21 DEF WalkInv

\* A call returns, and the pool of its indent is destroyed.
LEMMA ReturnStep ==
  ASSUME WalkInv, Return
  PROVE  WalkInv'
  <1> DEFINE L == Len(stack)
  <1>1. /\ stack # <<>> /\ Top.c = NULL /\ stack' = Front(stack)
        /\ live' = live \ {Top.indent}
        /\ UNCHANGED <<tree, cop, stage, buffered_lines, made>>
    BY DEF Return
  <1>2. /\ Path(tree, stack) /\ stack \in Seq(Calls(tree)) /\ L \in Nat \ {0}
        /\ L \in 1 .. L /\ DOMAIN stack = 1 .. L
    BY <1>1, TopCall DEF WalkInv
  <1>3. /\ Path(tree, stack') /\ Len(stack') = L - 1
        /\ \A k \in 1 .. Len(stack') : stack'[k] = stack[k]
        /\ stack' = <<>> <=> L = 1
        /\ stack' # <<>> => /\ stack'[Len(stack')].c = SetOf(stack, L)
                            /\ stack'[Len(stack')].c # NULL
                            /\ stack'[Len(stack')].at = "next"
    <2> DEFINE s2 == stack'
    <2>1. s2 = Front(stack)
      BY <1>1
    <2> HIDE DEF s2
    <2>2. Path(tree, stack) /\ stack # <<>>
      BY <1>1, <1>2
    <2>3. Path(tree, s2) /\ Len(s2) = L - 1
      BY ONLY <2>1, <2>2, PopCall
    <2>4. \A k \in 1 .. Len(s2) : s2[k] = stack[k]
      BY ONLY <2>1, <2>2, <2>3, PopCall
    <2>5. s2 = <<>> <=> Len(stack) = 1
      BY ONLY <2>1, <2>2, <2>3, PopCall
    <2>6. s2 # <<>> => /\ s2[Len(s2)].c = SetOf(stack, L)
                       /\ s2[Len(s2)].c # NULL /\ s2[Len(s2)].at = "next"
      BY ONLY <2>1, <2>2, PopCall
    <2> QED BY <2>3, <2>4, <2>5, <2>6 DEF s2
  <1>4. BufferInv'
    <2>1. ASSUME NEW pos \in 0 .. Len(tree), DoneWith(tree, stack, pos)
          PROVE  DoneWith(tree, stack', pos)
      <3>1. EndsAt(tree, SetOf(stack, L), pos)
        BY <1>1, <2>1 DEF DoneWith, Top
      <3>2. CASE stack' = <<>>
        <4>1. SetOf(stack, L) = 0
          BY <1>3, <3>2 DEF SetOf, NULL
        <4>2. pos = Len(tree)
          <5> SUFFICES ASSUME pos # Len(tree) PROVE FALSE
            OBVIOUS
          <5>1. tree[pos + 1].depth <= -1
            BY <3>1, <4>1 DEF EndsAt, DepthIn, NULL
          <5>2. pos + 1 \in 1 .. Len(tree)
            <6> DEFINE M == Len(tree)
            <6>1. M \in Nat /\ pos \in 0 .. M /\ pos # M
              BY TreeShape DEF WalkInv
            <6> HIDE DEF M
            <6>2. pos + 1 \in 1 .. M
              BY <6>1
            <6> QED BY <6>2 DEF M
          <5>3. tree[pos + 1].depth \in Nat
            BY <5>2, TreeShape DEF WalkInv
          <5> QED BY <5>1, <5>3
        <4> QED BY <3>2, <4>2 DEF DoneWith
      <3>3. CASE stack' # <<>>
        BY <1>3, <3>1, <3>3 DEF DoneWith
      <3> QED BY <3>2, <3>3
    <2> QED BY <1>1, <2>1, NoMore
  <1>5. CopInv'
    <2>1. stack' = <<>> \/ Top'.at # "directive"
      BY <1>3 DEF Top
    <2> QED BY <1>1, <2>1, NoCopInHand
  <1>6. PoolInv'
    <2>1. /\ Pools(stack, made) /\ live = PoolsOf(stack)
          /\ made \in Nat /\ made >= ctx_pool /\ stage' # "over"
      BY <1>1, Walking DEF WalkInv, PoolInv
    <2>2. /\ \A k \in 1 .. L - 1 : k \in 1 .. L /\ k < L /\ k \in 1 .. Len(stack')
          /\ DOMAIN stack' = 1 .. L - 1
          /\ \A k \in 1 .. L : k # L => k \in 1 .. L - 1
      <3>0. L \in Nat \ {0}
        BY <1>2
      <3> HIDE DEF L
      <3>1. \A k \in 1 .. L - 1 : k \in 1 .. L /\ k < L
        BY <3>0
      <3>2. \A k \in 1 .. L : k # L => k \in 1 .. L - 1
        BY <3>0
      <3>3. DOMAIN stack' = 1 .. L - 1
        BY <1>3, LenProperties DEF Path
      <3> QED BY <1>3, <3>1, <3>2, <3>3
    <2>3. \A k \in 1 .. L - 1 : stack'[k] = stack[k]
      BY <1>3
    <2> HIDE DEF L
    <2>4. Pools(stack', made)
      <3>1. \A k \in 1 .. L :
              /\ stack[k].indent <= made
              /\ IF k = 1 THEN stack[k].indent = StaticText
                          ELSE stack[k].indent > ctx_pool
              /\ \A j \in 1 .. L : j < k => stack[j].indent < stack[k].indent
        BY <2>1 DEF Pools, L
      <3>2. Len(stack') = L - 1
        BY <1>3
      <3> QED BY <2>2, <2>3, <3>1, <3>2 DEF Pools
    <2>5. PoolsOf(stack') = PoolsOf(stack) \ {Top.indent}
      <3> DEFINE I == {stack[n].indent : n \in 1 .. L - 1}
      <3>1. {stack[n].indent : n \in 1 .. L} = I \cup {Top.indent}
        <4>1. \A n \in 1 .. L : stack[n].indent \in I \cup {Top.indent}
          BY <2>2 DEF Top, L
        <4>2. \A n \in 1 .. L - 1 : stack[n].indent \in {stack[m].indent : m \in 1 .. L}
          BY <2>2
        <4>3. Top.indent \in {stack[m].indent : m \in 1 .. L}
          BY <1>2 DEF Top, L
        <4> QED BY <4>1, <4>2, <4>3
      <3>2. {stack'[n].indent : n \in 1 .. L - 1} = I
        BY <2>3
      <3>3. Top.indent \notin I
        <4>1. \A n \in 1 .. L - 1 : stack[n].indent < Top.indent
          BY <1>2, <2>1, <2>2 DEF Pools, Top, L
        <4>2. Top.indent \in Nat
          <5>1. stack[Len(stack)] \in Calls(tree)
            BY <1>1, TopCall DEF WalkInv
          <5> QED BY <5>1 DEF Top, Calls
        <4>3. \A n \in 1 .. L - 1 : stack[n].indent # Top.indent
          BY <4>1, <4>2
        <4> QED BY <4>3
      <3>4. Top.indent # ctx_pool
        BY <1>2, <2>1 DEF Pools, Top, ctx_pool, StaticText, L
      <3>5. PoolsOf(stack') = {ctx_pool} \cup (I \ {StaticText})
        BY <2>2, <3>2 DEF PoolsOf
      <3>6. PoolsOf(stack) = {ctx_pool} \cup ((I \cup {Top.indent}) \ {StaticText})
        BY <1>2, <3>1 DEF PoolsOf
      <3> HIDE DEF I
      <3> QED BY <3>3, <3>4, <3>5, <3>6
    <2> QED BY <1>1, <2>1, <2>4, <2>5 DEF PoolInv
  <1>7. StageInv'
    BY <1>1, Walking
  <1> QED BY <1>1, <1>3, <1>4, <1>5, <1>6, <1>7 DEF WalkInv

\* The caller writes the buffer, and destroys the context pool.
LEMMA CallerStep ==
  ASSUME WalkInv, WriteLines \/ DestroyContext \/ Done
  PROVE  WalkInv'
  <1>1. /\ stack = <<>> /\ UNCHANGED <<tree, stack, cop, buffered_lines, made>>
        /\ stage' \in {"walk", "written", "over"}
    BY DEF WriteLines, DestroyContext, Done, WalkInv, StageInv, vars
  <1>2. CopInv'
    BY <1>1, NoCopInHand
  <1>3. PoolInv'
    <2>1. /\ made \in Nat /\ made >= ctx_pool /\ Pools(stack, made)
          /\ live = IF stage = "over" THEN {} ELSE PoolsOf(stack)
      BY DEF WalkInv, PoolInv
    <2>2. PoolsOf(stack) = {ctx_pool}
      <3>1. DOMAIN stack = {}
        BY <1>1
      <3> QED BY <3>1 DEF PoolsOf
    <2>3. live' = IF stage' = "over" THEN {} ELSE PoolsOf(stack)
      BY <2>1, <2>2 DEF WriteLines, DestroyContext, Done, vars
    <2> QED BY <1>1, <2>1, <2>3 DEF PoolInv
  <1>4. BufferInv' /\ Path(tree, stack)' /\ StageInv' /\ tree' \in Trees
    BY <1>1 DEF WalkInv, BufferInv, StageInv
  <1> QED BY <1>2, <1>3, <1>4 DEF WalkInv

\* Every step keeps the invariant.
LEMMA WalkNext == WalkInv /\ [Next]_vars => WalkInv'
  <1> SUFFICES ASSUME WalkInv, [Next]_vars PROVE WalkInv'
    OBVIOUS
  <1>1. CASE UNCHANGED vars
    BY <1>1 DEF vars, WalkInv, BufferInv, CopInv, At, Top, Current, PoolInv, StageInv
  <1> QED BY <1>1, SkipRecStep, GetCopStep, AddLineStep, DescendStep, NoDescentStep,
             AdvanceStep, ReturnStep, CallerStep DEF Next

-----------------------------------------------------------------------------
(* Theorems *)

\* The inductive invariant holds whatever the tree: the calls walk down a path of
\* it, and what they are done with is a beginning of its preorder list.
THEOREM WalkInvariant == Spec => []WalkInv
  BY WalkInit, WalkNext, PTL DEF Spec

\* When lint_add_server_rec returns, what its recursion over the tree has buffered
\* is what one pass over the preorder list gives, each config_rec once, in that
\* order and with the indent of its own depth, for a tree of any size and depth.
THEOREM WalkInPreorder == Spec => []WalkIsPreorder
  <1>1. WalkInv => WalkIsPreorder
    <2> SUFFICES ASSUME WalkInv, stack = <<>>
                 PROVE  ItemsOf(buffered_lines) = Writer!lint_add_config_set(tree)
      BY DEF WalkIsPreorder, ItemsOf
    <2>1. ItemsOf(buffered_lines) = Writer!lint_add_config_set(SubSeq(tree, 1, Len(tree)))
      BY DEF WalkInv, BufferInv, DoneWith
    <2>2. SubSeq(tree, 1, Len(tree)) = tree
      BY TreeShape, SubSeqFull DEF WalkInv
    <2> QED BY <2>1, <2>2
  <1> QED BY <1>1, WalkInvariant, PTL

\* The pools that exist are the context pool and, of each running call of
\* lint_add_config_set but the outermost, the one its indent is in: none is
\* destroyed too early, however deep the tree, and when its caller has ended none is
\* left.
THEOREM IndentPoolsKept == Spec => []IndentPools
  <1>1. WalkInv => IndentPools
    <2> SUFFICES ASSUME WalkInv PROVE IndentPools
      OBVIOUS
    <2>1. CASE stage = "over"
      <3>1. DOMAIN stack = {}
        BY <2>1 DEF WalkInv, StageInv
      <3> QED BY <2>1, <3>1 DEF WalkInv, PoolInv, IndentPools
    <2>2. CASE stage # "over"
      BY <2>2 DEF WalkInv, PoolInv, PoolsOf, IndentPools
    <2> QED BY <2>1, <2>2
  <1> QED BY <1>1, WalkInvariant, PTL

\* Until the buffer is written its lines are in pools that exist, however deep in the
\* tree the config_rec of a line is and whichever calls have returned since.
THEOREM LinesStayAlive == Spec => []LinesAlive
  <1>1. WalkInv => LinesAlive
    <2> SUFFICES ASSUME WalkInv, stage = "walk", NEW n \in DOMAIN buffered_lines
                 PROVE  buffered_lines[n].pool \in live
      BY DEF LinesAlive
    <2>1. buffered_lines \in Seq([item : LineItems, pool : {ctx_pool}])
      BY DEF WalkInv, BufferInv, BufferTypes
    <2>2. buffered_lines[n] \in [item : LineItems, pool : {ctx_pool}]
      BY <2>1, LenProperties, ElementOfSeq
    <2> QED BY <2>2 DEF WalkInv, PoolInv, PoolsOf
  <1> QED BY <1>1, WalkInvariant, PTL

==============================================================================
