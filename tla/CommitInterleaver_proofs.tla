------------------------ MODULE CommitInterleaver_proofs ------------------------
(***************************************************************************)
(* For every split history, set of directories, branches and size of the   *)
(* batches: the types are right; while a run interleaves, its head has the *)
(* content and the history of the heads it merged, and it ends at the      *)
(* goals (HeadInStep); the mono commits keep the ancestry of the split     *)
(* commits if their dates do (AncestryKeptIfDated); a run fails only for   *)
(* want of a merge base (FailsOnlyWithoutBase); a run with the goals that  *)
(* the branch has already changes nothing (RerunIsIdle); and runs keep the *)
(* promise to the branches (PromiseKept).                                  *)
(*                                                                         *)
(* What the functions of the model return is in                            *)
(* InterleaverFunctions_proofs; here are the functions that put the paths  *)
(* of the directories together, the inductive invariant of the passes and  *)
(* the theorems.                                                           *)
(***************************************************************************)
EXTENDS InterleaverFunctions_proofs

-----------------------------------------------------------------------------
(***************************************************************************)
(* The invariant of a run, by the pass it is in.                           *)
(***************************************************************************)
\* The mono commits, the database and its saved version.
Written(log, m, s) ==
  /\ IsLog(hist, log) /\ Database(log, m) /\ Database(log, s)
  /\ \A c \in Commit : s[c] # Null => m[c] = s[c]

\* The head has the content of the heads of the directories.
StepOf(log, m, hd, dh) ==
  /\ hd = Null => \A d \in Dir : dh[d] = Null
  /\ hd # Null => \A d \in Dir : dh[d] # Null =>
       log[hd].tree[d] = dh[d] /\ m[dh[d]] \in log[hd].anc

\* The refs of a branch: the heads of its directories are in the database.
RefsOf(log, r, s) ==
  \A b \in Branch :
    /\ r[b].head \in 0 .. Len(log)
    /\ r[b].dhead \in [Dir -> Commit \cup {Null}]
    /\ \A d \in Dir : r[b].dhead[d] # Null =>
         /\ d \in Tracked[b] /\ hist.dir[r[b].dhead[d]] = d /\ s[r[b].dhead[d]] # Null
    /\ StepOf(log, s, r[b].head, r[b].dhead)

\* The heads of a run.
HeadsOf(log, m, hd, dh, act) ==
  /\ hd \in 0 .. Len(log)
  /\ dh \in [Dir -> Commit \cup {Null}]
  /\ act \subseteq Dir
  /\ \A d \in Dir : dh[d] # Null =>
       /\ d \in act /\ d \in Source /\ hist.dir[dh[d]] = d /\ m[dh[d]] # Null

GoalOf(g) ==
  /\ br \in Branch /\ g \in [Dir -> Commit \cup {Null}]
  /\ \A d \in Dir : IF d \in Source THEN g[d] # Null /\ hist.dir[g[d]] = d ELSE g[d] = Null

\* The commits of the goal without a mono commit, parents first.
TodoOf(s, g, m) ==
  /\ s \in Seq(Commit) /\ IsInjective(s)
  /\ ToSet(s) = {c \in hist.anc[g] : m[c] = Null}
  /\ \A i \in 1 .. Len(s) : \A p \in ToSet(hist.par[s[i]]) :
       m[p] # Null \/ \E j \in 1 .. i - 1 : s[j] = p

\* What is next for a directory is to be translated on its head.
OnHead(f, h) ==
  ~ f.translated /\ f.headp # 0 => h # Null /\ (Dated => Picked(f) = h)

ListOf(l, d, dh, m) ==
  /\ IsPath(l, goal[d])
  /\ \A i \in 1 .. Len(l) : l[i].translated <=> m[l[i].c] # Null
  /\ l = <<>> => dh[d] = goal[d]
  /\ l # <<>> => OnHead(l[Len(l)], dh[d])

ListsOf(ls, dh, m) ==
  /\ ls = [d \in Dir |-> ls[d]]
  /\ \A d \in Dir : IF d \in Source THEN ListOf(ls[d], d, dh, m) ELSE ls[d] = <<>>

Entry(f, m) ==
  /\ f \in FRec /\ hist.dir[f.c] \in Source /\ f.c \in hist.anc[goal[hist.dir[f.c]]]
  /\ f.headp \in 0 .. Len(hist.par[f.c])
  /\ f.headp = 0 => hist.par[f.c] = <<>>
  /\ f.translated <=> m[f.c] # Null

InDir(q, d) == {k \in 1 .. Len(q) : hist.dir[q[k].c] = d}

\* The entries of d in the queue: a path from its goal to its head.
Waiting(q, d, h) ==
  /\ InDir(q, d) = {} => h = goal[d]
  /\ \A k \in InDir(q, d) :
       /\ (\A l \in InDir(q, d) : k <= l) => q[k].c = goal[d]
       /\ (\A l \in InDir(q, d) : l <= k) => OnHead(q[k], h)
       /\ \A l \in InDir(q, d) : k < l =>
            /\ q[l].c \in hist.anc[q[k].c] /\ q[l].c < q[k].c
            /\ (\A j \in InDir(q, d) : j <= k \/ l <= j) => Links(q[k], q[l])

QueueOf(q, dh, m) ==
  /\ q \in Seq(FRec)
  /\ \A k \in 1 .. Len(q) : Entry(q[k], m)
  /\ \A d \in Source : Waiting(q, d, dh[d])

Inv ==
  /\ IsHistory(hist, Dir)
  /\ Written(mono, map, saved) /\ RefsOf(mono, ref, saved)
  /\ HeadsOf(mono, map, head, dhead, active)
  /\ pc \in {"idle", "find_parents", "clean_heads", "find_commits", "order", "merge_heads",
             "fast_forward", "interleave", "publish", "failed"}
  /\ pc = "idle" => NoJob
  /\ pc # "idle" => GoalOf(goal)
  /\ DOMAIN todo = Dir /\ DOMAIN ref = Branch
  /\ pc \in {"find_parents", "clean_heads"} => dhead = ref[br].dhead
  /\ pc \in {"clean_heads", "find_commits", "order", "merge_heads", "fast_forward", "interleave"} =>
       \A d \in Source : TodoOf(todo[d], goal[d], map)
  /\ pc = "find_commits" => \A d \in Source : dhead[d] # Null => dhead[d] \in hist.anc[goal[d]]
  /\ pc = "order" => ListsOf(list, dhead, map)
  /\ pc \in {"merge_heads", "fast_forward", "interleave"} => QueueOf(queue, dhead, map)
  /\ pc \in {"fast_forward", "interleave", "publish"} => StepOf(mono, map, head, dhead)
  /\ pc = "publish" => dhead = goal
  /\ FailsOnlyWithoutBase

\* The same, of the values after a step of a run.
NewInv(log, m, hd, dh, act, p, td, ls, q) ==
  /\ Written(log, m, saved) /\ RefsOf(log, ref, saved)
  /\ HeadsOf(log, m, hd, dh, act)
  /\ p \in {"clean_heads", "find_commits", "order", "merge_heads",
             "fast_forward", "interleave", "publish", "failed"}
  /\ p = "clean_heads" => dh = ref[br].dhead
  /\ p \in {"clean_heads", "find_commits", "order", "merge_heads", "fast_forward", "interleave"} =>
       \A d \in Source : TodoOf(td[d], goal[d], m)
  /\ p = "find_commits" => \A d \in Source : dh[d] # Null => dh[d] \in hist.anc[goal[d]]
  /\ p = "order" => ListsOf(ls, dh, m)
  /\ p \in {"merge_heads", "fast_forward", "interleave"} => QueueOf(q, dh, m)
  /\ p \in {"fast_forward", "interleave", "publish"} => StepOf(log, m, hd, dh)
  /\ p = "publish" => dh = goal
  /\ p = "failed" => \E d \in Source : /\ ref[br].dhead[d] # Null
                                       /\ hist.anc[ref[br].dhead[d]] \cap hist.anc[goal[d]] = {}

LEMMA RunStep ==
  ASSUME Inv, pc # "idle", UNCHANGED <<hist, ref, saved, br, goal>>,
         todo' = todo \/ DOMAIN todo' = Dir,
         NewInv(mono', map', head', dhead', active', pc', todo', list', queue')
  PROVE  Inv'
<1>1. IsHistory(hist, Dir)'
  BY SMTT(30) DEF Inv, IsHistory, Commits
<1>2. Written(mono, map, saved)'
  BY DEF NewInv, Written, IsLog, IsTree, Database, Commit, Commits, Dated
<1>3. RefsOf(mono, ref, saved)'
  BY DEF NewInv, RefsOf, StepOf, Commit, Commits
<1>4. HeadsOf(mono, map, head, dhead, active)'
  BY DEF NewInv, HeadsOf, Commit, Commits, Source
<1>5. GoalOf(goal)'
  BY DEF Inv, GoalOf, Commit, Commits, Source
<1>6. pc' \in {"clean_heads", "find_commits", "order", "merge_heads", "fast_forward", "interleave"} =>
       \A d \in Source' : TodoOf(todo[d], goal[d], map)'
  BY DEF NewInv, TodoOf, Commit, Commits, Source
<1>7. pc' = "order" => ListsOf(list, dhead, map)'
  BY DEF NewInv, ListsOf, ListOf, IsPath, Links, OnHead, Picked, FRec, Commit, Commits, Source,
    Dated
<1>8. pc' \in {"merge_heads", "fast_forward", "interleave"} => QueueOf(queue, dhead, map)'
  <2> SUFFICES ASSUME pc' \in {"merge_heads", "fast_forward", "interleave"}
               PROVE  QueueOf(queue, dhead, map)'
    OBVIOUS
  <2>1. QueueOf(queue', dhead', map')
    BY DEF NewInv
  <2>2. (queue \in Seq(FRec))' /\ \A k \in 1 .. Len(queue') : Entry(queue[k], map)'
    BY <2>1 DEF QueueOf, Entry, FRec, Commit, Commits, Source
  <2>3. ASSUME NEW d \in Source' PROVE Waiting(queue, d, dhead[d])'
    <3>1. d \in Source
      BY DEF Source
    <3>2. Waiting(queue', d, dhead'[d])
      BY <2>1, <3>1 DEF QueueOf
    <3>3. InDir(queue, d)' = InDir(queue', d)
      BY DEF InDir
    <3> QED
      BY <3>2, <3>3 DEF Waiting, Links, OnHead, Picked, Dated, Commit, Commits
  <2> QED
    BY <2>2, <2>3 DEF QueueOf
<1>9. pc' \in {"fast_forward", "interleave", "publish"} => StepOf(mono, map, head, dhead)'
  BY DEF NewInv, StepOf
<1>10. /\ pc' \in {"clean_heads", "find_commits", "order", "merge_heads",
                    "fast_forward", "interleave", "publish", "failed"}
       /\ pc' = "clean_heads" => dhead' = ref'[br'].dhead
       /\ pc' = "find_commits" => \A d \in Source' : dhead'[d] # Null
            => dhead'[d] \in hist'.anc[goal'[d]]
       /\ pc' = "publish" => dhead' = goal'
       /\ FailsOnlyWithoutBase'
  BY DEF NewInv, FailsOnlyWithoutBase, Source
<1>11. (DOMAIN todo = Dir /\ DOMAIN ref = Branch)'
  BY DEF Inv
<1> QED
  BY <1>1, <1>2, <1>3, <1>4, <1>5, <1>6, <1>7, <1>8, <1>9, <1>10, <1>11 DEF Inv

LEMMA ReverseIs ==
  ASSUME NEW S, NEW s \in Seq(S), NEW r, r = Reverse(s)
  PROVE  /\ r \in Seq(S) /\ Len(r) = Len(s) /\ ToSet(r) = ToSet(s)
         /\ \A i \in 1 .. Len(s) : r[i] = s[Len(s) + 1 - i]
         /\ IsInjective(s) => IsInjective(r)
<1> DEFINE n == Len(s)
<1>1. n \in Nat /\ DOMAIN s = 1 .. n /\ \A i \in 1 .. n : s[i] \in S /\ n + 1 - i \in 1 .. n
  OBVIOUS
<1>2. r = [i \in 1 .. n |-> s[(n - i) + 1]]
  BY DEF Reverse
<1>3. \A i \in 1 .. n : (n - i) + 1 = n + 1 - i /\ r[i] = s[n + 1 - i] /\ r[i] \in S
  BY <1>1, <1>2
<1>4. r \in Seq(S) /\ Len(r) = n /\ DOMAIN r = 1 .. n
  BY <1>1, <1>2, <1>3
<1>5. ToSet(r) = ToSet(s)
  <2>1. \A i \in 1 .. n : s[i] = r[n + 1 - i]
    <3> SUFFICES ASSUME NEW i \in 1 .. n PROVE s[i] = r[n + 1 - i]
      OBVIOUS
    <3>1. n + 1 - (n + 1 - i) = i
      BY <1>1
    <3> QED
      BY <1>1, <1>3, <3>1
  <2> QED
    BY SMTT(30), <1>1, <1>3, <1>4, <2>1 DEF ToSet
<1>6. ASSUME IsInjective(s) PROVE IsInjective(r)
  <2> SUFFICES ASSUME NEW i \in 1 .. n, NEW j \in 1 .. n, r[i] = r[j] PROVE i = j
    BY <1>4 DEF IsInjective
  <2>1. n + 1 - i = n + 1 - j
    BY <1>1, <1>3, <1>6 DEF IsInjective
  <2> QED
    BY <1>1, <2>1
<1> QED
  BY <1>3, <1>4, <1>5, <1>6

\* The commits that no head has, parents first.
LEMMA TodoIs ==
  ASSUME IsHistory(hist, Dir), Database(mono, map), NEW d, goal[d] \in Commit,
         \A x \in ({dhead[d]} \cup {ref[b].dhead[d] : b \in Branch}) \ {Null} :
           x \in Commit /\ map[x] # Null
  PROVE  TodoOf(ParentsToTranslate(d), goal[d], map)
<1> DEFINE g == goal[d]
           X == ({dhead[d]} \cup {ref[b].dhead[d] : b \in Branch}) \ {Null}
           region == Unmerged(d)
           L == LogOrder(hist, g, region, TRUE)
           R == Reverse(L)
           W == ParentsToTranslate(d)
<1>1. region = hist.anc[g] \ UNION {hist.anc[c] : c \in X}
  BY DEF Unmerged, Ancestors
<1>2. \A x \in X : x \in Commit /\ map[x] # Null
  OBVIOUS
<1>3. W = Within(R, Untranslated)
  BY DEF ParentsToTranslate
<1> HIDE DEF X, W
<1>4. \A c \in UNION {hist.anc[x] : x \in X} : map[c] # Null
  BY <1>2, AncestorsMapped
<1>5. hist.anc[g] \subseteq Commit /\ g \in hist.anc[g]
  BY AncestorFacts DEF Commit
<1>6. region \subseteq hist.anc[g] /\ \A c \in hist.anc[g] : map[c] = Null => c \in region
  BY <1>1, <1>4
<1>7. CASE g \notin region
  <2>1. L = <<>>
    BY <1>7 DEF LogOrder
  <2> DEFINE e == R
  <2>3. e \in Seq(Commit) /\ ToSet(e) = {} /\ W = Within(e, Untranslated)
    <3>1. L \in Seq(Commit) /\ ToSet(L) = {}
      <4>1. <<>> \in Seq(Commit)
        OBVIOUS
      <4>2. ToSet(<<>>) = {}
        BY DEF ToSet
      <4> HIDE DEF L
      <4> QED
        BY <2>1, <4>1, <4>2
    <3> HIDE DEF L
    <3>2. R \in Seq(Commit) /\ ToSet(R) = {}
      BY <3>1, ReverseIs
    <3> QED
      BY <1>3, <3>2
  <2> HIDE DEF e
  <2>4. W \in Seq(Commit) /\ ToSet(W) = {}
    BY <2>3, WithinIs
  <2>5. Len(W) = 0
    <3>1. Len(W) \in Nat /\ DOMAIN W = 1 .. Len(W)
      BY <2>4
    <3>2. \A i \in 1 .. Len(W) : FALSE
      BY <2>4, <3>1 DEF ToSet
    <3> QED
      BY <3>1, <3>2
  <2>6. PICK x \in X : g \in hist.anc[x]
    BY <1>1, <1>5, <1>7
  <2>7. map[g] # Null
    BY <1>2, <2>6, AncestorsMapped
  <2>8. \A c \in hist.anc[g] : map[c] # Null
    BY <2>7, AncestorsMapped
  <2>9. IsInjective(W) /\ 1 .. Len(W) = {}
    BY <2>4, <2>5 DEF IsInjective
  <2> HIDE DEF g
  <2> QED
    BY <2>4, <2>8, <2>9 DEF TodoOf, g, W
<1>8. CASE g \in region
  <2>1. FromTip(hist, g, region)
    <3>1. ASSUME NEW p \in region \ {g} PROVE \E k \in region : p \in ToSet(hist.par[k])
      <4>1. p \in hist.anc[g] /\ g \in Commits(hist)
        BY <1>6 DEF Commit
      <4>2. PICK k \in hist.anc[g] : p \in ToSet(hist.par[k])
        BY <3>1, <4>1, ChildBetween
      <4>3. k \in Commits(hist) /\ p \in hist.anc[k]
        BY <1>5, <4>2, AncestorFacts DEF Commit
      <4>4. \A x \in X : k \notin hist.anc[x]
        <5> SUFFICES ASSUME NEW x \in X, k \in hist.anc[x] PROVE FALSE
          OBVIOUS
        <5>1. p \in hist.anc[x]
          BY <1>2, <4>3, AncestorFacts DEF Commit
        <5> QED
          BY <1>1, <3>1, <5>1
      <4> QED
        BY <1>1, <4>2, <4>4
    <3> QED
      BY <1>5, <1>6, <1>8, <3>1 DEF FromTip, Commit
  <2> HIDE DEF region, g
  <2>2. /\ L \in Seq(region) /\ IsInjective(L) /\ ToSet(L) = region
        /\ \A j \in 1 .. Len(L), k \in region :
             L[j] \in ToSet(hist.par[k]) => \E i \in 1 .. j - 1 : L[i] = k
    <3> DEFINE dateOrder == TRUE
    <3>1. L = LogOrder(hist, g, region, dateOrder) /\ dateOrder \in BOOLEAN
      OBVIOUS
    <3> HIDE DEF L, dateOrder
    <3>2. /\ L \in Seq(region) /\ IsInjective(L) /\ ToSet(L) = region
          /\ dateOrder => \A j \in 1 .. Len(L), k \in region :
                 L[j] \in ToSet(hist.par[k]) => \E i \in 1 .. j - 1 : L[i] = k
      BY <2>1, <3>1, LogOrderIs
    <3> QED
      BY <3>2 DEF dateOrder
  <2> HIDE DEF L
  <2>3. /\ R \in Seq(region) /\ Len(R) = Len(L) /\ ToSet(R) = region
        /\ \A i \in 1 .. Len(L) : R[i] = L[Len(L) + 1 - i]
        /\ IsInjective(R)
    BY <2>2, ReverseIs
  <2> HIDE DEF R
  <2>4. Len(L) \in Nat /\ DOMAIN L = 1 .. Len(L) /\ \A i \in 1 .. Len(L) : R[i] \in region
          /\ Len(L) + 1 - i \in 1 .. Len(L)
    BY <2>2, <2>3
  <2>5. ASSUME NEW i \in 1 .. Len(L), NEW p \in ToSet(hist.par[R[i]]), p \in region
        PROVE  \E j \in 1 .. i - 1 : R[j] = p
    <3>1. PICK m \in 1 .. Len(L) : L[m] = p
      BY <2>2, <2>4, <2>5 DEF ToSet
    <3>2. PICK k \in 1 .. m - 1 : L[k] = R[i]
      BY <2>2, <2>4, <2>5, <3>1
    <3>3. k \in 1 .. Len(L)
      BY <2>4, <3>1, <3>2
    <3>4. k = Len(L) + 1 - i
      <4>1. L[k] = L[Len(L) + 1 - i] /\ Len(L) + 1 - i \in DOMAIN L /\ k \in DOMAIN L
        BY <2>3, <2>4, <3>2, <3>3
      <4> QED
        BY <2>2, <4>1 DEF IsInjective
    <3>5. Len(L) + 1 - m \in 1 .. i - 1 /\ Len(L) + 1 - m \in 1 .. Len(L)
            /\ Len(L) + 1 - (Len(L) + 1 - m) = m
      BY <2>4, <3>1, <3>2, <3>4
    <3>6. R[Len(L) + 1 - m] = p
      BY <2>3, <3>1, <3>5
    <3> QED
      BY <3>5, <3>6
  <2>6. /\ W \in Seq(region) /\ ToSet(W) = region \cap Untranslated /\ IsInjective(W)
    BY <1>3, <2>3, WithinIs
  <2>7. PICK e : Places(W, R, Untranslated, Len(R), e)
    BY <1>3, <2>3, WithinPlaces
  <2>8. ASSUME NEW i \in 1 .. Len(W), NEW p \in ToSet(hist.par[W[i]])
        PROVE  map[p] # Null \/ \E j \in 1 .. i - 1 : W[j] = p
    <3> SUFFICES ASSUME map[p] = Null PROVE \E j \in 1 .. i - 1 : W[j] = p
      OBVIOUS
    <3>1. e[i] \in 1 .. Len(L) /\ W[i] = R[e[i]]
      BY <2>3, <2>7 DEF Places
    <3>2. W[i] \in region
      BY <2>4, <3>1
    <3>3. p \in hist.anc[g] /\ p \in Commit
      <4>1. W[i] \in hist.anc[g] /\ W[i] \in Commits(hist)
        BY <1>5, <1>6, <3>2 DEF Commit
      <4>2. p \in hist.anc[W[i]]
        BY <4>1, AncestorFacts
      <4>3. hist.anc[W[i]] \subseteq hist.anc[g]
        BY <4>1, AncestorFacts DEF Commit, g
      <4> QED
        BY <1>5, <4>2, <4>3
    <3>4. p \in region
      BY <1>6, <3>3
    <3>5. PICK j \in 1 .. e[i] - 1 : R[j] = p
      BY <2>5, <3>1, <3>4
    <3>6. j \in 1 .. Len(R)
      BY <2>3, <2>4, <3>1, <3>5
    <3>7. p \in Untranslated
      BY <3>3 DEF Untranslated
    <3>8. PICK x \in 1 .. Len(W) : e[x] = j
      BY <2>7, <3>5, <3>6, <3>7 DEF Places
    <3>9. W[x] = p
      BY <2>7, <3>5, <3>8 DEF Places
    <3>10. x < i
      <4>1. Len(W) \in Nat
        BY <2>6
      <4>2. i < x => e[i] < e[x]
        BY <2>7, <3>8 DEF Places
      <4>3. e[x] < e[i] /\ e[x] # e[i]
        BY <2>4, <3>1, <3>5, <3>8
      <4> QED
        BY <2>4, <3>1, <3>5, <3>8, <4>1, <4>2, <4>3
    <3>11. x \in 1 .. i - 1
      BY <3>8, <3>10
    <3> QED
      BY <3>9, <3>11
  <2>9. W \in Seq(Commit)
    BY <1>5, <1>6, <2>6
  <2>10. ToSet(W) = {c \in hist.anc[g] : map[c] = Null}
    BY <1>5, <1>6, <2>6 DEF Untranslated
  <2> QED
    BY <2>6, <2>8, <2>9, <2>10 DEF TodoOf, W, g
<1> QED
  BY <1>7, <1>8

LEMMA GoalIs ==
  ASSUME GoalOf(goal), NEW d \in Source
  PROVE  d \in Dir /\ goal[d] \in Commit /\ hist.dir[goal[d]] = d /\ goal[d] # Null
<1>1. d \in Dir
  BY InterleaverAssumption DEF GoalOf, Source
<1> QED
  BY <1>1 DEF GoalOf

LEMMA FindParentsStep == Inv /\ FindParentsToTranslate => Inv'
<1> SUFFICES ASSUME Inv, FindParentsToTranslate PROVE Inv'
  OBVIOUS
<1>1. /\ IsHistory(hist, Dir) /\ Database(mono, map) /\ GoalOf(goal)
      /\ Written(mono, map, saved) /\ RefsOf(mono, ref, saved)
      /\ HeadsOf(mono, map, head, dhead, active)
      /\ dhead = ref[br].dhead
  BY DEF Inv, FindParentsToTranslate, Written
<1>2. ASSUME NEW d \in Source PROVE TodoOf(todo'[d], goal[d], map)
  <2>1. d \in Dir /\ goal[d] \in Commit
    BY <1>1, GoalIs
  <2>2. todo'[d] = ParentsToTranslate(d)
    BY <2>1 DEF FindParentsToTranslate
  <2>3. ASSUME NEW b \in Branch, ref[b].dhead[d] # Null
        PROVE  ref[b].dhead[d] \in Commit /\ map[ref[b].dhead[d]] # Null
    <3>1. ref[b].dhead[d] \in Commit /\ saved[ref[b].dhead[d]] # Null
      BY <1>1, <2>1, <2>3 DEF RefsOf
    <3> QED
      BY <1>1, <3>1 DEF Written
  <2>4. dhead[d] # Null => dhead[d] \in Commit /\ map[dhead[d]] # Null
    BY <1>1, <2>1 DEF HeadsOf
  <2>5. \A x \in ({dhead[d]} \cup {ref[b].dhead[d] : b \in Branch}) \ {Null} : x \in Commit
          /\ map[x] # Null
    BY <2>3, <2>4
  <2> QED
    BY <1>1, <2>1, <2>2, <2>5, TodoIs
<1>3. NewInv(mono, map, head, dhead, active, "clean_heads", todo', list, queue)
  BY <1>1, <1>2 DEF NewInv
<1> QED
  BY <1>3, RunStep DEF FindParentsToTranslate

LEMMA CleanHeadsStep == Inv /\ CleanHeads => Inv'
<1> SUFFICES ASSUME Inv, CleanHeads PROVE Inv'
  OBVIOUS
<1> DEFINE base == [d \in Dir |-> HeadBase(d)]
<1>1. /\ IsHistory(hist, Dir) /\ Database(mono, map) /\ GoalOf(goal)
      /\ Written(mono, map, saved) /\ RefsOf(mono, ref, saved)
      /\ HeadsOf(mono, map, head, dhead, active)
      /\ dhead = ref[br].dhead
      /\ \A d \in Source : TodoOf(todo[d], goal[d], map)
  BY DEF Inv, CleanHeads, Written
<1>2. ASSUME NEW d \in Dir, dhead[d] # Null
      PROVE  /\ d \in Source /\ dhead[d] \in Commit /\ goal[d] \in Commit
             /\ IF hist.anc[dhead[d]] \cap hist.anc[goal[d]] = {} THEN base[d] = Null
                ELSE base[d] \in hist.anc[dhead[d]] \cap hist.anc[goal[d]]
                  /\ base[d] \in Commit /\ base[d] # Null
  <2>1. d \in Source /\ dhead[d] \in Commit
    BY <1>1, <1>2 DEF HeadsOf
  <2>2. goal[d] \in Commit
    BY <1>1, <2>1, GoalIs
  <2>3. base[d] = MergeBase(hist, dhead[d], goal[d])
    BY <1>2 DEF HeadBase
  <2> HIDE DEF base
  <2> QED
    BY <1>1, <2>1, <2>2, <2>3, MergeBaseIs DEF Commit
<1>3. \A d \in Dir : dhead[d] = Null => base[d] = Null
  BY DEF HeadBase
<1>4. \A d \in Source : d \in Dir
  BY <1>1, GoalIs
<1>5. CASE \E d \in Source : dhead[d] # Null /\ base[d] = Null
  <2>1. pc' = "failed" /\ UNCHANGED <<head, dhead>>
    BY <1>5 DEF CleanHeads
  <2>2. PICK d \in Source : dhead[d] # Null /\ base[d] = Null
    BY <1>5
  <2>3. hist.anc[ref[br].dhead[d]] \cap hist.anc[goal[d]] = {} /\ ref[br].dhead[d] # Null
    BY <1>1, <1>2, <1>4, <2>2
  <2>4. NewInv(mono, map, head, dhead, active, "failed", todo, list, queue)
    BY <1>1, <2>2, <2>3 DEF NewInv
  <2> QED
    BY <2>1, <2>4, RunStep DEF CleanHeads
<1>6. CASE ~ \E d \in Source : dhead[d] # Null /\ base[d] = Null
  <2>1. pc' = "find_commits" /\ dhead' = base /\ head' = IF base = dhead THEN head ELSE Null
    BY <1>6 DEF CleanHeads
  <2>2. ASSUME NEW d \in Dir, base[d] # Null
        PROVE  /\ dhead[d] # Null /\ d \in Source /\ base[d] \in Commit
                    /\ base[d] \in hist.anc[goal[d]]
               /\ hist.dir[base[d]] = d /\ map[base[d]] # Null /\ d \in active
    <3>1. dhead[d] # Null
      BY <1>3, <2>2
    <3>2. /\ base[d] \in hist.anc[dhead[d]] /\ base[d] \in hist.anc[goal[d]] /\ base[d] \in Commit
          /\ dhead[d] \in Commit /\ d \in Source
      BY <1>2, <2>2, <3>1
    <3> HIDE DEF base
    <3>3. hist.dir[dhead[d]] = d /\ map[dhead[d]] # Null /\ d \in active
      BY <1>1, <3>1 DEF HeadsOf
    <3>4. hist.dir[base[d]] = hist.dir[dhead[d]]
      BY <1>1, <3>2, AncestorsClosed DEF Commit
    <3>5. map[base[d]] # Null
      BY <1>1, <3>2, <3>3, AncestorsMapped
    <3> QED
      BY <3>1, <3>2, <3>3, <3>4, <3>5
  <2>3. base \in [Dir -> Commit \cup {Null}]
    <3>1. \A d \in Dir : base[d] \in Commit \cup {Null}
      BY <2>2
    <3>2. base = [d \in Dir |-> base[d]]
      OBVIOUS
    <3> HIDE DEF base
    <3> QED
      BY <3>1, <3>2
  <2> HIDE DEF base
  <2>4. head' \in 0 .. Len(mono)
    <3>1. head \in 0 .. Len(mono) /\ Len(mono) \in Nat
      BY <1>1 DEF HeadsOf, Written, IsLog
    <3> QED
      BY <2>1, <3>1 DEF Null
  <2>5. HeadsOf(mono, map, head', base, active)
    BY <1>1, <2>2, <2>3, <2>4 DEF HeadsOf
  <2>6. NewInv(mono, map, head', base, active, "find_commits", todo, list, queue)
    BY <1>1, <1>4, <2>2, <2>5 DEF NewInv
  <2> QED
    BY <2>1, <2>6, RunStep DEF CleanHeads
<1> QED
  BY <1>5, <1>6

\* A list with the marks of what DirCommits lists is good for the head.
LEMMA KeepsList ==
  ASSUME IsHistory(hist, Dir), NEW d, NEW l, ListFor(l, d), NEW t \in Seq(FRec), Len(t) = Len(l),
         \A i \in 1 .. Len(l) : t[i].c = l[i].c /\ t[i].headp = l[i].headp
           /\ t[i].translated = l[i].translated,
         NEW dh, dh[d] = dhead[d]
  PROVE  ListOf(t, d, dh, map)
<1>1. IsPath(l, goal[d]) /\ (l = <<>> => dhead[d] = goal[d])
  BY DEF ListFor
<1>2. /\ IsPath(t, goal[d]) /\ (t = <<>> <=> l = <<>>)
      /\ l # <<>> => Picked(t[Len(t)]) = Picked(l[Len(l)]) /\ t[Len(t)].headp = l[Len(l)].headp
  BY <1>1, SamePath
<1>3. Len(l) \in Nat /\ (l # <<>> => Len(l) \in 1 .. Len(l))
  BY <1>1 DEF IsPath
<1>4. \A i \in 1 .. Len(t) : t[i].translated <=> map[t[i].c] # Null
  BY DEF ListFor
<1>5. ASSUME t # <<>> PROVE OnHead(t[Len(t)], dh[d])
  <2>1. l # <<>> /\ t[Len(t)].translated = l[Len(l)].translated
    BY <1>2, <1>3, <1>5
  <2>2. IF dhead[d] = Null THEN l[Len(l)].headp = 0 \/ l[Len(l)].translated
        ELSE Dated => Picked(l[Len(l)]) = dhead[d]
    BY <2>1 DEF ListFor
  <2> QED
    BY <1>2, <2>1, <2>2 DEF OnHead
<1> QED
  BY <1>1, <1>2, <1>4, <1>5 DEF ListOf

LEMMA FurtherList ==
  ASSUME IsHistory(hist, Dir), Database(mono, map), NEW d, goal[d] \in Commit, goal[d] # Null,
         NEW l, ListFor(l, d), dhead[d] = Null,
         NEW since, NEW m, m = FurtherParents(l, since), NEW t, t = Fudged(l \o m)
  PROVE  /\ m \in Seq(FRec)
         /\ m # <<>> => \A dh : ListOf(t, d, dh, map)
         /\ m = <<>> => \A dh : dh[d] = dhead[d] => ListOf(t, d, dh, map)
         /\ m # <<>> /\ m[Len(m)].headp # 0 =>
              /\ Picked(m[Len(m)]) \in Commit /\ map[Picked(m[Len(m)])] # Null
              /\ hist.dir[Picked(m[Len(m)])] = hist.dir[goal[d]]
<1>1. l # <<>> /\ l \in Seq(FRec) /\ Len(l) \in Nat
  BY DEF ListFor, IsPath
<1>2. /\ m \in Seq(FRec) /\ IsPath(l \o m, goal[d])
      /\ \A i \in 1 .. Len(m) : m[i].translated /\ map[m[i].c] # Null
      /\ m # <<>> /\ m[Len(m)].headp # 0 =>
           Picked(m[Len(m)]) \in hist.anc[goal[d]] /\ map[Picked(m[Len(m)])] # Null
  BY <1>1, FurtherIs
<1> DEFINE u == l \o m
<1>3. /\ u \in Seq(FRec) /\ Len(u) = Len(l) + Len(m) /\ Len(m) \in Nat
      /\ \A i \in 1 .. Len(l) : u[i] = l[i]
      /\ \A i \in 1 .. Len(m) : u[Len(l) + i] = m[i]
  BY <1>1, <1>2, AfterConcat
<1>4. IsPath(u, goal[d]) /\ t = Fudged(u)
  BY <1>2
<1> HIDE DEF u
<1>5. /\ t \in Seq(FRec) /\ Len(t) = Len(u)
      /\ \A i \in 1 .. Len(u) : t[i].c = u[i].c /\ t[i].headp = u[i].headp
           /\ t[i].translated = u[i].translated
  BY <1>3, <1>4, FudgedIs
<1>6. CASE m = <<>>
  <2>1. Len(t) = Len(l) /\ \A i \in 1 .. Len(l) : t[i].c = l[i].c /\ t[i].headp = l[i].headp
          /\ t[i].translated = l[i].translated
    BY <1>3, <1>5, <1>6
  <2>2. ASSUME NEW dh, dh[d] = dhead[d] PROVE ListOf(t, d, dh, map)
    BY <1>5, <2>1, <2>2, KeepsList
  <2> QED
    BY <1>2, <1>6, <2>2
<1>7. CASE m # <<>>
  <2>1. IsPath(t, goal[d]) /\ t # <<>>
    <3>1. u # <<>>
      BY <1>1, <1>3
    <3> QED
      BY <1>4, <1>5, <3>1, SamePath
  <2>2. Len(m) \in 1 .. Len(m) /\ t[Len(t)].translated
    <3>1. Len(m) \in 1 .. Len(m)
      BY <1>2, <1>3, <1>7
    <3>2. u[Len(u)] = m[Len(m)] /\ Len(u) \in 1 .. Len(u)
      BY <1>1, <1>3, <3>1
    <3> QED
      BY <1>2, <1>5, <3>1, <3>2
  <2>3. ASSUME NEW i \in 1 .. Len(t) PROVE t[i].translated <=> map[t[i].c] # Null
    <3>1. CASE i <= Len(l)
      <4>1. i \in 1 .. Len(l)
        BY <1>1, <1>3, <1>5, <3>1
      <4>2. u[i] = l[i] /\ (l[i].translated <=> map[l[i].c] # Null)
        BY <1>3, <4>1 DEF ListFor
      <4> QED
        BY <1>5, <4>2
    <3>2. CASE i > Len(l)
      <4>1. i - Len(l) \in 1 .. Len(m) /\ Len(l) + (i - Len(l)) = i
        BY <1>1, <1>3, <1>5, <3>2
      <4>2. u[i] = m[i - Len(l)]
        BY <1>3, <4>1
      <4> QED
        BY SMTT(30), <1>2, <1>5, <4>1, <4>2
    <3>3. Len(l) \in Nat /\ Len(t) \in Nat
      BY <1>1, <1>5
    <3>4. i <= Len(l) \/ i > Len(l)
      BY <3>3
    <3> QED
      BY Zenon, <3>1, <3>2, <3>4
  <2>4. ASSUME NEW dh PROVE ListOf(t, d, dh, map)
    BY <2>1, <2>2, <2>3 DEF ListOf, OnHead
  <2>5. ASSUME m[Len(m)].headp # 0
        PROVE  /\ Picked(m[Len(m)]) \in Commit /\ map[Picked(m[Len(m)])] # Null
               /\ hist.dir[Picked(m[Len(m)])] = hist.dir[goal[d]]
    <3>1. Picked(m[Len(m)]) \in hist.anc[goal[d]] /\ map[Picked(m[Len(m)])] # Null
      BY <1>2, <1>7, <2>5
    <3>2. Picked(m[Len(m)]) \in Commit
      BY <3>1, AncestorFacts DEF Commit
    <3>3. hist.dir[Picked(m[Len(m)])] = hist.dir[goal[d]]
      BY <3>1, AncestorsClosed DEF Commit
    <3> QED
      BY <3>1, <3>2, <3>3
  <2> QED
    BY <1>2, <1>7, <2>4, <2>5
<1> QED
  BY <1>6, <1>7

LEMMA FindDirCommitsStep == Inv /\ FindDirCommits => Inv'
<1> SUFFICES ASSUME Inv, FindDirCommits PROVE Inv'
  OBVIOUS
<1>0. pc = "find_commits"
  BY ZenonT(60) DEF FindDirCommits
<1>1. /\ IsHistory(hist, Dir) /\ Database(mono, map) /\ GoalOf(goal)
      /\ Written(mono, map, saved) /\ RefsOf(mono, ref, saved)
      /\ HeadsOf(mono, map, head, dhead, active)
      /\ \A d \in Source : dhead[d] # Null => dhead[d] \in hist.anc[goal[d]]
      /\ \A d \in Source : TodoOf(todo[d], goal[d], map)
  BY Zenon, <1>0 DEF Inv, Written
<1> DEFINE listed == [d \in Dir |-> IF d \in Source THEN DirCommits(d) ELSE <<>>]
           Back(d) == Last(listed[d])
           oldest == [d \in Dir |-> SelectLastInSeq(listed[d], IsUntranslated)]
           pending == {d \in Source : oldest[d] # 0}
           lockIn == {d \in Source :
                      /\ listed[d] # <<>> /\ dhead[d] # Null
                      /\ \/ head = Null
                         \/ /\ map[Back(d).c] # Null
                            /\ head \notin mono[map[Back(d).c]].anc}
           since == Min({listed[d][oldest[d]].ct : d \in pending}
                      \cup {Back(d).ct : d \in lockIn})
           more == [d \in Dir |-> IF d \in Source /\ dhead[d] = Null
                                THEN FurtherParents(listed[d], since) ELSE <<>>]
           First(d) == LET f == Last(more[d])
                     IN  IF f.headp = 0 THEN Null ELSE hist.par[f.c][f.headp]
<1>2. IF pending = {}
         THEN list' = listed /\ UNCHANGED <<dhead, active>>
         ELSE /\ list' = [d \in Dir |->
                   IF d \in lockIn THEN LockedIn(listed[d])
                   ELSE Fudged(listed[d] \o more[d])]
              /\ dhead' = [d \in Dir |-> IF more[d] = <<>> THEN dhead[d] ELSE First(d)]
              /\ active' = active \cup {d \in Dir : dhead'[d] # Null}
  BY Zenon DEF FindDirCommits
<1>3. \A d \in Dir : listed[d] = IF d \in Source THEN DirCommits(d) ELSE <<>>
  OBVIOUS
<1>4. \A d \in Dir : more[d] = IF d \in Source /\ dhead[d] = Null
                                THEN FurtherParents(listed[d], since) ELSE <<>>
  OBVIOUS
<1>5. \A d \in lockIn : d \in Source /\ dhead[d] # Null
  OBVIOUS
<1>6. listed = [d \in Dir |-> listed[d]]
  OBVIOUS
<1> HIDE DEF listed, oldest, pending, lockIn, since, more
<1>7. ASSUME NEW d \in Source
      PROVE  d \in Dir /\ goal[d] \in Commit /\ goal[d] # Null /\ hist.dir[goal[d]] = d
               /\ ListFor(listed[d], d)
  <2>1. d \in Dir /\ goal[d] \in Commit /\ goal[d] # Null /\ hist.dir[goal[d]] = d
    BY <1>1, GoalIs
  <2>2. listed[d] = DirCommits(d)
    BY <1>3, <2>1
  <2> QED
    BY <1>1, <2>1, <2>2, DirCommitsIs
<1>8. ASSUME NEW d \in Source, NEW t \in Seq(FRec), Len(t) = Len(listed[d]),
             \A i \in 1 .. Len(t) : t[i].c = listed[d][i].c /\ t[i].headp = listed[d][i].headp
                                    /\ t[i].translated = listed[d][i].translated,
             NEW dh, dh[d] = dhead[d]
      PROVE  ListOf(t, d, dh, map)
  BY <1>1, <1>7, <1>8, KeepsList
<1>9. ASSUME NEW d \in Source PROVE listed[d] \in Seq(FRec)
  BY <1>7, <1>9 DEF ListFor, IsPath
<1>10. CASE pending = {}
  <2>1. list' = listed /\ UNCHANGED <<dhead, active>>
    BY <1>2, <1>10
  <2>2. \A d \in Source : ListOf(listed[d], d, dhead, map)
    BY <1>8, <1>9
  <2>3. ListsOf(listed, dhead, map)
    <3>1. \A d \in Dir : d \notin Source => listed[d] = <<>>
      BY <1>3
    <3> QED
      BY <1>6, <2>2, <3>1 DEF ListsOf
  <2>4. NewInv(mono, map, head, dhead, active, "order", todo, listed, queue)
    BY Zenon, <1>1, <2>3 DEF NewInv
  <2> QED
    BY Zenon, <2>1, <2>4, RunStep DEF FindDirCommits
<1>11. CASE pending # {}
  <2>1. /\ list' = [d \in Dir |-> IF d \in lockIn THEN LockedIn(listed[d])
                                  ELSE Fudged(listed[d] \o more[d])]
        /\ dhead' = [d \in Dir |-> IF more[d] = <<>> THEN dhead[d] ELSE First(d)]
        /\ active' = active \cup {d \in Dir : dhead'[d] # Null}
    BY <1>2, <1>11
  <2>2. ASSUME NEW d \in lockIn PROVE ListOf(list'[d], d, dhead', map)
    <3>1. d \in Source /\ d \in Dir /\ dhead[d] # Null
      BY <1>5, <1>7
    <3>2. list'[d] = LockedIn(listed[d]) /\ dhead'[d] = dhead[d]
      BY <1>4, <2>1, <3>1
    <3> DEFINE s == listed[d]
    <3>3. s \in Seq(FRec)
      BY <1>9, <3>1
    <3> DEFINE t == [i \in 1 .. Len(s) |-> [s[i] EXCEPT !.locked = TRUE]]
    <3>4. list'[d] = t
      BY <3>2, <3>3 DEF LockedIn
    <3>5. /\ t \in Seq(FRec) /\ Len(t) = Len(s)
          /\ \A i \in 1 .. Len(t) : t[i].c = s[i].c /\ t[i].headp = s[i].headp
               /\ t[i].translated = s[i].translated
      <4> HIDE DEF s
      <4>1. \A i \in 1 .. Len(s) : s[i] \in FRec
        BY <3>3
      <4>2. \A i \in 1 .. Len(s) :
              /\ [s[i] EXCEPT !.locked = TRUE] \in FRec
              /\ [s[i] EXCEPT !.locked = TRUE].c = s[i].c
              /\ [s[i] EXCEPT !.locked = TRUE].headp = s[i].headp
              /\ [s[i] EXCEPT !.locked = TRUE].translated = s[i].translated
        BY <4>1 DEF FRec
      <4>3. Len(s) \in Nat
        BY <3>3
      <4>4. DOMAIN t = 1 .. Len(s) /\ \A i \in 1 .. Len(s) : t[i] = [s[i] EXCEPT !.locked = TRUE]
        OBVIOUS
      <4>5. t = [i \in 1 .. Len(s) |-> t[i]]
        OBVIOUS
      <4> HIDE DEF t
      <4>6. \A i \in 1 .. Len(s) : t[i] \in FRec /\ t[i].c = s[i].c /\ t[i].headp = s[i].headp
                                    /\ t[i].translated = s[i].translated
        BY <4>2, <4>4
      <4>7. t \in Seq(FRec) /\ Len(t) = Len(s)
        BY <4>3, <4>5, <4>6
      <4> QED
        BY <4>6, <4>7
    <3> HIDE DEF t
    <3> QED
      BY <1>8, <3>1, <3>2, <3>4, <3>5
  <2>3. ASSUME NEW d \in Source, d \notin lockIn
        PROVE  ListOf(list'[d], d, dhead', map)
    <3>1. list'[d] = Fudged(listed[d] \o more[d])
      BY <1>7, <2>1, <2>3
    <3>2. CASE dhead[d] = Null
      <4>1. more[d] = FurtherParents(listed[d], since)
        BY <1>4, <1>7, <3>2
      <4>2. more[d] = <<>> => dhead'[d] = dhead[d]
        BY <1>7, <2>1
      <4> QED
        BY <1>1, <1>7, <3>1, <3>2, <4>1, <4>2, FurtherList
    <3>3. CASE dhead[d] # Null
      <4>1. more[d] = <<>> /\ dhead'[d] = dhead[d]
        BY <1>4, <1>7, <2>1, <3>3
      <4> DEFINE s == listed[d]
                 m == more[d]
      <4>2. s \in Seq(FRec) /\ m \in Seq(FRec) /\ Len(m) = 0
        BY <1>9, <4>1
      <4>3. s = listed[d]
        OBVIOUS
      <4>4. list'[d] = Fudged(s \o m)
        BY <3>1
      <4> HIDE DEF s, m
      <4> DEFINE u == s \o m
      <4>5. u \in Seq(FRec) /\ Len(u) = Len(s) /\ \A i \in 1 .. Len(s) : u[i] = s[i]
        BY <4>2, AfterConcat
      <4>6. list'[d] = Fudged(u)
        BY <4>4
      <4> HIDE DEF u
      <4>7. /\ list'[d] \in Seq(FRec) /\ Len(list'[d]) = Len(u)
            /\ \A i \in 1 .. Len(u) : list'[d][i].c = u[i].c /\ list'[d][i].headp = u[i].headp
                                      /\ list'[d][i].translated = u[i].translated
        BY <4>5, <4>6, FudgedIs
      <4>8. /\ Len(list'[d]) = Len(listed[d])
            /\ \A i \in 1 .. Len(list'[d]) : list'[d][i].c = listed[d][i].c
                 /\ list'[d][i].headp = listed[d][i].headp
                                             /\ list'[d][i].translated = listed[d][i].translated
        BY <4>5, <4>7, <4>3
      <4> QED
        BY <1>8, <4>1, <4>7, <4>8
    <3> QED
      BY <3>2, <3>3
  <2>4. ASSUME NEW d \in Dir, d \notin Source PROVE list'[d] = <<>>
    <3> DEFINE e == <<>>
    <3>1. list'[d] = Fudged(e \o e)
      BY <1>3, <1>4, <1>5, <2>1, <2>4
    <3>2. e \in Seq(FRec) /\ Len(e) = 0
      OBVIOUS
    <3> DEFINE u == e \o e
    <3> HIDE DEF e
    <3>3. u \in Seq(FRec) /\ Len(u) = 0
      BY <3>2, AfterConcat
    <3>4. list'[d] = Fudged(u)
      BY <3>1
    <3> HIDE DEF u
    <3>5. list'[d] \in Seq(FRec) /\ Len(list'[d]) = 0
      BY <3>3, <3>4, FudgedIs
    <3> QED
      BY <3>5
  <2>5. ListsOf(list', dhead', map)
    <3>1. list' = [d \in Dir |-> list'[d]]
      BY <2>1
    <3>2. \A d \in Source : ListOf(list'[d], d, dhead', map)
      BY <2>2, <2>3
    <3> QED
      BY <2>4, <3>1, <3>2 DEF ListsOf
  <2>6. ASSUME NEW d \in Dir
        PROVE  /\ dhead'[d] \in Commit \cup {Null}
               /\ dhead'[d] # Null => d \in active' /\ d \in Source /\ hist.dir[dhead'[d]] = d
                    /\ map[dhead'[d]] # Null
    <3>1. dhead'[d] = IF more[d] = <<>> THEN dhead[d] ELSE First(d)
      BY <2>1
    <3>2. dhead'[d] # Null => d \in active'
      BY <2>1
    <3>3. CASE more[d] = <<>>
      BY <1>1, <3>1, <3>2, <3>3 DEF HeadsOf
    <3>4. CASE more[d] # <<>>
      <4>1. d \in Source /\ dhead[d] = Null /\ more[d] = FurtherParents(listed[d], since)
        BY <1>4, <3>4
      <4>2. more[d] \in Seq(FRec)
        BY <1>1, <1>7, <4>1, FurtherList
      <4> DEFINE f == more[d][Len(more[d])]
      <4>3. f.headp # 0 => /\ Picked(f) \in Commit /\ map[Picked(f)] # Null
                           /\ hist.dir[Picked(f)] = hist.dir[goal[d]]
        BY <1>1, <1>7, <3>4, <4>1, FurtherList
      <4>4. dhead'[d] = IF f.headp = 0 THEN Null ELSE Picked(f)
        BY <3>1, <3>4 DEF Last, Picked
      <4> QED
        BY <1>7, <3>2, <4>1, <4>3, <4>4
    <3> QED
      BY <3>3, <3>4
  <2>7. HeadsOf(mono, map, head, dhead', active')
    <3>1. dhead' = [d \in Dir |-> dhead'[d]]
      BY <2>1
    <3>2. dhead' \in [Dir -> Commit \cup {Null}]
      BY <2>6, <3>1
    <3>3. active' \subseteq Dir
      BY <1>1, <2>1 DEF HeadsOf
    <3> QED
      BY <1>1, <2>6, <3>2, <3>3 DEF HeadsOf
  <2>8. NewInv(mono, map, head, dhead', active', "order", todo, list', queue)
    BY <1>1, <2>5, <2>7 DEF NewInv
  <2> QED
    BY Zenon, <2>8, RunStep DEF FindDirCommits
<1> HIDE DEF pending, listed, oldest, lockIn, since, more, First
<1> QED
  BY SMTT(30), <1>10, <1>11

-----------------------------------------------------------------------------
(***************************************************************************)
(* std::merge.                                                             *)
(***************************************************************************)
MergeStart == [i |-> 0, j |-> 0, out |-> <<>>]

MergeSteps(x, y, f, n) ==
  /\ f = [k \in 0 .. n |-> f[k]]
  /\ f[0] = MergeStart
  /\ \A k \in 1 .. n : f[k] = MergeNext(x, y, f[k - 1])

LEMMA MergeStepsExist ==
  ASSUME NEW x, NEW y, NEW n \in Nat
  PROVE  \E f : MergeSteps(x, y, f, n)
<1> DEFINE Good == {k \in Nat : \E f : MergeSteps(x, y, f, k)}
<1>1. 0 \in Good
  <2> DEFINE f == [k \in 0 .. 0 |-> MergeStart]
  <2>1. MergeSteps(x, y, f, 0)
    BY DEF MergeSteps
  <2> QED
    BY <2>1
<1>2. ASSUME NEW k \in Nat, k \in Good PROVE k + 1 \in Good
  <2>1. PICK f : MergeSteps(x, y, f, k)
    BY <1>2
  <2> DEFINE g == [j \in 0 .. k + 1 |-> IF j = k + 1 THEN MergeNext(x, y, f[k]) ELSE f[j]]
  <2>2. \A j \in 0 .. k : j # k + 1 /\ j \in 0 .. k + 1
    OBVIOUS
  <2>3. g[k + 1] = MergeNext(x, y, f[k]) /\ \A j \in 0 .. k : g[j] = f[j]
    BY <2>2
  <2>4. g = [j \in 0 .. k + 1 |-> g[j]]
    OBVIOUS
  <2> HIDE DEF g
  <2>5. 0 \in 0 .. k /\ k \in 0 .. k
    OBVIOUS
  <2>6. g[0] = MergeStart
    BY <2>1, <2>3, <2>5 DEF MergeSteps
  <2>7. ASSUME NEW j \in 1 .. k + 1 PROVE g[j] = MergeNext(x, y, g[j - 1])
    <3>1. CASE j = k + 1
      <4>1. j - 1 = k
        BY <3>1
      <4> QED
        BY <2>3, <2>5, <3>1, <4>1
    <3>2. CASE j # k + 1
      <4>1. j \in 1 .. k /\ j \in 0 .. k /\ j - 1 \in 0 .. k
        BY <3>2
      <4> QED
        BY <2>1, <2>3, <4>1 DEF MergeSteps
    <3> QED
      BY <3>1, <3>2
  <2>8. MergeSteps(x, y, g, k + 1)
    BY <2>4, <2>6, <2>7 DEF MergeSteps
  <2> QED
    BY <2>8
<1> HIDE DEF Good
<1>3. n \in Good
  BY <1>1, <1>2, FromZeroOn
<1> QED
  BY <1>3 DEF Good

LEMMA MergedSteps ==
  ASSUME NEW x, NEW y, Len(x) \in Nat, Len(y) \in Nat
  PROVE  \E f : MergeSteps(x, y, f, Len(x) + Len(y)) /\ Merged(x, y) = f[Len(x) + Len(y)].out
<1> DEFINE n == Len(x) + Len(y)
           merge == CHOOSE f : f = [k \in 0 .. n |->
                      IF k = 0 THEN [i |-> 0, j |-> 0, out |-> <<>>] ELSE MergeNext(x, y, f[k - 1])]
<1>1. Merged(x, y) = merge[n].out
  BY DEF Merged
<1>2. MergeSteps(x, y, merge, n)
  <2>1. PICK f : MergeSteps(x, y, f, n)
    BY SMTT(30), MergeStepsExist
  <2>2. \A k \in 0 .. n : k # 0 => k \in 1 .. n
    OBVIOUS
  <2>3. \A k \in 0 .. n : f[k] = IF k = 0
          THEN [i |-> 0, j |-> 0, out |-> <<>>] ELSE MergeNext(x, y, f[k - 1])
    BY <2>1, <2>2 DEF MergeSteps, MergeStart
  <2>4. f = [k \in 0 .. n |-> IF k = 0
          THEN [i |-> 0, j |-> 0, out |-> <<>>] ELSE MergeNext(x, y, f[k - 1])]
    BY <2>1, <2>3 DEF MergeSteps
  <2>5. merge = [k \in 0 .. n |-> IF k = 0
          THEN [i |-> 0, j |-> 0, out |-> <<>>] ELSE MergeNext(x, y, merge[k - 1])]
    BY <2>4
  <2> HIDE DEF merge
  <2>6. merge = [k \in 0 .. n |-> merge[k]]
    BY <2>5
  <2>7. merge[0] = MergeStart
    BY <2>5 DEF MergeStart
  <2>8. ASSUME NEW k \in 1 .. n PROVE merge[k] = MergeNext(x, y, merge[k - 1])
    <3>1. k \in 0 .. n /\ k # 0
      OBVIOUS
    <3> QED
      BY <2>5, <3>1
  <2> QED
    BY <2>6, <2>7, <2>8 DEF MergeSteps
<1> HIDE DEF merge
<1> QED
  BY <1>1, <1>2

\* The first n of x are in z, in their order, at the places e.
Spread(x, n, z, e) ==
  /\ e \in [1 .. n -> 1 .. Len(z)]
  /\ \A l \in 1 .. n : z[e[l]] = x[l]
  /\ \A k, l \in 1 .. n : k < l => e[k] < e[l]

LEMMA SpreadGrows ==
  ASSUME NEW S, NEW z \in Seq(S), NEW v \in S, NEW x, NEW n \in Nat, NEW e, Spread(x, n, z, e)
  PROVE  Spread(x, n, Append(z, v), e)
<1>1. Len(Append(z, v)) = Len(z) + 1 /\ Len(z) \in Nat
        /\ \A i \in 1 .. Len(z) : Append(z, v)[i] = z[i]
  BY AfterAppend
<1>2. 1 .. Len(z) \subseteq 1 .. Len(z) + 1
  BY <1>1
<1>3. e \in [1 .. n -> 1 .. Len(z)]
  BY DEF Spread
<1>4. e \in [1 .. n -> 1 .. Len(Append(z, v))]
  BY <1>1, <1>2, <1>3
<1>5. \A l \in 1 .. n : Append(z, v)[e[l]] = x[l]
  BY <1>1, <1>3 DEF Spread
<1> QED
  BY <1>4, <1>5 DEF Spread

LEMMA SpreadTakes ==
  ASSUME NEW S, NEW z \in Seq(S), NEW v \in S, NEW x, NEW n \in Nat, NEW e, Spread(x, n, z, e),
           v = x[n + 1],
         NEW g, g = [l \in 1 .. n + 1 |-> IF l = n + 1 THEN Len(z) + 1 ELSE e[l]]
  PROVE  /\ Spread(x, n + 1, Append(z, v), g)
         /\ g[n + 1] = Len(z) + 1 /\ \A l \in 1 .. n : g[l] = e[l]
<1>1. /\ Len(Append(z, v)) = Len(z) + 1 /\ Len(z) \in Nat
           /\ \A i \in 1 .. Len(z) : Append(z, v)[i] = z[i]
      /\ Append(z, v)[Len(z) + 1] = v
  BY AfterAppend
<1>2. e \in [1 .. n -> 1 .. Len(z)]
  BY DEF Spread
<1>3. \A l \in 1 .. n : l # n + 1 /\ l \in 1 .. n + 1 /\ e[l] \in 1 .. Len(z)
  BY <1>2
<1>4. g[n + 1] = Len(z) + 1 /\ \A l \in 1 .. n : g[l] = e[l]
  BY <1>3
<1>5. \A l \in 1 .. n + 1 : l \in 1 .. n \/ l = n + 1
  OBVIOUS
<1>6. g \in [1 .. n + 1 -> 1 .. Len(z) + 1]
  <2>1. \A l \in 1 .. n + 1 : g[l] \in 1 .. Len(z) + 1
    BY <1>1, <1>3, <1>4, <1>5
  <2> QED
    BY <2>1
<1>7. \A l \in 1 .. n + 1 : Append(z, v)[g[l]] = x[l]
  BY <1>1, <1>3, <1>4, <1>5 DEF Spread
<1>8. ASSUME NEW k \in 1 .. n + 1, NEW l \in 1 .. n + 1, k < l PROVE g[k] < g[l]
  <2>1. k \in 1 .. n
    BY <1>8
  <2> QED
    BY <1>1, <1>3, <1>4, <1>5, <1>8, <2>1 DEF Spread
<1> QED
  BY <1>1, <1>4, <1>6, <1>7, <1>8 DEF Spread

\* z is x and y in one, of each of them the order kept.
Shuffled(x, y, i, j, z) ==
  \E ex, ey : /\ Spread(x, i, z, ex) /\ Spread(y, j, z, ey)
              /\ \A k \in 1 .. Len(z) : \/ \E l \in 1 .. i : ex[l] = k
                                        \/ \E l \in 1 .. j : ey[l] = k

MergeState(S, x, y, s) ==
  /\ s = [i |-> s.i, j |-> s.j, out |-> s.out]
  /\ s.i \in 0 .. Len(x) /\ s.j \in 0 .. Len(y)
  /\ s.out \in Seq(S) /\ Len(s.out) = s.i + s.j
  /\ Shuffled(x, y, s.i, s.j, s.out)

LEMMA SpreadTaken ==
  ASSUME NEW S, NEW z \in Seq(S), NEW v \in S, NEW x, NEW n \in Nat, NEW e, Spread(x, n, z, e),
           v = x[n + 1]
  PROVE  \E g : /\ Spread(x, n + 1, Append(z, v), g)
                /\ g[n + 1] = Len(z) + 1 /\ \A l \in 1 .. n : g[l] = e[l]
<1> DEFINE g == [l \in 1 .. n + 1 |-> IF l = n + 1 THEN Len(z) + 1 ELSE e[l]]
<1>1. g = [l \in 1 .. n + 1 |-> IF l = n + 1 THEN Len(z) + 1 ELSE e[l]]
  OBVIOUS
<1> HIDE DEF g
<1> QED
  BY <1>1, SpreadTakes

LEMMA MergeGrows ==
  ASSUME NEW S, NEW x \in Seq(S), NEW y \in Seq(S), NEW s, MergeState(S, x, y, s),
         s.i + s.j < Len(x) + Len(y), NEW t, t = MergeNext(x, y, s)
  PROVE  MergeState(S, x, y, t) /\ t.i + t.j = s.i + s.j + 1
<1>1. /\ s = [i |-> s.i, j |-> s.j, out |-> s.out] /\ s.i \in 0 .. Len(x) /\ s.j \in 0 .. Len(y)
      /\ s.out \in Seq(S) /\ Len(s.out) = s.i + s.j /\ Len(x) \in Nat /\ Len(y) \in Nat
      /\ s.i \in Nat /\ s.j \in Nat
  BY DEF MergeState
<1> DEFINE z == s.out
           a == s.i
           b == s.j
<1>2. PICK ex, ey : /\ Spread(x, a, z, ex) /\ Spread(y, b, z, ey)
                    /\ \A k \in 1 .. Len(z) : (\E l \in 1 .. a : ex[l] = k) \/ (\E l \in 1 .. b : ey[l] = k)
  BY DEF MergeState, Shuffled
<1>3. CASE s.i < Len(x) /\ (s.j = Len(y) \/ ~Precedes(y[s.j + 1], x[s.i + 1]))
  <2> DEFINE v == x[a + 1]
             w == Append(z, v)
             g == [l \in 1 .. a + 1 |-> IF l = a + 1 THEN Len(z) + 1 ELSE ex[l]]
  <2>1. t = [i |-> a + 1, j |-> b, out |-> w]
    BY <1>1, <1>3 DEF MergeNext
  <2>2. v \in S
    BY <1>1, <1>3
  <2>3. z \in Seq(S) /\ a \in Nat /\ b \in Nat /\ v = x[a + 1]
    BY <1>1
  <2>4. t.i = a + 1 /\ t.j = b /\ t.out = w /\ a + 1 \in 0 .. Len(x) /\ b \in 0 .. Len(y)
    BY <1>1, <1>3, <2>1
  <2>5. t = [i |-> t.i, j |-> t.j, out |-> t.out]
    BY <2>1, <2>4
  <2>6. Len(z) = a + b
    BY <1>1
  <2>7. g = [l \in 1 .. a + 1 |-> IF l = a + 1 THEN Len(z) + 1 ELSE ex[l]] /\ w = Append(z, v)
    OBVIOUS
  <2> HIDE DEF z, a, b, v, w, g
  <2>8. w \in Seq(S) /\ Len(w) = Len(z) + 1
    BY <2>2, <2>3, <2>7, AfterAppend
  <2>9. Spread(y, b, w, ey)
    BY <1>2, <2>2, <2>3, <2>7, SpreadGrows
  <2>10. Spread(x, a + 1, w, g) /\ g[a + 1] = Len(z) + 1 /\ \A l \in 1 .. a : g[l] = ex[l]
    BY SMTT(30), <1>2, <2>2, <2>3, <2>7, SpreadTakes
  <2>11. ASSUME NEW k \in 1 .. Len(w)
         PROVE  (\E l \in 1 .. a + 1 : g[l] = k) \/ (\E l \in 1 .. b : ey[l] = k)
    <3>1. CASE k = Len(z) + 1
      BY <2>3, <2>10, <3>1
    <3>2. CASE k # Len(z) + 1
      <4>1. k \in 1 .. Len(z)
        BY <2>3, <2>6, <2>8, <3>2
      <4>2. \A l \in 1 .. a : l \in 1 .. a + 1
        BY <2>3
      <4> QED
        BY <1>2, <2>10, <4>1, <4>2
    <3> QED
      BY <3>1, <3>2
  <2>12. Shuffled(x, y, a + 1, b, w)
    BY SMTT(30), <2>9, <2>10, <2>11 DEF Shuffled
  <2>13. MergeState(S, x, y, t)
    BY SMTT(30), <2>3, <2>4, <2>5, <2>6, <2>8, <2>12 DEF MergeState
  <2> QED
    BY <2>3, <2>4, <2>13 DEF a, b
<1>4. CASE ~ (s.i < Len(x) /\ (s.j = Len(y) \/ ~Precedes(y[s.j + 1], x[s.i + 1])))
  <2> DEFINE v == y[b + 1]
             w == Append(z, v)
  <2>1. t = [i |-> a, j |-> b + 1, out |-> w]
    BY <1>1, <1>4 DEF MergeNext
  <2>2. v \in S /\ b < Len(y)
    BY <1>1, <1>4
  <2>3. z \in Seq(S) /\ a \in Nat /\ b \in Nat /\ v = y[b + 1]
    BY <1>1
  <2>4. t.i = a /\ t.j = b + 1 /\ t.out = w /\ a \in 0 .. Len(x) /\ b + 1 \in 0 .. Len(y)
    BY <1>1, <2>1, <2>2
  <2>5. t = [i |-> t.i, j |-> t.j, out |-> t.out]
    BY <2>1, <2>4
  <2>6. Len(z) = a + b
    BY <1>1
  <2>7. w = Append(z, v)
    OBVIOUS
  <2> HIDE DEF z, a, b, v, w
  <2>8. w \in Seq(S) /\ Len(w) = Len(z) + 1
    BY <2>2, <2>3, <2>7, AfterAppend
  <2>9. Spread(x, a, w, ex)
    BY <1>2, <2>2, <2>3, <2>7, SpreadGrows
  <2>10. PICK g : Spread(y, b + 1, w, g) /\ g[b + 1] = Len(z) + 1 /\ \A l \in 1 .. b : g[l] = ey[l]
    <3>1. Spread(y, b, z, ey)
      BY <1>2
    <3>2. z \in Seq(S) /\ v \in S /\ b \in Nat /\ v = y[b + 1]
      BY <2>2, <2>3
    <3> QED
      BY <2>7, <3>1, <3>2, SpreadTaken
  <2>11. ASSUME NEW k \in 1 .. Len(w)
         PROVE  (\E l \in 1 .. a : ex[l] = k) \/ (\E l \in 1 .. b + 1 : g[l] = k)
    <3>1. CASE k = Len(z) + 1
      BY <2>3, <2>10, <3>1
    <3>2. CASE k # Len(z) + 1
      <4>1. k \in 1 .. Len(z)
        BY <2>3, <2>6, <2>8, <3>2
      <4>2. \A l \in 1 .. b : l \in 1 .. b + 1
        BY <2>3
      <4> QED
        BY <1>2, <2>10, <4>1, <4>2
    <3> QED
      BY <3>1, <3>2
  <2>12. Shuffled(x, y, a, b + 1, w)
    BY SMTT(30), <2>9, <2>10, <2>11 DEF Shuffled
  <2>13. MergeState(S, x, y, t)
    BY SMTT(30), <2>3, <2>4, <2>5, <2>6, <2>8, <2>12 DEF MergeState
  <2>14. t.i + t.j = (a + b) + 1
    BY <2>3, <2>4
  <2> QED
    BY <2>13, <2>14 DEF a, b
<1> QED
  BY <1>3, <1>4

\* std::merge keeps the order of both.
LEMMA MergedIs ==
  ASSUME NEW S, NEW x \in Seq(S), NEW y \in Seq(S), NEW z, z = Merged(x, y)
  PROVE  z \in Seq(S) /\ Shuffled(x, y, Len(x), Len(y), z)
<1> DEFINE n == Len(x) + Len(y)
<1>1. Len(x) \in Nat /\ Len(y) \in Nat /\ n \in Nat
  OBVIOUS
<1>2. PICK f : MergeSteps(x, y, f, n) /\ z = f[n].out
  BY <1>1, MergedSteps
<1>3. n = Len(x) + Len(y)
  OBVIOUS
<1> HIDE DEF n
<1> DEFINE Good == {k \in Nat : k <= n => MergeState(S, x, y, f[k]) /\ f[k].i + f[k].j = k}
<1>4. 0 \in Good
  <2> DEFINE e == <<>>
             s == f[0]
  <2>1. s = [i |-> 0, j |-> 0, out |-> e]
    BY <1>2 DEF MergeSteps, MergeStart
  <2>2. e \in Seq(S) /\ Len(e) = 0
    OBVIOUS
  <2> HIDE DEF e, s
  <2>3. s.i = 0 /\ s.j = 0 /\ s.out = e
    BY <2>1
  <2> DEFINE g == [l \in 1 .. 0 |-> 0]
  <2>4. \A u : Spread(u, 0, e, g)
    BY <2>2 DEF Spread
  <2>5. Shuffled(x, y, 0, 0, e)
    <3>1. \A k \in 1 .. Len(e) : FALSE
      BY <2>2
    <3> HIDE DEF g
    <3> QED
      BY <2>4, <3>1 DEF Shuffled
  <2>6. MergeState(S, x, y, s) /\ s.i + s.j = 0
    BY <1>1, <2>1, <2>2, <2>3, <2>5 DEF MergeState
  <2> QED
    BY <2>6 DEF s
<1>5. ASSUME NEW k \in Nat, k \in Good PROVE k + 1 \in Good
  <2> SUFFICES ASSUME k + 1 <= n PROVE MergeState(S, x, y, f[k + 1])
                        /\ f[k + 1].i + f[k + 1].j = k + 1
    OBVIOUS
  <2>1. MergeState(S, x, y, f[k]) /\ f[k].i + f[k].j = k
    BY <1>1, <1>5
  <2>2. f[k + 1] = MergeNext(x, y, f[k])
    <3>1. k + 1 \in 1 .. n /\ (k + 1) - 1 = k
      BY <1>1
    <3>2. \A l \in 1 .. n : f[l] = MergeNext(x, y, f[l - 1])
      BY <1>2 DEF MergeSteps
    <3> QED
      BY <3>1, <3>2
  <2> DEFINE s == f[k]
             t == f[k + 1]
  <2>3. MergeState(S, x, y, s) /\ s.i + s.j < Len(x) + Len(y) /\ t = MergeNext(x, y, s)
          /\ s.i + s.j = k
    BY <1>1, <1>3, <2>1, <2>2
  <2> HIDE DEF s, t
  <2>4. MergeState(S, x, y, t) /\ t.i + t.j = k + 1
    BY <2>3, MergeGrows
  <2> QED
    BY <2>4 DEF t
<1>6. n \in Good
  <2> HIDE DEF Good
  <2> QED
    BY <1>1, <1>4, <1>5, FromZeroOn
<1> DEFINE s == f[n]
<1>7. MergeState(S, x, y, s) /\ s.i + s.j = n /\ z = s.out
  BY <1>1, <1>2, <1>6
<1> HIDE DEF s
<1>8. s.i = Len(x) /\ s.j = Len(y)
  BY <1>1, <1>3, <1>7 DEF MergeState
<1> QED
  BY <1>7, <1>8 DEF MergeState

MergeInto(ls, q, d) == Merged(ls[d], q)
Interleaved(ls, order) == FoldLeft(LAMBDA q, d : Merged(ls[d], q), <<>>, order)

WeaveFold(ls, f, s, n) ==
  \A t \in SUBSET (1 .. n) :
    f[t] = IF t = {} THEN <<>> ELSE MergeInto(ls, f[t \ {Max(t)}], s[Max(t)])

LEMMA WeaveFoldExists ==
  ASSUME NEW ls, NEW s, NEW n \in Nat
  PROVE  \E f : f = [t \in SUBSET (1 .. n) |-> f[t]] /\ WeaveFold(ls, f, s, n)
<1> DEFINE Good == {k \in Nat : \E f : f = [t \in SUBSET (1 .. k) |-> f[t]]
                     /\ WeaveFold(ls, f, s, k)}
<1>1. 0 \in Good
  <2> DEFINE f == [t \in SUBSET (1 .. 0) |-> <<>>]
  <2>1. \A t \in SUBSET (1 .. 0) : t = {}
    OBVIOUS
  <2>2. f = [t \in SUBSET (1 .. 0) |-> f[t]]
    OBVIOUS
  <2>3. WeaveFold(ls, f, s, 0)
    BY <2>1 DEF WeaveFold
  <2> QED
    BY <2>2, <2>3
<1>2. ASSUME NEW k \in Nat, k \in Good PROVE k + 1 \in Good
  <2>1. PICK f : f = [t \in SUBSET (1 .. k) |-> f[t]] /\ WeaveFold(ls, f, s, k)
    BY <1>2
  <2> DEFINE g == [t \in SUBSET (1 .. k + 1) |->
                     IF k + 1 \in t THEN MergeInto(ls, f[t \ {k + 1}], s[k + 1]) ELSE f[t]]
  <2>2. ASSUME NEW t \in SUBSET (1 .. k + 1)
        PROVE  g[t] = IF t = {} THEN <<>> ELSE MergeInto(ls, g[t \ {Max(t)}], s[Max(t)])
    <3>1. CASE k + 1 \in t
      <4>1. Max(t) \in t /\ k + 1 <= Max(t)
        BY <3>1, MaxOfSome
      <4>2. Max(t) = k + 1
        <5>1. Max(t) \in 1 .. k + 1
          BY <4>1
        <5> QED
          BY <4>1, <5>1
      <4>3. t \ {k + 1} \in SUBSET (1 .. k + 1) /\ k + 1 \notin t \ {k + 1}
        OBVIOUS
      <4>4. g[t \ {k + 1}] = f[t \ {k + 1}]
        BY <4>3
      <4> QED
        BY <3>1, <4>2, <4>4
    <3>2. CASE k + 1 \notin t
      <4>1. t \in SUBSET (1 .. k)
        BY <3>2
      <4>2. t # {} => Max(t) \in t
        BY <4>1, MaxOfSome
      <4>3. t \ {Max(t)} \in SUBSET (1 .. k + 1) /\ k + 1 \notin t \ {Max(t)}
        BY <3>2
      <4>4. g[t] = f[t] /\ g[t \ {Max(t)}] = f[t \ {Max(t)}]
        BY <3>2, <4>3
      <4> HIDE DEF g
      <4> QED
        BY <2>1, <4>1, <4>4 DEF WeaveFold
    <3> QED
      BY <3>1, <3>2
  <2>3. g = [t \in SUBSET (1 .. k + 1) |-> g[t]]
    OBVIOUS
  <2> HIDE DEF g
  <2>4. WeaveFold(ls, g, s, k + 1)
    BY <2>2 DEF WeaveFold
  <2> QED
    BY <2>3, <2>4
<1> HIDE DEF Good
<1>3. n \in Good
  BY <1>1, <1>2, FromZeroOn
<1> QED
  BY <1>3 DEF Good

\* The lists of the directories, merged one after the other.
LEMMA WeaveSteps ==
  ASSUME NEW ls, NEW U, NEW s \in Seq(U)
  PROVE  \E v : /\ v[0] = <<>> /\ Interleaved(ls, s) = v[Len(s)]
                /\ \A i \in 1 .. Len(s) : v[i] = MergeInto(ls, v[i - 1], s[i])
<1> DEFINE n == Len(s)
           iter == CHOOSE f : f = [t \in SUBSET DOMAIN s |->
                     IF t = {} THEN <<>> ELSE Merged(ls[s[Max(t)]], f[t \ {Max(t)}])]
           v == [i \in 0 .. n |-> iter[1 .. i]]
<1>1. n \in Nat /\ DOMAIN s = 1 .. n
  OBVIOUS
<1>2. Interleaved(ls, s) = iter[DOMAIN s]
  BY DEF FoldLeft, MapThenFoldSet, Interleaved
<1>3. WeaveFold(ls, iter, s, n)
  <2>1. PICK f : f = [t \in SUBSET (1 .. n) |-> f[t]] /\ WeaveFold(ls, f, s, n)
    BY <1>1, WeaveFoldExists
  <2>2. f = [t \in SUBSET DOMAIN s |->
                     IF t = {} THEN <<>> ELSE Merged(ls[s[Max(t)]], f[t \ {Max(t)}])]
    BY <1>1, <2>1 DEF WeaveFold, MergeInto
  <2>3. iter = [t \in SUBSET (1 .. n) |->
                     IF t = {} THEN <<>> ELSE Merged(ls[s[Max(t)]], iter[t \ {Max(t)}])]
    BY <1>1, <2>2
  <2> HIDE DEF iter
  <2> QED
    BY <2>3 DEF WeaveFold, MergeInto
<1> HIDE DEF iter
<1>4. v[0] = <<>>
  <2>1. 1 .. 0 = {} /\ 0 \in 0 .. n
    BY <1>1
  <2> QED
    BY <1>1, <1>3, <2>1 DEF WeaveFold
<1>5. ASSUME NEW i \in 1 .. n
      PROVE v[i] = MergeInto(ls, v[i - 1], s[i])
  <2>1. Max(1 .. i) = i /\ (1 .. i) \ {i} = 1 .. i - 1
    BY <1>1, MaxOfAll
  <2>2. 1 .. i \in SUBSET (1 .. n) /\ 1 .. i # {} /\ i - 1 \in 0 .. n /\ i \in 0 .. n
    BY <1>1
  <2> QED
    BY <1>3, <2>1, <2>2 DEF WeaveFold
<1>6. Interleaved(ls, s) = v[n]
  BY <1>1, <1>2
<1> HIDE DEF v
<1> QED
  BY <1>4, <1>5, <1>6

\* Every list is in q, and a list has all that q has of its directory.
Woven(ls, q, D) ==
  /\ q \in Seq(FRec)
  /\ \A k \in 1 .. Len(q) : hist.dir[q[k].c] \in D
  /\ \A d \in D : \E e : /\ Spread(ls[d], Len(ls[d]), q, e)
                        /\ \A k \in InDir(q, d) : \E l \in 1 .. Len(ls[d]) : e[l] = k

LEMMA WeaveIs ==
  ASSUME NEW ls, NEW q, NEW D, Woven(ls, q, D), NEW d, d \notin D,
         ls[d] \in Seq(FRec), \A i \in 1 .. Len(ls[d]) : hist.dir[ls[d][i].c] = d,
         NEW z, z = Merged(ls[d], q)
  PROVE  Woven(ls, z, D \cup {d})
<1>1. q \in Seq(FRec) /\ Len(q) \in Nat /\ Len(ls[d]) \in Nat
  BY DEF Woven
<1> DEFINE x == ls[d]
<1>2. z \in Seq(FRec) /\ Shuffled(x, q, Len(x), Len(q), z)
  <2>1. x \in Seq(FRec) /\ z = Merged(x, q)
    OBVIOUS
  <2> HIDE DEF x
  <2> QED
    BY <1>1, <2>1, MergedIs
<1>3. PICK ex, ey : /\ Spread(x, Len(x), z, ex) /\ Spread(q, Len(q), z, ey)
                    /\ \A k \in 1 .. Len(z) : \/ \E l \in 1 .. Len(x) : ex[l] = k
                                              \/ \E l \in 1 .. Len(q) : ey[l] = k
  BY <1>2 DEF Shuffled
<1>4. /\ ex \in [1 .. Len(x) -> 1 .. Len(z)] /\ \A l \in 1 .. Len(x) : z[ex[l]] = x[l]
      /\ ey \in [1 .. Len(q) -> 1 .. Len(z)] /\ \A l \in 1 .. Len(q) : z[ey[l]] = q[l]
      /\ \A k, l \in 1 .. Len(q) : k < l => ey[k] < ey[l]
  BY <1>3 DEF Spread
<1>5. \A l \in 1 .. Len(x) : hist.dir[z[ex[l]].c] = d
  BY <1>4
<1>6. \A l \in 1 .. Len(q) : hist.dir[z[ey[l]].c] = hist.dir[q[l].c] /\ hist.dir[q[l].c] \in D
  BY <1>4 DEF Woven
<1>7. ASSUME NEW k \in 1 .. Len(z) PROVE hist.dir[z[k].c] \in D \cup {d}
  <2>1. CASE \E l \in 1 .. Len(x) : ex[l] = k
    BY <1>5, <2>1
  <2>2. CASE \E l \in 1 .. Len(q) : ey[l] = k
    BY <1>6, <2>2
  <2> QED
    BY <1>3, <2>1, <2>2
<1>8. \A k \in InDir(z, d) : \E l \in 1 .. Len(x) : ex[l] = k
  <2> SUFFICES ASSUME NEW k \in 1 .. Len(z),
                        hist.dir[z[k].c] = d PROVE \E l \in 1 .. Len(x) : ex[l] = k
    BY DEF InDir
  <2> QED
    BY <1>3, <1>6
<1>9. ASSUME NEW g \in D
      PROVE  \E e : /\ Spread(ls[g], Len(ls[g]), z, e)
                    /\ \A k \in InDir(z, g) : \E l \in 1 .. Len(ls[g]) : e[l] = k
  <2>1. PICK e : /\ Spread(ls[g], Len(ls[g]), q, e)
                 /\ \A k \in InDir(q, g) : \E l \in 1 .. Len(ls[g]) : e[l] = k
    BY DEF Woven
  <2>2. e \in [1 .. Len(ls[g]) -> 1 .. Len(q)]
    BY <2>1 DEF Spread
  <2> DEFINE n == Len(ls[g])
             h == [l \in 1 .. n |-> ey[e[l]]]
  <2>3. \A l \in 1 .. n : e[l] \in 1 .. Len(q) /\ h[l] = ey[e[l]]
    BY <2>2
  <2>4. h = [l \in 1 .. n |-> h[l]]
    OBVIOUS
  <2> HIDE DEF h
  <2>5. Spread(ls[g], n, z, h)
    <3>1. \A l \in 1 .. n : h[l] \in 1 .. Len(z) /\ z[h[l]] = ls[g][l]
      <4> SUFFICES ASSUME NEW l \in 1 .. n PROVE h[l] \in 1 .. Len(z) /\ z[h[l]] = ls[g][l]
        OBVIOUS
      <4>1. e[l] \in 1 .. Len(q) /\ h[l] = ey[e[l]] /\ q[e[l]] = ls[g][l]
        BY <2>1, <2>3 DEF Spread
      <4> QED
        BY <1>4, <4>1
    <3>2. \A k, l \in 1 .. n : k < l => h[k] < h[l]
      BY <1>4, <2>1, <2>3 DEF Spread
    <3> QED
      BY <2>4, <3>1, <3>2 DEF Spread
  <2>6. ASSUME NEW k \in InDir(z, g) PROVE \E l \in 1 .. n : h[l] = k
    <3>1. k \in 1 .. Len(z) /\ hist.dir[z[k].c] = g /\ g # d
      BY <2>6 DEF InDir
    <3>2. PICK p \in 1 .. Len(q) : ey[p] = k
      BY <1>3, <1>5, <3>1
    <3>3. p \in InDir(q, g)
      BY <1>6, <3>1, <3>2 DEF InDir
    <3>4. PICK l \in 1 .. n : e[l] = p
      BY <2>1, <3>3
    <3> QED
      BY <2>3, <3>2, <3>4
  <2> QED
    BY <2>5, <2>6
<1>10. \E e : /\ Spread(ls[d], Len(ls[d]), z, e)
              /\ \A k \in InDir(z, d) : \E l \in 1 .. Len(ls[d]) : e[l] = k
  BY <1>3, <1>8
<1> QED
  BY <1>2, <1>7, <1>9, <1>10 DEF Woven

LEMMA InterleavedIs ==
  ASSUME NEW ls, NEW U, NEW order \in Seq(U), IsInjective(order),
         \A d \in ToSet(order) : ls[d] \in Seq(FRec)
           /\ \A i \in 1 .. Len(ls[d]) : hist.dir[ls[d][i].c] = d,
         NEW q, q = Interleaved(ls, order)
  PROVE  Woven(ls, q, ToSet(order))
<1>1. Len(order) \in Nat /\ DOMAIN order = 1 .. Len(order)
  OBVIOUS
<1>2. PICK v : /\ v[0] = <<>> /\ q = v[Len(order)]
               /\ \A i \in 1 .. Len(order) : v[i] = MergeInto(ls, v[i - 1], order[i])
  BY WeaveSteps
<1> DEFINE First(k) == {order[i] : i \in 1 .. k}
           Good == {k \in Nat : k <= Len(order) => Woven(ls, v[k], First(k))}
<1>3. 0 \in Good
  <2> DEFINE e == <<>>
  <2>1. v[0] = e /\ e \in Seq(FRec) /\ Len(e) = 0
    BY <1>2
  <2>2. First(0) = {}
    OBVIOUS
  <2> HIDE DEF e, First
  <2>3. Woven(ls, v[0], First(0))
    BY <2>1, <2>2 DEF Woven
  <2> QED
    BY <2>3
<1>4. ASSUME NEW k \in Nat, k \in Good PROVE k + 1 \in Good
  <2> SUFFICES ASSUME k + 1 <= Len(order) PROVE Woven(ls, v[k + 1], First(k + 1))
    OBVIOUS
  <2>1. Woven(ls, v[k], First(k))
    BY <1>1, <1>4
  <2>2. k + 1 \in 1 .. Len(order) /\ (k + 1) - 1 = k
    BY <1>1
  <2> DEFINE d == order[k + 1]
  <2>3. v[k + 1] = Merged(ls[d], v[k])
    BY <1>2, <2>2 DEF MergeInto
  <2>4. d \in ToSet(order)
    BY <1>1, <2>2 DEF ToSet
  <2>5. d \notin First(k)
    <3> SUFFICES ASSUME NEW i \in 1 .. k, order[i] = order[k + 1] PROVE FALSE
      OBVIOUS
    <3>1. i \in 1 .. Len(order) /\ i # k + 1
      BY <1>1, <2>2
    <3> QED
      BY <1>1, <2>2, <3>1 DEF IsInjective
  <2>6. First(k + 1) = First(k) \cup {d}
    <3>1. \A i : i \in 1 .. k + 1 <=> i \in 1 .. k \/ i = k + 1
      OBVIOUS
    <3> QED
      BY <3>1
  <2> HIDE DEF d, First
  <2>7. Woven(ls, v[k + 1], First(k) \cup {d})
    BY <2>1, <2>3, <2>4, <2>5, WeaveIs
  <2> QED
    BY <2>6, <2>7
<1>5. Len(order) \in Good
  <2> HIDE DEF Good
  <2> QED
    BY <1>1, <1>3, <1>4, FromZeroOn
<1>6. First(Len(order)) = ToSet(order)
  BY <1>1 DEF ToSet
<1>7. Woven(ls, v[Len(order)], First(Len(order)))
  BY <1>1, <1>5
<1> HIDE DEF First
<1> QED
  BY <1>2, <1>6, <1>7

\* The queue has the list of a directory, and no more of the directory.
Threaded(q, d, l) ==
  \E e : /\ Spread(l, Len(l), q, e)
         /\ \A k \in InDir(q, d) : \E i \in 1 .. Len(l) : e[i] = k

AllOf(l, d) == \A i \in 1 .. Len(l) : hist.dir[l[i].c] = d

\* What is queued of a directory leads from its goal to its head.
LEMMA WovenWaits ==
  ASSUME IsHistory(hist, Dir), NEW dh, NEW m, NEW q \in Seq(FRec), NEW d, NEW l, ListOf(l, d, dh, m),
         Threaded(q, d, l), AllOf(l, d)
  PROVE  Waiting(q, d, dh[d])
<1>0. PICK e : /\ Spread(l, Len(l), q, e)
               /\ \A k \in InDir(q, d) : \E i \in 1 .. Len(l) : e[i] = k
  BY DEF Threaded
<1>1. IsPath(l, goal[d]) /\ l \in Seq(FRec) /\ Len(l) \in Nat /\ Len(q) \in Nat
  BY DEF ListOf, IsPath
<1>2. /\ e \in [1 .. Len(l) -> 1 .. Len(q)]
      /\ \A i \in 1 .. Len(l) : q[e[i]] = l[i]
      /\ \A i, j \in 1 .. Len(l) : i < j => e[i] < e[j]
  BY <1>0 DEF Spread
<1>3. \A i \in 1 .. Len(l) : e[i] \in InDir(q, d)
  BY <1>2 DEF InDir, AllOf
<1>4. \A k \in InDir(q, d) : k \in 1 .. Len(q) /\ k \in Nat
  BY <1>1 DEF InDir
<1>5. ASSUME InDir(q, d) = {} PROVE dh[d] = goal[d]
  <2>1. ~ \E i : i \in 1 .. Len(l)
    BY <1>3, <1>5
  <2>2. l = <<>>
    BY <1>1, <2>1
  <2> QED
    BY <2>2 DEF ListOf
<1>6. ASSUME NEW k \in InDir(q, d)
      PROVE  /\ (\A j \in InDir(q, d) : k <= j) => q[k].c = goal[d]
             /\ (\A j \in InDir(q, d) : j <= k) => OnHead(q[k], dh[d])
             /\ \A j \in InDir(q, d) : k < j =>
                  /\ q[j].c \in hist.anc[q[k].c] /\ q[j].c < q[k].c
                  /\ (\A p \in InDir(q, d) : p <= k \/ j <= p) => Links(q[k], q[j])
  <2>1. PICK a \in 1 .. Len(l) : e[a] = k
    BY <1>0
  <2>2. l # <<>> /\ 1 \in 1 .. Len(l) /\ Len(l) \in 1 .. Len(l)
    BY <1>1, <2>1
  <2>3. q[k] = l[a] /\ k \in Nat
    BY <1>2, <1>4, <2>1
  <2>4. ASSUME \A j \in InDir(q, d) : k <= j PROVE q[k].c = goal[d]
    <3>1. a = 1
      <4> SUFFICES ASSUME a # 1 PROVE FALSE
        OBVIOUS
      <4>1. e[1] < k /\ e[1] \in InDir(q, d)
        BY <1>2, <1>3, <2>1, <2>2
      <4> QED
        <5>1. k <= e[1] /\ e[1] \in Nat
          BY <1>4, <2>4, <4>1
        <5> QED
          BY <2>3, <4>1, <5>1
    <3> QED
      BY <1>1, <2>2, <2>3, <3>1 DEF IsPath
  <2>5. ASSUME \A j \in InDir(q, d) : j <= k PROVE OnHead(q[k], dh[d])
    <3>1. a = Len(l)
      <4> SUFFICES ASSUME a # Len(l) PROVE FALSE
        OBVIOUS
      <4>1. k < e[Len(l)] /\ e[Len(l)] \in InDir(q, d)
        BY <1>1, <1>2, <1>3, <2>1, <2>2
      <4> QED
        <5>1. e[Len(l)] <= k /\ e[Len(l)] \in Nat
          BY <1>4, <2>5, <4>1
        <5> QED
          BY <2>3, <4>1, <5>1
    <3> QED
      BY <2>2, <2>3, <3>1 DEF ListOf
  <2>6. ASSUME NEW j \in InDir(q, d), k < j
        PROVE  /\ q[j].c \in hist.anc[q[k].c] /\ q[j].c < q[k].c
               /\ (\A p \in InDir(q, d) : p <= k \/ j <= p) => Links(q[k], q[j])
    <3>1. PICK b \in 1 .. Len(l) : e[b] = j
      BY <1>0
    <3>2. q[j] = l[b] /\ j \in Nat
      BY <1>2, <1>4, <3>1
    <3>3. a < b
      <4>1. a \in Nat /\ b \in Nat
        BY <1>1
      <4>2. b < a => j < k
        BY <1>2, <2>1, <3>1
      <4>3. a # b
        BY <2>1, <2>3, <2>6, <3>1, <3>2
      <4> QED
        BY <2>3, <2>6, <3>2, <4>1, <4>2, <4>3
    <3>4. q[j].c \in hist.anc[q[k].c] /\ q[j].c < q[k].c
      BY <1>1, <2>3, <3>2, <3>3, PathDescends
    <3>5. ASSUME \A p \in InDir(q, d) : p <= k \/ j <= p PROVE Links(q[k], q[j])
      <4>1. a + 1 \in 1 .. Len(l) /\ a \in 1 .. Len(l) - 1
        BY <1>1, <3>3
      <4>2. b = a + 1
        <5> SUFFICES ASSUME b # a + 1 PROVE FALSE
          OBVIOUS
        <5>1. a < a + 1 /\ a + 1 < b
          BY <1>1, <3>3
        <5>2. k < e[a + 1] /\ e[a + 1] < j /\ e[a + 1] \in InDir(q, d)
          BY <1>2, <1>3, <2>1, <3>1, <4>1, <5>1
        <5> QED
          <6>1. (e[a + 1] <= k \/ j <= e[a + 1]) /\ e[a + 1] \in Nat
            BY <1>4, <3>5, <5>2
          <6> QED
            BY <2>3, <3>2, <5>2, <6>1
      <4> QED
        BY <1>1, <2>3, <3>2, <4>1, <4>2 DEF IsPath
    <3> QED
      BY <3>4, <3>5
  <2> QED
    BY <2>4, <2>5, <2>6
<1> QED
  BY <1>5, <1>6 DEF Waiting

LEMMA WovenQueue ==
  ASSUME IsHistory(hist, Dir), GoalOf(goal), NEW ls, NEW dh, NEW m, ListsOf(ls, dh, m),
         NEW q, Woven(ls, q, {d \in Source : ls[d] # <<>>})
  PROVE  QueueOf(q, dh, m)
<1> DEFINE D == {d \in Source : ls[d] # <<>>}
<1>1. q \in Seq(FRec) /\ Len(q) \in Nat /\ \A k \in 1 .. Len(q) : hist.dir[q[k].c] \in D
  BY DEF Woven
<1>2. ASSUME NEW d \in Source
      PROVE  /\ d \in Dir /\ goal[d] \in Commit /\ ListOf(ls[d], d, dh, m) /\ IsPath(ls[d], goal[d])
             /\ \A i \in 1 .. Len(ls[d]) : /\ ls[d][i].c \in hist.anc[goal[d]]
                  /\ hist.dir[ls[d][i].c] = d
                                           /\ ls[d][i] \in FRec
  <2>1. d \in Dir /\ goal[d] \in Commit /\ hist.dir[goal[d]] = d
    BY GoalIs
  <2>2. ListOf(ls[d], d, dh, m) /\ IsPath(ls[d], goal[d])
    BY <2>1 DEF ListsOf, ListOf
  <2>3. ASSUME NEW i \in 1 .. Len(ls[d]) PROVE ls[d][i].c \in hist.anc[goal[d]]
    BY <2>2 DEF IsPath
  <2>4. ASSUME NEW i \in 1 .. Len(ls[d]) PROVE ls[d][i] \in FRec
    <3>1. ls[d] \in Seq(FRec)
      BY <2>2 DEF IsPath
    <3> QED
      BY <3>1
  <2> QED
    BY <2>1, <2>2, <2>3, <2>4, AncestorsClosed DEF Commit
<1>3. ASSUME NEW d \in Source PROVE Waiting(q, d, dh[d])
  <2>1. CASE ls[d] # <<>>
    <3> DEFINE l == ls[d]
    <3>2. ListOf(l, d, dh, m)
      BY <1>2
    <3>3. AllOf(l, d)
      BY <1>2 DEF AllOf
    <3>4. Threaded(q, d, l)
      BY <2>1 DEF Woven, Threaded
    <3>6. q \in Seq(FRec)
      BY <1>1
    <3> HIDE DEF l
    <3> QED
      BY <3>2, <3>3, <3>4, <3>6, WovenWaits
  <2>2. CASE ls[d] = <<>>
    <3>1. InDir(q, d) = {}
      BY <1>1, <2>2 DEF InDir
    <3>2. dh[d] = goal[d]
      BY <1>2, <2>2 DEF ListOf
    <3> QED
      BY <3>1, <3>2 DEF Waiting
  <2> QED
    BY <2>1, <2>2
<1>4. ASSUME NEW k \in 1 .. Len(q) PROVE Entry(q[k], m)
  <2>1. PICK d \in Source : hist.dir[q[k].c] = d /\ ls[d] # <<>>
    BY <1>1
  <2>2. PICK e : /\ Spread(ls[d], Len(ls[d]), q, e)
                 /\ \A j \in InDir(q, d) : \E i \in 1 .. Len(ls[d]) : e[i] = j
    BY <2>1 DEF Woven
  <2>3. k \in InDir(q, d)
    BY <2>1 DEF InDir
  <2>4. PICK i \in 1 .. Len(ls[d]) : e[i] = k
    BY <2>2, <2>3
  <2>5. q[k] = ls[d][i]
    BY <2>2, <2>4 DEF Spread
  <2>6. /\ q[k] \in FRec /\ q[k].c \in hist.anc[goal[d]]
             /\ q[k].headp \in 0 .. Len(hist.par[q[k].c])
        /\ q[k].headp = 0 => hist.par[q[k].c] = <<>>
    BY <1>2, <2>5 DEF IsPath
  <2>7. q[k].translated <=> m[q[k].c] # Null
    BY <1>2, <2>5 DEF ListOf
  <2> QED
    BY <2>1, <2>6, <2>7 DEF Entry
<1> QED
  BY <1>1, <1>3, <1>4 DEF QueueOf

\* The end of a queue is taken from it, and the heads move over what is taken.
LEMMA DropIs ==
  ASSUME IsHistory(hist, Dir), NEW q, NEW dh, NEW m, QueueOf(q, dh, m), NEW keep \in 0 .. Len(q),
         NEW h, \A d \in Source : LET Of == {i \in keep + 1 .. Len(q) : hist.dir[q[i].c] = d}
                                  IN  IF Of = {} THEN h[d] = dh[d] ELSE h[d] = q[Min(Of)].c,
         NEW r, r = SubSeq(q, 1, keep)
  PROVE  QueueOf(r, h, m)
<1>1. q \in Seq(FRec) /\ Len(q) \in Nat /\ keep \in Nat
  BY DEF QueueOf
<1>2. r \in Seq(FRec) /\ Len(r) = keep /\ \A k \in 1 .. keep : r[k] = q[k] /\ k \in 1 .. Len(q)
  BY <1>1
<1>3. \A k \in 1 .. Len(r) : Entry(r[k], m)
  BY <1>2 DEF QueueOf
<1>4. ASSUME NEW d \in Source PROVE Waiting(r, d, h[d])
  <2>1. Waiting(q, d, dh[d])
    BY DEF QueueOf
  <2> DEFINE Of == {i \in keep + 1 .. Len(q) : hist.dir[q[i].c] = d}
             A == InDir(q, d)
             B == InDir(r, d)
  <2>2. \A k : k \in A <=> k \in B \/ k \in Of
    <3>1. \A k \in 1 .. Len(q) : k \in 1 .. keep \/ k \in keep + 1 .. Len(q)
      BY <1>1
    <3>2. \A k \in keep + 1 .. Len(q) : k \in 1 .. Len(q)
      BY <1>1
    <3> QED
      BY <1>2, <3>1, <3>2 DEF InDir
  <2>3. /\ \A k \in B : k \in 1 .. keep /\ r[k] = q[k]
        /\ \A k \in Of : k \in Nat /\ keep < k
        /\ \A k \in A : k \in Nat
    BY <1>1, <1>2 DEF InDir
  <2>4. IF Of = {} THEN h[d] = dh[d] ELSE h[d] = q[Min(Of)].c
    OBVIOUS
  <2>5. Of # {} => Min(Of) \in Of /\ \A k \in Of : Min(Of) <= k
    <3>1. Of \subseteq Nat
      BY <2>3
    <3> HIDE DEF Of
    <3> QED
      BY <3>1, MinIs
  <2> HIDE DEF Of, A, B
  <2>6. /\ A = {} => dh[d] = goal[d]
        /\ \A k \in A :
             /\ (\A l \in A : k <= l) => q[k].c = goal[d]
             /\ (\A l \in A : l <= k) => OnHead(q[k], dh[d])
             /\ \A l \in A : k < l =>
                  /\ q[l].c \in hist.anc[q[k].c] /\ q[l].c < q[k].c
                  /\ (\A j \in A : j <= k \/ l <= j) => Links(q[k], q[l])
    BY <2>1 DEF Waiting, A
  <2>7. \A k \in B, l \in Of : k < l
    BY <1>1, <2>3
  <2>8. ASSUME B = {} PROVE h[d] = goal[d]
    <3>1. CASE Of = {}
      BY <2>2, <2>4, <2>6, <2>8, <3>1
    <3>2. CASE Of # {}
      <4>1. Min(Of) \in A /\ \A l \in A : Min(Of) <= l
        BY <2>2, <2>5, <2>8, <3>2
      <4> QED
        BY <2>4, <2>6, <3>2, <4>1
    <3> QED
      BY <3>1, <3>2
  <2>9. ASSUME NEW k \in B
        PROVE  /\ (\A l \in B : k <= l) => r[k].c = goal[d]
               /\ (\A l \in B : l <= k) => OnHead(r[k], h[d])
               /\ \A l \in B : k < l =>
                    /\ r[l].c \in hist.anc[r[k].c] /\ r[l].c < r[k].c
                    /\ (\A j \in B : j <= k \/ l <= j) => Links(r[k], r[l])
    <3>1. k \in A /\ r[k] = q[k] /\ k \in Nat
      BY <2>2, <2>3
    <3>2. ASSUME \A l \in B : k <= l PROVE r[k].c = goal[d]
      <4>1. \A l \in A : k <= l
        BY <2>2, <2>3, <2>7, <3>1, <3>2
      <4> QED
        BY <2>6, <3>1, <4>1
    <3>3. ASSUME \A l \in B : l <= k PROVE OnHead(r[k], h[d])
      <4>1. CASE Of = {}
        <5>1. \A l \in A : l <= k
          BY <2>2, <3>3, <4>1
        <5> QED
          BY <2>4, <2>6, <3>1, <4>1, <5>1
      <4>2. CASE Of # {}
        <5>1. Min(Of) \in Of /\ Min(Of) \in A /\ k < Min(Of)
          BY <2>2, <2>5, <2>7, <4>2
        <5>2. \A j \in A : j <= k \/ Min(Of) <= j
          BY <2>2, <2>5, <3>3, <4>2
        <5>3. Links(q[k], q[Min(Of)])
          BY <2>6, <3>1, <5>1, <5>2
        <5>4. q[Min(Of)].c = h[d]
          BY <2>4, <4>2
        <5>5. q[Min(Of)].c # Null
          <6>1. Min(Of) \in 1 .. Len(q)
            BY <5>1 DEF A, InDir
          <6>2. q[Min(Of)] \in FRec
            BY <1>1, <6>1
          <6>3. q[Min(Of)].c \in Commit
            BY <6>2 DEF FRec
          <6> QED
            BY <6>3, HistoryType DEF Commit
        <5> QED
          BY <3>1, <5>3, <5>4, <5>5 DEF OnHead, Links, Picked
      <4> QED
        BY <4>1, <4>2
    <3>4. ASSUME NEW l \in B, k < l
          PROVE  /\ r[l].c \in hist.anc[r[k].c] /\ r[l].c < r[k].c
                 /\ (\A j \in B : j <= k \/ l <= j) => Links(r[k], r[l])
      <4>1. l \in A /\ r[l] = q[l] /\ l \in Nat
        BY <2>2, <2>3
      <4>2. ASSUME \A j \in B : j <= k \/ l <= j PROVE Links(r[k], r[l])
        <5>1. ASSUME NEW j \in A PROVE j <= k \/ l <= j
          <6>1. CASE j \in B
            BY <4>2, <6>1
          <6>2. CASE j \in Of
            <7>1. l < j /\ j \in Nat
              BY <2>3, <2>7, <6>2
            <7> QED
              BY <4>1, <7>1
          <6> QED
            BY <2>2, <6>1, <6>2
        <5> QED
          BY <2>6, <3>1, <3>4, <4>1, <5>1
      <4> QED
        BY <2>6, <3>1, <3>4, <4>1, <4>2
    <3> QED
      BY <3>2, <3>3, <3>4
  <2> QED
    BY <2>8, <2>9 DEF Waiting, B
<1> QED
  BY <1>2, <1>3, <1>4 DEF QueueOf

LEMMA DirsAre ==
  /\ DirList \in Seq(Dir) /\ IsInjective(DirList) /\ ToSet(DirList) = Dir
  /\ IsFiniteSet(Dir)
  /\ \A b \in Branch : Tracked[b] \subseteq Dir
<1>1. DirList \in Seq(Dir) /\ Cardinality(Dir) = Len(DirList) /\ ToSet(DirList) = Dir
  BY InterleaverAssumption DEF Dir
<1>2. Len(DirList) \in Nat /\ DOMAIN DirList = 1 .. Len(DirList)
        /\ DirList \in [1 .. Len(DirList) -> Dir]
  BY <1>1
<1>3. DirList \in Surjection(1 .. Len(DirList), Dir)
  BY <1>1, <1>2 DEF Surjection, ToSet
<1>4. IsFiniteSet(1 .. Len(DirList)) /\ Cardinality(1 .. Len(DirList)) = Len(DirList)
  BY <1>2, FS_Interval
<1>5. IsFiniteSet(Dir)
  BY <1>3, <1>4, FS_Surjection
<1>6. IsInjective(DirList)
  <2>1. DirList \in Injection(1 .. Len(DirList), Dir)
    BY <1>1, <1>3, <1>4, FS_Surjection
  <2> QED
    BY <1>2, <2>1 DEF Injection, IsInjective
<1>7. \A b \in Branch : Tracked[b] \subseteq Dir
  BY InterleaverAssumption
<1> QED
  BY <1>1, <1>5, <1>6, <1>7

\* The last of a set of places, and 0 if there is none.
LEMMA LastOf ==
  ASSUME NEW n \in Nat, NEW I \in SUBSET (1 .. n), NEW i, i = IF I # {} THEN Max(I) ELSE 0
  PROVE  /\ i \in 0 .. n /\ (i # 0 => i \in I)
         /\ \A k \in i + 1 .. n : k \notin I
<1>1. CASE I = {}
  BY <1>1
<1>2. CASE I # {}
  <2>1. i \in I /\ \A k \in I : k <= i
    BY <1>2, MaxOfSome
  <2>2. \A k \in i + 1 .. n : ~ k <= i
    BY <2>1
  <2> QED
    BY <2>1, <2>2
<1> QED
  BY <1>1, <1>2

\* The first of them.
LEMMA FirstOf ==
  ASSUME NEW n \in Nat, NEW I \in SUBSET (1 .. n), NEW i, i = IF I # {} THEN Min(I) ELSE 0
  PROVE  /\ i \in 0 .. n /\ (i # 0 => i \in I)
         /\ \A k \in 1 .. i - 1 : k \notin I
         /\ i = 0 => I = {}
<1>1. CASE I = {}
  BY <1>1
<1>2. CASE I # {}
  <2>1. I \subseteq Nat
    OBVIOUS
  <2>2. i \in I /\ \A k \in I : i <= k
    BY <1>2, <2>1, MinIs
  <2>3. \A k \in 1 .. i - 1 : ~ i <= k
    BY <2>2
  <2> QED
    BY <2>2, <2>3
<1> QED
  BY <1>1, <1>2

LEMMA OrderIs ==
  ASSUME NEW S, IsFiniteSet(S), NEW order \in SetToSeqs(S)
  PROVE  order \in Seq(S) /\ IsInjective(order) /\ ToSet(order) = S
<1>1. Cardinality(S) \in Nat
  BY FS_CardinalityType
<1> DEFINE n == Cardinality(S)
<1>2. order \in [1 .. n -> S] /\ \A i, j \in 1 .. n : i # j => order[i] # order[j]
  BY DEF SetToSeqs
<1> HIDE DEF n
<1>3. n \in Nat
  BY <1>1 DEF n
<1>4. order \in Seq(S) /\ Len(order) = n /\ DOMAIN order = 1 .. n
  BY <1>2, <1>3
<1>5. IsInjective(order)
  BY <1>2, <1>4 DEF IsInjective
<1>6. ToSet(order) = S
  BY <1>4, <1>5, AllListed DEF n
<1> QED
  BY <1>4, <1>5, <1>6

\* The heads of the directories move over translated entries.
LEMMA MovedHeads ==
  ASSUME IsHistory(hist, Dir), NEW log, NEW m, NEW hd, NEW dh, NEW act, HeadsOf(log, m, hd, dh, act),
         NEW q, QueueOf(q, dh, m), NEW keep \in 0 .. Len(q),
           \A k \in keep + 1 .. Len(q) : q[k].translated,
         NEW h, h = [d \in Dir |-> h[d]],
         \A d \in Dir : LET Of == {i \in keep + 1 .. Len(q) : hist.dir[q[i].c] = d}
                        IN  IF Of = {} THEN h[d] = dh[d] ELSE h[d] = q[Min(Of)].c,
         NEW a, a = act \cup {d \in Dir : h[d] # dh[d]}
  PROVE  HeadsOf(log, m, hd, h, a)
<1>1. /\ hd \in 0 .. Len(log) /\ act \subseteq Dir
      /\ \A d \in Dir : /\ dh[d] \in Commit \cup {Null}
                        /\ dh[d] # Null => d \in act /\ d \in Source /\ hist.dir[dh[d]] = d
                             /\ m[dh[d]] # Null
  BY DEF HeadsOf
<1>2. q \in Seq(FRec) /\ Len(q) \in Nat /\ \A k \in 1 .. Len(q) : Entry(q[k], m)
  BY DEF QueueOf
<1>3. ASSUME NEW d \in Dir
      PROVE  /\ h[d] \in Commit \cup {Null}
             /\ h[d] # Null => d \in a /\ d \in Source /\ hist.dir[h[d]] = d /\ m[h[d]] # Null
  <2> DEFINE Of == {i \in keep + 1 .. Len(q) : hist.dir[q[i].c] = d}
  <2>1. IF Of = {} THEN h[d] = dh[d] ELSE h[d] = q[Min(Of)].c
    OBVIOUS
  <2>2. CASE h[d] = dh[d]
    BY <1>1, <2>2
  <2>3. CASE h[d] # dh[d]
    <3>1. Of # {} /\ h[d] = q[Min(Of)].c
      BY <2>1, <2>3
    <3>2. Min(Of) \in Of
      <4>1. Of \subseteq Nat
        BY SMTT(30), <1>2
      <4> HIDE DEF Of
      <4> QED
        BY <3>1, <4>1, MinIs
    <3> DEFINE k == Min(Of)
    <3>3. k \in keep + 1 .. Len(q) /\ hist.dir[q[k].c] = d
      BY <3>2
    <3> HIDE DEF k
    <3>4. k \in 1 .. Len(q) /\ q[k].translated
      BY <1>2, <3>3
    <3>5. Entry(q[k], m)
      BY <1>2, <3>4
    <3>6. q[k].c \in Commit /\ d \in Source /\ m[q[k].c] # Null
      BY <3>3, <3>4, <3>5 DEF Entry, FRec
    <3>7. h[d] = q[k].c
      BY <3>1 DEF k
    <3> QED
      BY <2>3, <3>3, <3>6, <3>7
  <2> QED
    BY <2>2, <2>3
<1>4. h \in [Dir -> Commit \cup {Null}]
  BY <1>3
<1>5. a \subseteq Dir
  BY Zenon, <1>1
<1> QED
  BY <1>1, <1>3, <1>4, <1>5 DEF HeadsOf

LEMMA OrderDirCommitsStep == Inv /\ OrderDirCommits => Inv'
<1> SUFFICES ASSUME Inv, OrderDirCommits PROVE Inv'
  OBVIOUS
<1>0. pc = "order"
  BY DEF OrderDirCommits
<1>1. /\ IsHistory(hist, Dir) /\ Database(mono, map) /\ GoalOf(goal)
      /\ Written(mono, map, saved) /\ RefsOf(mono, ref, saved)
      /\ HeadsOf(mono, map, head, dhead, active)
      /\ ListsOf(list, dhead, map)
      /\ \A d \in Source : TodoOf(todo[d], goal[d], map)
  BY Zenon, <1>0 DEF Inv, Written
<1> DEFINE S == {d \in Source : list[d] # <<>>}
<1>2. PICK order \in SetToSeqs(S) :
        LET q    == FoldLeft(LAMBDA s, d : Merged(list[d], s), <<>>, order)
            keep == SelectLastInSeq(q, LAMBDA f : ~f.translated \/ f.locked)
            Of(d) == {i \in keep + 1..Len(q) : hist.dir[q[i].c] = d}
        IN  /\ queue' = SubSeq(q, 1, keep)
            /\ dhead' = [d \in Dir |-> IF Of(d) = {} THEN dhead[d] ELSE q[Min(Of(d))].c]
            /\ active' = active \cup {d \in Dir : Of(d) # {}}
  BY ZenonT(60) DEF OrderDirCommits
<1> DEFINE q == FoldLeft(LAMBDA s, d : Merged(list[d], s), <<>>, order)
           I == {k \in 1 .. Len(q) : ~q[k].translated \/ q[k].locked}
           keep == IF I # {} THEN Max(I) ELSE 0
           Of(d) == {i \in keep + 1..Len(q) : hist.dir[q[i].c] = d}
<1>3. /\ queue' = SubSeq(q, 1, keep)
      /\ dhead' = [d \in Dir |-> IF Of(d) = {} THEN dhead[d] ELSE q[Min(Of(d))].c]
      /\ active' = active \cup {d \in Dir : Of(d) # {}}
  BY Zenon, <1>2 DEF SelectLastInSeq
<1>4. q = Interleaved(list, order)
  BY DEF Interleaved
<1>5. keep = IF I # {} THEN Max(I) ELSE 0
  OBVIOUS
<1>6. I = {k \in 1 .. Len(q) : ~q[k].translated \/ q[k].locked}
  OBVIOUS
<1> HIDE DEF q, I, keep, S
<1>7. S \subseteq Dir /\ IsFiniteSet(S) /\ S = {d \in Source : list[d] # <<>>}
  <2>1. S \subseteq Dir
    BY <1>1, GoalIs DEF S
  <2> QED
    BY <2>1, DirsAre, FS_Subset DEF S
<1>8. order \in Seq(S) /\ IsInjective(order) /\ ToSet(order) = S
  BY <1>7, OrderIs
<1>9. ASSUME NEW d \in ToSet(order)
      PROVE  list[d] \in Seq(FRec) /\ \A i \in 1 .. Len(list[d]) : hist.dir[list[d][i].c] = d
  <2>1. d \in Source /\ d \in Dir
    BY <1>7, <1>8
  <2>2. IsPath(list[d], goal[d]) /\ goal[d] \in Commit /\ hist.dir[goal[d]] = d
    BY <1>1, <2>1, GoalIs DEF ListsOf, ListOf
  <2>3. \A i \in 1 .. Len(list[d]) : list[d][i].c \in hist.anc[goal[d]]
    BY <2>2 DEF IsPath
  <2>4. \A i \in 1 .. Len(list[d]) : hist.dir[list[d][i].c] = d
    BY <1>1, <2>2, <2>3, AncestorsClosed DEF Commit
  <2> QED
    BY <2>2, <2>4 DEF IsPath
<1>10. Woven(list, q, S)
  BY <1>4, <1>8, <1>9, InterleavedIs
<1>11. QueueOf(q, dhead, map)
  BY <1>1, <1>7, <1>10, WovenQueue
<1>12. keep \in 0 .. Len(q) /\ \A k \in keep + 1 .. Len(q) : q[k].translated
  <2>1. q \in Seq(FRec) /\ Len(q) \in Nat
    BY <1>11 DEF QueueOf
  <2>2. \A k \in 1 .. Len(q) : k \notin I => q[k].translated
    BY <1>6
  <2>3. I \in SUBSET (1 .. Len(q))
    BY <1>6
  <2>4. keep \in 0 .. Len(q) /\ \A k \in keep + 1 .. Len(q) : k \notin I
    BY <1>5, <2>1, <2>3, LastOf
  <2>5. \A k \in keep + 1 .. Len(q) : k \in 1 .. Len(q)
    BY <2>1, <2>4
  <2> QED
    BY <2>2, <2>4, <2>5
<1>13. \A d \in Dir : LET A == {i \in keep + 1 .. Len(q) : hist.dir[q[i].c] = d}
                      IN  IF A = {} THEN dhead'[d] = dhead[d] ELSE dhead'[d] = q[Min(A)].c
  BY SMTT(30), <1>3
<1>14. QueueOf(queue', dhead', map)
  <2>1. \A d \in Source : LET A == {i \in keep + 1 .. Len(q) : hist.dir[q[i].c] = d}
                          IN  IF A = {} THEN dhead'[d] = dhead[d] ELSE dhead'[d] = q[Min(A)].c
    BY <1>1, <1>13, GoalIs
  <2> QED
    BY <1>1, <1>3, <1>11, <1>12, <2>1, DropIs
<1>15. HeadsOf(mono, map, head, dhead', active')
  <2> DEFINE a == active \cup {d \in Dir : dhead'[d] # dhead[d]}
  <2>1. dhead' = [d \in Dir |-> dhead'[d]] /\ a = active \cup {d \in Dir : dhead'[d] # dhead[d]}
    BY <1>3
  <2> HIDE DEF a
  <2>2. HeadsOf(mono, map, head, dhead', a)
    BY SMTT(30), <1>1, <1>11, <1>12, <1>13, <2>1, MovedHeads
  <2>3. a \subseteq active' /\ active' \subseteq Dir
    <3>1. active' \subseteq Dir
      BY <1>1, <1>3 DEF HeadsOf
    <3> QED
      BY <1>3, <2>1, <3>1
  <2> QED
    BY <2>2, <2>3 DEF HeadsOf
<1>16. NewInv(mono, map, head, dhead', active', "merge_heads", todo, list', queue')
  BY <1>1, <1>14, <1>15 DEF NewInv
<1> QED
  BY Zenon, <1>16, RunStep DEF OrderDirCommits

\* New mono commits change nothing that is known of the earlier ones.
LEMMA LogGrown ==
  ASSUME NEW log, NEW new, LogGrows(log, new), IsLog(hist, new), NEW m, NEW s, NEW r,
         Written(log, m, s), RefsOf(log, r, s)
  PROVE  /\ Written(new, m, s) /\ RefsOf(new, r, s)
         /\ \A hd, dh, act : \A nd \in 0 .. Len(new) :
              HeadsOf(log, m, hd, dh, act) => HeadsOf(new, m, nd, dh, act)
<1>1. Len(log) \in Nat /\ Len(new) \in Nat /\ Len(log) <= Len(new)
  BY DEF LogGrows
<1>2. \A h \in 0 .. Len(log) : h \in 0 .. Len(new)
  BY <1>1
<1>3. Written(new, m, s)
  BY DatabaseGrows DEF Written
<1>4. RefsOf(new, r, s)
  <2>1. ASSUME NEW b \in Branch PROVE StepOf(new, s, r[b].head, r[b].dhead)
    <3> DEFINE h == r[b].head
    <3>1. StepOf(log, s, h, r[b].dhead) /\ h \in 0 .. Len(log)
      BY DEF RefsOf
    <3>2. h # Null => h \in 1 .. Len(log)
      BY <1>1, <3>1 DEF Null
    <3> HIDE DEF h
    <3>3. h # Null => new[h] = log[h]
      BY <3>2 DEF LogGrows
    <3>4. StepOf(new, s, h, r[b].dhead)
      BY <3>1, <3>3 DEF StepOf
    <3> QED
      BY <3>4 DEF h
  <2> QED
    BY <1>2, <2>1 DEF RefsOf
<1> QED
  BY <1>3, <1>4 DEF HeadsOf

LEMMA DropLast ==
  ASSUME IsHistory(hist, Dir), NEW q, NEW dh, NEW m, QueueOf(q, dh, m), q # <<>>, Dir = DOMAIN dh,
         Source \subseteq Dir, NEW f, f = q[Len(q)]
  PROVE  /\ QueueOf(Front(q), [dh EXCEPT ![hist.dir[f.c]] = f.c], m)
         /\ Entry(f, m) /\ f.c \in Commit /\ hist.dir[f.c] \in Dir
         /\ OnHead(f, dh[hist.dir[f.c]])
<1>1. q \in Seq(FRec) /\ Len(q) \in Nat /\ Len(q) # 0
  BY DEF QueueOf
<1>2. Len(q) \in 1 .. Len(q) /\ Len(q) - 1 \in 0 .. Len(q) /\ (Len(q) - 1) + 1 = Len(q)
  BY <1>1
<1>3. Entry(f, m)
  BY <1>2 DEF QueueOf
<1>4. f.c \in Commit /\ hist.dir[f.c] \in Dir /\ hist.dir[f.c] \in Source
  BY <1>3 DEF Entry, FRec
<1> DEFINE h == [dh EXCEPT ![hist.dir[f.c]] = f.c]
           keep == Len(q) - 1
<1>5. ASSUME NEW d \in Source
      PROVE  LET Of == {i \in keep + 1 .. Len(q) : hist.dir[q[i].c] = d}
             IN  IF Of = {} THEN h[d] = dh[d] ELSE h[d] = q[Min(Of)].c
  <2> DEFINE Of == {i \in keep + 1 .. Len(q) : hist.dir[q[i].c] = d}
  <2>1. \A i \in keep + 1 .. Len(q) : i = Len(q)
    BY <1>1
  <2>2. Len(q) \in keep + 1 .. Len(q)
    BY <1>1
  <2>3. CASE hist.dir[f.c] = d
    <3>1. Of # {} /\ Of \subseteq Nat
      BY <1>1, <2>2, <2>3
    <3>2. h[d] = f.c
      BY <2>3
    <3>3. Min(Of) \in Of
      <4> HIDE DEF Of
      <4> QED
        BY Zenon, <3>1, MinIs
    <3>4. Min(Of) = Len(q)
      BY Zenon, <2>1, <3>3
    <3> HIDE DEF Of, h
    <3>5. h[d] = q[Min(Of)].c
      BY <3>2, <3>4
    <3> QED
      BY <3>1, <3>5 DEF Of
  <2>4. CASE hist.dir[f.c] # d
    <3>1. Of = {}
      BY <2>1, <2>4
    <3>2. h[d] = dh[d]
      BY <2>4
    <3> QED
      BY <3>1, <3>2
  <2> QED
    BY <2>3, <2>4
<1>6. QueueOf(SubSeq(q, 1, keep), h, m)
  <2> DEFINE r == SubSeq(q, 1, keep)
  <2>1. keep \in 0 .. Len(q) /\ r = SubSeq(q, 1, keep)
    BY <1>2
  <2> HIDE DEF h, keep, r
  <2>2. QueueOf(r, h, m)
    BY <1>5, <2>1, DropIs
  <2> QED
    BY <2>1, <2>2
<1>7. Front(q) = SubSeq(q, 1, keep)
  BY DEF Front
<1>8. OnHead(f, dh[hist.dir[f.c]])
  <2>1. Waiting(q, hist.dir[f.c], dh[hist.dir[f.c]])
    BY <1>4 DEF QueueOf
  <2>2. Len(q) \in InDir(q, hist.dir[f.c]) /\ \A l \in InDir(q, hist.dir[f.c]) : l <= Len(q)
    BY <1>1, <1>2 DEF InDir
  <2> QED
    BY <2>1, <2>2 DEF Waiting
<1> QED
  BY <1>3, <1>4, <1>6, <1>7, <1>8

LEMMA HeadMerged ==
  ASSUME Written(mono, map, saved), NEW c \in Commit, map[c] # Null
  PROVE  /\ map[c] \in 1 .. Len(mono) /\ mono[map[c]].tree[hist.dir[c]] = c
         /\ map[c] \in mono[map[c]].anc /\ IsLog(hist, mono) /\ Len(mono) \in Nat
<1>0. IsLog(hist, mono) /\ Database(mono, map)
  BY DEF Written
<1>1. IsLog(hist, mono) /\ Database(mono, map) /\ Len(mono) \in Nat
  BY <1>0, SameLog DEF LogGrows
<1>2. map[c] \in 0 .. Len(mono) /\ mono[map[c]].tree[hist.dir[c]] = c
  BY <1>1 DEF Database
<1>3. map[c] \in 1 .. Len(mono)
  BY <1>1, <1>2 DEF Null
<1> QED
  BY <1>1, <1>2, <1>3, MonoAncestors

\* A pass that writes goes on from the head it has, and does not fail.
GoesOn ==
  /\ pc' # "failed"
  /\ Sourced(mono, map) => Sourced(mono', map') /\ Adds(mono, map, mono', map')
  /\ head # Null => head' # Null /\ mono[head].anc \subseteq mono'[head'].anc

LEMMA SameGoesOn ==
  ASSUME Inv, UNCHANGED <<mono, map, head>>, pc' # "failed"
  PROVE  GoesOn
<1>1. LogGrows(mono, mono)
  BY SameLog DEF Inv, Written
<1> QED
  BY <1>1 DEF GoesOn, Adds, Null

LEMMA MergeHeadsStep == Inv /\ MergeHeads => Inv' /\ GoesOn
<1> SUFFICES ASSUME Inv, MergeHeads PROVE Inv' /\ GoesOn
  OBVIOUS
<1>1. /\ IsHistory(hist, Dir) /\ Database(mono, map) /\ GoalOf(goal)
      /\ Written(mono, map, saved) /\ RefsOf(mono, ref, saved)
      /\ HeadsOf(mono, map, head, dhead, active)
      /\ QueueOf(queue, dhead, map)
      /\ \A d \in Source : TodoOf(todo[d], goal[d], map)
  BY DEF Inv, MergeHeads, Written
<1> DEFINE U == {d \in Dir : dhead[d] # Null}
           dirs == Within(DirList, U)
           targets == [i \in DOMAIN dirs |-> dhead[dirs[i]]]
           par == OctopusParents(targets)
<1>2. IF \E c \in ToSet(targets) : map[c] = Null
      THEN pc' = "failed" /\ UNCHANGED <<mono, head>>
      ELSE /\ pc' = "fast_forward"
           /\ IF targets = <<>> THEN UNCHANGED <<mono, head>>
              ELSE Take(MergeTargets(targets, par, Null))
  BY DEF MergeHeads
<1>3. dirs \in Seq(U) /\ ToSet(dirs) = U
  <2>1. dirs \in Seq(Dir) /\ ToSet(dirs) = Dir \cap U
    BY DirsAre, WithinIs
  <2>2. ToSet(dirs) = U
    BY <2>1
  <2> HIDE DEF dirs, U
  <2>3. \A i \in 1 .. Len(dirs) : dirs[i] \in U
    BY <2>1, <2>2 DEF ToSet
  <2> QED
    BY <2>1, <2>2, <2>3
<1>4. \A d \in U : /\ dhead[d] \in Commit /\ map[dhead[d]] # Null /\ hist.dir[dhead[d]] = d
                   /\ d \in Dir /\ d \in active
  BY <1>1 DEF HeadsOf
<1>5. \A d \in Dir : dhead[d] # Null => d \in U
  OBVIOUS
<1>6. targets = [i \in DOMAIN dirs |-> dhead[dirs[i]]]
  OBVIOUS
<1> HIDE DEF U, dirs, targets
<1>7. targets \in Seq(Commit) /\ Len(targets) = Len(dirs) /\ ToSet(targets) = {dhead[x] : x \in U}
  <2> DEFINE f == dhead
  <2>1. \A x \in U : f[x] \in Commit
    BY <1>4
  <2>2. targets = [i \in DOMAIN dirs |-> f[dirs[i]]]
    BY <1>6
  <2>3. dirs \in Seq(U)
    BY <1>3
  <2> HIDE DEF f
  <2>4. targets \in Seq(Commit) /\ Len(targets) = Len(dirs)
          /\ ToSet(targets) = {f[x] : x \in ToSet(dirs)}
    BY <2>1, <2>2, <2>3, MonosIs
  <2> QED
    BY <1>3, <2>4 DEF f
<1>8. /\ pc' = "fast_forward"
      /\ IF targets = <<>> THEN UNCHANGED <<mono, head>>
         ELSE Take(MergeTargets(targets, par, Null))
  BY <1>2, <1>4, <1>7
<1>9. CASE targets = <<>>
  <2>1. U = {}
    <3>1. Len(dirs) = 0
      BY <1>7, <1>9
    <3> QED
      BY <1>3, <3>1 DEF ToSet
  <2>2. StepOf(mono, map, head, dhead)
    BY <1>5, <2>1 DEF StepOf
  <2>3. NewInv(mono, map, head, dhead, active, "fast_forward", todo, list, queue)
    BY <1>1, <2>2 DEF NewInv
  <2>4. GoesOn
    BY <1>8, <1>9, SameGoesOn DEF MergeHeads
  <2> QED
    BY <1>8, <1>9, <2>3, <2>4, RunStep DEF MergeHeads
<1>10. CASE targets # <<>>
  <2>1. Targeted(targets)
    BY <1>1, <1>4, <1>7, <1>10, HeadMerged DEF Targeted
  <2>2. IsLog(hist, mono) /\ Len(mono) \in Nat /\ head \in 0 .. Len(mono)
    BY <1>1 DEF Written, IsLog, HeadsOf
  <2>3. /\ par \in Seq(1 .. Len(mono)) /\ par # <<>>
        /\ \A x \in ({head} \cup {map[c] : c \in ToSet(targets)}) \ {Null} :
              \E p \in ToSet(par) : x \in mono[p].anc
        /\ Len(par) = 1 => \A c \in ToSet(targets) : mono[par[1]].tree[hist.dir[c]] = c
    BY <2>1, <2>2, OctopusIs
  <2> DEFINE r == MergeTargets(targets, par, Null)
  <2>4. mono' = r.log /\ head' = r.at
    BY <1>8, <1>10 DEF Take
  <2>5. r = MergeTargets(targets, par, Null) /\ Null \in Commit \cup {Null}
    OBVIOUS
  <2>6. /\ \A c \in ToSet(targets) : hist.dir[c] \in Dir
        /\ \A c, k \in ToSet(targets) : hist.dir[c] = hist.dir[k] => c = k
    BY <1>4, <1>7
  <2>7. OnePerDir(targets)
    BY <2>6 DEF OnePerDir
  <2>8. Reached(par, targets)
    BY <2>3 DEF Reached
  <2> HIDE DEF par, r
  <2>9. /\ IsLog(hist, r.log) /\ LogGrows(mono, r.log) /\ r.at \in 1 .. Len(r.log)
        /\ \A c \in ToSet(targets) : r.log[r.at].tree[hist.dir[c]] = c
        /\ \A p \in ToSet(par) : mono[p].anc \subseteq r.log[r.at].anc
    <3>1. Merges(targets, par, r)
      BY <1>7, <2>2, <2>3, <2>5, <2>7, <2>8, MergeTargetsIs
    <3> QED
      BY <3>1 DEF Merges
  <2>10. head' \in 0 .. Len(mono') /\ head' # Null
    BY <2>4, <2>9 DEF Null
  <2>11. /\ Written(mono', map, saved) /\ RefsOf(mono', ref, saved)
        /\ HeadsOf(mono', map, head', dhead, active)
    BY <1>1, <2>4, <2>9, <2>10, LogGrown
  <2>12. ASSUME NEW d \in Dir, dhead[d] # Null
         PROVE  mono'[head'].tree[d] = dhead[d] /\ map[dhead[d]] \in mono'[head'].anc
    <3>1. dhead[d] \in ToSet(targets) /\ hist.dir[dhead[d]] = d /\ map[dhead[d]] # Null
      BY <1>4, <1>5, <1>7, <2>12
    <3>2. PICK p \in ToSet(par) : map[dhead[d]] \in mono[p].anc
      BY <2>3, <3>1
    <3> QED
      BY <2>4, <2>9, <3>1, <3>2
  <2>13. StepOf(mono', map, head', dhead)
    BY <2>10, <2>12 DEF StepOf
  <2>14. NewInv(mono', map, head', dhead, active, "fast_forward", todo, list, queue)
    BY <1>1, <2>11, <2>13 DEF NewInv
  <2>15. Sourced(mono, map) => Sourced(mono', map')
    <3> SUFFICES ASSUME Sourced(mono, map) PROVE Sourced(mono', map')
      OBVIOUS
    <3>1. ASSUME NEW c \in ToSet(targets)
          PROVE  map[c] # Null /\ \E p \in ToSet(par) : map[c] \in mono[p].anc
      <4>1. map[c] # Null
        BY <1>4, <1>7
      <4> QED
        BY <2>3, <4>1
    <3>2. Sourced(r.log, map)
      BY <1>7, <2>2, <2>3, <2>5, <2>7, <3>1, MergeKeeps
    <3> QED
      BY <2>4, <3>2 DEF MergeHeads
  <2>16. Adds(mono, map, mono', map')
    BY <2>4, <2>9 DEF Adds, MergeHeads, Null
  <2>17. head # Null => head' # Null /\ mono[head].anc \subseteq mono'[head'].anc
    <3> SUFFICES ASSUME head # Null PROVE mono[head].anc \subseteq mono'[head'].anc
      BY <2>10
    <3>1. head \in 1 .. Len(mono)
      BY <2>2 DEF Null
    <3>2. PICK p \in ToSet(par) : head \in mono[p].anc
      BY <2>3
    <3>3. p \in 1 .. Len(mono)
      BY <2>3 DEF ToSet
    <3>4. mono[head].anc \subseteq mono[p].anc
      BY <2>2, <3>2, <3>3, MonoAncestors
    <3> QED
      BY <2>4, <2>9, <3>2, <3>4
  <2>18. GoesOn
    BY <1>8, <2>15, <2>16, <2>17 DEF GoesOn
  <2> QED
    BY <1>8, <2>14, <2>18, RunStep DEF MergeHeads
<1> QED
  BY <1>9, <1>10

\* The queue has brought every head to its goal: nothing is left to merge.
LEMMA MergeGoalsStep == Inv /\ MergeGoals => Inv' /\ GoesOn
<1> SUFFICES ASSUME Inv, MergeGoals PROVE Inv' /\ GoesOn
  OBVIOUS
<1>1. /\ IsHistory(hist, Dir) /\ GoalOf(goal)
      /\ Written(mono, map, saved) /\ RefsOf(mono, ref, saved)
      /\ HeadsOf(mono, map, head, dhead, active)
      /\ QueueOf(queue, dhead, map) /\ queue = <<>>
      /\ StepOf(mono, map, head, dhead)
  BY DEF Inv, MergeGoals
<1>2. ASSUME NEW d \in Dir PROVE goal[d] = dhead[d]
  <2>1. CASE d \in Source
    <3>1. InDir(queue, d) = {}
      BY <1>1 DEF InDir
    <3> QED
      BY <1>1, <2>1, <3>1 DEF QueueOf, Waiting
  <2>2. CASE d \notin Source
    BY <1>1, <2>2 DEF GoalOf, HeadsOf
  <2> QED
    BY <2>1, <2>2
<1>3. dhead = goal
  <2>1. dhead \in [Dir -> Commit \cup {Null}] /\ goal \in [Dir -> Commit \cup {Null}]
    BY <1>1 DEF GoalOf, HeadsOf
  <2> QED
    BY <1>2, <2>1
<1> DEFINE U == {d \in Dir : goal[d] # dhead[d]}
           dirs == Within(DirList, U)
           targets == [i \in DOMAIN dirs |-> goal[dirs[i]]]
<1>4. U = {}
  BY <1>2
<1>5. DOMAIN dirs = {} /\ dirs \in Seq(Dir)
  <2>1. dirs \in Seq(Dir) /\ ToSet(dirs) = {}
    BY <1>4, DirsAre, WithinIs
  <2> HIDE DEF dirs
  <2> QED
    BY <2>1 DEF ToSet
<1>6. targets = <<>> /\ ToSet(targets) = {}
  <2> DEFINE e == <<>>
  <2>1. Len(e) = 0 /\ DOMAIN e = {} /\ e = [i \in {} |-> goal[dirs[i]]]
    OBVIOUS
  <2> HIDE DEF dirs
  <2>2. targets = e
    BY <1>5, <2>1
  <2> HIDE DEF targets
  <2>3. ToSet(targets) = {}
    BY <2>1, <2>2 DEF ToSet
  <2> QED
    BY <2>2, <2>3 DEF e
<1>7. pc' = "publish" /\ UNCHANGED <<mono, head, active, dhead>>
  <2>1. IF \E c \in ToSet(targets) : map[c] = Null
        THEN pc' = "failed" /\ UNCHANGED <<mono, head, active, dhead>>
        ELSE /\ pc' = "publish"
             /\ targets = <<>> => UNCHANGED <<mono, head, active, dhead>>
    BY DEF MergeGoals
  <2> HIDE DEF targets
  <2> QED
    BY <1>6, <2>1
<1>8. NewInv(mono, map, head, dhead, active, "publish", todo, list, queue)
  BY <1>1, <1>3 DEF NewInv
<1>9. GoesOn
  BY <1>7, SameGoesOn DEF MergeGoals
<1> QED
  BY <1>7, <1>8, <1>9, RunStep DEF MergeGoals

LEMMA FastForwardStep == Inv /\ FastForward => Inv'
<1> SUFFICES ASSUME Inv, FastForward PROVE Inv'
  OBVIOUS
<1>1. /\ IsHistory(hist, Dir) /\ GoalOf(goal)
      /\ Written(mono, map, saved) /\ RefsOf(mono, ref, saved)
      /\ HeadsOf(mono, map, head, dhead, active)
      /\ QueueOf(queue, dhead, map)
      /\ StepOf(mono, map, head, dhead)
      /\ \A d \in Source : TodoOf(todo[d], goal[d], map)
  BY DEF Inv, FastForward
<1> DEFINE last == queue[Len(queue)]
           d == hist.dir[last.c]
           I == {k \in 1 .. Len(queue) : ~queue[k].translated \/ hist.dir[queue[k].c] # d}
           keep == IF I # {} THEN Max(I) ELSE 0
<1>2. CASE queue = <<>> \/ head # Null \/ ~last.translated
  <2>1. UNCHANGED <<head, dhead, active, queue>>
    BY <1>2 DEF FastForward, Last
  <2>2. NewInv(mono, map, head, dhead, active, "interleave", todo, list, queue)
    BY <1>1 DEF NewInv
  <2> QED
    BY SMTT(30), <2>1, <2>2, RunStep DEF FastForward
<1>3. CASE ~ (queue = <<>> \/ head # Null \/ ~last.translated)
  <2>1. /\ queue' = SubSeq(queue, 1, keep)
        /\ dhead' = [dhead EXCEPT ![d] = queue[keep + 1].c]
        /\ head' = map[queue[keep + 1].c]
        /\ active' = active \cup {d}
    BY Zenon, <1>3 DEF FastForward, Last, SelectLastInSeq
  <2>2. queue \in Seq(FRec) /\ Len(queue) \in Nat /\ Len(queue) # 0
    BY <1>1, <1>3 DEF QueueOf
  <2>3. keep = (IF I # {} THEN Max(I) ELSE 0) /\ I \in SUBSET (1 .. Len(queue))
        /\ \A k \in 1 .. Len(queue) : k \notin I => queue[k].translated /\ hist.dir[queue[k].c] = d
    OBVIOUS
  <2>4. Len(queue) \notin I
    BY <1>3
  <2> HIDE DEF I, keep
  <2>5. keep \in 0 .. Len(queue) /\ (keep # 0 => keep \in I)
          /\ \A k \in keep + 1 .. Len(queue) : k \notin I
    BY <2>2, <2>3, LastOf
  <2>6. keep # Len(queue)
    BY <2>2, <2>4, <2>5
  <2>7. keep \in 0 .. Len(queue) - 1 /\ keep + 1 \in 1 .. Len(queue)
          /\ keep + 1 \in keep + 1 .. Len(queue)
    BY <2>2, <2>5, <2>6
  <2>8. \A k \in keep + 1 .. Len(queue) : k \in 1 .. Len(queue) /\ queue[k].translated
          /\ hist.dir[queue[k].c] = d
    BY <2>2, <2>3, <2>5
  <2>9. Entry(queue[keep + 1], map) /\ hist.dir[queue[keep + 1].c] = d /\ queue[keep + 1].translated
    BY <1>1, <2>7, <2>8 DEF QueueOf
  <2> DEFINE c == queue[keep + 1].c
  <2>10. c \in Commit /\ d \in Source /\ map[c] # Null /\ hist.dir[c] = d
    BY <2>9 DEF Entry, FRec
  <2>11. d \in Dir
    BY <1>1, <2>10, GoalIs
  <2> HIDE DEF d
  <2>12. dhead \in [Dir -> Commit \cup {Null}]
    BY <1>1 DEF HeadsOf
  <2>13. /\ dhead' = [x \in Dir |-> dhead'[x]]
         /\ dhead'[d] = c /\ \A x \in Dir : x # d => dhead'[x] = dhead[x]
    BY <2>1, <2>11, <2>12
  <2>14. ASSUME NEW x \in Dir
         PROVE  LET A == {i \in keep + 1 .. Len(queue) : hist.dir[queue[i].c] = x}
                IN  IF A = {} THEN dhead'[x] = dhead[x] ELSE dhead'[x] = queue[Min(A)].c
    <3> DEFINE A == {i \in keep + 1 .. Len(queue) : hist.dir[queue[i].c] = x}
    <3>1. CASE x = d
      <4>1. A = keep + 1 .. Len(queue)
        BY <2>8, <3>1
      <4>2. A # {} /\ A \subseteq Nat /\ keep + 1 \in A /\ \A i \in A : keep + 1 <= i
        BY <2>2, <2>5, <2>7, <4>1
      <4>3. Min(A) \in A /\ \A i \in A : Min(A) <= i
        <5> HIDE DEF A
        <5> QED
          BY <4>2, MinIs
      <4>4. Min(A) = keep + 1
        <5> HIDE DEF A
        <5>1. Min(A) \in Nat /\ Min(A) <= keep + 1 /\ keep + 1 <= Min(A) /\ keep + 1 \in Nat
          BY <4>2, <4>3
        <5> QED
          BY <5>1
      <4> HIDE DEF A
      <4>5. A # {} /\ dhead'[x] = queue[Min(A)].c
        BY <2>13, <3>1, <4>2, <4>4
      <4> QED
        BY <4>5 DEF A
    <3>2. CASE x # d
      <4>1. A = {}
        BY <2>8, <3>2
      <4> QED
        BY <2>13, <3>2, <4>1
    <3> QED
      BY <3>1, <3>2
  <2>15. QueueOf(queue', dhead', map)
    <3>1. \A x \in Source : x \in Dir
      BY <1>1, GoalIs
    <3>2. \A x \in Source : LET A == {i \in keep + 1 .. Len(queue) : hist.dir[queue[i].c] = x}
                            IN  IF A = {} THEN dhead'[x] = dhead[x] ELSE dhead'[x] = queue[Min(A)].c
      BY <2>14, <3>1
    <3> QED
      BY <1>1, <2>1, <2>5, <3>2, DropIs
  <2>16. /\ head' \in 1 .. Len(mono) /\ mono[head'].tree[d] = c /\ head' \in mono[head'].anc
         /\ Len(mono) \in Nat /\ head' = map[c]
    BY <1>1, <2>1, <2>10, HeadMerged
  <2>17. head' \in 0 .. Len(mono) /\ head' # Null
    BY <2>16 DEF Null
  <2>18. HeadsOf(mono, map, head', dhead', active')
    <3>1. dhead' \in [Dir -> Commit \cup {Null}]
      BY <2>10, <2>12, <2>13
    <3>2. active' \subseteq Dir /\ d \in active' /\ active \subseteq active'
      BY SMTT(30), <1>1, <2>1, <2>11 DEF HeadsOf, d
    <3> QED
      BY <1>1, <2>10, <2>13, <2>17, <3>1, <3>2 DEF HeadsOf
  <2>19. StepOf(mono, map, head', dhead')
    <3>1. \A x \in Dir : x # d => dhead'[x] = Null
      BY <1>1, <1>3, <2>13 DEF StepOf
    <3> QED
      BY <2>13, <2>16, <2>17, <3>1 DEF StepOf
  <2>20. NewInv(mono, map, head', dhead', active', "interleave", todo, list, queue')
    BY <1>1, <2>15, <2>18, <2>19 DEF NewInv
  <2> QED
    BY <2>20, RunStep DEF FastForward
<1> QED
  BY <1>2, <1>3

LEMMA Pair ==
  ASSUME NEW S, NEW x \in S, NEW y \in S
  PROVE  <<x, y>> \in Seq(S) /\ Len(<<x, y>>) = 2 /\ <<x, y>>[1] = x /\ <<x, y>>[2] = y
           /\ <<x, y>> # <<>>
         /\ ToSet(<<x, y>>) = {x, y}
<1> DEFINE s == <<x, y>>
<1>1. s \in Seq(S) /\ Len(s) = 2 /\ s[1] = x /\ s[2] = y /\ DOMAIN s = 1 .. 2 /\ s # <<>>
  OBVIOUS
<1>2. \A i \in 1 .. 2 : i = 1 \/ i = 2
  OBVIOUS
<1> HIDE DEF s
<1>3. ToSet(s) = {x, y}
  BY <1>1, <1>2 DEF ToSet
<1> QED
  BY <1>1, <1>3 DEF s

LEMMA OneOf ==
  ASSUME NEW S, NEW x \in S
  PROVE  ToSet(<<x>>) = {x}
<1> DEFINE s == <<x>>
<1>1. s[1] = x /\ DOMAIN s = 1 .. 1
  OBVIOUS
<1>2. \A i \in 1 .. 1 : i = 1
  OBVIOUS
<1> HIDE DEF s
<1>3. ToSet(s) = {x}
  BY <1>1, <1>2 DEF ToSet
<1> QED
  BY <1>3 DEF s

LEMMA InterleaveTranslatedStep == Inv /\ InterleaveTranslated => Inv' /\ GoesOn
<1> SUFFICES ASSUME Inv, InterleaveTranslated PROVE Inv' /\ GoesOn
  OBVIOUS
<1>1. /\ IsHistory(hist, Dir) /\ GoalOf(goal)
      /\ Written(mono, map, saved) /\ RefsOf(mono, ref, saved)
      /\ HeadsOf(mono, map, head, dhead, active)
      /\ QueueOf(queue, dhead, map)
      /\ StepOf(mono, map, head, dhead)
      /\ \A d \in Source : TodoOf(todo[d], goal[d], map)
  BY DEF Inv, InterleaveTranslated
<1> DEFINE f == queue[Len(queue)]
           c == f.c
           par == MergeParents(c)
           d == hist.dir[c]
           h == [dhead EXCEPT ![d] = c]
<1>2. /\ queue # <<>> /\ f.translated
      /\ Take(MergeTargets(<<c>>, par, c))
      /\ dhead' = h /\ active' = active \cup {d} /\ queue' = Front(queue)
  BY DEF InterleaveTranslated, Last
<1>3. Source \subseteq Dir /\ Dir = DOMAIN dhead
  <2>1. dhead \in [Dir -> Commit \cup {Null}]
    BY <1>1 DEF HeadsOf
  <2> QED
    BY <1>1, <2>1, GoalIs
<1>4. QueueOf(queue', h, map) /\ Entry(f, map) /\ c \in Commit /\ d \in Dir
  <2>1. f = queue[Len(queue)]
    OBVIOUS
  <2> HIDE DEF f
  <2> QED
    BY <1>1, <1>2, <1>3, <2>1, DropLast
<1>5. map[c] # Null /\ d \in Source
  BY <1>2, <1>4 DEF Entry
<1> HIDE DEF f, c
<1>6. /\ map[c] \in 1 .. Len(mono) /\ mono[map[c]].tree[d] = c /\ map[c] \in mono[map[c]].anc
      /\ IsLog(hist, mono) /\ Len(mono) \in Nat
  BY <1>1, <1>4, <1>5, HeadMerged
<1>7. head # Null => head \in 1 .. Len(mono)
  BY <1>1, <1>6 DEF HeadsOf, Null
<1> DEFINE targets == <<c>>
<1>8. targets \in Seq(Commit) /\ ToSet(targets) = {c} /\ targets = <<c>>
  BY <1>4, Single, OneOf
<1>9. /\ par \in Seq(1 .. Len(mono)) /\ par # <<>> /\ map[c] \in ToSet(par)
      /\ head = Null => par = <<map[c]>> /\ par[1] = map[c]
      /\ head # Null => Len(par) = 2 /\ par[1] = head /\ head \in ToSet(par)
  <2>1. CASE head = Null
    <3>1. par = <<map[c]>>
      BY <2>1 DEF MergeParents
    <3>2. <<map[c]>> \in Seq(1 .. Len(mono)) /\ <<map[c]>> # <<>>
            /\ ToSet(<<map[c]>>) = {map[c]} /\ <<map[c]>>[1] = map[c]
      BY <1>6, Single, OneOf
    <3> QED
      BY <2>1, <3>1, <3>2
  <2>2. CASE head # Null
    <3>1. par = <<head, map[c]>>
      BY <2>2 DEF MergeParents
    <3> QED
      BY <1>6, <1>7, <2>2, <3>1, Pair
  <2> QED
    BY <2>1, <2>2
<1> DEFINE r == MergeTargets(targets, par, c)
<1>10. mono' = r.log /\ head' = r.at /\ r = MergeTargets(targets, par, c)
  BY <1>2 DEF Take
<1> HIDE DEF targets, par, r
<1>11. OnePerDir(targets)
  BY <1>4, <1>8 DEF OnePerDir
<1>12. Reached(par, targets)
  BY <1>6, <1>8, <1>9 DEF Reached
<1>13. Merges(targets, par, r)
  BY <1>4, <1>6, <1>8, <1>9, <1>10, <1>11, <1>12, MergeTargetsIs
<1>14. /\ IsLog(hist, mono') /\ LogGrows(mono, mono') /\ head' \in 1 .. Len(mono')
       /\ mono'[head'].tree[d] = c
       /\ \A p \in ToSet(par) : mono[p].anc \subseteq mono'[head'].anc
       /\ Len(par) # 1 => \A g \in (active \cap Dir) \ {d} :
            mono[par[1]].tree[g] # Null => mono'[head'].tree[g] = mono[par[1]].tree[g]
  <2>1. {hist.dir[k] : k \in ToSet(targets)} = {d}
    BY <1>8
  <2> HIDE DEF d
  <2>2. hist.dir[c] = d
    BY DEF d
  <2> QED
    BY <1>8, <1>10, <1>13, <2>1, <2>2 DEF Merges
<1>15. head' \in 0 .. Len(mono') /\ head' # Null
  BY <1>14 DEF Null
<1>16. Written(mono', map, saved) /\ RefsOf(mono', ref, saved)
         /\ HeadsOf(mono', map, head', dhead, active)
  BY <1>1, <1>14, <1>15, LogGrown
<1> HIDE DEF d
<1>17. h[d] = c /\ \A g \in Dir : g # d => h[g] = dhead[g]
  BY <1>3, <1>4
<1>18. hist.dir[c] = d
  BY DEF d
<1>19. HeadsOf(mono', map, head', h, active')
  <2>1. h \in [Dir -> Commit \cup {Null}]
    <3>1. dhead \in [Dir -> Commit \cup {Null}]
      BY <1>1 DEF HeadsOf
    <3> QED
      BY <1>4, <3>1
  <2>2. active' \subseteq Dir /\ d \in active' /\ active \subseteq active'
    BY <1>1, <1>2, <1>4 DEF HeadsOf
  <2> HIDE DEF h
  <2> QED
    BY <1>5, <1>15, <1>16, <1>17, <1>18, <1>4, <2>1, <2>2 DEF HeadsOf
<1>20. StepOf(mono', map, head', h)
  <2>1. map[c] \in mono'[head'].anc
    BY <1>6, <1>9, <1>14
  <2>2. ASSUME NEW g \in Dir, g # d, dhead[g] # Null
        PROVE  mono'[head'].tree[g] = dhead[g] /\ map[dhead[g]] \in mono'[head'].anc
    <3>1. head # Null /\ mono[head].tree[g] = dhead[g] /\ map[dhead[g]] \in mono[head].anc
      BY <1>1, <2>2 DEF StepOf
    <3>2. g \in active
      BY <1>1, <2>2 DEF HeadsOf
    <3>3. Len(par) # 1 /\ par[1] = head /\ head \in ToSet(par)
      BY <1>9, <3>1
    <3>4. g \in (active \cap Dir) \ {d}
      BY <2>2, <3>2
    <3>5. mono'[head'].tree[g] = mono[head].tree[g]
      BY <1>14, <2>2, <3>1, <3>3, <3>4
    <3>6. mono[head].anc \subseteq mono'[head'].anc
      BY <1>14, <3>3
    <3> QED
      BY <3>1, <3>5, <3>6
  <2> HIDE DEF h
  <2> QED
    BY <1>14, <1>15, <1>17, <2>1, <2>2 DEF StepOf
<1>21. NewInv(mono', map, head', h, active', "interleave", todo, list, queue')
  BY <1>1, <1>4, <1>16, <1>19, <1>20 DEF NewInv
<1>22. Sourced(mono, map) => Sourced(mono', map')
  <2> SUFFICES ASSUME Sourced(mono, map) PROVE Sourced(mono', map')
    OBVIOUS
  <2>1. \A k \in ToSet(targets) : map[k] # Null /\ \E p \in ToSet(par) : map[k] \in mono[p].anc
    BY <1>5, <1>6, <1>8, <1>9
  <2>2. Sourced(r.log, map)
    BY <1>4, <1>5, <1>6, <1>8, <1>9, <1>10, <1>11, <2>1, MergeKeeps
  <2> QED
    BY <1>10, <2>2 DEF InterleaveTranslated
<1>23. Adds(mono, map, mono', map')
  BY <1>14 DEF Adds, InterleaveTranslated, Null
<1>24. GoesOn
  BY <1>9, <1>14, <1>15, <1>22, <1>23 DEF GoesOn, InterleaveTranslated
<1> QED
  BY <1>2, <1>21, <1>24, RunStep DEF InterleaveTranslated

\* t is what follows the first k of s.
Rest(s, k, t) ==
  /\ k \in Nat /\ Len(s) \in Nat /\ Len(t) \in Nat /\ DOMAIN t = 1 .. Len(t)
  /\ \A i \in 1 .. Len(t) : /\ t[i] = s[i + k] /\ i + k \in 1 .. Len(s) /\ i + k \notin 1 .. k
  /\ \A i \in 1 .. Len(s) : i \in 1 .. k \/ (i - k \in 1 .. Len(t) /\ t[i - k] = s[i])

LEMMA Difference ==
  ASSUME NEW k \in Nat, NEW n \in Nat, k <= n, NEW l, l = k + 1
  PROVE  (IF l <= n THEN n - l + 1 ELSE 0) = n - k
OBVIOUS

LEMMA RestIs ==
  ASSUME NEW S, NEW s \in Seq(S), NEW k \in 1 .. Len(s), NEW t, t = SubSeq(s, k + 1, Len(s))
  PROVE  t \in Seq(S) /\ Rest(s, k, t)
<1>1. Len(s) \in Nat /\ k \in Nat /\ k <= Len(s) /\ DOMAIN s = 1 .. Len(s)
  OBVIOUS
<1>2. k + 1 \in Int /\ Len(s) \in Int /\ \A i \in k + 1 .. Len(s) : s[i] \in S
  <2>1. \A i \in k + 1 .. Len(s) : i \in 1 .. Len(s)
    BY <1>1
  <2> QED
    BY <1>1, <2>1
<1> DEFINE n == Len(s)
           l == k + 1
<1>3. /\ SubSeq(s, l, n) \in Seq(S)
      /\ Len(SubSeq(s, l, n)) = IF l <= n THEN n - l + 1 ELSE 0
      /\ \A i \in 1 .. n - l + 1 : SubSeq(s, l, n)[i] = s[l + i - 1]
  <2>1. l \in Int /\ n \in Int /\ \A i \in l .. n : s[i] \in S
    BY <1>2
  <2> HIDE DEF l, n
  <2> QED
    BY <2>1, SubSeqProperties
<1>4. t = SubSeq(s, l, n) /\ n - l + 1 = n - k /\ \A i \in Nat : l + i - 1 = i + k
  BY <1>1
<1>5. n - k \in Nat
  BY <1>1
<1>6. (IF l <= n THEN n - l + 1 ELSE 0) = n - k
  <2>1. k \in Nat /\ n \in Nat /\ k <= n
    BY <1>1
  <2> HIDE DEF n, l
  <2>2. l = k + 1
    BY DEF l
  <2> QED
    BY <2>1, <2>2, Difference
<1> HIDE DEF l, n
<1>7. t \in Seq(S) /\ Len(t) = n - k
  BY <1>3, <1>4, <1>6
<1>8. \A i \in 1 .. n - k : t[i] = s[i + k]
  BY <1>3, <1>4
<1>9. DOMAIN t = 1 .. Len(t) /\ Len(t) \in Nat
  BY <1>7
<1>10. ASSUME NEW i \in 1 .. Len(t) PROVE t[i] = s[i + k] /\ i + k \in 1 .. Len(s)
                /\ i + k \notin 1 .. k
  <2>0. i \in 1 .. n - k
    BY <1>7
  <2>1. i \in Nat /\ 1 <= i /\ i <= n - k /\ n \in Nat /\ n = Len(s)
    BY <1>1, <1>5, <2>0 DEF n
  <2>2. i + k \in 1 .. n /\ i + k \notin 1 .. k
    BY <1>1, <2>1
  <2> QED
    BY <1>7, <1>8, <2>1, <2>2
<1>11. ASSUME NEW i \in 1 .. Len(s), i \notin 1 .. k PROVE i - k \in 1 .. Len(t) /\ t[i - k] = s[i]
  <2>1. i \in Nat /\ 1 <= i /\ i <= n /\ n \in Nat
    BY <1>1 DEF n
  <2>2. i - k \in 1 .. n - k /\ (i - k) + k = i
    BY <1>1, <1>11, <2>1
  <2> QED
    BY <1>7, <1>8, <2>2
<1> QED
  BY <1>1, <1>7, <1>9, <1>10, <1>11 DEF Rest

LEMMA RestHas ==
  ASSUME NEW S, NEW s \in Seq(S), IsInjective(s), NEW k, NEW t, Rest(s, k, t)
  PROVE  IsInjective(t) /\ ToSet(t) = ToSet(s) \ {s[i] : i \in 1 .. k}
<1>1. /\ k \in Nat /\ Len(s) \in Nat /\ Len(t) \in Nat /\ DOMAIN t = 1 .. Len(t)
           /\ DOMAIN s = 1 .. Len(s)
      /\ \A i \in 1 .. Len(t) : /\ t[i] = s[i + k] /\ i + k \in 1 .. Len(s) /\ i + k \notin 1 .. k
      /\ \A i \in 1 .. Len(s) : i \in 1 .. k \/ (i - k \in 1 .. Len(t) /\ t[i - k] = s[i])
  BY DEF Rest
<1>8. ASSUME NEW i \in 1 .. Len(t), NEW j \in 1 .. Len(t), t[i] = t[j] PROVE i = j
  <2>1. s[i + k] = s[j + k] /\ i + k \in DOMAIN s /\ j + k \in DOMAIN s
    BY <1>1, <1>8
  <2>2. i + k = j + k
    BY <2>1 DEF IsInjective
  <2>3. i \in Nat /\ j \in Nat
    OBVIOUS
  <2> QED
    BY <1>1, <2>2, <2>3
<1>9. ASSUME NEW c \in ToSet(t) PROVE c \in ToSet(s) /\ c \notin {s[i] : i \in 1 .. k}
  <2>1. PICK i \in 1 .. Len(t) : t[i] = c
    BY <1>1 DEF ToSet
  <2>2. s[i + k] = c /\ i + k \in DOMAIN s /\ i + k \notin 1 .. k
    BY <1>1, <2>1
  <2>3. c \in ToSet(s)
    BY <2>2 DEF ToSet
  <2>4. ASSUME NEW j \in 1 .. k, s[j] = c PROVE FALSE
    <3>1. CASE j \in DOMAIN s
      BY <2>2, <2>4, <3>1 DEF IsInjective
    <3>2. CASE j \notin DOMAIN s
      BY <1>1, <2>1, <2>2, <3>2
    <3> QED
      BY <3>1, <3>2
  <2> QED
    BY <2>3, <2>4
<1>10. ASSUME NEW c \in ToSet(s), c \notin {s[i] : i \in 1 .. k} PROVE c \in ToSet(t)
  <2>1. PICK i \in 1 .. Len(s) : s[i] = c
    BY <1>1 DEF ToSet
  <2>2. i - k \in 1 .. Len(t) /\ t[i - k] = c
    BY <1>1, <1>10, <2>1
  <2> QED
    BY <1>1, <2>2 DEF ToSet
<1>11. IsInjective(t)
  BY <1>1, <1>8 DEF IsInjective
<1> QED
  BY <1>9, <1>10, <1>11

\* The commits in D get translated, and no others.
Translates(m, n, D) ==
  \A c \in Commit : /\ m[c] # Null => n[c] # Null
                    /\ m[c] = Null => (n[c] # Null <=> c \in D)

\* Commits get translated, none of them of this directory.
LEMMA TodoKept ==
  ASSUME IsHistory(hist, Dir), NEW s, NEW g \in Commit, NEW m, NEW n, TodoOf(s, g, m),
         NEW D, Translates(m, n, D), D \cap hist.anc[g] = {}
  PROVE  TodoOf(s, g, n)
<1>1. s \in Seq(Commit) /\ IsInjective(s) /\ ToSet(s) = {c \in hist.anc[g] : m[c] = Null}
  BY DEF TodoOf
<1>2. /\ hist.anc[g] \subseteq Commit
      /\ \A c \in Commit : \A p \in ToSet(hist.par[c]) : p \in Commit
  BY HistoryType DEF Commit
<1>3. ToSet(s) = {c \in hist.anc[g] : n[c] = Null}
  <2>1. ASSUME NEW c \in hist.anc[g] PROVE m[c] = Null <=> n[c] = Null
    BY <1>2 DEF Translates
  <2> QED
    BY <1>1, <2>1
<1>4. ASSUME NEW i \in 1 .. Len(s), NEW p \in ToSet(hist.par[s[i]])
      PROVE  n[p] # Null \/ \E j \in 1 .. i - 1 : s[j] = p
  <2>1. m[p] # Null \/ \E j \in 1 .. i - 1 : s[j] = p
    BY DEF TodoOf
  <2>2. s[i] \in Commit
    BY <1>1
  <2>3. p \in Commit
    BY <1>2, <2>2
  <2> QED
    BY <2>1, <2>3 DEF Translates
<1> QED
  BY <1>1, <1>3, <1>4 DEF TodoOf

\* The first k of them get translated.
LEMMA TodoRest ==
  ASSUME IsHistory(hist, Dir), NEW s, NEW g \in Commit, NEW m, NEW n, TodoOf(s, g, m),
           NEW k \in 1 .. Len(s),
         NEW D, D = {s[i] : i \in 1 .. k}, Translates(m, n, D),
         NEW t, t = SubSeq(s, k + 1, Len(s))
  PROVE  TodoOf(t, g, n)
<1>1. s \in Seq(Commit) /\ IsInjective(s) /\ ToSet(s) = {c \in hist.anc[g] : m[c] = Null}
  BY DEF TodoOf
<1>2. t \in Seq(Commit) /\ Rest(s, k, t)
  <2>1. s \in Seq(Commit)
    BY <1>1
  <2> QED
    BY <2>1, RestIs
<1>3. IsInjective(t) /\ ToSet(t) = ToSet(s) \ {s[i] : i \in 1 .. k}
  BY <1>1, <1>2, RestHas
<1>4. /\ t \in Seq(Commit) /\ k \in Nat /\ Len(s) \in Nat
      /\ \A i \in 1 .. Len(t) : t[i] = s[i + k] /\ i + k \in 1 .. Len(s)
      /\ \A i \in 1 .. Len(s) : i \in 1 .. k \/ (i - k \in 1 .. Len(t) /\ t[i - k] = s[i])
      /\ IsInjective(t) /\ ToSet(t) = ToSet(s) \ {s[i] : i \in 1 .. k}
  BY <1>2, <1>3 DEF Rest
<1>5. /\ hist.anc[g] \subseteq Commit
      /\ \A c \in Commit : \A p \in ToSet(hist.par[c]) : p \in Commit
  BY HistoryType DEF Commit
<1>6. ToSet(t) = {c \in hist.anc[g] : n[c] = Null}
  <2> DEFINE X == {s[i] : i \in 1 .. k}
  <2>1. ToSet(t) = ToSet(s) \ X /\ Translates(m, n, X)
    <3>1. X = D
      OBVIOUS
    <3> QED
      BY <1>4, <3>1
  <2> HIDE DEF X
  <2>2. ASSUME NEW c \in hist.anc[g] PROVE m[c] = Null /\ c \notin X <=> n[c] = Null
    BY <1>5, <2>1 DEF Translates
  <2> QED
    BY <1>1, <2>1, <2>2
<1>7. ASSUME NEW i \in 1 .. Len(t), NEW p \in ToSet(hist.par[t[i]])
      PROVE  n[p] # Null \/ \E j \in 1 .. i - 1 : t[j] = p
  <2>1. i + k \in 1 .. Len(s) /\ t[i] = s[i + k] /\ i \in Nat
    BY <1>4
  <2>2. m[p] # Null \/ \E j \in 1 .. (i + k) - 1 : s[j] = p
    BY <2>1 DEF TodoOf
  <2>3. t[i] \in Commit
    BY <1>4
  <2>4. p \in Commit
    BY <1>5, <2>3
  <2>5. CASE m[p] # Null
    BY <2>4, <2>5 DEF Translates
  <2>6. ASSUME m[p] = Null, NEW j \in 1 .. (i + k) - 1, s[j] = p
        PROVE  n[p] # Null \/ \E l \in 1 .. i - 1 : t[l] = p
    <3>0. j \in Nat /\ 1 <= j /\ j <= (i + k) - 1 /\ i + k <= Len(s)
      BY <1>4, <2>1
    <3>1. CASE j <= k
      <4>1. p \in {s[l] : l \in 1 .. k}
        BY <1>4, <2>6, <3>0, <3>1
      <4> HIDE DEF Translates
      <4>2. n[p] # Null
        BY <2>4, <2>6, <4>1 DEF Translates
      <4> QED
        BY <4>2
    <3>2. CASE ~ j <= k
      <4>1. j - k \in 1 .. i - 1 /\ j \in 1 .. Len(s) /\ j \notin 1 .. k
        BY <1>4, <2>1, <3>0, <3>2
      <4>2. t[j - k] = p
        BY <1>4, <2>6, <4>1
      <4> QED
        BY <4>1, <4>2
    <3> QED
      BY <3>1, <3>2
  <2> QED
    BY <2>2, <2>5, <2>6
<1> QED
  BY <1>4, <1>6, <1>7 DEF TodoOf

\* What is to be translated comes after its ancestors.
LEMMA TodoAncestors ==
  ASSUME IsHistory(hist, Dir), NEW log, NEW m, Database(log, m), NEW s, NEW g, TodoOf(s, g, m),
         NEW j \in 1 .. Len(s), NEW a \in hist.anc[s[j]], m[a] = Null
  PROVE  \E i \in 1 .. j : s[i] = a
<1>1. s \in Seq(Commit) /\ Len(s) \in Nat
  BY DEF TodoOf
<1> DEFINE Good == {k \in Nat : \A l \in 1 .. Len(s) : l <= k /\ a \in hist.anc[s[l]]
                                  => \E i \in 1 .. l : s[i] = a}
<1>2. 0 \in Good
  OBVIOUS
<1>3. ASSUME NEW k \in Nat, k \in Good PROVE k + 1 \in Good
  <2> SUFFICES ASSUME NEW l \in 1 .. Len(s), l <= k + 1, a \in hist.anc[s[l]]
               PROVE  \E i \in 1 .. l : s[i] = a
    OBVIOUS
  <2>1. s[l] \in Commit /\ l \in 1 .. l
    BY <1>1
  <2>2. CASE a = s[l]
    BY <2>1, <2>2
  <2>3. CASE a # s[l]
    <3>1. PICK p \in ToSet(hist.par[s[l]]) : a \in hist.anc[p]
      BY <2>1, <2>3, AncestorFacts DEF Commit
    <3>2. p \in Commit
      BY <2>1, HistoryType DEF Commit
    <3>3. m[p] = Null
      BY <3>1, <3>2, AncestorsMapped
    <3>4. PICK i \in 1 .. l - 1 : s[i] = p
      BY <3>3 DEF TodoOf
    <3>5. i \in 1 .. Len(s) /\ i <= k
      BY <1>1, <3>4
    <3>6. PICK b \in 1 .. i : s[b] = a
      BY <1>3, <3>1, <3>4, <3>5
    <3>7. b \in 1 .. l
      BY <1>1, <3>4, <3>6
    <3> QED
      BY <3>6, <3>7
  <2> QED
    BY <2>2, <2>3
<1> HIDE DEF Good
<1>4. Len(s) \in Good
  BY <1>1, <1>2, <1>3, FromZeroOn
<1> QED
  BY <1>1, <1>4 DEF Good

LEMMA PlaceIn ==
  ASSUME NEW S, NEW s \in Seq(S), NEW x \in ToSet(s), NEW n, n = SelectInSeq(s, LAMBDA c : c = x)
  PROVE  n \in 1 .. Len(s) /\ s[n] = x
<1> DEFINE I == {i \in 1 .. Len(s) : s[i] = x}
<1>1. Len(s) \in Nat /\ DOMAIN s = 1 .. Len(s)
  OBVIOUS
<1>2. n = IF I # {} THEN Min(I) ELSE 0
  BY DEF SelectInSeq
<1>3. I # {} /\ I \in SUBSET (1 .. Len(s))
  BY <1>1 DEF ToSet
<1>4. n \in I
  <2> HIDE DEF I
  <2>1. n \in 0 .. Len(s) /\ (n # 0 => n \in I) /\ (n = 0 => I = {})
    BY <1>1, <1>2, <1>3, FirstOf
  <2> QED
    BY <1>3, <2>1
<1> QED
  BY <1>4

\* The side commits in D are translated.
Sided(r, D) ==
  /\ ~ r.failed /\ Translation(r) /\ LogGrows(mono, r.log) /\ Keeps(mono, map, r)
  /\ \A c \in Commit : IF c \in D THEN r.map[c] # Null ELSE r.map[c] = map[c]

LEMMA SidesOf ==
  ASSUME IsHistory(hist, Dir), Written(mono, map, saved), NEW g \in Commit, NEW s, TodoOf(s, g, map),
         NEW n \in 1 .. Len(s), NEW r, r = FoldLeft(TranslateSide, Begun, SubSeq(s, 1, n - 1))
  PROVE  /\ Sided(r, {s[i] : i \in 1 .. n - 1})
         /\ \A p \in ToSet(hist.par[s[n]]) : r.map[p] # Null
<1>1. s \in Seq(Commit) /\ IsInjective(s) /\ Len(s) \in Nat /\ DOMAIN s = 1 .. Len(s)
  BY DEF TodoOf
<1> DEFINE t == SubSeq(s, 1, n - 1)
<1>2. t \in Seq(Commit) /\ Len(t) = n - 1 /\ n - 1 \in Nat
        /\ \A i \in 1 .. n - 1 : t[i] = s[i] /\ i \in 1 .. Len(s)
  BY <1>1
<1>3. r = FoldLeft(TranslateSide, Begun, t)
  OBVIOUS
<1> HIDE DEF t
<1>4. DOMAIN t = 1 .. n - 1
  BY <1>2
<1>5. IsInjective(t)
  BY <1>1, <1>2, <1>4 DEF IsInjective
<1>6. ToSet(t) = {s[i] : i \in 1 .. n - 1}
  BY <1>2, <1>4 DEF ToSet
<1>7. \A c \in ToSet(t) : map[c] = Null
  <2> SUFFICES ASSUME NEW c \in ToSet(t) PROVE map[c] = Null
    OBVIOUS
  <2>1. c \in ToSet(s)
    BY <1>1, <1>2, <1>6 DEF ToSet
  <2> QED
    BY <2>1 DEF TodoOf
<1>8. \A i \in 1 .. Len(t) : \A p \in ToSet(hist.par[t[i]]) :
        map[p] # Null \/ \E j \in 1 .. i - 1 : t[j] = p
  <2> SUFFICES ASSUME NEW i \in 1 .. Len(t), NEW p \in ToSet(hist.par[t[i]]), map[p] = Null
               PROVE  \E j \in 1 .. i - 1 : t[j] = p
    OBVIOUS
  <2>1. t[i] = s[i] /\ i \in 1 .. Len(s) /\ i \in 1 .. n - 1
    BY <1>2
  <2>2. PICK j \in 1 .. i - 1 : s[j] = p
    BY <2>1 DEF TodoOf
  <2>3. j \in 1 .. n - 1
    BY <1>2, <2>1, <2>2
  <2> QED
    BY <1>2, <2>2, <2>3
<1>9. IsLog(hist, mono) /\ Database(mono, map)
  BY DEF Written
<1>10. /\ ~ r.failed /\ Translation(r) /\ LogGrows(mono, r.log) /\ Keeps(mono, map, r)
       /\ \A c \in Commit : IF c \in ToSet(t) THEN r.map[c] # Null ELSE r.map[c] = map[c]
  BY <1>2, <1>3, <1>5, <1>7, <1>8, <1>9, SideIs
<1>11. ASSUME NEW p \in ToSet(hist.par[s[n]]) PROVE r.map[p] # Null
  <2>1. s[n] \in Commit
    BY <1>1
  <2>2. p \in Commit
    BY <2>1, HistoryType DEF Commit
  <2>3. map[p] # Null \/ \E j \in 1 .. n - 1 : s[j] = p
    BY DEF TodoOf
  <2> QED
    BY <1>6, <1>10, <2>2, <2>3
<1> QED
  BY <1>6, <1>10, <1>11 DEF Sided

\* The parents of a commit that is translated on the head.
HeadPar(acc, f) ==
  IF f.headp # 0 THEN [Parents(acc, f.c) EXCEPT ![f.headp] = head]
  ELSE IF head # Null THEN <<head>> ELSE <<>>

OnHeadPar(acc, f, par) ==
  /\ par \in Seq(0 .. Len(acc.log)) /\ Null \notin ToSet(par) /\ f.headp \in 0 .. Len(par)
  /\ Dated => \A p \in ToSet(hist.par[f.c]) : \E m \in ToSet(par) : acc.map[p] \in acc.log[m].anc
  /\ head # Null => /\ par # <<>> /\ head \in ToSet(par)
                    /\ par[IF f.headp = 0 THEN 1 ELSE f.headp] = head

LEMMA HeadParIs ==
  ASSUME IsHistory(hist, Dir), NEW acc, Translation(acc), LogGrows(mono, acc.log), NEW f,
           f.c \in Commit,
         \A p \in ToSet(hist.par[f.c]) : acc.map[p] # Null,
         f.headp \in 0 .. Len(hist.par[f.c]), f.headp = 0 => hist.par[f.c] = <<>>,
         head \in 0 .. Len(mono),
         f.headp # 0 => head # Null /\ (Dated => acc.map[Picked(f)] \in mono[head].anc),
         NEW par, par = HeadPar(acc, f)
  PROVE  OnHeadPar(acc, f, par)
<1>1. /\ Len(mono) \in Nat /\ Len(acc.log) \in Nat /\ Len(mono) <= Len(acc.log)
      /\ head # Null => head \in 1 .. Len(mono) /\ acc.log[head].anc = mono[head].anc
  <2>1. Len(mono) \in Nat /\ Len(acc.log) \in Nat /\ Len(mono) <= Len(acc.log)
    BY DEF LogGrows
  <2>2. head # Null => head \in 1 .. Len(mono)
    BY <2>1 DEF Null
  <2> QED
    BY <2>1, <2>2 DEF LogGrows
<1>2. head \in 0 .. Len(acc.log)
  BY <1>1
<1>3. CASE f.headp = 0 /\ head = Null
  <2> DEFINE e == <<>>
  <2>1. par = e
    BY <1>3 DEF HeadPar
  <2>2. e \in Seq(0 .. Len(acc.log)) /\ ToSet(e) = {} /\ Len(e) = 0
    BY DEF ToSet
  <2>3. ToSet(hist.par[f.c]) = {}
    BY <1>3, <2>2
  <2> HIDE DEF e
  <2> QED
    BY <1>3, <2>1, <2>2, <2>3 DEF OnHeadPar
<1>4. CASE f.headp = 0 /\ head # Null
  <2>1. par = <<head>>
    BY <1>4 DEF HeadPar
  <2>2. par \in Seq(0 .. Len(acc.log)) /\ Len(par) = 1 /\ par[1] = head /\ par # <<>>
          /\ ToSet(par) = {head}
    BY <1>2, <2>1, Single, OneOf
  <2>3. ToSet(hist.par[f.c]) = {}
    <3> DEFINE e == <<>>
    <3>1. ToSet(e) = {}
      BY DEF ToSet
    <3>2. hist.par[f.c] = e
      BY <1>4
    <3> QED
      BY <3>1, <3>2
  <2>4. f.headp \in 0 .. Len(par)
    BY <1>4, <2>2
  <2> QED
    BY <1>4, <2>2, <2>3, <2>4 DEF OnHeadPar
<1>5. CASE f.headp # 0
  <2> DEFINE P == Parents(acc, f.c)
             c == f.c
  <2>1. /\ P \in Seq(0 .. Len(acc.log)) /\ Len(P) = Len(hist.par[f.c])
        /\ Len(hist.par[f.c]) \in Nat /\ DOMAIN P = 1 .. Len(hist.par[f.c])
        /\ \A i \in 1 .. Len(hist.par[f.c]) : P[i] = acc.map[hist.par[f.c][i]]
        /\ \A p \in ToSet(hist.par[f.c]) : acc.map[p] # Null =>
              acc.map[p] \in 1 .. Len(acc.log) /\ acc.map[p] \in acc.log[acc.map[p]].anc
    BY ParentsAre
  <2>2. par = [P EXCEPT ![f.headp] = head]
    BY <1>5 DEF HeadPar
  <2>3. /\ \A i \in 1 .. Len(hist.par[f.c]) : hist.par[f.c][i] \in ToSet(hist.par[f.c])
        /\ \A p \in ToSet(hist.par[f.c]) : \E i \in 1 .. Len(hist.par[f.c]) : hist.par[f.c][i] = p
    <3>1. DOMAIN hist.par[f.c] = 1 .. Len(hist.par[f.c])
      BY HistoryType DEF Commit
    <3> QED
      BY <3>1 DEF ToSet
  <2> HIDE DEF P
  <2>4. /\ par \in Seq(0 .. Len(acc.log)) /\ Len(par) = Len(hist.par[f.c])
             /\ DOMAIN par = 1 .. Len(hist.par[f.c])
        /\ par[f.headp] = head /\ f.headp \in 1 .. Len(hist.par[f.c])
        /\ \A i \in 1 .. Len(hist.par[f.c]) : i # f.headp => par[i] = P[i]
    BY <1>2, <1>5, <2>1, <2>2
  <2>5. head \in ToSet(par) /\ par # <<>>
    BY <2>4 DEF ToSet
  <2>6. Null \notin ToSet(par)
    <3> SUFFICES ASSUME NEW i \in 1 .. Len(hist.par[f.c]) PROVE par[i] # Null
      BY <2>4 DEF ToSet
    <3>1. CASE i = f.headp
      <4>1. head # Null /\ par[i] = head
        BY <1>5, <2>4, <3>1
      <4> QED
        BY <4>1
    <3>2. CASE i # f.headp
      <4>1. par[i] = acc.map[hist.par[f.c][i]]
        BY <2>1, <2>4, <3>2
      <4>2. hist.par[f.c][i] \in ToSet(hist.par[f.c])
        BY <2>3
      <4> QED
        BY <4>1, <4>2
    <3> QED
      BY <3>1, <3>2
  <2>7. ASSUME Dated, NEW p \in ToSet(hist.par[f.c]) PROVE \E m \in ToSet(par) :
                 acc.map[p] \in acc.log[m].anc
    <3>1. PICK i \in 1 .. Len(hist.par[f.c]) : hist.par[f.c][i] = p
      BY <2>3
    <3>2. CASE i = f.headp
      <4>1. p = Picked(f)
        BY <3>1, <3>2 DEF Picked
      <4>2. acc.map[p] \in acc.log[head].anc
        BY <1>1, <1>5, <2>7, <4>1
      <4> QED
        BY <2>5, <4>2
    <3>3. CASE i # f.headp
      <4>1. par[i] = acc.map[p] /\ acc.map[p] # Null
        BY <2>1, <2>4, <3>1, <3>3
      <4>2. acc.map[p] \in ToSet(par) /\ acc.map[p] \in acc.log[acc.map[p]].anc
        BY Zenon, <2>1, <2>4, <4>1 DEF ToSet
      <4> QED
        BY <4>2
    <3> QED
      BY <3>2, <3>3
  <2> QED
    BY <1>5, <2>4, <2>5, <2>6, <2>7 DEF OnHeadPar
<1> QED
  BY <1>3, <1>4, <1>5

\* What is waiting behind an entry does not get translated with it.
LEMMA QueueKept ==
  ASSUME IsHistory(hist, Dir), Database(mono, map), NEW q, NEW dh, QueueOf(q, dh, map), q # <<>>,
         NEW f, f = q[Len(q)], NEW d, d = hist.dir[f.c], d \in Source, goal[d] \in Commit,
         NEW s, TodoOf(s, goal[d], map),
         NEW n \in 1 .. Len(s), s[n] = f.c, NEW m, NEW D, D = {s[i] : i \in 1 .. n},
           Translates(map, m, D),
         NEW r, r = Front(q), NEW h, QueueOf(r, h, map)
  PROVE  QueueOf(r, h, m)
<1>1. q \in Seq(FRec) /\ Len(q) \in Nat /\ Len(q) # 0
  BY DEF QueueOf
<1>2. Len(r) = Len(q) - 1 /\ \A k \in 1 .. Len(q) - 1 : r[k] = q[k] /\ k \in 1 .. Len(q)
        /\ k < Len(q)
  <2> DEFINE b == Len(q) - 1
  <2>1. r = SubSeq(q, 1, b)
    BY DEF Front
  <2>2. b \in Nat /\ b < Len(q) /\ \A k \in 1 .. b : k \in 1 .. Len(q) /\ k < Len(q)
    BY <1>1
  <2> HIDE DEF b
  <2>3. Len(r) = b /\ \A k \in 1 .. b : r[k] = q[k]
    BY <1>1, <2>1, <2>2
  <2> QED
    BY <2>2, <2>3 DEF b
<1>3. s \in Seq(Commit) /\ IsInjective(s) /\ ToSet(s) \subseteq hist.anc[goal[d]] /\ Len(s) \in Nat
      /\ DOMAIN s = 1 .. Len(s)
  BY DEF TodoOf
<1>4. ASSUME NEW k \in 1 .. Len(r) PROVE m[r[k].c] # Null <=> map[r[k].c] # Null
  <2> DEFINE c == r[k].c
  <2>1. c \in Commit /\ c = q[k].c /\ k \in 1 .. Len(q) /\ k < Len(q)
    <3>1. r[k] = q[k] /\ k \in 1 .. Len(q) /\ k < Len(q)
      BY <1>2
    <3>2. Entry(q[k], map)
      BY <3>1 DEF QueueOf
    <3> QED
      BY <3>1, <3>2 DEF Entry, FRec
  <2> HIDE DEF c
  <2>2. c \notin D
    <3> SUFFICES ASSUME NEW i \in 1 .. n, s[i] = c PROVE FALSE
      BY SMTT(30)
    <3>1. i \in 1 .. Len(s) /\ i <= n
      BY SMTT(30), <1>3
    <3>2. hist.dir[c] = d
      <4>1. c \in hist.anc[goal[d]]
        BY <1>3, <3>1 DEF ToSet
      <4>2. hist.dir[c] = hist.dir[goal[d]]
        BY <4>1, AncestorsClosed DEF Commit
      <4>3. hist.dir[f.c] = hist.dir[goal[d]]
        <5>1. f.c \in hist.anc[goal[d]]
          BY SMTT(30), <1>3 DEF ToSet
        <5> QED
          BY SMTT(30), <5>1, AncestorsClosed DEF Commit
      <4> QED
        BY <4>2, <4>3
    <3>3. f.c \in hist.anc[c] /\ f.c < c
      <4>1. Len(q) \in InDir(q, d) /\ k \in InDir(q, d)
        BY <1>1, <2>1, <3>2 DEF InDir
      <4>2. Waiting(q, d, dh[d])
        BY DEF QueueOf
      <4> QED
        BY <2>1, <4>1, <4>2 DEF Waiting
    <3>4. map[f.c] = Null
      <4>1. f.c \in ToSet(s)
        BY <1>3 DEF ToSet
      <4> QED
        BY SMTT(30), <4>1 DEF TodoOf
    <3>5. PICK j \in 1 .. i : s[j] = f.c
      BY SMTT(30), <3>1, <3>3, <3>4, TodoAncestors
    <3>6. j \in DOMAIN s /\ n \in DOMAIN s
      BY SMTT(30), <1>3, <3>1, <3>5
    <3>7. j = n
      BY SMTT(30), <1>3, <3>5, <3>6 DEF IsInjective
    <3>8. i = n
      BY <1>3, <3>1, <3>5, <3>7
    <3>9. f.c = c
      BY <3>8
    <3>10. c \in Nat
      BY <2>1, HistoryType DEF Commit
    <3> QED
      BY <3>3, <3>9, <3>10
  <2>3. m[c] # Null <=> map[c] # Null
    BY Zenon, <2>1, <2>2 DEF Translates
  <2> QED
    BY <2>3 DEF c
<1> QED
  BY Zenon, <1>4 DEF QueueOf, Entry

\* The commit f and the side commits before it are translated, f on the head.
Landed(r, f, D) ==
  /\ ~ r.failed /\ IsLog(hist, r.log) /\ Database(r.log, r.map) /\ LogGrows(mono, r.log)
  /\ Translates(map, r.map, D) /\ \A c \in Commit : map[c] # Null => r.map[c] = map[c]
  /\ Keeps(mono, map, r)
  /\ r.map[f.c] \in 1 .. Len(r.log) /\ r.log[r.map[f.c]].tree[hist.dir[f.c]] = f.c
  /\ head # Null =>
       /\ mono[head].anc \subseteq r.log[r.map[f.c]].anc
       /\ \A g \in (active \cap Dir) \ {hist.dir[f.c]} :
            mono[head].tree[g] # Null => r.log[r.map[f.c]].tree[g] = mono[head].tree[g]

LEMMA LandedIs ==
  ASSUME IsHistory(hist, Dir), Written(mono, map, saved), head \in 0 .. Len(mono),
         NEW f, f.c \in Commit, f.headp \in 0 .. Len(hist.par[f.c]),
           f.headp = 0 => hist.par[f.c] = <<>>,
         f.headp # 0 => head # Null /\ (Dated => map[Picked(f)] \in mono[head].anc
           /\ map[Picked(f)] # Null),
         NEW g \in Commit, NEW s, TodoOf(s, g, map), NEW n \in 1 .. Len(s), s[n] = f.c,
         NEW side, side = FoldLeft(TranslateSide, Begun, SubSeq(s, 1, n - 1)),
         NEW r, r = TranslateOnHead(side, f), NEW E, E = {s[i] : i \in 1 .. n}
  PROVE  Landed(r, f, E)
<1> DEFINE D == {s[i] : i \in 1 .. n - 1}
<1>1. /\ Sided(side, D)
      /\ \A p \in ToSet(hist.par[s[n]]) : side.map[p] # Null
  BY SidesOf
<1>2. /\ ~ side.failed /\ Translation(side) /\ LogGrows(mono, side.log)
      /\ Keeps(mono, map, side)
      /\ \A c \in Commit : IF c \in D THEN side.map[c] # Null ELSE side.map[c] = map[c]
      /\ \A p \in ToSet(hist.par[f.c]) : side.map[p] # Null
  BY <1>1 DEF Sided
<1>3. s \in Seq(Commit) /\ IsInjective(s) /\ Len(s) \in Nat /\ DOMAIN s = 1 .. Len(s)
      /\ \A i \in 1 .. Len(s) : map[s[i]] = Null /\ s[i] \in Commit
  <2>1. s \in Seq(Commit) /\ IsInjective(s) /\ Len(s) \in Nat /\ DOMAIN s = 1 .. Len(s)
    BY DEF TodoOf
  <2>2. \A c \in ToSet(s) : map[c] = Null
    BY DEF TodoOf
  <2>3. \A i \in 1 .. Len(s) : s[i] \in ToSet(s)
    BY <2>1 DEF ToSet
  <2> QED
    BY <2>1, <2>2, <2>3
<1>4. \A i \in 1 .. n - 1 : i \in 1 .. Len(s) /\ i \in 1 .. n /\ i # n
  BY <1>3
<1>5. f.c \notin D /\ map[f.c] = Null
  BY <1>3, <1>4 DEF IsInjective
<1>6. \A c \in D : map[c] = Null /\ c \in Commit
  BY <1>3, <1>4
<1>7. E = D \cup {f.c}
  <2>1. \A i \in 1 .. n : i \in 1 .. n - 1 \/ i = n
    BY <1>3
  <2>2. n \in 1 .. n
    BY <1>3
  <2> QED
    BY <1>4, <2>1, <2>2
<1> HIDE DEF D
<1>8. f.headp # 0 => head # Null /\ (Dated => side.map[Picked(f)] \in mono[head].anc)
  <2>1. CASE f.headp = 0
    BY <2>1
  <2>2. CASE f.headp # 0
    <3>1. Picked(f) \in Commit
      BY <2>2, PickedIs
    <3>2. map[Picked(f)] # Null => side.map[Picked(f)] = map[Picked(f)]
      BY <1>2, <1>6, <3>1
    <3> QED
      BY <2>2, <3>2
  <2> QED
    BY <2>1, <2>2
<1> DEFINE par == HeadPar(side, f)
<1>9. OnHeadPar(side, f, par)
  <2>1. par = HeadPar(side, f)
    OBVIOUS
  <2> HIDE DEF par
  <2> QED
    BY <1>2, <1>8, <2>1, HeadParIs
<1>10. r = TranslateCommit(side, f.c, par, f.headp)
  BY DEF TranslateOnHead, HeadPar
<1> HIDE DEF par
<1>11. /\ par \in Seq(0 .. Len(side.log)) /\ Null \notin ToSet(par) /\ f.headp \in 0 .. Len(par)
       /\ Dated => \A p \in ToSet(hist.par[f.c]) : \E m \in ToSet(par) :
            side.map[p] \in side.log[m].anc
       /\ head # Null => /\ par # <<>> /\ head \in ToSet(par)
                         /\ par[IF f.headp = 0 THEN 1 ELSE f.headp] = head
  BY <1>9 DEF OnHeadPar
<1>12. side.map[f.c] = Null
  BY <1>2, <1>5
<1>13. ~ r.failed
  BY <1>2, <1>10, <1>11, <1>12, TranslateFails
<1> DEFINE c == f.c
           headp == f.headp
           p0 == par[IF headp = 0 THEN 1 ELSE headp]
<1>14. c \in Commit /\ headp \in 0 .. Len(par) /\ r = TranslateCommit(side, c, par, headp)
       /\ Ready(side, c, par)
  BY <1>2, <1>10, <1>11 DEF Ready
<1>15. Translated(side, c, par, headp, r)
  <2> HIDE DEF c, headp
  <2> QED
    BY SMTT(30), <1>2, <1>11, <1>13, <1>14, TranslateCommitIs
<1>16. /\ Translation(r) /\ LogGrows(side.log, r.log)
       /\ r.map = [side.map EXCEPT ![c] = r.map[c]]
       /\ r.map[c] \in 1 .. Len(r.log)
       /\ r.log[r.map[c]].tree[hist.dir[c]] = c
  BY Zenon, <1>15 DEF Translated
<1>17. LogGrows(mono, r.log)
  BY <1>2, <1>16, LogGrowsFurther
<1>18. Keeps(mono, map, r)
  <2>1. side.map[c] = Null
    BY <1>12
  <2> HIDE DEF c, headp
  <2>2. Keeps(side.log, side.map, r)
    BY <1>2, <1>11, <1>13, <1>14, <2>1, TranslateKeeps
  <2> QED
    BY <1>2, <2>2, KeepsFurther
<1>19. Translates(map, r.map, D \cup {c}) /\ \A k \in Commit : map[k] # Null => r.map[k] = map[k]
  <2>0. side.map \in [Commit -> 0 .. Len(side.log)] /\ r.map[c] # Null
    <3>1. Len(r.log) \in Nat
      BY <1>16 DEF LogGrows
    <3>2. r.map[c] # Null
      BY <1>16, <3>1 DEF Null
    <3> QED
      BY SMTT(30), <1>2, <3>2 DEF Translation, Database
  <2>1. ASSUME NEW k \in Commit PROVE r.map[k] = IF k = c THEN r.map[c] ELSE side.map[k]
    <3> DEFINE x == r.map[c]
    <3>1. r.map = [side.map EXCEPT ![c] = x]
      BY <1>16
    <3> HIDE DEF x, c
    <3>2. r.map[k] = IF k = c THEN x ELSE side.map[k]
      BY <2>0, <3>1
    <3> QED
      BY SMTT(30), <3>2 DEF x
  <2>2. c \notin D /\ map[c] = Null
    BY <1>5
  <2> HIDE DEF c
  <2>3. ASSUME NEW k \in Commit
        PROVE  (map[k] # Null => r.map[k] = map[k])
                 /\ (map[k] = Null => (r.map[k] # Null <=> k \in D \cup {c}))
    <3>1. r.map[k] = IF k = c THEN r.map[c] ELSE side.map[k]
      BY <2>1
    <3>2. IF k \in D THEN side.map[k] # Null ELSE side.map[k] = map[k]
      BY <1>2
    <3>3. k \in D => map[k] = Null
      BY <1>6
    <3> QED
      BY <2>0, <2>2, <3>1, <3>2, <3>3
  <2> QED
    BY <2>3 DEF Translates
<1>20. ASSUME head # Null
       PROVE  /\ mono[head].anc \subseteq r.log[r.map[c]].anc
              /\ \A d \in (active \cap Dir) \ {hist.dir[c]} :
                    mono[head].tree[d] # Null => r.log[r.map[c]].tree[d] = mono[head].tree[d]
  <2>1. par # <<>> /\ head \in ToSet(par) /\ p0 = head
    BY <1>11, <1>20
  <2>2. head \in 1 .. Len(mono)
    <3>1. Len(mono) \in Nat
      BY <1>2 DEF LogGrows
    <3> QED
      BY <1>20, <3>1 DEF Null
  <2>3. side.log[head] = mono[head]
    BY Zenon, <1>2, <2>2 DEF LogGrows
  <2>4. /\ side.log[head].anc \subseteq r.log[r.map[c]].anc
        /\ \A d \in (active \cap Dir) \ {hist.dir[c]} :
             side.log[p0].tree[d] # Null => r.log[r.map[c]].tree[d] = side.log[p0].tree[d]
    BY Zenon, <1>15, <2>1 DEF Translated
  <2> HIDE DEF p0, c
  <2> QED
    BY <2>1, <2>3, <2>4
<1> QED
  BY Zenon, <1>7, <1>13, <1>17, <1>19, <1>20, <1>18, <1>16 DEF Landed, Translation

LEMMA InterleaveUntranslatedStep == Inv /\ InterleaveUntranslated => Inv' /\ GoesOn
<1> SUFFICES ASSUME Inv, InterleaveUntranslated PROVE Inv' /\ GoesOn
  OBVIOUS
<1>0. pc = "interleave"
  BY DEF InterleaveUntranslated
<1>1. /\ IsHistory(hist, Dir) /\ Database(mono, map) /\ GoalOf(goal)
      /\ Written(mono, map, saved) /\ RefsOf(mono, ref, saved)
      /\ HeadsOf(mono, map, head, dhead, active)
      /\ QueueOf(queue, dhead, map)
      /\ StepOf(mono, map, head, dhead)
      /\ DOMAIN todo = Dir
      /\ \A d \in Source : TodoOf(todo[d], goal[d], map)
  BY Zenon, <1>0 DEF Inv, Written
<1> DEFINE f == queue[Len(queue)]
           c == f.c
           d == hist.dir[c]
           s == todo[d]
           n == SelectInSeq(s, LAMBDA x : x = c)
           side == FoldLeft(TranslateSide, Begun, SubSeq(s, 1, n - 1))
           r == TranslateOnHead(side, f)
           h == [dhead EXCEPT ![d] = c]
           td == [todo EXCEPT ![d] = SubSeq(@, n + 1, Len(@))]
           q == Front(queue)
<1>2. /\ queue # <<>> /\ ~ f.translated /\ pc = "interleave"
      /\ UNCHANGED <<hist, ref, saved, runs, br, goal, list>>
      /\ IF n = 0 \/ r.failed
         THEN pc' = "failed" /\ UNCHANGED <<mono, map, head, dhead, active, todo, queue>>
         ELSE /\ mono' = r.log /\ map' = r.map /\ head' = r.map[c] /\ dhead' = h
              /\ active' = active \cup {d} /\ todo' = td /\ queue' = q /\ UNCHANGED pc
  BY ZenonT(60) DEF InterleaveUntranslated, Last, Begun
<1>3. Source \subseteq Dir /\ Dir = DOMAIN dhead /\ dhead \in [Dir -> Commit \cup {Null}]
  <2>1. dhead \in [Dir -> Commit \cup {Null}]
    BY Zenon, <1>1 DEF HeadsOf
  <2> QED
    BY <1>1, <2>1, GoalIs
<1>4. QueueOf(q, h, map) /\ Entry(f, map) /\ c \in Commit /\ d \in Dir /\ OnHead(f, dhead[d])
  <2>1. f = queue[Len(queue)]
    OBVIOUS
  <2>2. /\ q = Front(queue) /\ h = [dhead EXCEPT ![hist.dir[f.c]] = f.c]
        /\ c = f.c /\ d = hist.dir[f.c]
    OBVIOUS
  <2>3. /\ IsHistory(hist, Dir) /\ QueueOf(queue, dhead, map) /\ queue # <<>>
        /\ Dir = DOMAIN dhead /\ Source \subseteq Dir
    BY Zenon, <1>1, <1>2, <1>3
  <2> HIDE DEF f, c, d, s, n, side, r, h, td, q
  <2> QED
    BY <2>1, <2>2, <2>3, DropLast
<1>5. /\ map[c] = Null /\ d \in Source /\ c \in hist.anc[goal[d]]
      /\ f.headp \in 0 .. Len(hist.par[c]) /\ (f.headp = 0 => hist.par[c] = <<>>)
  BY Zenon, <1>2, <1>4 DEF Entry
<1>6. f = queue[Len(queue)] /\ c = f.c /\ d = hist.dir[c] /\ goal[d] \in Commit
        /\ TodoOf(s, goal[d], map)
  BY Zenon, <1>1, <1>5, GoalIs
<1> HIDE DEF f, c
<1>7. c \in ToSet(s)
  BY Zenon, <1>5, <1>6 DEF TodoOf
<1>8. n \in 1 .. Len(s) /\ s[n] = c
  <2>1. s \in Seq(Commit)
    BY Zenon, <1>6 DEF TodoOf
  <2> HIDE DEF s
  <2> QED
    BY Zenon, <1>7, <2>1, PlaceIn
<1>9. head \in 0 .. Len(mono)
  BY <1>1 DEF HeadsOf
<1>10. f.headp # 0 => head # Null /\ (Dated => map[Picked(f)] \in mono[head].anc
         /\ map[Picked(f)] # Null)
  <2> SUFFICES ASSUME f.headp # 0
               PROVE  head # Null /\ (Dated => map[Picked(f)] \in mono[head].anc
                        /\ map[Picked(f)] # Null)
    OBVIOUS
  <2>1. dhead[d] # Null /\ (Dated => Picked(f) = dhead[d])
    BY <1>2, <1>4 DEF OnHead
  <2>2. head # Null /\ map[dhead[d]] \in mono[head].anc
    BY <1>1, <1>4, <2>1 DEF StepOf
  <2>3. map[dhead[d]] # Null
    BY <1>1, <1>4, <2>1 DEF HeadsOf
  <2> QED
    BY <2>1, <2>2, <2>3
<1> DEFINE D == {s[i] : i \in 1 .. n}
<1>11. Landed(r, f, D)
  <2>1. r = TranslateOnHead(side, f) /\ side = FoldLeft(TranslateSide, Begun, SubSeq(s, 1, n - 1))
    OBVIOUS
  <2>2. f.c \in Commit /\ f.headp \in 0 .. Len(hist.par[f.c])
          /\ (f.headp = 0 => hist.par[f.c] = <<>>)
        /\ s[n] = f.c /\ D = {s[i] : i \in 1 .. n}
    BY Zenon, <1>4, <1>5, <1>6, <1>8
  <2> HIDE DEF s, n, r, side, D, d
  <2> QED
    BY Zenon, <1>1, <1>6, <1>8, <1>9, <1>10, <2>1, <2>2, LandedIs
<1> HIDE DEF r
<1>12. /\ ~ r.failed /\ IsLog(hist, r.log) /\ Database(r.log, r.map) /\ LogGrows(mono, r.log)
       /\ Translates(map, r.map, D) /\ \A k \in Commit : map[k] # Null => r.map[k] = map[k]
       /\ r.map[c] \in 1 .. Len(r.log) /\ r.log[r.map[c]].tree[d] = c
       /\ head # Null =>
            /\ mono[head].anc \subseteq r.log[r.map[c]].anc
            /\ \A g \in (active \cap Dir) \ {d} :
                 mono[head].tree[g] # Null => r.log[r.map[c]].tree[g] = mono[head].tree[g]
  BY Zenon, <1>6, <1>11 DEF Landed
<1>13. n # 0
  BY <1>8
<1>14. /\ mono' = r.log /\ map' = r.map /\ head' = r.map[c] /\ dhead' = h
       /\ active' = active \cup {d} /\ todo' = td /\ queue' = q /\ pc' = "interleave"
  BY <1>2, <1>12, <1>13
<1>15. /\ head' \in 0 .. Len(mono') /\ head' # Null /\ head' \in 1 .. Len(mono')
            /\ IsLog(hist, mono')
       /\ r.map[c] # Null
  <2>1. Len(r.log) \in Nat
    BY <1>12 DEF LogGrows
  <2> QED
    BY <1>12, <1>14, <2>1 DEF Null
<1>16. Written(mono', map', saved)
  <2>1. Database(r.log, saved)
    BY <1>1, <1>12, DatabaseGrows DEF Written
  <2>2. \A k \in Commit : saved[k] # Null => r.map[k] = saved[k]
    BY <1>1, <1>12 DEF Written
  <2> QED
    BY <1>12, <1>14, <2>1, <2>2 DEF Written
<1>17. RefsOf(mono', ref, saved)
  BY <1>1, <1>12, <1>14, LogGrown
<1> HIDE DEF d
<1>18. h[d] = c /\ (\A g \in Dir : g # d => h[g] = dhead[g]) /\ h \in [Dir -> Commit \cup {Null}]
  BY <1>3, <1>4
<1> HIDE DEF h
<1>19. HeadsOf(mono', map', head', h, active')
  <2>1. active' \subseteq Dir /\ d \in active' /\ active \subseteq active'
    BY <1>1, <1>4, <1>14 DEF HeadsOf
  <2>2. ASSUME NEW g \in Dir, h[g] # Null
        PROVE  g \in active' /\ g \in Source /\ hist.dir[h[g]] = g /\ map'[h[g]] # Null
    <3>1. CASE g = d
      BY Zenon, <1>5, <1>6, <1>14, <1>15, <1>18, <2>1, <3>1
    <3>2. CASE g # d
      <4>1. h[g] = dhead[g] /\ dhead[g] # Null
        BY <1>18, <2>2, <3>2
      <4>2. /\ g \in active /\ g \in Source /\ hist.dir[dhead[g]] = g /\ map[dhead[g]] # Null
            /\ dhead[g] \in Commit
        BY <1>1, <4>1 DEF HeadsOf
      <4> QED
        BY <1>12, <1>14, <2>1, <4>1, <4>2
    <3> QED
      BY Zenon, <3>1, <3>2
  <2> QED
    BY <1>15, <1>18, <2>1, <2>2 DEF HeadsOf
<1>20. StepOf(mono', map', head', h)
  <2>1. ASSUME NEW g \in Dir, h[g] # Null
        PROVE  mono'[head'].tree[g] = h[g] /\ map'[h[g]] \in mono'[head'].anc
    <3>1. CASE g = d
      <4>1. head' \in mono'[head'].anc
        BY <1>15, MonoAncestors
      <4> QED
        BY <1>12, <1>14, <1>18, <3>1, <4>1
    <3>2. CASE g # d
      <4>1. h[g] = dhead[g] /\ dhead[g] # Null
        BY <1>18, <2>1, <3>2
      <4>2. g \in active /\ map[dhead[g]] # Null /\ dhead[g] \in Commit
        BY <1>1, <4>1 DEF HeadsOf
      <4>3. head # Null /\ mono[head].tree[g] = dhead[g] /\ map[dhead[g]] \in mono[head].anc
        BY <1>1, <4>1 DEF StepOf
      <4>4. g \in (active \cap Dir) \ {d}
        BY <3>2, <4>2
      <4>5. r.log[r.map[c]].tree[g] = dhead[g]
        BY <1>12, <4>1, <4>3, <4>4
      <4>6. r.map[dhead[g]] \in r.log[r.map[c]].anc
        BY <1>12, <4>2, <4>3
      <4> QED
        BY <1>14, <4>1, <4>5, <4>6
    <3> QED
      BY <3>1, <3>2
  <2> QED
    BY <1>15, <2>1 DEF StepOf
<1>21. QueueOf(q, h, map')
  <2> HIDE DEF q, s, n
  <2>1. s[n] = f.c /\ d = hist.dir[f.c] /\ Translates(map, map', D)
    BY Zenon, <1>6, <1>8, <1>12, <1>14
  <2>2. q = Front(queue)
    BY DEF q
  <2>3. D = {s[i] : i \in 1 .. n}
    OBVIOUS
  <2> HIDE DEF D, d, side, td
  <2>4. /\ IsHistory(hist, Dir) /\ Database(mono, map) /\ QueueOf(queue, dhead, map)
        /\ QueueOf(q, h, map) /\ TodoOf(s, goal[d], map)
    BY <1>1, <1>4, <1>6
  <2>5. queue # <<>> /\ f = queue[Len(queue)] /\ d \in Source /\ goal[d] \in Commit
          /\ n \in 1 .. Len(s)
    BY <1>2, <1>5, <1>6, <1>8
  <2> QED
    BY <2>1, <2>2, <2>3, <2>4, <2>5, QueueKept
<1>22. ASSUME NEW g \in Source PROVE TodoOf(td[g], goal[g], map')
  <2>1. g \in Dir /\ goal[g] \in Commit /\ hist.dir[goal[g]] = g /\ TodoOf(todo[g], goal[g], map)
    BY <1>1, GoalIs
  <2>2. Translates(map, map', D)
    BY <1>12, <1>14
  <2>3. CASE g = d
    <3> DEFINE t == SubSeq(s, n + 1, Len(s))
    <3>1. td[g] = t
      BY <1>1, <1>4, <2>3
    <3>2. t = SubSeq(s, n + 1, Len(s)) /\ D = {s[i] : i \in 1 .. n}
      OBVIOUS
    <3> HIDE DEF t, s, n, D, td
    <3>3. TodoOf(t, goal[d], map')
      BY <1>1, <1>6, <1>8, <2>2, <3>2, TodoRest
    <3> QED
      BY <2>3, <3>1, <3>3
  <2>4. CASE g # d
    <3>1. td[g] = todo[g]
      BY <1>1, <2>1, <2>4
    <3>2. D \cap hist.anc[goal[g]] = {}
      <4> SUFFICES ASSUME NEW x \in D, x \in hist.anc[goal[g]] PROVE FALSE
        OBVIOUS
      <4>1. x \in hist.anc[goal[d]]
        <5>1. PICK i \in 1 .. n : x = s[i]
          OBVIOUS
        <5> HIDE DEF n, s
        <5>2. s \in Seq(Commit) /\ ToSet(s) \subseteq hist.anc[goal[d]]
          BY <1>6 DEF TodoOf
        <5>3. i \in 1 .. Len(s) /\ DOMAIN s = 1 .. Len(s)
          BY SMTT(30), <1>8, <5>2
        <5> QED
          BY <5>1, <5>2, <5>3 DEF ToSet
      <4>2. hist.dir[x] = hist.dir[goal[d]] /\ hist.dir[x] = hist.dir[goal[g]]
        BY <1>1, <1>6, <2>1, <4>1, AncestorsClosed DEF Commit
      <4>3. hist.dir[goal[d]] = d
        BY <1>1, <1>5, GoalIs
      <4> QED
        BY <2>1, <2>4, <4>2, <4>3
    <3> HIDE DEF D, td
    <3>3. TodoOf(todo[g], goal[g], map')
      BY <1>1, <2>1, <2>2, <3>2, TodoKept
    <3> QED
      BY <3>1, <3>3
  <2> QED
    BY <2>3, <2>4
<1>23. DOMAIN td = Dir
  BY <1>1
<1> HIDE DEF q, td
<1>24. NewInv(mono', map', head', h, active', "interleave", td, list, q)
  BY <1>15, <1>16, <1>17, <1>19, <1>20, <1>21, <1>22 DEF NewInv
<1>25. NewInv(mono', map', head', dhead', active', pc', todo', list', queue')
  BY <1>2, <1>14, <1>24
<1>26. DOMAIN todo' = Dir
  BY <1>14, <1>23
<1>27. pc # "idle" /\ UNCHANGED <<hist, ref, saved, br, goal>>
  BY <1>2
<1>28. GoesOn
  <2>1. LogGrows(mono, r.log) /\ Keeps(mono, map, r)
    BY ZenonT(60), <1>11 DEF Landed
  <2>2. Sourced(mono, map) => Sourced(mono', map') /\ Adds(mono, map, mono', map')
    BY <1>14, <2>1 DEF Keeps
  <2> QED
    BY SMTT(30), <1>12, <1>14, <1>15, <2>2 DEF GoesOn
<1> QED
  BY SMTT(30), <1>25, <1>26, <1>27, <1>28, RunStep

LEMMA WrittenSame ==
  ASSUME hist' = hist, Written(mono', map', saved')
  PROVE  Written(mono, map, saved)'
<1>1. IsLog(hist, mono)'
  BY DEF Written, IsLog, IsTree, Commits
<1>2. Database(mono, map)'
  BY DEF Written, Database, Commit, Commits, Dated
<1>3. Database(mono, saved)'
  BY DEF Written, Database, Commit, Commits, Dated
<1>4. (\A c \in Commit : saved[c] # Null => map[c] = saved[c])'
  BY DEF Written, Commit, Commits
<1> QED
  BY <1>1, <1>2, <1>3, <1>4 DEF Written

LEMMA IdleStep ==
  ASSUME IsHistory(hist, Dir), hist' = hist, Written(mono', map', saved'), RefsOf(mono', ref', saved'),
         DOMAIN ref' = Branch, pc' = "idle", NoJob'
  PROVE  Inv'
<1>1. IsHistory(hist, Dir)'
  BY DEF IsHistory, Commits
<1>2. Written(mono, map, saved)'
  BY WrittenSame
<1>3. RefsOf(mono, ref, saved)'
  BY DEF RefsOf, StepOf, Commit, Commits
<1>4. HeadsOf(mono, map, head, dhead, active)'
  <2>1. Len(mono') \in Nat
    <3>1. IsLog(hist, mono')
      BY DEF Written
    <3> QED
      BY <3>1, SameLog DEF LogGrows
  <2>2. head' = Null /\ active' = {} /\ dhead' = [d \in Dir |-> Null]
    BY DEF NoJob, NoHeads
  <2>3. head' \in 0 .. Len(mono')
    BY <2>1, <2>2 DEF Null
  <2> QED
    BY <2>2, <2>3 DEF HeadsOf
<1>5. (DOMAIN todo = Dir)'
  BY DEF NoJob, Nothing
<1> QED
  BY <1>1, <1>2, <1>3, <1>4, <1>5 DEF Inv, FailsOnlyWithoutBase

LEMMA PublishStep == Inv /\ Publish => Inv'
<1> SUFFICES ASSUME Inv, Publish PROVE Inv'
  OBVIOUS
<1>1. /\ IsHistory(hist, Dir) /\ Written(mono, map, saved) /\ RefsOf(mono, ref, saved)
      /\ HeadsOf(mono, map, head, dhead, active) /\ DOMAIN ref = Branch /\ GoalOf(goal)
      /\ StepOf(mono, map, head, dhead)
  BY DEF Inv, Publish
<1>2. /\ ref' = [ref EXCEPT ![br] = [head |-> head, dhead |-> dhead]] /\ saved' = map
      /\ UNCHANGED <<hist, mono, map>> /\ pc' = "idle" /\ NoJob'
  BY DEF Publish, Reset, NoJob, NoHeads, Nothing
<1>3. Written(mono', map', saved')
  BY <1>1, <1>2 DEF Written
<1>4. RefsOf(mono', ref', saved')
  <2> SUFFICES ASSUME NEW b \in Branch
               PROVE  /\ ref'[b].head \in 0 .. Len(mono)
                      /\ ref'[b].dhead \in [Dir -> Commit \cup {Null}]
                      /\ \A d \in Dir : ref'[b].dhead[d] # Null =>
                           /\ d \in Tracked[b] /\ hist.dir[ref'[b].dhead[d]] = d
                                /\ map[ref'[b].dhead[d]] # Null
                      /\ StepOf(mono, map, ref'[b].head, ref'[b].dhead)
    BY <1>2 DEF RefsOf
  <2>1. CASE b = br
    <3>1. ref'[b].head = head /\ ref'[b].dhead = dhead
      BY <1>1, <1>2, <2>1
    <3> QED
      BY <1>1, <2>1, <3>1 DEF HeadsOf, Source
  <2>2. CASE b # br
    <3>1. ref'[b] = ref[b]
      BY <1>1, <1>2, <2>2
    <3>2. /\ ref[b].head \in 0 .. Len(mono) /\ ref[b].dhead \in [Dir -> Commit \cup {Null}]
          /\ \A d \in Dir : ref[b].dhead[d] # Null =>
               /\ d \in Tracked[b] /\ hist.dir[ref[b].dhead[d]] = d /\ saved[ref[b].dhead[d]] # Null
          /\ StepOf(mono, saved, ref[b].head, ref[b].dhead)
      BY <1>1 DEF RefsOf
    <3>3. \A c \in Commit : saved[c] # Null => map[c] = saved[c]
      BY <1>1 DEF Written
    <3>4. ASSUME NEW d \in Dir, ref[b].dhead[d] # Null
          PROVE  /\ d \in Tracked[b] /\ hist.dir[ref[b].dhead[d]] = d
                 /\ map[ref[b].dhead[d]] # Null /\ map[ref[b].dhead[d]] = saved[ref[b].dhead[d]]
      <4>1. ref[b].dhead[d] \in Commit
        BY <3>2, <3>4
      <4> QED
        BY <3>2, <3>3, <3>4, <4>1
    <3>5. StepOf(mono, map, ref[b].head, ref[b].dhead)
      BY <3>2, <3>4 DEF StepOf
    <3> QED
      BY <3>1, <3>2, <3>4, <3>5
  <2> QED
    BY <2>1, <2>2
<1>5. DOMAIN ref' = Branch
  BY <1>1, <1>2
<1> QED
  BY <1>1, <1>2, <1>3, <1>4, <1>5, IdleStep

LEMMA GiveUpStep == Inv /\ GiveUp => Inv'
<1> SUFFICES ASSUME Inv, GiveUp PROVE Inv'
  OBVIOUS
<1>1. /\ IsHistory(hist, Dir) /\ Written(mono, map, saved) /\ RefsOf(mono, ref, saved)
           /\ DOMAIN ref = Branch
  BY DEF Inv
<1>2. /\ map' = saved /\ UNCHANGED <<hist, mono, ref, saved>> /\ pc' = "idle" /\ NoJob'
  BY DEF GiveUp, Reset, NoJob, NoHeads, Nothing
<1>3. Written(mono', map', saved')
  BY <1>1, <1>2 DEF Written
<1>4. RefsOf(mono', ref', saved')
  BY <1>1, <1>2
<1> QED
  BY <1>1, <1>2, <1>3, <1>4, IdleStep

LEMMA BeginStep ==
  ASSUME Inv, pc = "idle", NEW b \in Branch, NEW g \in Goals(b), Begin(b, g)
  PROVE  Inv'
<1>1. /\ IsHistory(hist, Dir) /\ Written(mono, map, saved) /\ RefsOf(mono, ref, saved)
      /\ DOMAIN ref = Branch /\ DOMAIN todo = Dir
  BY DEF Inv
<1>2. /\ pc' = "find_parents" /\ br' = b /\ goal' = g /\ head' = ref[b].head
           /\ dhead' = ref[b].dhead
      /\ active' = {d \in Tracked[b] : ref[b].dhead[d] # Null}
      /\ UNCHANGED <<hist, mono, map, ref, saved, todo, list, queue>>
  BY DEF Begin
<1>3. IsHistory(hist, Dir)'
  BY <1>1, <1>2 DEF IsHistory, Commits
<1>4. Written(mono, map, saved)'
  BY <1>1, <1>2, WrittenSame
<1>5. RefsOf(mono, ref, saved)'
  BY <1>1, <1>2 DEF RefsOf, StepOf, Commit, Commits
<1>6. /\ ref[b].head \in 0 .. Len(mono) /\ ref[b].dhead \in [Dir -> Commit \cup {Null}]
      /\ \A d \in Dir : ref[b].dhead[d] # Null =>
           /\ d \in Tracked[b] /\ hist.dir[ref[b].dhead[d]] = d /\ saved[ref[b].dhead[d]] # Null
  BY <1>1 DEF RefsOf
<1>7. HeadsOf(mono, map, head, dhead, active)'
  <2>1. active' \subseteq Dir
    <3>1. Tracked[b] \subseteq Dir
      BY DirsAre
    <3> QED
      BY <1>2, <3>1
  <2>2. Source' = Tracked[b] /\ Commit' = Commit
    BY <1>2 DEF Source, Commit, Commits
  <2>3. ASSUME NEW d \in Dir, ref[b].dhead[d] # Null
        PROVE  /\ d \in active' /\ d \in Tracked[b] /\ hist.dir[ref[b].dhead[d]] = d
               /\ map[ref[b].dhead[d]] # Null
    <3>1. ref[b].dhead[d] \in Commit
      BY <1>6, <2>3
    <3> QED
      BY <1>1, <1>2, <1>6, <2>3, <3>1 DEF Written
  <2> QED
    BY <1>2, <1>6, <2>1, <2>2, <2>3 DEF HeadsOf
<1>8. GoalOf(goal)'
  BY <1>2 DEF GoalOf, Goals, Source, Commit, Commits
<1>9. /\ (DOMAIN todo = Dir)' /\ (DOMAIN ref = Branch)' /\ (dhead = ref[br].dhead)'
  BY <1>1, <1>2
<1> QED
  BY <1>2, <1>3, <1>4, <1>5, <1>7, <1>8, <1>9 DEF Inv, FailsOnlyWithoutBase

LEMMA InitInv == Init => Inv
<1> SUFFICES ASSUME Init PROVE Inv
  OBVIOUS
<1>1. IsHistory(hist, Dir)
  BY InterleaverAssumption DEF Init
<1> DEFINE e == <<>>
<1>2. mono = e /\ Len(e) = 0 /\ map = [c \in Commit |-> Null] /\ saved = map
  BY DEF Init
<1>3. IsLog(hist, mono)
  BY <1>2 DEF IsLog
<1>4. Len(mono) = 0 /\ Null \in 0 .. Len(mono)
  BY <1>2 DEF Null
<1> HIDE DEF e
<1>5. Database(mono, map)
  BY <1>2, <1>4 DEF Database
<1>6. Written(mono, map, saved)
  BY <1>2, <1>3, <1>5 DEF Written
<1>7. RefsOf(mono, ref, saved)
  <2>1. ref = [b \in Branch |-> [head |-> Null, dhead |-> [d \in Dir |-> Null]]]
    BY DEF Init, NoHeads
  <2>2. \A b \in Branch : ref[b].head = Null /\ ref[b].dhead = [d \in Dir |-> Null]
    BY <2>1
  <2> QED
    BY <1>4, <2>2 DEF RefsOf, StepOf
<1>8. HeadsOf(mono, map, head, dhead, active)
  <2>1. head = Null /\ active = {} /\ dhead = [d \in Dir |-> Null]
    BY DEF Init, NoJob, NoHeads
  <2> QED
    BY <1>4, <2>1 DEF HeadsOf
<1>9. DOMAIN todo = Dir /\ DOMAIN ref = Branch /\ pc = "idle" /\ NoJob
  BY DEF Init, NoJob, Nothing
<1> QED
  BY <1>1, <1>6, <1>7, <1>8, <1>9 DEF Inv, FailsOnlyWithoutBase

LEMMA StutterStep == Inv /\ UNCHANGED vars => Inv'
<1> SUFFICES ASSUME Inv, UNCHANGED vars PROVE Inv'
  OBVIOUS
<1>0. /\ UNCHANGED <<hist, mono, map, ref, saved, pc, br, goal, head, dhead, active, todo, list,
           queue>>
  BY DEF vars, job
<1>1. IsHistory(hist, Dir)'
  BY <1>0 DEF Inv, IsHistory, Commits
<1>2. Written(mono, map, saved)'
  BY <1>0 DEF Inv, Written, IsLog, IsTree, Database, Commit, Commits, Dated
<1>3. RefsOf(mono, ref, saved)'
  BY <1>0 DEF Inv, RefsOf, StepOf, Commit, Commits
<1>4. HeadsOf(mono, map, head, dhead, active)'
  BY <1>0 DEF Inv, HeadsOf, Commit, Commits, Source
<1>5. pc' # "idle" => GoalOf(goal)'
  BY <1>0 DEF Inv, GoalOf, Commit, Commits, Source
<1>6. pc' \in {"clean_heads", "find_commits", "order", "merge_heads", "fast_forward", "interleave"} =>
       \A d \in Source' : TodoOf(todo[d], goal[d], map)'
  BY <1>0 DEF Inv, TodoOf, Commit, Commits, Source
<1>7. pc' = "order" => ListsOf(list, dhead, map)'
  BY ZenonT(60), <1>0 DEF Inv, ListsOf, ListOf, IsPath, Links, OnHead, Picked, FRec, Commit, Commits, Source,
    Dated
<1>8. pc' \in {"merge_heads", "fast_forward", "interleave"} => QueueOf(queue, dhead, map)'
  <2> SUFFICES ASSUME pc' \in {"merge_heads", "fast_forward", "interleave"}
               PROVE  QueueOf(queue, dhead, map)'
    OBVIOUS
  <2>1. QueueOf(queue, dhead, map)
    BY <1>0 DEF Inv
  <2>2. (queue \in Seq(FRec))' /\ \A k \in 1 .. Len(queue') : Entry(queue[k], map)'
    BY <1>0, <2>1 DEF QueueOf, Entry, FRec, Commit, Commits, Source
  <2>3. ASSUME NEW d \in Source' PROVE Waiting(queue, d, dhead[d])'
    <3>1. d \in Source
      BY <1>0 DEF Source
    <3>2. Waiting(queue, d, dhead[d])
      BY <2>1, <3>1 DEF QueueOf
    <3>3. InDir(queue, d)' = InDir(queue, d)
      BY <1>0 DEF InDir
    <3> QED
      BY <1>0, <3>2, <3>3 DEF Waiting, Links, OnHead, Picked, Dated, Commit, Commits
  <2> QED
    BY <2>2, <2>3 DEF QueueOf
<1>9. pc' \in {"fast_forward", "interleave", "publish"} => StepOf(mono, map, head, dhead)'
  BY <1>0 DEF Inv, StepOf
<1>10. /\ pc' \in {"idle", "find_parents", "clean_heads", "find_commits", "order", "merge_heads",
                  "fast_forward", "interleave", "publish", "failed"}
       /\ pc' = "idle" => NoJob'
       /\ pc' \in {"find_parents", "clean_heads"} => dhead' = ref'[br'].dhead
       /\ pc' = "find_commits" => \A d \in Source' : dhead'[d] # Null
            => dhead'[d] \in hist'.anc[goal'[d]]
       /\ pc' = "publish" => dhead' = goal'
       /\ FailsOnlyWithoutBase'
       /\ (DOMAIN todo = Dir)' /\ (DOMAIN ref = Branch)'
  BY <1>0 DEF Inv, NoJob, FailsOnlyWithoutBase, Source
<1> QED
  BY <1>1, <1>2, <1>3, <1>4, <1>5, <1>6, <1>7, <1>8, <1>9, <1>10 DEF Inv

\* Every step keeps the invariant.
LEMMA NextInv == Inv /\ [Next]_vars => Inv'
<1> SUFFICES ASSUME Inv, [Next]_vars PROVE Inv'
  OBVIOUS
<1>1. CASE FindParentsToTranslate
  BY <1>1, FindParentsStep
<1>2. CASE CleanHeads
  BY <1>2, CleanHeadsStep
<1>3. CASE FindDirCommits
  BY <1>3, FindDirCommitsStep
<1>4. CASE OrderDirCommits
  BY <1>4, OrderDirCommitsStep
<1>5. CASE MergeHeads
  BY <1>5, MergeHeadsStep
<1>6. CASE FastForward
  BY <1>6, FastForwardStep
<1>7. CASE InterleaveUntranslated
  BY <1>7, InterleaveUntranslatedStep
<1>8. CASE InterleaveTranslated
  BY <1>8, InterleaveTranslatedStep
<1>9. CASE MergeGoals
  BY <1>9, MergeGoalsStep
<1>10. CASE Publish
  BY <1>10, PublishStep
<1>11. CASE GiveUp
  BY <1>11, GiveUpStep
<1>12. ASSUME pc = "idle", NEW b \in Branch, NEW g \in Goals(b), Begin(b, g)
       PROVE  Inv'
  BY <1>12, BeginStep
<1>13. CASE UNCHANGED vars
  BY <1>13, StutterStep
<1> QED
  BY <1>1, <1>2, <1>3, <1>4, <1>5, <1>6, <1>7, <1>8, <1>9, <1>10, <1>11, <1>12, <1>13 DEF Next, Step

\* The invariant, of every state of a run: what is listed leads from a goal to
\* a head, what is left to translate has its parents first, and the head of
\* the run has the heads of the directories merged.
THEOREM Invariant == Spec => []Inv
<1> QED
  BY InitInv, NextInv, PTL DEF Spec

\* Mono commits descend from earlier ones and hold in each directory content of
\* that directory; heads and the commits table name commits that exist.
THEOREM Typed == Spec => []TypeOK
<1>1. Inv => TypeOK
  <2> SUFFICES ASSUME Inv PROVE TypeOK
    OBVIOUS
  <2>1. IsLog(hist, mono) /\ Database(mono, map) /\ Database(mono, saved)
    BY DEF Inv, Written
  <2>2. DOMAIN mono = 1 .. Len(mono)
    BY <2>1 DEF IsLog
  <2>3. ASSUME NEW m \in DOMAIN mono
        PROVE  /\ ToSet(mono[m].par) \subseteq 1 .. (m - 1)
               /\ \A d \in Dir : mono[m].tree[d] \in {Null} \cup {c \in Commit : hist.dir[c] = d}
    <3>1. ToSet(mono[m].par) \subseteq 1 .. m - 1 /\ IsTree(hist, mono[m].tree)
      BY <2>1, <2>2 DEF IsLog
    <3> QED
      BY <3>1 DEF IsTree, Commit
  <2>4. map \in [Commit -> 0 .. Len(mono)] /\ saved \in [Commit -> 0 .. Len(mono)]
    BY <2>1 DEF Database
  <2>5. head \in 0 .. Len(mono) /\ \A b \in Branch : ref[b].head \in 0 .. Len(mono)
    BY DEF Inv, HeadsOf, RefsOf
  <2>6. ASSUME NEW d \in Dir
        PROVE  /\ dhead[d] \in {Null} \cup {c \in Commit : hist.dir[c] = d}
               /\ dhead[d] # Null => d \in active
    BY DEF Inv, HeadsOf
  <2>7. active \subseteq Dir /\ (pc = "idle" => NoJob)
    BY DEF Inv, HeadsOf
  <2> QED
    BY <2>3, <2>4, <2>5, <2>6, <2>7 DEF TypeOK
<1> QED
  BY <1>1, Invariant, PTL

\* While a run interleaves, its head has the content of the heads it merged and
\* descends from their mono commits; when it publishes, these are the goals.
THEOREM HeadKept == Spec => []HeadInStep
<1>1. Inv => HeadInStep
  <2> SUFFICES ASSUME Inv PROVE HeadInStep
    OBVIOUS
  <2>1. ASSUME pc \in {"interleave", "publish"}, head # Null, NEW d \in Source, dhead[d] # Null
        PROVE  mono[head].tree[d] = dhead[d] /\ map[dhead[d]] \in mono[head].anc
    <3>1. StepOf(mono, map, head, dhead) /\ GoalOf(goal)
      BY <2>1 DEF Inv
    <3>2. d \in Dir
      BY <3>1, GoalIs
    <3> QED
      BY <2>1, <3>1, <3>2 DEF StepOf
  <2>2. pc = "publish" => dhead = goal
    BY DEF Inv
  <2> QED
    BY <2>1, <2>2 DEF HeadInStep
<1> QED
  BY <1>1, Invariant, PTL

\* A run fails only when a recorded head and its goal have no common ancestor:
\* translate_commit never meets a parent that has no mono commit.
THEOREM FailsOnly == Spec => []FailsOnlyWithoutBase
<1>1. Inv => FailsOnlyWithoutBase
  BY DEF Inv
<1> QED
  BY <1>1, Invariant, PTL

\* If no commit is dated before its parents, the mono commit of a split commit
\* descends from those of its parents, whatever head it was translated on.
THEOREM AncestryIsKept == Spec => []AncestryKeptIfDated
<1>1. Inv => AncestryKeptIfDated
  BY DEF Inv, Written, Database, AncestryKeptIfDated, AncestryKept
<1> QED
  BY <1>1, Invariant, PTL

-----------------------------------------------------------------------------
(***************************************************************************)
(* A run with the goals the branch has already.                            *)
(***************************************************************************)
\* What a run knows when its goals are what the branch has already.
Again ==
  /\ ref = [b \in Branch |-> [head |-> ref[b].head, dhead |-> ref[b].dhead]]
  /\ pc \notin {"idle", "failed"} /\ goal = ref[br].dhead =>
       /\ head = ref[br].head /\ dhead = goal
       /\ pc = "order" => \A d \in Source : list[d] = <<>>
       /\ pc \in {"merge_heads", "fast_forward", "interleave"} => queue = <<>>

LEMMA OwnBase ==
  ASSUME NEW D, NEW h, IsHistory(h, D), NEW g \in Commits(h), NEW a \in h.anc[g]
  PROVE  MergeBase(h, a, g) = a
<1> DEFINE best == Maximal(h.anc[a] \cap h.anc[g], h.anc)
<1>1. a \in Commits(h) /\ h.anc[a] \subseteq h.anc[g]
  BY AncestorFacts
<1>2. a \in h.anc[a] /\ \A k \in h.anc[a] : a \in h.anc[k] => k = a
  BY <1>1, AncestorFacts
<1>3. h.anc[a] \cap h.anc[g] = h.anc[a]
  BY <1>1
<1>4. best = Maximal(h.anc[a], h.anc)
  BY <1>3
<1>5. best = {a}
  <2>1. \A c \in best : c \in h.anc[a] /\ \A k \in h.anc[a] : c \in h.anc[k] => k = c
    BY <1>4 DEF Maximal
  <2>2. \A c \in best : c = a
    BY <1>2, <2>1
  <2>3. a \in best
    BY <1>2, <1>4 DEF Maximal
  <2> QED
    BY <2>2, <2>3
<1>6. MergeBase(h, a, g) = CHOOSE c \in {a} : \A k \in {a} : h.ct[k] <= h.ct[c]
  BY <1>5 DEF MergeBase
<1>7. h.ct[a] <= h.ct[a]
  BY <1>1, HistoryType
<1> HIDE DEF best
<1> QED
  BY <1>6, <1>7

LEMMA NothingListed ==
  ASSUME IsHistory(hist, Dir), NEW d, goal[d] \in Commit, dhead[d] = goal[d], dhead[d] # Null
  PROVE  DirCommits(d) = <<>>
<1> DEFINE l == FirstAncestryPath(d)
           s == Fudged(l)
           t == [i \in DOMAIN s |-> [s[i] EXCEPT !.translated = \E j \in 1..i : map[s[j].c] # Null]]
<1>1. DirCommits(d) = t
  BY DEF DirCommits
<1>2. goal[d] \in hist.anc[goal[d]]
  BY AncestorFacts DEF Commit
<1>3. l = <<>>
  BY NoPath
<1> QED
  BY <1>1, <1>3 DEF Fudged

LEMMA NothingWithin ==
  ASSUME NEW U, NEW s \in Seq(U)
  PROVE  Within(s, {}) = <<>>
<1> DEFINE w == Within(s, {})
<1>1. w \in Seq(U) /\ ToSet(w) = {}
  BY WithinIs
<1> HIDE DEF w
<1>2. Len(w) = 0
  BY <1>1, NoElements
<1>3. w = <<>>
  BY <1>1, <1>2
<1> QED
  BY <1>3 DEF w

LEMMA NothingInterleaved ==
  ASSUME NEW ls
  PROVE  Interleaved(ls, <<>>) = <<>>
<1> DEFINE e == <<>>
<1>1. e \in Seq(Nat) /\ Len(e) = 0
  OBVIOUS
<1>2. <<>> = e
  OBVIOUS
<1> HIDE DEF e
<1>3. PICK v : v[0] = <<>> /\ Interleaved(ls, e) = v[Len(e)]
  BY <1>1, WeaveSteps
<1>4. Interleaved(ls, e) = <<>>
  BY <1>1, <1>3
<1> QED
  BY <1>2, <1>4

LEMMA OneAndNothing ==
  ASSUME NEW x, NEW e, e = <<>>
  PROVE  <<x>> \o e = <<x>>
<1> DEFINE s == <<x>>
<1>1. s \in Seq({x}) /\ <<>> \in Seq({x})
  BY Single
<1> HIDE DEF s
<1>2. s \o <<>> = s
  BY <1>1, ConcatEmptySeq
<1> QED
  BY <1>2 DEF s

\* The targets of an octopus that the head has merged already: it is the head.
LEMMA OctopusOfMerged ==
  ASSUME IsLog(hist, mono), head \in 1 .. Len(mono), NEW targets \in Seq(Commit),
         \A c \in ToSet(targets) : map[c] \in mono[head].anc /\ mono[head].tree[hist.dir[c]] = c
  PROVE  OctopusParents(targets) = <<head>>
<1> DEFINE S == ({head} \cup {map[c] : c \in ToSet(targets)}) \ {Null}
           anc == [m \in DOMAIN mono |-> mono[m].anc]
           ind == Maximal(S, anc)
           Monos(A) == [i \in DOMAIN Within(targets, A) |-> map[Within(targets, A)[i]]]
           independent == {c \in ToSet(targets) : map[c] # head /\ map[c] \in ind}
           own == IF head \in ind THEN <<head>> ELSE <<>>
           first == own \o Monos(independent)
           changed == {c \in ToSet(targets) \ independent : Differs(c, first[1])}
<1>1. OctopusParents(targets) = first \o Monos(changed)
  BY DEF OctopusParents
<1>2. Len(mono) \in Nat /\ DOMAIN mono = 1 .. Len(mono)
  BY DEF IsLog
<1>3. /\ mono[head].anc \subseteq 1 .. head /\ head \in mono[head].anc
      /\ \A a \in mono[head].anc : mono[a].anc \subseteq 1 .. a
  <2>1. mono[head].anc \subseteq 1 .. head /\ head \in mono[head].anc
    BY MonoAncestors
  <2>2. ASSUME NEW a \in mono[head].anc PROVE mono[a].anc \subseteq 1 .. a
    <3>1. a \in 1 .. Len(mono)
      BY <1>2, <2>1
    <3> QED
      BY <3>1, MonoAncestors
  <2> QED
    BY <2>1, <2>2
<1>4. S \subseteq mono[head].anc /\ head \in S
  BY <1>2, <1>3 DEF Null
<1> HIDE DEF S
<1>5. ind = {head}
  <2>1. ASSUME NEW k \in S, head \in anc[k] PROVE k = head
    <3>1. k \in 1 .. head /\ head \in 1 .. k
      BY <1>2, <1>3, <1>4, <2>1
    <3> QED
      BY <1>2, <3>1
  <2>2. head \in ind
    BY <1>4, <2>1 DEF Maximal
  <2>3. ASSUME NEW c \in ind PROVE c = head
    <3>1. c \in S /\ \A k \in S : c \in anc[k] => k = c
      BY <2>3 DEF Maximal
    <3>2. c \in anc[head]
      BY <1>2, <1>4, <3>1
    <3> QED
      BY <1>4, <3>1, <3>2
  <2> QED
    BY <2>2, <2>3
<1> HIDE DEF anc, ind
<1>6. independent = {} /\ own = <<head>>
  BY <1>5
<1>7. Monos({}) = <<>>
  <2>1. Within(targets, {}) = <<>>
    BY NothingWithin
  <2> QED
    BY <2>1
<1>8. first = <<head>>
  <2>1. Monos(independent) = <<>>
    BY <1>6, <1>7
  <2> HIDE DEF Monos, independent, own
  <2> QED
    BY <1>6, <2>1, OneAndNothing
<1>9. changed = {}
  <2> HIDE DEF first, independent
  <2>1. first[1] = head
    BY <1>8
  <2> QED
    BY <2>1 DEF Differs
<1>10. Monos(changed) = Monos({})
  BY <1>9
<1> HIDE DEF Monos, changed, first
<1> QED
  BY <1>1, <1>7, <1>8, <1>10, OneAndNothing

LEMMA AgainBegin ==
  ASSUME Inv, Again, NEW b \in Branch, NEW g \in Goals(b), Begin(b, g)
  PROVE  Again'
BY DEF Again, Begin

LEMMA AgainClean == Inv /\ Again /\ CleanHeads => Again'
<1> SUFFICES ASSUME Inv, Again, CleanHeads, pc' # "failed", goal = ref[br].dhead
    PROVE  head' = head /\ dhead' = dhead
  <2>1. CASE pc' = "failed" \/ goal # ref[br].dhead
    BY <2>1 DEF Again, CleanHeads
  <2>2. CASE pc' # "failed" /\ goal = ref[br].dhead /\ head' = head /\ dhead' = dhead
    BY <2>2 DEF Again, CleanHeads
  <2> QED
    BY <2>1, <2>2
<1>1. IsHistory(hist, Dir) /\ dhead = goal /\ dhead \in [Dir -> Commit \cup {Null}]
  BY DEF Inv, Again, CleanHeads, HeadsOf
<1> DEFINE base == [d \in Dir |-> HeadBase(d)]
<1>2. \A d \in Dir : base[d] = dhead[d]
  <2> SUFFICES ASSUME NEW d \in Dir PROVE HeadBase(d) = dhead[d]
    OBVIOUS
  <2>1. CASE dhead[d] = Null
    BY <2>1 DEF HeadBase
  <2>2. CASE dhead[d] # Null
    <3>1. dhead[d] \in Commits(hist)
      BY <1>1, <2>2 DEF Commit
    <3>2. HeadBase(d) = MergeBase(hist, dhead[d], dhead[d])
      BY <1>1, <2>2 DEF HeadBase
    <3>3. dhead[d] \in hist.anc[dhead[d]]
      BY <1>1, <3>1, AncestorFacts
    <3> QED
      BY <1>1, <3>1, <3>2, <3>3, OwnBase
  <2> QED
    BY <2>1, <2>2
<1>3. base = dhead
  BY <1>1, <1>2
<1>4. dhead' = base /\ head' = (IF base = dhead THEN head ELSE Null)
  BY DEF CleanHeads
<1> QED
  BY <1>3, <1>4

LEMMA AgainFind == Inv /\ Again /\ FindDirCommits => Again'
<1> SUFFICES ASSUME Inv, Again, FindDirCommits, goal = ref[br].dhead
    PROVE  dhead' = dhead /\ \A d \in Source : list'[d] = <<>>
  <2>1. CASE goal # ref[br].dhead
    BY ZenonT(60), <2>1 DEF Again, FindDirCommits
  <2>2. CASE goal = ref[br].dhead /\ dhead' = dhead /\ \A d \in Source : list'[d] = <<>>
    BY ZenonT(60), <2>2 DEF Again, FindDirCommits, Source
  <2> QED
    BY SMTT(30), <2>1, <2>2
<1>1. IsHistory(hist, Dir) /\ GoalOf(goal) /\ dhead = goal
  BY ZenonT(60) DEF Inv, Again, FindDirCommits
<1> DEFINE listed == [d \in Dir |-> IF d \in Source THEN DirCommits(d) ELSE <<>>]
           oldest == [d \in Dir |-> SelectLastInSeq(listed[d], IsUntranslated)]
           pending == {d \in Source : oldest[d] # 0}
<1>2. \A d \in Source : d \in Dir /\ listed[d] = <<>>
  BY SMTT(30), <1>1, GoalIs, NothingListed
<1>3. pending = {} => list' = listed /\ dhead' = dhead
  BY ZenonT(60) DEF FindDirCommits
<1> HIDE DEF listed
<1>4. pending = {}
  <2> SUFFICES ASSUME NEW d \in Source PROVE oldest[d] = 0
    OBVIOUS
  <2>1. oldest[d] = SelectLastInSeq(<<>>, IsUntranslated)
    BY <1>2
  <2> QED
    BY <2>1 DEF SelectLastInSeq
<1> HIDE DEF pending
<1> QED
  BY <1>2, <1>3, <1>4

LEMMA AgainOrder == Inv /\ Again /\ OrderDirCommits => Again'
<1> SUFFICES ASSUME Inv, Again, OrderDirCommits, goal = ref[br].dhead
    PROVE  dhead' = dhead /\ queue' = <<>>
  <2>1. CASE goal # ref[br].dhead
    BY ZenonT(60), <2>1 DEF Again, OrderDirCommits
  <2>2. CASE goal = ref[br].dhead /\ dhead' = dhead /\ queue' = <<>>
    BY ZenonT(60), <2>2 DEF Again, OrderDirCommits
  <2> QED
    BY SMTT(30), <2>1, <2>2
<1>1. dhead \in [Dir -> Commit \cup {Null}] /\ \A d \in Source : list[d] = <<>>
  BY DEF Inv, Again, OrderDirCommits, HeadsOf
<1> DEFINE S == {d \in Source : list[d] # <<>>}
<1>2. S = {}
  BY <1>1
<1>3. PICK order \in SetToSeqs(S) :
        LET q    == FoldLeft(LAMBDA s, d : Merged(list[d], s), <<>>, order)
            keep == SelectLastInSeq(q, LAMBDA f : ~f.translated \/ f.locked)
            Of(d) == {i \in keep + 1..Len(q) : hist.dir[q[i].c] = d}
        IN  /\ queue' = SubSeq(q, 1, keep)
            /\ dhead' = [d \in Dir |-> IF Of(d) = {} THEN dhead[d] ELSE q[Min(Of(d))].c]
  BY ZenonT(60) DEF OrderDirCommits
<1>4. order = <<>>
  <2>1. IsFiniteSet(S)
    BY <1>2, FS_EmptySet
  <2> HIDE DEF S
  <2>2. order \in Seq(S) /\ ToSet(order) = {}
    BY <1>2, <2>1, OrderIs
  <2>3. Len(order) = 0
    BY <2>2, NoElements
  <2> QED
    BY <2>2, <2>3
<1> DEFINE q == FoldLeft(LAMBDA s, d : Merged(list[d], s), <<>>, order)
           keep == SelectLastInSeq(q, LAMBDA f : ~f.translated \/ f.locked)
           Of(d) == {i \in keep + 1..Len(q) : hist.dir[q[i].c] = d}
<1>5. queue' = SubSeq(q, 1, keep)
        /\ dhead' = [d \in Dir |-> IF Of(d) = {} THEN dhead[d] ELSE q[Min(Of(d))].c]
  BY Zenon, <1>3
<1>6. q = <<>>
  <2>1. q = Interleaved(list, order)
    BY DEF Interleaved
  <2> QED
    BY <1>4, <2>1, NothingInterleaved
<1> DEFINE I == {k \in 1 .. Len(q) : ~q[k].translated \/ q[k].locked}
<1>7. keep = 0
  <2>1. keep = IF I # {} THEN Max(I) ELSE 0
    BY Zenon DEF SelectLastInSeq
  <2> HIDE DEF q, keep
  <2>2. I = {}
    BY <1>6
  <2> QED
    BY <2>1, <2>2
<1> HIDE DEF q, keep
<1>8. queue' = <<>>
  BY <1>5, <1>6, <1>7
<1>9. \A d \in Dir : Of(d) = {}
  BY <1>6, <1>7
<1> HIDE DEF Of
<1>10. dhead' = dhead
  BY <1>1, <1>5, <1>9
<1> QED
  BY <1>8, <1>10

LEMMA AgainHeads == Inv /\ Again /\ MergeHeads => Again'
<1> SUFFICES ASSUME Inv, Again, MergeHeads, goal = ref[br].dhead, pc' # "failed"
    PROVE  head' = head
  <2>1. CASE goal # ref[br].dhead \/ pc' = "failed"
    BY <2>1 DEF Again, MergeHeads
  <2>2. CASE goal = ref[br].dhead /\ head' = head
    BY <2>2 DEF Again, MergeHeads
  <2> QED
    BY <2>1, <2>2
<1>1. /\ br \in Branch /\ head = ref[br].head /\ dhead = ref[br].dhead
      /\ dhead \in [Dir -> Commit \cup {Null}] /\ head \in 0 .. Len(mono)
      /\ \A d \in Dir : dhead[d] # Null => hist.dir[dhead[d]] = d
      /\ IsLog(hist, mono) /\ RefsOf(mono, ref, saved)
           /\ \A c \in Commit : saved[c] # Null => map[c] = saved[c]
  BY DEF Inv, Again, MergeHeads, Written, HeadsOf, GoalOf
<1>2. StepOf(mono, saved, head, dhead) /\ \A d \in Dir : dhead[d] # Null => saved[dhead[d]] # Null
  BY <1>1 DEF RefsOf
<1> DEFINE U == {d \in Dir : dhead[d] # Null}
           dirs == Within(DirList, U)
           targets == [i \in DOMAIN dirs |-> dhead[dirs[i]]]
           par == OctopusParents(targets)
<1>3. pc' # "failed" => IF targets = <<>> THEN UNCHANGED <<mono, head>>
                        ELSE Take(MergeTargets(targets, par, Null))
  BY DEF MergeHeads
<1>4. dirs \in Seq(Dir) /\ ToSet(dirs) = U
  <2>1. dirs \in Seq(Dir) /\ ToSet(dirs) = Dir \cap U
    BY DirsAre, WithinIs
  <2>2. ToSet(dirs) = U
    BY <2>1
  <2> QED
    BY <2>1, <2>2
<1>5. \A d \in U : d \in Dir /\ dhead[d] # Null /\ dhead[d] \in Commit
  BY <1>1
<1>6. targets = [i \in DOMAIN dirs |-> dhead[dirs[i]]]
  OBVIOUS
<1> HIDE DEF U, dirs, targets
<1>7. targets \in Seq(Commit) /\ ToSet(targets) = {dhead[x] : x \in U}
  <2>1. dirs \in Seq(U)
    <3>1. \A i \in 1 .. Len(dirs) : dirs[i] \in U
      BY <1>4 DEF ToSet
    <3> QED
      BY <1>4, <3>1
  <2> DEFINE f == dhead
  <2>2. (\A x \in U : f[x] \in Commit) /\ targets = [i \in DOMAIN dirs |-> f[dirs[i]]]
    BY <1>5, <1>6
  <2> HIDE DEF f
  <2>3. targets \in Seq(Commit) /\ ToSet(targets) = {f[x] : x \in ToSet(dirs)}
    BY <2>1, <2>2, MonosIs
  <2> QED
    BY <1>4, <2>3 DEF f
<1>8. CASE targets = <<>>
  BY <1>3, <1>8
<1>9. CASE targets # <<>>
  <2>1. PICK x \in U : TRUE
    <3>1. targets[1] \in ToSet(targets)
      BY <1>7, <1>9 DEF ToSet
    <3> QED
      BY <1>7, <3>1
  <2>2. head # Null
    BY <1>2, <1>5, <2>1 DEF StepOf
  <2>3. head \in 1 .. Len(mono)
    <3>1. Len(mono) \in Nat
      BY <1>1 DEF IsLog
    <3> QED
      BY <1>1, <2>2, <3>1 DEF Null
  <2>4. ASSUME NEW c \in ToSet(targets)
        PROVE  map[c] \in mono[head].anc /\ mono[head].tree[hist.dir[c]] = c
    <3>1. PICK d \in U : c = dhead[d]
      BY <1>7
    <3>2. /\ d \in Dir /\ dhead[d] # Null /\ dhead[d] \in Commit /\ hist.dir[c] = d
               /\ map[c] = saved[c]
      BY <1>1, <1>2, <1>5, <3>1
    <3>3. mono[head].tree[d] = dhead[d] /\ saved[dhead[d]] \in mono[head].anc
      BY <1>2, <2>2, <3>2 DEF StepOf
    <3> QED
      BY <3>1, <3>2, <3>3
  <2>5. par = <<head>>
    BY <1>1, <1>7, <2>3, <2>4, OctopusOfMerged
  <2> HIDE DEF par
  <2>6. Len(par) = 1 /\ par[1] = head
    BY <2>5
  <2>7. MergeTargets(targets, par, Null) = [at |-> head, log |-> mono]
    BY <2>6 DEF MergeTargets
  <2>8. head' = MergeTargets(targets, par, Null).at
    BY <1>3, <1>9 DEF Take
  <2> QED
    BY <2>7, <2>8
<1> QED
  BY <1>8, <1>9

LEMMA AgainForward == Inv /\ Again /\ FastForward => Again'
BY ZenonT(60) DEF Again, FastForward

LEMMA AgainInterleave == Inv /\ Again /\ (InterleaveUntranslated \/ InterleaveTranslated) => Again'
BY ZenonT(60) DEF Again, InterleaveUntranslated, InterleaveTranslated

LEMMA AgainGoals == Inv /\ Again /\ MergeGoals => Again'
<1> SUFFICES ASSUME Inv, Again, MergeGoals, goal = ref[br].dhead
    PROVE  head' = head /\ dhead' = dhead
  <2>1. CASE goal # ref[br].dhead
    BY SMTT(30), <2>1 DEF Again, MergeGoals
  <2>2. CASE goal = ref[br].dhead /\ head' = head /\ dhead' = dhead
    BY ZenonT(60), <2>2 DEF Again, MergeGoals
  <2> QED
    BY <2>1, <2>2
<1>1. dhead = goal
  BY ZenonT(60) DEF Again, MergeGoals
<1> DEFINE U == {d \in Dir : goal[d] # dhead[d]}
           dirs == Within(DirList, U)
           targets == [i \in DOMAIN dirs |-> goal[dirs[i]]]
           par == OctopusParents(targets)
<1>2. IF \E c \in ToSet(targets) : map[c] = Null
      THEN UNCHANGED <<mono, head, active, dhead>>
      ELSE targets = <<>> => UNCHANGED <<mono, head, active, dhead>>
  BY DEF MergeGoals
<1>3. dirs = <<>>
  <2>1. U = {}
    BY <1>1
  <2>2. DirList \in Seq(Dir)
    BY DirsAre
  <2> QED
    BY <2>1, <2>2, NothingWithin
<1>4. targets = <<>>
  <2> DEFINE e == <<>>
  <2>1. DOMAIN e = {} /\ e = [i \in {} |-> goal[dirs[i]]]
    OBVIOUS
  <2>2. DOMAIN dirs = {}
    BY <1>3
  <2> HIDE DEF dirs, e
  <2>3. targets = e
    BY <2>1, <2>2
  <2> QED
    BY <2>3 DEF e
<1> HIDE DEF targets
<1> QED
  BY <1>2, <1>4

LEMMA AgainPublish == Inv /\ Again /\ (Publish \/ GiveUp) => Again'
<1> SUFFICES ASSUME Inv, Again, Publish \/ GiveUp
    PROVE  ref' = [b \in Branch |-> [head |-> ref'[b].head, dhead |-> ref'[b].dhead]]
  BY DEF Publish, GiveUp, Reset, Again
<1>1. ref = [b \in Branch |-> [head |-> ref[b].head, dhead |-> ref[b].dhead]]
  BY DEF Again
<1>2. ref' = ref \/ ref' = [ref EXCEPT ![br] = [head |-> head, dhead |-> dhead]]
  BY DEF Publish, GiveUp
<1> QED
  BY <1>1, <1>2

LEMMA AgainStep == Inv /\ Again /\ [Next]_vars => Again'
<1> SUFFICES ASSUME Inv, Again, [Next]_vars PROVE Again'
  OBVIOUS
<1>1. CASE FindParentsToTranslate
  BY <1>1 DEF Again, FindParentsToTranslate
<1>2. ASSUME pc = "idle", NEW b \in Branch, NEW g \in Goals(b), Begin(b, g) PROVE Again'
  BY <1>2, AgainBegin
<1>3. CASE UNCHANGED vars
  BY <1>3 DEF vars, job, Again, Source
<1> QED
  BY <1>1, <1>2, <1>3, AgainClean, AgainFind, AgainOrder, AgainHeads, AgainForward,
     AgainInterleave, AgainGoals, AgainPublish DEF Next, Step

LEMMA AgainInit == Init => Again
BY DEF Init, Again

\* A run with the goals the branch has already leaves its refs as they are: it
\* writes no new merge.
THEOREM RerunsAreIdle == Spec => RerunIsIdle
<1>1. Inv /\ Again /\ [Next]_vars => [pc = "publish" /\ goal = ref[br].dhead => ref' = ref]_vars
  <2> SUFFICES ASSUME Inv, Again, Next, pc = "publish", goal = ref[br].dhead PROVE ref' = ref
    OBVIOUS
  <2>1. head = ref[br].head /\ dhead = ref[br].dhead /\ br \in Branch
    BY DEF Inv, Again, GoalOf
  <2>2. CASE Publish
    <3>1. ref = [b \in Branch |-> [head |-> ref[b].head, dhead |-> ref[b].dhead]]
      BY DEF Again
    <3>2. ref' = [ref EXCEPT ![br] = [head |-> head, dhead |-> dhead]]
      BY <2>2 DEF Publish
    <3>3. ref[br] = [head |-> head, dhead |-> dhead]
      BY <2>1, <3>1
    <3> QED
      BY <3>1, <3>2, <3>3
  <2>3. CASE ~ Publish
    BY <2>3 DEF Next, Step, FindParentsToTranslate, CleanHeads, FindDirCommits, OrderDirCommits,
                MergeHeads, FastForward, InterleaveUntranslated, InterleaveTranslated,
                  MergeGoals, GiveUp
  <2> QED
    BY <2>2, <2>3
<1> QED
  BY <1>1, Invariant, AgainInit, AgainStep, PTL DEF Spec, RerunIsIdle

-----------------------------------------------------------------------------
(***************************************************************************)
(* The promise to the branches.                                            *)
(***************************************************************************)
\* What a branch has the mono commits of is in the saved database.
Settled ==
  \A b \in Branch, c \in Commit :
    ref[b].head # Null /\ map[c] \in mono[ref[b].head].anc => saved[c] # Null

\* The goals descend from the heads that are recorded for the branch.
Forward == \A d \in Source : ref[br].dhead[d] # Null => ref[br].dhead[d] \in hist.anc[goal[d]]

\* Then the run goes on from the head of the branch.
Carried ==
  Forward /\ ref[br].head # Null => head # Null /\ mono[ref[br].head].anc \subseteq mono[head].anc

Kept ==
  /\ Sourced(mono, map) /\ Settled
  /\ pc \notin {"interleave", "publish"} => map = saved
  /\ pc \in {"find_parents", "clean_heads"} => head = ref[br].head
  /\ pc \in {"find_commits", "order", "merge_heads", "fast_forward", "interleave", "publish"} =>
       Carried

\* What the promise tells of a branch stays as it is.
Stand ==
  /\ UNCHANGED <<hist, saved>>
  /\ \A b \in Branch : TreeOf(b)' = TreeOf(b) /\ MergedIn(b)' = MergedIn(b)

LEMMA RefHeadKept ==
  ASSUME Inv, NEW log, LogGrows(mono, log), NEW b \in Branch, ref[b].head # Null
  PROVE  ref[b].head \in 1 .. Len(mono) /\ log[ref[b].head] = mono[ref[b].head]
         /\ mono[ref[b].head].anc \subseteq 1 .. Len(mono)
<1>1. IsLog(hist, mono) /\ ref[b].head \in 0 .. Len(mono) /\ Len(mono) \in Nat
  BY DEF Inv, Written, RefsOf, LogGrows
<1>2. ref[b].head \in 1 .. Len(mono)
  BY <1>1 DEF Null
<1>3. mono[ref[b].head].anc \subseteq 1 .. ref[b].head
  BY <1>1, <1>2, MonoAncestors
<1>4. 1 .. ref[b].head \subseteq 1 .. Len(mono)
  BY <1>1, <1>2
<1>5. log[ref[b].head] = mono[ref[b].head]
  BY <1>2 DEF LogGrows
<1> QED
  BY <1>2, <1>3, <1>4, <1>5

LEMMA BranchesStand ==
  ASSUME Inv, UNCHANGED <<hist, ref, saved>>, LogGrows(mono, mono')
  PROVE  Stand
<1> SUFFICES ASSUME NEW b \in Branch PROVE TreeOf(b)' = TreeOf(b) /\ MergedIn(b)' = MergedIn(b)
  BY DEF Stand
<1>1. CASE ref[b].head = Null
  BY <1>1 DEF TreeOf, MergedIn
<1>2. CASE ref[b].head # Null
  <2>1. mono'[ref[b].head] = mono[ref[b].head]
    BY <1>2, RefHeadKept
  <2> QED
    BY <1>2, <2>1 DEF TreeOf, MergedIn, Commit, Commits
<1> QED
  BY <1>1, <1>2

\* A step of a run that writes only what Sourced and Adds allow.
LEMMA RunKeeps ==
  ASSUME Inv, Kept, UNCHANGED <<hist, ref, saved>>,
         Sourced(mono, map)', Adds(mono, map, mono', map'),
         pc' \notin {"interleave", "publish"} => map' = saved,
         pc' \in {"find_parents", "clean_heads"} => head' = ref'[br'].head,
         pc' \in {"find_commits", "order", "merge_heads", "fast_forward", "interleave", "publish"} =>
           Carried'
  PROVE  Kept' /\ Stand
<1>1. LogGrows(mono, mono') /\ Commit' = Commit
  BY DEF Adds, Commit, Commits
<1>2. Settled'
  <2> SUFFICES ASSUME NEW b \in Branch, NEW c \in Commit, ref[b].head # Null,
                      map'[c] \in mono'[ref[b].head].anc
               PROVE  saved[c] # Null
    BY <1>1 DEF Settled
  <2>1. mono'[ref[b].head] = mono[ref[b].head] /\ map'[c] \in 1 .. Len(mono)
    BY <1>1, RefHeadKept
  <2>2. map[c] # Null /\ map'[c] = map[c]
    BY <2>1 DEF Adds
  <2> QED
    BY <2>1, <2>2 DEF Kept, Settled
<1> QED
  BY <1>1, <1>2, BranchesStand DEF Kept

\* A step that writes nothing.
LEMMA IdleKeeps ==
  ASSUME Inv, Kept, UNCHANGED <<hist, mono, map, ref, saved>>,
         pc' \notin {"interleave", "publish"} => map' = saved,
         pc' \in {"find_parents", "clean_heads"} => head' = ref'[br'].head,
         pc' \in {"find_commits", "order", "merge_heads", "fast_forward", "interleave", "publish"} =>
           Carried'
  PROVE  Kept' /\ Stand
<1>1. LogGrows(mono, mono')
  BY SameLog DEF Inv, Written
<1>2. Adds(mono, map, mono', map')
  BY <1>1 DEF Adds, Null
<1>3. Sourced(mono, map)'
  BY DEF Kept, Sourced
<1> QED
  BY <1>2, <1>3, RunKeeps

LEMMA CarriedOn ==
  ASSUME Inv, pc # "idle", Carried, UNCHANGED <<hist, ref, br, goal>>, LogGrows(mono, mono'),
         head # Null => head' # Null /\ mono[head].anc \subseteq mono'[head'].anc
  PROVE  Carried'
<1> SUFFICES ASSUME Forward, ref[br].head # Null
             PROVE  head' # Null /\ mono'[ref[br].head].anc \subseteq mono'[head'].anc
  BY DEF Carried, Forward, Source
<1>1. br \in Branch
  BY DEF Inv, GoalOf
<1>2. mono'[ref[br].head] = mono[ref[br].head]
  BY <1>1, RefHeadKept
<1> QED
  BY <1>2 DEF Carried

\* A pass that writes.
LEMMA PassKeeps ==
  ASSUME Inv, Kept, pc \in {"merge_heads", "interleave"}, UNCHANGED <<hist, ref, saved, br, goal>>,
         GoesOn, pc' \in {"fast_forward", "interleave", "publish"},
         pc' = "fast_forward" => map' = saved
  PROVE  Kept' /\ Stand
<1>1. Sourced(mono', map') /\ Adds(mono, map, mono', map')
  BY DEF Kept, GoesOn
<1>2. Carried'
  BY <1>1, CarriedOn DEF Kept, GoesOn, Adds
<1>3. Sourced(mono, map)'
  BY <1>1 DEF Sourced
<1> QED
  BY <1>1, <1>2, <1>3, RunKeeps

\* Heads that the goals descend from are not rewound.
LEMMA KeptClean == Inv /\ Kept /\ CleanHeads => Kept' /\ Stand
<1> SUFFICES ASSUME Inv, Kept, CleanHeads PROVE Kept' /\ Stand
  OBVIOUS
<1>1. /\ IsHistory(hist, Dir) /\ dhead \in [Dir -> Commit \cup {Null}] /\ dhead = ref[br].dhead
      /\ head = ref[br].head /\ GoalOf(goal)
      /\ \A d \in Dir : dhead[d] # Null => d \in Source
  BY DEF Inv, Kept, CleanHeads, HeadsOf
<1>2. /\ UNCHANGED <<hist, mono, map, ref, saved, br, goal>> /\ map = saved
      /\ pc' \in {"failed", "find_commits"}
  BY DEF CleanHeads, Kept
<1>3. ASSUME pc' = "find_commits" PROVE Carried'
  <2> SUFFICES ASSUME Forward PROVE head' = head
    BY <1>1, <1>2 DEF Carried, Forward, Source
  <2> DEFINE base == [d \in Dir |-> HeadBase(d)]
  <2>1. \A d \in Dir : base[d] = dhead[d]
    <3> SUFFICES ASSUME NEW d \in Dir PROVE HeadBase(d) = dhead[d]
      OBVIOUS
    <3>1. CASE dhead[d] = Null
      BY <3>1 DEF HeadBase
    <3>2. CASE dhead[d] # Null
      <4>1. d \in Source /\ goal[d] \in Commits(hist) /\ dhead[d] \in hist.anc[goal[d]]
        BY <1>1, <3>2, GoalIs DEF Forward, Commit
      <4>2. HeadBase(d) = MergeBase(hist, dhead[d], goal[d])
        BY <3>2 DEF HeadBase
      <4> QED
        BY <1>1, <4>1, <4>2, OwnBase
    <3> QED
      BY <3>1, <3>2
  <2>2. base = dhead
    BY <1>1, <2>1
  <2>3. head' = (IF base = dhead THEN head ELSE Null)
    BY <1>3 DEF CleanHeads
  <2> QED
    BY <2>2, <2>3
<1> QED
  BY <1>2, <1>3, IdleKeeps

LEMMA KeptForward == Inv /\ Kept /\ FastForward => Kept' /\ Stand
<1> SUFFICES ASSUME Inv, Kept, FastForward PROVE Kept' /\ Stand
  OBVIOUS
<1>1. UNCHANGED <<hist, mono, map, ref, saved, br, goal>> /\ pc' = "interleave" /\ Carried
  BY DEF FastForward, Kept
<1>2. head # Null => head' = head
  BY DEF FastForward
<1>3. Carried'
  BY <1>1, <1>2 DEF Carried, Forward, Source
<1> QED
  BY <1>1, <1>3, IdleKeeps

\* The passes before the refs are written.
LEMMA KeptStep ==
  ASSUME Inv, Kept, [Next]_vars, ~ Publish
  PROVE  Kept' /\ Stand
<1>1. CASE FindParentsToTranslate
  <2>1. /\ UNCHANGED <<hist, mono, map, ref, saved, br, head>> /\ pc' = "clean_heads"
        /\ map = saved /\ head = ref[br].head
    BY <1>1 DEF FindParentsToTranslate, Kept
  <2> QED
    BY <2>1, IdleKeeps
<1>2. CASE FindDirCommits
  <2>1. /\ UNCHANGED <<hist, mono, map, ref, saved, br, head, goal>> /\ pc' = "order"
        /\ map = saved /\ Carried
    BY ZenonT(60), <1>2 DEF FindDirCommits, Kept
  <2>2. Carried'
    BY <2>1 DEF Carried, Forward, Source
  <2> QED
    BY SMTT(30), <2>1, <2>2, IdleKeeps
<1>3. CASE OrderDirCommits
  <2>1. /\ UNCHANGED <<hist, mono, map, ref, saved, br, head, goal>> /\ pc' = "merge_heads"
        /\ map = saved /\ Carried
    BY <1>3 DEF OrderDirCommits, Kept
  <2>2. Carried'
    BY <2>1 DEF Carried, Forward, Source
  <2> QED
    BY SMTT(30), <2>1, <2>2, IdleKeeps
<1>4. CASE MergeHeads
  <2>1. GoesOn
    BY <1>4, MergeHeadsStep
  <2>2. /\ pc = "merge_heads" /\ pc' \in {"failed", "fast_forward"} /\ map' = map /\ map = saved
        /\ UNCHANGED <<hist, ref, saved, br, goal>>
    BY <1>4 DEF MergeHeads, Kept
  <2> QED
    BY <2>1, <2>2, PassKeeps DEF GoesOn
<1>5. CASE InterleaveUntranslated
  <2>1. GoesOn
    BY <1>5, InterleaveUntranslatedStep
  <2>2. /\ pc = "interleave" /\ pc' \in {"failed", "interleave"}
        /\ UNCHANGED <<hist, ref, saved, br, goal>>
    BY <1>5 DEF InterleaveUntranslated
  <2> QED
    BY SMTT(30), <2>1, <2>2, PassKeeps DEF GoesOn
<1>6. CASE InterleaveTranslated
  <2>1. GoesOn
    BY <1>6, InterleaveTranslatedStep
  <2>2. pc = "interleave" /\ pc' = "interleave" /\ UNCHANGED <<hist, ref, saved, br, goal>>
    BY <1>6 DEF InterleaveTranslated
  <2> QED
    BY <2>1, <2>2, PassKeeps
<1>7. CASE MergeGoals
  <2>1. GoesOn
    BY <1>7, MergeGoalsStep
  <2>2. /\ pc = "interleave" /\ pc' \in {"failed", "publish"}
        /\ UNCHANGED <<hist, ref, saved, br, goal>>
    BY <1>7 DEF MergeGoals
  <2> QED
    BY <2>1, <2>2, PassKeeps DEF GoesOn
<1>8. CASE GiveUp
  <2>1. UNCHANGED <<hist, mono, ref, saved>> /\ map' = saved /\ map = saved /\ pc' = "idle"
    BY <1>8 DEF GiveUp, Reset, Kept
  <2> QED
    BY <2>1, IdleKeeps
<1>9. ASSUME pc = "idle", NEW b \in Branch, NEW g \in Goals(b), Begin(b, g)
      PROVE  Kept' /\ Stand
  <2>1. /\ UNCHANGED <<hist, mono, map, ref, saved>> /\ pc' = "find_parents"
        /\ map = saved /\ br' = b /\ head' = ref[b].head
    BY <1>9 DEF Begin, Kept
  <2> QED
    BY <2>1, IdleKeeps
<1>10. CASE UNCHANGED vars
  <2>1. UNCHANGED <<hist, mono, map, ref, saved, br, head, goal, pc>>
    BY <1>10 DEF vars, job
  <2>2. Carried => Carried'
    BY <2>1 DEF Carried, Forward, Source
  <2>3. pc' \notin {"interleave", "publish"} => map' = saved
    BY <2>1 DEF Kept
  <2>4. pc' \in {"find_parents", "clean_heads"} => head' = ref'[br'].head
    BY <2>1 DEF Kept
  <2>5. pc' \in {"find_commits", "order", "merge_heads", "fast_forward", "interleave", "publish"} =>
          Carried'
    BY <2>1, <2>2 DEF Kept
  <2> QED
    BY <2>1, <2>3, <2>4, <2>5, IdleKeeps
<1> QED
  BY <1>1, <1>2, <1>3, <1>4, <1>5, <1>6, <1>7, <1>8, <1>9, <1>10, KeptClean,
    KeptForward DEF Next, Step

LEMMA AncestorsIn ==
  ASSUME IsHistory(hist, Dir), NEW log, IsLog(hist, log), NEW m, Database(log, m), Dated,
         NEW c \in Commit, m[c] # Null
  PROVE  \A a \in hist.anc[c] : m[a] \in log[m[c]].anc
<1> DEFINE Bad == {k \in Commit : m[k] # Null /\ \E a \in hist.anc[k] : m[a] \notin log[m[k]].anc}
<1>1. Bad = {}
  <2>1. SUFFICES ASSUME Bad # {} PROVE FALSE
    OBVIOUS
  <2>2. PICK k \in Bad : \A j \in Bad : k <= j
    <3>1. Bad \subseteq Nat
      BY HistoryType DEF Commit
    <3> HIDE DEF Bad
    <3> QED
      BY <2>1, <3>1, SmallestNat
  <2>3. PICK a \in hist.anc[k] : m[a] \notin log[m[k]].anc
    OBVIOUS
  <2>4. k \in Commit /\ m[k] # Null /\ k \in Nat
    BY HistoryType DEF Commit
  <2>5. m[k] \in 1 .. Len(log)
    BY <2>4 DEF Database, Null
  <2>6. a # k
    BY <2>3, <2>5, MonoAncestors
  <2>7. PICK p \in ToSet(hist.par[k]) : a \in hist.anc[p]
    BY <2>3, <2>4, <2>6, AncestorFacts DEF Commit
  <2>8. p \in Commit /\ p < k /\ p \in Nat
    BY <2>4, HistoryType DEF Commit
  <2>9. m[p] # Null /\ m[p] \in log[m[k]].anc
    BY <2>4 DEF Database
  <2>10. m[a] \in log[m[p]].anc
    BY <2>2, <2>4, <2>7, <2>8, <2>9
  <2>11. log[m[p]].anc \subseteq log[m[k]].anc
    BY <2>5, <2>9, MonoAncestors
  <2> QED
    BY <2>3, <2>10, <2>11
<1> QED
  BY <1>1

LEMMA KeptInit == Init => Kept
<1> SUFFICES ASSUME Init PROVE Kept
  OBVIOUS
<1>1. /\ map = [c \in Commit |-> Null] /\ saved = map /\ pc = "idle"
      /\ ref = [b \in Branch |-> [head |-> Null, dhead |-> NoHeads]]
  BY DEF Init
<1> DEFINE e == <<>>
<1>2. mono = e /\ Len(e) = 0
  BY DEF Init
<1>3. Sourced(mono, map)
  BY <1>2 DEF Sourced
<1>4. Settled
  BY <1>1 DEF Settled
<1> HIDE DEF e
<1> QED
  BY <1>1, <1>3, <1>4 DEF Kept

\* The branch that a run writes.
LEMMA PublishedHead ==
  ASSUME Inv, Publish, NEW b, b = br
  PROVE  /\ b \in Branch /\ head \in 1 .. Len(mono) /\ ref'[b].head = head
         /\ \A k \in Branch \ {b} : ref'[k] = ref[k]
         /\ TreeOf(b)' = mono[head].tree /\ IsTree(hist, mono[head].tree)
         /\ MergedIn(b)' = {c \in Commit : map[c] \in mono[head].anc}
         /\ mono[head].anc \subseteq 1 .. Len(mono)
         /\ \A d \in Source : d \in Dir /\ goal[d] # Null /\ mono[head].tree[d] = goal[d]
<1>1. /\ GoalOf(goal) /\ StepOf(mono, map, head, dhead) /\ dhead = goal /\ IsLog(hist, mono)
      /\ head \in 0 .. Len(mono) /\ DOMAIN ref = Branch /\ br \in Branch
  BY DEF Inv, Publish, Written, HeadsOf, GoalOf
<1>2. /\ ref' = [ref EXCEPT ![br] = [head |-> head, dhead |-> dhead]] /\ saved' = map
      /\ UNCHANGED <<hist, mono, map>>
  BY DEF Publish, Reset
<1>3. \A d \in Source : d \in Dir /\ goal[d] # Null
  BY <1>1, GoalIs
<1>4. head # Null
  <2>1. Tracked[br] # {}
    BY <1>1, InterleaverAssumption
  <2>2. PICK d \in Source : TRUE
    BY <2>1 DEF Source
  <2> QED
    BY <1>1, <1>3, <2>2 DEF StepOf
<1>5. head \in 1 .. Len(mono) /\ Len(mono) \in Nat
  BY <1>1, <1>4, SameLog DEF Null, LogGrows
<1>6. \A d \in Source : mono[head].tree[d] = goal[d]
  BY <1>1, <1>3, <1>4 DEF StepOf
<1>7. IsTree(hist, mono[head].tree)
  BY <1>1, <1>5 DEF IsLog
<1>8. mono[head].anc \subseteq 1 .. Len(mono)
  <2>1. mono[head].anc \subseteq 1 .. head
    BY <1>1, <1>5, MonoAncestors
  <2>2. 1 .. head \subseteq 1 .. Len(mono)
    BY <1>5
  <2> QED
    BY <2>1, <2>2
<1>9. ref'[b].head = head /\ \A k \in Branch \ {b} : ref'[k] = ref[k]
  BY <1>1, <1>2
<1>10. TreeOf(b)' = mono[head].tree
  BY <1>2, <1>4, <1>9 DEF TreeOf
<1>11. MergedIn(b)' = {c \in Commit : map[c] \in mono[head].anc}
  BY <1>2, <1>4, <1>9 DEF MergedIn, Commit, Commits
<1> QED
  BY <1>1, <1>3, <1>5, <1>6, <1>7, <1>8, <1>9, <1>10, <1>11

LEMMA KeptPublish ==
  ASSUME Inv, Kept, Publish, Inv'
  PROVE  Kept'
<1>1. UNCHANGED <<hist, mono, map>> /\ saved' = map /\ pc' = "idle"
  BY DEF Publish, Reset
<1>2. Sourced(mono, map)'
  BY <1>1 DEF Kept, Sourced
<1>3. Settled'
  <2> SUFFICES ASSUME NEW b \in Branch, NEW c \in Commit', (ref[b].head)' # Null,
                      map'[c] \in mono'[ref'[b].head].anc
               PROVE  saved'[c] # Null
    BY DEF Settled
  <2>1. IsLog(hist, mono) /\ ref'[b].head \in 0 .. Len(mono)
    BY <1>1 DEF Inv, Written, RefsOf
  <2>2. Len(mono) \in Nat
    BY <2>1, SameLog DEF LogGrows
  <2>3. ref'[b].head \in 1 .. Len(mono)
    BY <2>1, <2>2 DEF Null
  <2>4. mono[ref'[b].head].anc \subseteq 1 .. ref'[b].head
    BY <2>1, <2>3, MonoAncestors
  <2> QED
    BY <1>1, <2>3, <2>4 DEF Null
<1> QED
  BY <1>1, <1>2, <1>3 DEF Kept

\* The branch moves to the goals, with all that they need, and forward unless a
\* goal rewinds it.
Arrives(b, tree, merged) ==
  /\ IsTree(hist, tree)
  /\ \A d \in Tracked[b] : tree[d] # Null
  /\ \A d \in Dir : tree[d] # Null =>
       tree[d] \in merged /\ (Dated => hist.anc[tree[d]] \subseteq merged)
  /\ (\A d \in Dir : TreeOf(b)[d] # Null =>
        tree[d] # Null /\ TreeOf(b)[d] \in hist.anc[tree[d]]) => MergedIn(b) \subseteq merged
  /\ \A c \in merged : map[c] # Null

LEMMA PublishArrives ==
  ASSUME Inv, Kept, Publish, NEW b, b = br,
         NEW tree, tree = mono[head].tree, NEW m, m = {c \in Commit : map[c] \in mono[head].anc}
  PROVE  Arrives(b, tree, m)
<1>1. /\ IsHistory(hist, Dir) /\ IsLog(hist, mono) /\ Database(mono, map) /\ Sourced(mono, map)
      /\ Written(mono, map, saved) /\ RefsOf(mono, ref, saved) /\ Carried
  BY DEF Inv, Kept, Publish, Written
<1>2. /\ b \in Branch /\ head \in 1 .. Len(mono) /\ IsTree(hist, tree)
      /\ mono[head].anc \subseteq 1 .. Len(mono)
      /\ \A d \in Source : d \in Dir /\ goal[d] # Null /\ tree[d] = goal[d]
  BY PublishedHead
<1>3. \A c \in m : map[c] # Null
  BY <1>2 DEF Null
<1>4. ASSUME NEW d \in Dir, tree[d] # Null
      PROVE  tree[d] \in m /\ (Dated => hist.anc[tree[d]] \subseteq m)
  <2>1. tree[d] \in Commit
    BY <1>2, <1>4 DEF IsTree, Commit
  <2>2. map[tree[d]] # Null /\ map[tree[d]] \in mono[head].anc
    BY <1>1, <1>2, <1>4 DEF Sourced
  <2>3. ASSUME Dated, NEW a \in hist.anc[tree[d]] PROVE a \in m
    <3>1. map[a] \in mono[map[tree[d]]].anc
      BY <1>1, <2>1, <2>2, <2>3, AncestorsIn
    <3>2. mono[map[tree[d]]].anc \subseteq mono[head].anc
      BY <1>1, <1>2, <2>2, MonoAncestors
    <3>3. a \in Commit
      BY <1>1, <2>1, AncestorFacts DEF Commit
    <3> QED
      BY <3>1, <3>2, <3>3
  <2> QED
    BY <2>1, <2>2, <2>3
<1>5. ASSUME \A d \in Dir : TreeOf(b)[d] # Null => tree[d] # Null
               /\ TreeOf(b)[d] \in hist.anc[tree[d]]
      PROVE  MergedIn(b) \subseteq m
  <2>1. CASE ref[b].head = Null
    BY <2>1 DEF MergedIn
  <2>2. CASE ref[b].head # Null
    <3>1. StepOf(mono, saved, ref[b].head, ref[b].dhead)
      BY <1>1, <1>2 DEF RefsOf
    <3>2. TreeOf(b) = mono[ref[b].head].tree
      BY <2>2 DEF TreeOf
    <3>3. ASSUME NEW d \in Source, ref[b].dhead[d] # Null
          PROVE  ref[b].dhead[d] \in hist.anc[goal[d]]
      <4>1. TreeOf(b)[d] = ref[b].dhead[d] /\ d \in Dir /\ tree[d] = goal[d]
        BY <1>2, <2>2, <3>1, <3>2, <3>3 DEF StepOf
      <4> QED
        BY <1>5, <3>3, <4>1
    <3>4. mono[ref[b].head].anc \subseteq mono[head].anc
      BY <1>1, <2>2, <3>3 DEF Carried, Forward
    <3>5. ASSUME NEW c \in MergedIn(b) PROVE c \in m
      <4>1. c \in Commit /\ saved[c] \in mono[ref[b].head].anc
        BY <2>2, <3>5 DEF MergedIn
      <4>2. saved[c] # Null
        BY <1>2, <3>4, <4>1 DEF Null
      <4>3. map[c] = saved[c]
        BY <1>1, <4>1, <4>2 DEF Written
      <4> QED
        BY <3>4, <4>1, <4>3
    <3> QED
      BY <3>5
  <2> QED
    BY <2>1, <2>2
<1>6. \A d \in Tracked[b] : tree[d] # Null
  BY <1>2 DEF Source
<1> QED
  BY <1>2, <1>3, <1>4, <1>5, <1>6 DEF Arrives

\* The other branches have what they had.
LEMMA OthersStand ==
  ASSUME Inv, Kept, Publish, NEW k \in Branch, k # br
  PROVE  TreeOf(k)' = TreeOf(k) /\ MergedIn(k)' = MergedIn(k)
<1>1. /\ ref'[k] = ref[k] /\ UNCHANGED <<hist, mono, map>> /\ saved' = map /\ Commit' = Commit
  BY PublishedHead DEF Publish, Reset, Commit, Commits
<1>2. TreeOf(k)' = TreeOf(k)
  BY <1>1 DEF TreeOf
<1>3. MergedIn(k)' = MergedIn(k)
  <2>1. CASE ref[k].head = Null
    BY <1>1, <2>1 DEF MergedIn
  <2>2. CASE ref[k].head # Null
    <3> DEFINE anc == mono[ref[k].head].anc
    <3>1. MergedIn(k) = {c \in Commit : saved[c] \in anc}
      BY <2>2 DEF MergedIn
    <3>2. MergedIn(k)' = {c \in Commit : map[c] \in anc}
      BY <1>1, <2>2 DEF MergedIn
    <3>3. anc \subseteq 1 .. Len(mono)
      <4>1. LogGrows(mono, mono)
        BY SameLog DEF Inv, Written
      <4> QED
        BY <2>2, <4>1, RefHeadKept
    <3>4. \A c \in Commit : saved[c] # Null => map[c] = saved[c]
      BY DEF Inv, Written
    <3>5. \A c \in Commit : map[c] \in anc => saved[c] # Null
      BY <2>2 DEF Kept, Settled
    <3>6. \A c \in Commit : saved[c] \in anc => saved[c] # Null
      BY <3>3 DEF Null
    <3> HIDE DEF anc
    <3> QED
      BY <3>1, <3>2, <3>4, <3>5, <3>6
  <2> QED
    BY <2>1, <2>2
<1> QED
  BY <1>2, <1>3

LEMMA PublishMoves ==
  ASSUME Inv, Kept, Publish, NEW b, b = br
  PROVE  b \in Branch /\ Abstract!Move(b)
<1> DEFINE at == [k \in Branch |-> TreeOf(k)]
           merged == [k \in Branch |-> MergedIn(k)]
           tree == mono[head].tree
           m == {c \in Commit : map[c] \in mono[head].anc}
<1>1. /\ b \in Branch /\ IsTree(hist, tree) /\ at'[b] = tree /\ merged'[b] = m
      /\ at[b] = TreeOf(b) /\ merged[b] = MergedIn(b)
  BY PublishedHead
<1>2. Arrives(b, tree, m)
  BY PublishArrives
<1>3. hist' = hist /\ saved' = map
  BY DEF Publish, Reset
<1>4. \A k \in Branch \ {b} : at'[k] = at[k] /\ merged'[k] = merged[k]
  BY OthersStand
<1>5. \A c \in Commit : saved[c] # Null => saved'[c] = saved[c]
  BY <1>3 DEF Inv, Written
<1> HIDE DEF at, merged, tree, m
<1>6. tree \in [Dir -> Abstract!Commits(hist) \cup {Abstract!Null}]
  BY <1>1 DEF IsTree, Commits, Null, Abstract!Commits, Abstract!Null
<1>7. \A d \in Tracked[b] : d \in Dir /\ tree[d] # Abstract!Null /\ hist.dir[tree[d]] = d
  <2>1. Tracked[b] \subseteq Dir
    BY <1>1, DirsAre
  <2> QED
    BY <1>1, <1>2, <2>1 DEF Arrives, IsTree, Null, Abstract!Null
<1>8. [d \in Dir |-> tree[d]] = tree
  BY <1>6
<1>9. Abstract!Required(tree) \subseteq m
  <2>1. Abstract!ToSet(tree) = {tree[d] : d \in Dir}
    BY <1>6 DEF Abstract!ToSet
  <2>2. Abstract!WellDated(hist) => Dated
    BY DEF Abstract!WellDated, Abstract!Commits, Abstract!ToSet, Dated, Commit, Commits, ToSet
  <2>3. ASSUME NEW d \in Dir, tree[d] # Abstract!Null
        PROVE  tree[d] \in m /\ (Abstract!WellDated(hist) => hist.anc[tree[d]] \subseteq m)
    BY <1>2, <2>2, <2>3 DEF Arrives, Null, Abstract!Null
  <2>4. CASE Abstract!WellDated(hist)
    BY <2>1, <2>3, <2>4 DEF Abstract!Required, Abstract!Ancestors
  <2>5. CASE ~ Abstract!WellDated(hist)
    BY <2>1, <2>3, <2>5 DEF Abstract!Required
  <2> QED
    BY <2>4, <2>5
<1>10. ASSUME \A d \in Dir : at[b][d] # Abstract!Null =>
                at[b][d] \in Abstract!Ancestors(hist, {tree[d]})
       PROVE  merged[b] \subseteq m
  <2>1. ASSUME NEW d \in Dir, TreeOf(b)[d] # Null
        PROVE  tree[d] # Null /\ TreeOf(b)[d] \in hist.anc[tree[d]]
    BY <1>1, <1>10, <2>1 DEF Abstract!Ancestors, Abstract!Null, Null
  <2> QED
    BY <1>1, <1>2, <2>1 DEF Arrives
<1>11. \A c \in m : saved'[c] # Abstract!Null
  BY <1>2, <1>3 DEF Arrives, Null, Abstract!Null
<1>12. \A c \in Abstract!Commits(hist) : saved[c] # Abstract!Null => saved'[c] = saved[c]
  BY <1>5 DEF Commit, Commits, Null, Abstract!Commits, Abstract!Null
<1> USE DEF at, merged
<1> QED
  BY <1>1, <1>3, <1>4, <1>6, <1>7, <1>8, <1>9, <1>10, <1>11, <1>12
  DEF Abstract!Move, Abstract!Descends

\* Interleaving implements what it promises of the branches: only the last step
\* of a run moves one, to the goals and forward unless a goal rewinds it.
THEOREM PromiseIsKept == Spec => PromiseKept
<1>1. Init => Abstract!PromiseInit
  <2> SUFFICES ASSUME Init PROVE Abstract!PromiseInit
    OBVIOUS
  <2>1. /\ saved = [c \in Commit |-> Null]
        /\ ref = [b \in Branch |-> [head |-> Null, dhead |-> NoHeads]]
    BY DEF Init
  <2>2. \A b \in Branch : TreeOf(b) = NoHeads /\ MergedIn(b) = {}
    BY <2>1 DEF TreeOf, MergedIn
  <2> QED
    BY <2>1, <2>2 DEF Abstract!PromiseInit, Abstract!Commits, Abstract!Null, NoHeads, Null,
                      Commit, Commits
<1>2. Inv /\ Kept /\ Inv' /\ [Next]_vars =>
        Kept' /\ [\E b \in Branch : Abstract!Move(b)]_(Abstract!pvars)
  <2> SUFFICES ASSUME Inv, Kept, Inv', [Next]_vars
               PROVE  Kept' /\ [\E b \in Branch : Abstract!Move(b)]_(Abstract!pvars)
    OBVIOUS
  <2>1. CASE Publish
    BY <2>1, KeptPublish, PublishMoves
  <2>2. CASE ~ Publish
    <3>1. Kept' /\ Stand
      BY <2>2, KeptStep
    <3>2. Abstract!pvars' = Abstract!pvars
      BY <3>1 DEF Stand, Abstract!pvars
    <3> QED
      BY <3>1, <3>2
  <2> QED
    BY <2>1, <2>2
<1> QED
  BY <1>1, <1>2, KeptInit, Invariant, PTL DEF Spec, PromiseKept, Abstract!Promise
=============================================================================
