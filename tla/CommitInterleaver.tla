-------------------------- MODULE CommitInterleaver --------------------------
(***************************************************************************)
(* split2mono interleave-commits (commit_interleaver.h,                    *)
(* translation_queue.h, commit_source.h, dir_list.h): one run moves a      *)
(* branch of the monorepo from the split commits it has merged, one head   *)
(* per tracked directory, to the goals.  It translates the split commits   *)
(* that have no mono commit yet, in the order of their dates and each on   *)
(* top of the one before, and merges those that other branches translated. *)
(*                                                                         *)
(* A run is a sequential program; its steps here are the passes of         *)
(* run_impl.  What makes it hard is what it relies on: the listings git    *)
(* gives it, the dates in them, what earlier runs left in the database and *)
(* on the other branches.                                                  *)
(*                                                                         *)
(* Not modelled: repeated directories, the root directory "-" and SVN base *)
(* revisions, so every revision is 0.                                      *)
(***************************************************************************)
EXTENDS SplitHistory

CONSTANTS
  DirList,      \* the directories, in the order of dir_list (by name)
  Branch,       \* the branches of the monorepo
  Tracked,      \* Tracked[b]: the directories branch b tracks
  Histories,    \* the split histories to start from
  FirstBatch,   \* commits list_first_parents asks for first (50)
  NextBatch,    \* and in each later batch (1000)
  MaxRuns       \* bound: runs of the program

Dir == ToSet(DirList)

ASSUME InterleaverAssumption ==
  /\ DirList \in Seq(Dir) /\ Cardinality(Dir) = Len(DirList)
  /\ Tracked \in [Branch -> (SUBSET Dir) \ {{}}]
  /\ \A h \in Histories : IsHistory(h, Dir)
  /\ {FirstBatch, NextBatch} \subseteq Nat \ {0}
  /\ MaxRuns \in Nat

VARIABLES
  hist,      \* the split history
  mono,      \* the mono commits written, in that order; a commit is its place
  map,       \* map[c]: the mono commit of split commit c (the commits table)
  ref,       \* ref[b]: the head of the branch and its <dir>/mt-split refs
  saved,     \* the version of map in the mt-db ref
  runs,      \* how many runs were started
  pc,        \* the pass the run is in
  br,        \* the branch it works on
  goal,      \* goal[d], the split commit to reach
  head,      \* commit_interleaver::head
  dhead,     \* dhead[d]: dir_type::head, the split commit merged into head
  active,    \* dir_list::active_dirs
  todo,      \* todo[d]: commit_source::commits, what is left to translate
  list,      \* list[d]: commit_source::fparents
  queue      \* translation_queue::fparents; the next one is the last

job  == <<br, goal, head, dhead, active, todo, list, queue>>
vars == <<hist, mono, map, ref, saved, runs, pc, job>>

Commit == Commits(hist)
Source == Tracked[br]
AnyBranch == CHOOSE b \in Branch : TRUE
NoHeads == [d \in Dir |-> Null]
Nothing == [d \in Dir |-> <<>>]

NoJob ==
  /\ goal = NoHeads /\ head = Null /\ dhead = NoHeads /\ active = {}
  /\ todo = Nothing /\ list = Nothing /\ queue = <<>>

Init ==
  /\ hist \in Histories
  /\ mono = <<>>
  /\ map = [c \in Commit |-> Null]
  /\ ref = [b \in Branch |-> [head |-> Null, dhead |-> NoHeads]]
  /\ saved = map
  /\ runs = 0
  /\ pc = "idle"
  /\ br = AnyBranch
  /\ NoJob

(***************************************************************************)
(* Mono commits.  A commit is found again by its content: its parents, its *)
(* tree and the split commit whose message and dates it carries (none for  *)
(* an octopus).  git commit-tree drops a parent given twice.               *)
(***************************************************************************)
CommitTree(log, par, tree, base) ==
  LET once == FoldLeft(LAMBDA s, p : IF Contains(s, p) THEN s ELSE Append(s, p),
                       <<>>, par)
      same == {m \in DOMAIN log : /\ log[m].par = once
                                  /\ log[m].tree = tree
                                  /\ log[m].base = base}
      m    == Len(log) + 1
  IN  IF same # {} THEN [at |-> Min(same), log |-> log]
      ELSE [at  |-> m,
            log |-> Append(log, [par |-> once, tree |-> tree, base |-> base,
                      anc |-> {m} \cup UNION {log[p].anc : p \in ToSet(once)}])]

ParentsInOrder(par, headp) == par      \* mutant: the head in its place
HeadFirst(par, headp) == IF headp = 0 THEN par ELSE <<par[headp]>> \o par

\* The place of the first parent that has a directory of D.
FirstWith(log, order, D) ==
  SelectInSeq(order, LAMBDA p : \E d \in D : log[p].tree[d] # Null)

\* The tree of a commit: the directories in own have that content.  Of the
\* others, each active one is taken from the first parent that has it, the
\* head before the rest, and the inactive ones all from one parent.
Tree(log, own, par, headp) ==
  LET order == HeadFirst(par, headp)
      idle  == Dir \ (active \cup DOMAIN own)
      place == [d \in Dir |-> FirstWith(log, order, IF d \in active THEN {d} ELSE idle)]
  IN  [d \in Dir |-> IF d \in DOMAIN own THEN own[d]
                     ELSE IF place[d] = 0 THEN Null
                     ELSE log[order[place[d]]].tree[d]]

(***************************************************************************)
(* merge_targets: targets are split commits, each translated.              *)
(***************************************************************************)
\* The parents of an octopus: the independent ones first, then those whose
\* directory differs from the primary parent's.
AnyContent(c, primary) == TRUE  \* mutant: merge a commit that is there already
Differs(c, primary) == mono[primary].tree[hist.dir[c]] # c

OctopusParents(targets) ==
  LET ind  == Maximal(({head} \cup {map[c] : c \in ToSet(targets)}) \ {Null},
                      [m \in DOMAIN mono |-> mono[m].anc])
      Monos(S) == [i \in DOMAIN Within(targets, S) |-> map[Within(targets, S)[i]]]
      independent == {c \in ToSet(targets) : map[c] # head /\ map[c] \in ind}
      first == (IF head \in ind THEN <<head>> ELSE <<>>) \o Monos(independent)
      changed == {c \in ToSet(targets) \ independent : Differs(c, first[1])}
  IN  first \o Monos(changed)

\* A merge of translated commits that is not an octopus assumes that its
\* target is independent of the head.
MergeTarget(c) == <<map[c]>>  \* mutant: the branch is moved to the target

MergeParents(c) == IF head = Null THEN <<map[c]>> ELSE <<head, map[c]>>

\* The commit to continue from, and whether it is a merge written for it.
MergeTargets(targets, par, base) ==
  LET own == [d \in {hist.dir[c] : c \in ToSet(targets)} |->
                CHOOSE c \in ToSet(targets) : hist.dir[c] = d]
  IN  IF Len(par) = 1 THEN [at |-> par[1], log |-> mono]
      ELSE CommitTree(mono, par, Tree(mono, own, par, 1), base)

(***************************************************************************)
(* A run.                                                                  *)
(***************************************************************************)
\* The arguments: the heads recorded for the branch, and goals.
BeginInactive(b, g) ==        \* mutant: heads given do not activate directories
  /\ runs' = runs + 1
  /\ pc' = "find_parents"
  /\ br' = b /\ goal' = g
  /\ head' = ref[b].head /\ dhead' = ref[b].dhead /\ active' = {}
  /\ UNCHANGED <<hist, mono, map, ref, saved, todo, list, queue>>

Begin(b, g) ==
  /\ runs' = runs + 1
  /\ pc' = "find_parents"
  /\ br' = b
  /\ goal' = g
  /\ head' = ref[b].head
  /\ dhead' = ref[b].dhead
  /\ active' = {d \in Tracked[b] : ref[b].dhead[d] # Null}
  /\ UNCHANGED <<hist, mono, map, ref, saved, todo, list, queue>>

Goals(b) ==
  {g \in [Dir -> Commit \cup {Null}] :
     \A d \in Dir : IF d \in Tracked[b] THEN g[d] # Null /\ hist.dir[g[d]] = d
                    ELSE g[d] = Null}

\* find_dir_commit_parents_to_translate: what the goal has and no branch of
\* the directory has yet, parents first.
Unmerged(d) ==
  hist.anc[goal[d]] \ Ancestors(hist, {dhead[d]} \cup {ref[b].dhead[d] : b \in Branch})

Untranslated == {c \in Commit : map[c] = Null}

ParentsNewestFirst(d) ==      \* mutant: git-log without --reverse
  Within(LogOrder(hist, goal[d], Unmerged(d), TRUE), Untranslated)

ParentsToTranslate(d) ==
  Within(Reverse(LogOrder(hist, goal[d], Unmerged(d), TRUE)), Untranslated)

FindParentsToTranslate ==
  /\ pc = "find_parents"
  /\ todo' = [d \in Dir |-> IF d \in Source THEN ParentsToTranslate(d) ELSE <<>>]
  /\ pc' = "clean_heads"
  /\ UNCHANGED <<hist, mono, map, ref, saved, runs, br, goal, head, dhead,
                 active, list, queue>>

\* commit_source::clean_head
HeadBase(d) ==
  IF dhead[d] = Null THEN Null ELSE MergeBase(hist, dhead[d], goal[d])

\* clean_initial_source_heads, clean_initial_head: a head that the goal does
\* not descend from is rewound, and then the branch's head is given up.
CleanHeads ==
  /\ pc = "clean_heads"
  /\ LET base == [d \in Dir |-> HeadBase(d)]
     IN  IF \E d \in Source : dhead[d] # Null /\ base[d] = Null
         THEN pc' = "failed" /\ UNCHANGED <<head, dhead>>
         ELSE /\ pc' = "find_commits"
              /\ dhead' = base
              /\ head' = IF base = dhead THEN head ELSE Null
  /\ UNCHANGED <<hist, mono, map, ref, saved, runs, br, goal, active, todo,
                 list, queue>>

FParent(c, headp) ==
  [c |-> c, ct |-> hist.ct[c], headp |-> headp, translated |-> FALSE,
   locked |-> FALSE]

\* validate_last_ct: no commit is later than the one listed before it.
Fudged(s) == [i \in DOMAIN s |-> [s[i] EXCEPT !.ct = Min({s[j].ct : j \in 1..i})]]

\* list_first_ancestry_path: of the commits between the head and the goal, in
\* git's order, those that a listed one picked as its first parent on a path.
HeadParent(c, onPath) == SelectInSeq(hist.par[c], LAMBDA p : p \in onPath)

Visit(acc, c, onPath) ==
  LET headp == HeadParent(c, onPath)
  IN  IF c \notin acc.included THEN acc
      ELSE [included |-> acc.included \cup {hist.par[c][headp]},
            path     |-> Append(acc.path, FParent(c, headp))]

FirstAncestryPath(d) ==
  LET log == Within(LogOrder(hist, goal[d], hist.anc[goal[d]] \ hist.anc[dhead[d]], FALSE),
                    {c \in Commit : dhead[d] \in hist.anc[c]})
      onPath == ToSet(log) \cup {dhead[d]}
  IN  FoldLeft(LAMBDA acc, c : Visit(acc, c, onPath),
               [included |-> {goal[d]}, path |-> <<>>], log).path

\* list_first_parents: batches, until one ends in a translated commit.
FirstParents(d) ==
  LET line == FirstParentLine(hist, goal[d])
      Enough(n) == n >= Len(line) \/ map[line[n]] # Null
      n == Min({k \in {FirstBatch + i * NextBatch : i \in 0..Len(line)} : Enough(k)}
               \cup {Len(line)})
  IN  [i \in 1..Min({n, Len(line)}) |->
         FParent(line[i], IF hist.par[line[i]] = <<>> THEN 0 ELSE 1)]

\* commit_source::find_dir_commits
DirCommits(d) ==
  LET s == Fudged(IF dhead[d] = Null THEN FirstParents(d) ELSE FirstAncestryPath(d))
  IN  [i \in DOMAIN s |->
         [s[i] EXCEPT !.translated = \E j \in 1..i : map[s[j].c] # Null]]

IsUntranslated(f) == ~f.translated

\* find_dir_commits_to_match_and_update_head: further along first parents, to
\* commits no earlier than since.
FurtherParents(s, since) ==
  LET last == s[Len(s)]
      line == IF last.headp = 0 THEN <<>>
              ELSE FirstParentLine(hist, hist.par[last.c][last.headp])
      n    == Min({k \in DOMAIN line : hist.ct[line[k]] < since}
                  \cup {Len(line) + 1}) - 1
  IN  [i \in 1..n |-> [FParent(line[i], IF hist.par[line[i]] = <<>> THEN 0 ELSE 1)
                         EXCEPT !.translated = TRUE]]

\* lock_in_start_dir_commits
LockedIn(s) == [i \in DOMAIN s |-> [s[i] EXCEPT !.locked = TRUE]]

\* translation_queue::find_dir_commits.  A branch that has a head keeps the
\* translated commits on its path, to merge them one by one, unless its head
\* could be fast-forwarded into them.
FindDirCommits ==
  /\ pc = "find_commits"
  /\ LET listed == [d \in Dir |-> IF d \in Source THEN DirCommits(d) ELSE <<>>]
         Back(d) == Last(listed[d])
         oldest == [d \in Dir |-> SelectLastInSeq(listed[d], IsUntranslated)]
         pending == {d \in Source : oldest[d] # 0}
         lockIn == {d \in Source :
                      /\ listed[d] # <<>> /\ dhead[d] # Null
                      /\ \/ head = Null
                         \/ /\ map[Back(d).c] # Null
                            /\ head \notin mono[map[Back(d).c]].anc}
         since == Min({listed[d][oldest[d]].ct : d \in pending}
                      \cup {Back(d).ct : d \in lockIn})
         more == [d \in Dir |-> IF d \in Source /\ dhead[d] = Null
                                THEN FurtherParents(listed[d], since) ELSE <<>>]
         First(d) == LET f == Last(more[d])
                     IN  IF f.headp = 0 THEN Null ELSE hist.par[f.c][f.headp]
     IN  IF pending = {}
         THEN list' = listed /\ UNCHANGED <<dhead, active>>
         ELSE /\ list' = [d \in Dir |->
                   IF d \in lockIn THEN LockedIn(listed[d])
                   ELSE Fudged(listed[d] \o more[d])]
              /\ dhead' = [d \in Dir |-> IF more[d] = <<>> THEN dhead[d] ELSE First(d)]
              /\ active' = active \cup {d \in Dir : dhead'[d] # Null}
  /\ pc' = "order"
  /\ UNCHANGED <<hist, mono, map, ref, saved, runs, br, goal, head, todo, queue>>

\* by_non_increasing_commit_timestamp: translated commits are popped first.
Precedes(f, g) ==
  \/ f.ct > g.ct
  \/ f.ct = g.ct /\ ~f.translated /\ g.translated

\* std::merge of x and y, x first where neither precedes the other.
MergeNext(x, y, s) ==
  IF s.i < Len(x) /\ (s.j = Len(y) \/ ~Precedes(y[s.j + 1], x[s.i + 1]))
  THEN [s EXCEPT !.i = @ + 1, !.out = Append(@, x[s.i + 1])]
  ELSE [s EXCEPT !.j = @ + 1, !.out = Append(@, y[s.j + 1])]

Merged(x, y) ==
  LET merge[n \in 0..Len(x) + Len(y)] ==
        IF n = 0 THEN [i |-> 0, j |-> 0, out |-> <<>>]
        ELSE MergeNext(x, y, merge[n - 1])
  IN  merge[Len(x) + Len(y)].out

\* interleave_dir_commits merges the smallest list first, lists of one size
\* in any order; ff_translated_dir_commits then drops what the heads can be
\* moved over.
OrderDirCommits ==
  /\ pc = "order"
  /\ \E order \in SetToSeqs({d \in Source : list[d] # <<>>}) :
       /\ \A i, j \in DOMAIN order :
            i < j => Len(list[order[i]]) <= Len(list[order[j]])
       /\ LET q    == FoldLeft(LAMBDA s, d : Merged(list[d], s), <<>>, order)
              keep == SelectLastInSeq(q, LAMBDA f : ~f.translated \/ f.locked)
              Of(d) == {i \in keep + 1..Len(q) : hist.dir[q[i].c] = d}
          IN  /\ queue' = SubSeq(q, 1, keep)
              /\ dhead' = [d \in Dir |-> IF Of(d) = {} THEN dhead[d]
                                         ELSE q[Min(Of(d))].c]
              /\ active' = active \cup {d \in Dir : Of(d) # {}}
  /\ list' = Nothing
  /\ pc' = "merge_heads"
  /\ UNCHANGED <<hist, mono, map, ref, saved, runs, br, goal, head, todo>>

Take(merge) == mono' = merge.log /\ head' = merge.at

\* The heads the sources have after all that become one commit.
MergeHeads ==
  /\ pc = "merge_heads"
  /\ LET dirs == Within(DirList, {d \in Dir : dhead[d] # Null})
         targets == [i \in DOMAIN dirs |-> dhead[dirs[i]]]
         par == OctopusParents(targets)
     IN  IF \E c \in ToSet(targets) : map[c] = Null
         THEN pc' = "failed" /\ UNCHANGED <<mono, head>>
         ELSE /\ pc' = "fast_forward"
              /\ IF targets = <<>> THEN UNCHANGED <<mono, head>>
                 ELSE Take(MergeTargets(targets, par, Null))
  /\ UNCHANGED <<hist, map, ref, saved, runs, br, goal, dhead, active, todo,
                 list, queue>>

\* With a head, the code compares it to a split commit, and they differ.
FastForward ==
  /\ pc = "fast_forward"
  /\ LET last == Last(queue)
         d    == hist.dir[last.c]
         keep == SelectLastInSeq(queue,
                   LAMBDA f : ~f.translated \/ hist.dir[f.c] # d)
     IN  IF queue = <<>> \/ head # Null \/ ~last.translated
         THEN UNCHANGED <<head, dhead, active, queue>>
         ELSE /\ queue' = SubSeq(queue, 1, keep)
              /\ dhead' = [dhead EXCEPT ![d] = queue[keep + 1].c]
              /\ head' = map[queue[keep + 1].c]
              /\ active' = active \cup {d}
  /\ pc' = "interleave"
  /\ UNCHANGED <<hist, mono, map, ref, saved, runs, br, goal, todo, list>>

\* translate_commit: the parents but the one at headp are the mono commits of
\* the split commit's parents.
TranslateCommit(acc, c, par, headp) ==
  LET new == CommitTree(acc.log, par,
                        Tree(acc.log, [d \in {hist.dir[c]} |-> c], par, headp), c)
  IN  IF acc.failed \/ Null \in ToSet(par) \/ acc.map[c] \notin {Null, new.at}
      THEN [acc EXCEPT !.failed = TRUE]
      ELSE [log |-> new.log, map |-> [acc.map EXCEPT ![c] = new.at],
            failed |-> FALSE]

Parents(acc, c) == [i \in DOMAIN hist.par[c] |-> acc.map[hist.par[c][i]]]

TranslateSide(acc, c) == TranslateCommit(acc, c, Parents(acc, c), 0)

\* The parent on the path is replaced by the head; a root gets the head as
\* its parent.
TranslateOnFirstParent(acc, f) ==   \* mutant: always the first parent
  LET par == IF f.headp # 0 THEN [Parents(acc, f.c) EXCEPT ![1] = head]
             ELSE IF head # Null THEN <<head>> ELSE <<>>
  IN  TranslateCommit(acc, f.c, par, f.headp)

TranslateOnHead(acc, f) ==
  LET par == IF f.headp # 0 THEN [Parents(acc, f.c) EXCEPT ![f.headp] = head]
             ELSE IF head # Null THEN <<head>> ELSE <<>>
  IN  TranslateCommit(acc, f.c, par, f.headp)

\* interleave, a commit to translate: the side commits before it, then it.
InterleaveUntranslated ==
  /\ pc = "interleave" /\ queue # <<>> /\ ~Last(queue).translated
  /\ LET f == Last(queue)
         d == hist.dir[f.c]
         n == SelectInSeq(todo[d], LAMBDA c : c = f.c)
         side == FoldLeft(TranslateSide, [log |-> mono, map |-> map, failed |-> FALSE],
                          SubSeq(todo[d], 1, n - 1))
         done == TranslateOnHead(side, f)
     IN  IF n = 0 \/ done.failed
         THEN pc' = "failed" /\ UNCHANGED <<mono, map, head, dhead, active, todo, queue>>
         ELSE /\ mono' = done.log
              /\ map' = done.map
              /\ head' = done.map[f.c]
              /\ dhead' = [dhead EXCEPT ![d] = f.c]
              /\ active' = active \cup {d}
              /\ todo' = [todo EXCEPT ![d] = SubSeq(@, n + 1, Len(@))]
              /\ queue' = Front(queue)
              /\ UNCHANGED pc
  /\ UNCHANGED <<hist, ref, saved, runs, br, goal, list>>

\* interleave, a commit translated on another branch: merge it.
InterleaveTranslated ==
  /\ pc = "interleave" /\ queue # <<>> /\ Last(queue).translated
  /\ LET c   == Last(queue).c
         par == MergeParents(c)
     IN  /\ Take(MergeTargets(<<c>>, par, c))
         /\ dhead' = [dhead EXCEPT ![hist.dir[c]] = c]
         /\ active' = active \cup {hist.dir[c]}
  /\ queue' = Front(queue)
  /\ UNCHANGED <<hist, map, ref, saved, runs, pc, br, goal, todo, list>>

\* merge_goals, and then the caller updates the refs of the branch and saves
\* the database.
MergeGoals ==
  /\ pc = "interleave" /\ queue = <<>>
  /\ LET dirs == Within(DirList, {d \in Dir : goal[d] # dhead[d]})
         targets == [i \in DOMAIN dirs |-> goal[dirs[i]]]
         par == OctopusParents(targets)
     IN  IF \E c \in ToSet(targets) : map[c] = Null
         THEN pc' = "failed" /\ UNCHANGED <<mono, head, active, dhead>>
         ELSE /\ pc' = "publish"
              /\ IF targets = <<>> THEN UNCHANGED <<mono, head, active, dhead>>
                 ELSE /\ Take(MergeTargets(targets, par, Null))
                      /\ dhead' = goal
                      /\ active' = Source
  /\ UNCHANGED <<hist, map, ref, saved, runs, br, goal, todo, list, queue>>

Reset ==
  /\ pc' = "idle"
  /\ goal' = NoHeads /\ head' = Null /\ dhead' = NoHeads /\ active' = {}
  /\ todo' = Nothing /\ list' = Nothing /\ queue' = <<>>
  /\ br' = AnyBranch
  /\ UNCHANGED <<hist, mono, runs>>

Publish ==
  /\ pc = "publish"
  /\ ref' = [ref EXCEPT ![br] = [head |-> head, dhead |-> dhead]]
  /\ saved' = map
  /\ Reset
  /\ UNCHANGED map

\* The run failed: the next one starts from the saved database.
GiveUp ==
  /\ pc = "failed"
  /\ map' = saved
  /\ Reset
  /\ UNCHANGED <<ref, saved>>

Step ==
  \/ FindParentsToTranslate \/ CleanHeads \/ FindDirCommits \/ OrderDirCommits
  \/ MergeHeads \/ FastForward \/ InterleaveUntranslated \/ InterleaveTranslated
  \/ MergeGoals \/ Publish \/ GiveUp

Next ==
  \/ Step
  \/ /\ pc = "idle" /\ runs < MaxRuns
     /\ \E b \in Branch : \E g \in Goals(b) : Begin(b, g)

Spec == Init /\ [][Next]_vars

(***************************************************************************)
(* Properties                                                              *)
(***************************************************************************)
\* Mono commits descend from earlier ones and hold, in each directory, content
\* of that directory; heads and the map name commits that exist.
TypeOK ==
  /\ \A m \in DOMAIN mono :
       /\ ToSet(mono[m].par) \subseteq 1..(m - 1)
       /\ \A d \in Dir : mono[m].tree[d] \in {Null} \cup {c \in Commit : hist.dir[c] = d}
  /\ map \in [Commit -> 0..Len(mono)] /\ saved \in [Commit -> 0..Len(mono)]
  /\ head \in 0..Len(mono)
  /\ \A b \in Branch : ref[b].head \in 0..Len(mono)
  /\ \A d \in Dir : /\ dhead[d] \in {Null} \cup {c \in Commit : hist.dir[c] = d}
                    /\ dhead[d] # Null => d \in active
  /\ active \subseteq Dir
  /\ pc = "idle" => NoJob

Dated == \A c \in Commit : \A p \in ToSet(hist.par[c]) : hist.ct[p] < hist.ct[c]

\* "List "first" side of ancestry path" (docs/mt-config.md): what is listed
\* for a directory leads from its goal, parent by parent, to its head.
PathReachesHead ==
  pc = "order" =>
    \A d \in Source :
      LET s == list[d]
          next == [i \in DOMAIN s |-> IF i = Len(s) THEN dhead[d] ELSE s[i + 1].c]
      IN  s # <<>> /\ dhead[d] # Null =>
            /\ s[1].c = goal[d]
            /\ \A i \in DOMAIN s : hist.par[s[i].c][s[i].headp] = next[i]

\* Translating keeps ancestry: the mono commit of a split commit descends from
\* those of its parents, whatever order and head it was translated on.
AncestryKept ==
  \A c \in Commit : map[c] # Null =>
    \A p \in ToSet(hist.par[c]) : map[p] # Null /\ map[p] \in mono[map[c]].anc

AncestryKeptIfDated == Dated => AncestryKept

\* While a run interleaves, the head has the content of the head of every
\* directory it merged, and descends from its mono commit.
HeadInStep ==
  /\ pc \in {"interleave", "publish"} /\ head # Null =>
       \A d \in Source : dhead[d] # Null =>
         /\ mono[head].tree[d] = dhead[d]
         /\ map[dhead[d]] \in mono[head].anc
  /\ pc = "publish" => dhead = goal

\* A run fails only when a directory's recorded head and its goal have no
\* common ancestor: whatever order commits were translated in, and on whatever
\* branches, the translations a run needs are found or made.
FailsOnlyWithoutBase ==
  pc = "failed" =>
    \E d \in Source : /\ ref[br].dhead[d] # Null
                      /\ hist.anc[ref[br].dhead[d]] \cap hist.anc[goal[d]] = {}

\* A run with the goals that the branch already has leaves the branch as it
\* is: it writes no new merge on top.
RerunIsIdle ==
  [][pc = "publish" /\ goal = ref[br].dhead => ref' = ref]_vars

\* Interleaving keeps the promise to the branches (module BranchPromise).
TreeOf(b) == IF ref[b].head = Null THEN NoHeads ELSE mono[ref[b].head].tree
MergedIn(b) == IF ref[b].head = Null THEN {}
               ELSE {c \in Commit : saved[c] \in mono[ref[b].head].anc}

Abstract == INSTANCE BranchPromise WITH
  Directory <- Dir, Branches <- Branch, TrackedBy <- Tracked, history <- hist,
  at <- [b \in Branch |-> TreeOf(b)], merged <- [b \in Branch |-> MergedIn(b)],
  known <- saved

PromiseKept == Abstract!Promise
=============================================================================
