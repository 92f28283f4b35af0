-------------------------------- MODULE GitRevs --------------------------------
(***************************************************************************)
(* The SVN revisions of commits (git_cache.h: the memos of revisions and   *)
(* of monorepo commits, compute_mono, compute_rev, set_base_rev), as the   *)
(* translation of one directory uses them over several runs of split2mono. *)
(* A commit of llvm.org is recognised by the revision in its message, and  *)
(* its monorepo commit is found in svn2git.  Any other commit is           *)
(* translated, and the newest revision among its parents is stored as its  *)
(* base in the svnbase table; from the parent with the newest base come    *)
(* the directories that nobody tracks (index_parent_tree_items), of which  *)
(* there is one here.                                                      *)
(*                                                                         *)
(* The split commits are numbered, parents before children; the first are  *)
(* those of llvm.org, and their numbers are their SVN revisions.  A number *)
(* also names the monorepo commit: that of llvm.org, or the one translated *)
(* from the split commit.  id is the revision that a message names (author *)
(* and committer being the same): a downstream commit that has one is a    *)
(* cherry-pick.                                                            *)
(***************************************************************************)
EXTENDS Integers, Sequences, FiniteSetsExt, Functions

CONSTANTS
  Upstream,    \* bound: the commits of llvm.org
  MaxCommits,  \* bound: commits in all
  Branch,      \* branches that track the directory
  MaxRuns      \* bound: runs of split2mono

\* What the constants must be.
RevsAssumption == Upstream \in Nat \ {0} /\ MaxCommits \in Nat /\ MaxRuns \in Nat

VARIABLES
  par,      \* par[c]: the parents of split commit c
  id,       \* id[c]: the revision named in its message, or 0
  tip,      \* tip[b]: the split commit b was last published at, or 0
  base,     \* the svnbase table; its domain is that of the commits table too
  content,  \* content[c]: the revision of the untracked directory in c
  run,      \* the run in progress
  memo,     \* what this process knows
  runs

history == <<par, id>>
vars == <<history, tip, base, content, run, memo, runs>>
tables == <<base, content>>

Commits == 1 .. Len(par)
Revs == 1 .. Upstream
Parents(c) == Range(par[c])
FirstParent(c) == IF par[c] = <<>> THEN 0 ELSE par[c][1]
IsMerge(c) == Len(par[c]) > 1

\* Numbers grow from parents to children.
Ancestors(c) ==
  LET anc[d \in Commits] == {d} \cup UNION {anc[p] : p \in Parents(d)}
  IN  IF c = 0 THEN {} ELSE anc[c]
FirstParents(c) ==
  LET line[d \in Commits] ==
        {d} \cup (IF FirstParent(d) = 0 THEN {} ELSE line[FirstParent(d)])
  IN  IF c = 0 THEN {} ELSE line[c]

Empty == [c \in {} |-> 0]
NoRun == [at |-> "none", branch |-> "none", goal |-> 0, listed |-> {}, todo |-> {}]
\* split and mono: the revisions noted; monos: the monorepo commits noted, and
\* which of them were found by their revision; being: being_translated.
NoMemo == [split |-> Empty, mono |-> Empty, monos |-> Empty, based |-> {}, being |-> {}]

Init ==
  /\ par = [c \in Revs |-> IF c = 1 THEN <<>> ELSE <<c - 1>>]
  /\ id = [c \in Revs |-> c]
  /\ tip = [b \in Branch |-> 0]
  /\ base = Empty /\ content = Empty
  /\ run = NoRun /\ memo = NoMemo
  /\ runs = 0

Put(f, x, y) == [z \in DOMAIN f \cup {x} |-> IF z = x THEN y ELSE f[z]]

(***************************************************************************)
(* Revisions and monorepo commits.                                         *)
(***************************************************************************)
\* A mutant of Translated: only commits of earlier runs are known.
TranslatedBefore(m, c) ==
  c \in (DOMAIN base \cup DOMAIN m.monos) \ m.based

\* The first parent of a commit is in the table, or about to be.
Translated(m, c) ==
  \/ c \in m.being
  \/ c \in (DOMAIN base \cup DOMAIN m.monos) \ m.based

\* compute_rev of a split commit; 0 when it has none.
SplitRev(m, c) ==
  IF c \in DOMAIN m.split THEN m.split[c]
  ELSE IF IsMerge(c) \/ Translated(m, FirstParent(c)) THEN 0
  ELSE id[c]

\* What compute_mono(c) leaves in the memo.
KnowMono(m, c) ==
  IF c \in DOMAIN m.monos THEN m
  ELSE IF c \in DOMAIN base THEN [m EXCEPT !.monos = Put(@, c, c)]
  ELSE LET r == SplitRev(m, c)
           noted == IF IsMerge(c) \/ Translated(m, FirstParent(c)) THEN m
                    ELSE [m EXCEPT !.split = Put(@, c, r)]
       IN  IF r = 0 THEN noted
           ELSE [noted EXCEPT !.monos = Put(@, c, r), !.based = @ \cup {c},
                              !.mono = Put(@, r, r)]

\* compute_rev of a monorepo commit as one: the memo, the table or llvm-rev.
MonoRev(m, c) ==
  IF c \in DOMAIN m.mono THEN m.mono[c]
  ELSE IF c \in DOMAIN base THEN base[c] ELSE c

\* compute_rev with is_split of the monorepo commit c: unless it is in the
\* memo, it is taken for a split commit, and neither of its parents nor c
\* itself is one that the tables know.
ParentRev(m, c) ==
  IF c \in DOMAIN m.mono THEN m.mono[c]
  ELSE IF IsMerge(c) \/ c \in Revs THEN 0
  ELSE id[c]

\* What is noted of it, for the monorepo commits of all parents.
KnowParentRevs(m, cs) ==
  [m EXCEPT !.mono = [c \in DOMAIN @ \cup {d \in cs : ~IsMerge(d)} |-> ParentRev(m, c)]]

\* compute_mono of one parent after the other.
KnowMonos(m, cs) ==
  LET known[i \in 0 .. Len(cs)] == IF i = 0 THEN m ELSE KnowMono(known[i - 1], cs[i])
  IN  known[Len(cs)]

Abs(r) == IF r < 0 THEN -r ELSE r

\* A downstream commit or merge is made, or a revision is cherry-picked onto
\* a downstream commit.
Commit ==
  /\ run.at = "none" /\ Len(par) < MaxCommits
  /\ \/ \E p \in Commits : par' = Append(par, <<p>>) /\ id' = Append(id, 0)
     \/ \E p \in Commits : \E q \in Commits \ Ancestors(p) :
          par' = Append(par, <<p, q>>) /\ id' = Append(id, 0)
     \/ \E p \in Commits \ Revs, r \in Revs :
          par' = Append(par, <<p>>) /\ id' = Append(id, r)
  /\ UNCHANGED <<tip, tables, run, memo, runs>>

(***************************************************************************)
(* A run: find_dir_commit_parents_to_translate, merge_heads, interleave.   *)
(***************************************************************************)
\* git log of the goal, without what the mt-split refs reach.
Start ==
  /\ run.at = "none" /\ runs < MaxRuns
  /\ \E b \in Branch : \E g \in Commits \ {tip[b]} :
       /\ tip[b] # 0 => tip[b] \in FirstParents(g)
       /\ run' = [at |-> "list", branch |-> b, goal |-> g, todo |-> {},
                  listed |-> Ancestors(g) \ UNION {Ancestors(tip[o]) : o \in Branch}]
  /\ runs' = runs + 1
  /\ UNCHANGED <<history, tip, tables, memo>>

\* parse_untranslated_commit, parents first: a commit with a monorepo commit
\* is skipped.
List ==
  /\ run.at = "list" /\ run.listed # {}
  /\ LET c == Min(run.listed)
         m == KnowMono(memo, c)
         skip == c \in DOMAIN m.monos
     IN  /\ memo' = IF skip THEN m ELSE [m EXCEPT !.being = @ \cup {c}]
         /\ run' = [run EXCEPT !.listed = @ \ {c},
                               !.todo = IF skip THEN @ ELSE @ \cup {c}]
  /\ UNCHANGED <<history, tip, tables, runs>>

\* The head is the newest commit of the goal's first parents that has a
\* monorepo commit.  merge_heads asks for the revision of the latter.
FindHead ==
  /\ run.at = "list" /\ run.listed = {}
  /\ LET heads == FirstParents(run.goal) \ memo.being
         m == KnowMono(memo, Max(heads))
         head == m.monos[Max(heads)]
     IN  memo' = IF heads = {} THEN memo
                 ELSE [m EXCEPT !.mono = Put(@, head, MonoRev(m, head))]
  /\ run' = [run EXCEPT !.at = "translate"]
  /\ UNCHANGED <<history, tip, tables, runs>>

\* A mutant of Newer: revisions are compared with their sign.
NewerSigned(old, new) == old < new

\* index_parent_tree_items: the newer base wins, and downstream content if it
\* is the same one.
Newer(old, new) ==
  \/ Abs(old) < Abs(new)
  \/ Abs(old) = Abs(new) /\ old > 0 /\ new < 0

\* update_revs, over the parents.
NewBase(rs) == -Max({Abs(r) : r \in Range(rs)})

\* translate_parents, construct_tree, set_base_rev and set_mono.
Translate ==
  /\ run.at = "translate" /\ run.todo # {}
  /\ LET c == Min(run.todo)
         known == KnowMonos(memo, par[c])
         monos == [i \in DOMAIN par[c] |-> known.monos[par[c][i]]]
         rs == [i \in DOMAIN monos |-> ParentRev(known, monos[i])]
         winner == Min({i \in DOMAIN rs : \A j \in DOMAIN rs : ~Newer(rs[i], rs[j])})
         from == monos[winner]
     IN  /\ base' = Put(base, c, NewBase(rs))
         /\ content' = Put(content, c,
                           IF from \in DOMAIN content THEN content[from] ELSE from)
         /\ memo' = LET m == KnowParentRevs(known, Range(monos))
                    IN  [m EXCEPT !.monos = Put(@, c, c),
                                  !.mono = Put(@, c, NewBase(rs))]
  /\ run' = [run EXCEPT !.todo = @ \ {Min(@)}]
  /\ UNCHANGED <<history, tip, runs>>

\* The process ends; the branch and its mt-split ref are published.
End ==
  /\ run.at = "translate" /\ run.todo = {}
  /\ tip' = [tip EXCEPT ![run.branch] = run.goal]
  /\ run' = NoRun /\ memo' = NoMemo
  /\ UNCHANGED <<history, tables, runs>>

Next == Commit \/ Start \/ List \/ FindHead \/ Translate \/ End

Spec == Init /\ [][Next]_vars

-----------------------------------------------------------------------------
\* The types of the variables.
TypeOK ==
  /\ Len(par) = Len(id) /\ \A c \in Commits : id[c] \in {0} \cup Revs
  /\ tip \in [Branch -> 0 .. Len(par)]
  /\ DOMAIN base \subseteq Commits /\ DOMAIN content = DOMAIN base
  /\ \A c \in DOMAIN base : -base[c] \in 0 .. Upstream /\ content[c] \in Commits
  /\ run.at \in {"none", "list", "translate"}
  /\ memo.being \subseteq Commits /\ memo.based \subseteq DOMAIN memo.monos
  /\ DOMAIN memo.mono \subseteq Commits /\ DOMAIN memo.split \subseteq Commits
  /\ runs \in 0 .. MaxRuns

\* The newest revision of llvm.org that c contains.
Newest(c) == Max(Ancestors(c) \cap Revs)

\* "Newer base SVN revision wins": the base stored for a commit is the newest
\* revision that it contains, and a directory that nobody tracks is as of that
\* revision, whichever parent brought it and whatever process translated that.
NewestBaseWins ==
  \A c \in DOMAIN base : base[c] = -Newest(c) /\ content[c] = Newest(c)

\* The same, as far as one process translates.
NewestBaseWinsInOneRun == runs <= 1 => NewestBaseWins

\* A cherry-pick names a revision in its message and is not that revision:
\* every downstream commit that is published has been translated, and only
\* these have, in whichever run its first parent was translated.
DownstreamTranslated ==
  /\ DOMAIN base \cap Revs = {}
  /\ \A b \in Branch : Ancestors(tip[b]) \subseteq Revs \cup DOMAIN base
=============================================================================
