# Models of the apple-llvm-infrastructure-tools

TLA+ specifications of the tools that turn split repositories into a monorepo:
the `split2mono` database and its C++ driver (`src/src`), the shell commands
around it (`src/libexec/apple-llvm`), and the Python tools
(`src/git_apple_llvm`).  Every definition is translated from the source at the
lines that `PROJECT.json` gives under `map`; where a comment or a document
promises something, the promise is a property.

To check a module: `tlc -config MCSplitMonoTable.cfg MCSplitMonoTable`; to check
the proofs: `tlapm SplitMonoTable_proofs.tla`, and so for each `*_proofs` module.

## 1. The system

A *split repository* holds one project (llvm, clang, ...).  `git apple-llvm mt
generate` runs in CI jobs and translates the commits of split branches into
commits of a generated *monorepo*.  There is one job per mt-config; nothing but a
lease tells two of its runs apart that overlap ("check for races").  Each machine
that runs it is an *agent*, with refs that it keeps from run to run.  Which monorepo commit
a split commit became is kept in a database, *mt-db*, that is a branch of the
monorepo.  A downstream monorepo merges the database of its upstream and
continues from the upstream's commits.

    split repos ──mirror──▶ agent: refs, mt-db worktree ──push──▶ monorepo (branches, mt-db)
                               │                        └─push──▶ splitrefs (mt-split)
                               ├─ mt translate-ref ─▶ split2mono interleave-commits
                               │                          ├─ commits, svnbase tables   (read, insert)
                               │                          ├─ svn2git table             (read)
                               │                          └─ git log / hash-object      (read, create)
                               └─ upstream mt-db ─▶ split2mono upstream / svn2git

| component | state it keeps | operations | what makes it correct | what makes it hard |
|---|---|---|---|---|
| split2mono table (`data_query.h`, `index_query.h`, `file_stream.h`) | append-only data file; trie index; stdio buffers | lookup, insert, insert-or-check, open, close | every key leads to its own record; written once; readers and killed writers lose nothing | several writes per insertion, two buffered files, failures and kills between any two of them |
| split2mono database (`split2mono.cpp`, `split2monodb.h`) | two tables, file `upstreams` | create, insert, upstream, check-upstream | recorded upstreams are really merged | merges that fail half-way, cascades, truncate-then-write |
| mt-db (`mt_db.sh`) | ref, worktree | init, save, upstream | a session starts from a saved version | crash between the two commits that make it |
| mt generate, mt translate-ref | local refs, mirrors, mt-db; the remotes are shared | setup, fetch, generate, push | a split commit is translated once | racing agents, leases, kills between pushes |
| commit interleaver, translation queue, dir list | queue of sources, heads per directory, the last commit | interleave, translate parents, make trees | commits in order, parents translated, trees assembled from the right directory | merges, several directories, heads that are stale |
| commit source | first-parent list and commits of one directory | list, skip, find parents | everything since the goal's translated ancestor | boundaries |
| git cache (`git_cache.h`), sha1 pool | memoised answers of git and of the tables; tries in memory | note, compute; lookup, insert | agrees with git and with other processes; one entry per name | which revision a commit has depends on what was asked before |
| calls of git (`call_git.h`, `read_all.h`) | pipes, a child process | call | the reply is git's whole output | input is written before output is read; full pipes; signals; gits that die |
| svn2git (`svn2git.cpp`, `mt llvm-svn2git-map`) | sparse file of commits by revision | lookup, insert, map what is not mapped | ancestors of what is mapped are mapped | no index and no journal; runs that end early with status 0 |
| mt split refs | none | read-only walks, pushes | | monotonicity of bisect |
| fwd (`git-apple-llvm-fwd`) | refs of its clone, as cached remotes | fetch, compare, push, record | forwards every ref in the end | pushes that are refused in part; kills before the record; remotes that are source and destination |
| automerger tools (`am/`) | local copies of refs | zippered merge, status | merges keep the branches in step and leave none out | greedy choice |
| push, pr, ci | refs; services | | | services |
| update checker (`check_for_updates.py`) | marker file | once a day | | marker before pull |

The hazards of this code, each with its line and the properties that would catch
it, are listed in `PROJECT.json` under `hazards`.

## 2. Modules

| module | models | status |
|---|---|---|
| `CommitMap` | what a table promises: a write-once map with save and revert | abstract |
| `SplitMonoTable` | the table on disk | checked, implements `CommitMap`, proved |
| `UpstreamMerge` | cascading databases: insert, upstream, check-upstream, sessions of mt-db | checked, proved |
| `TranslateOnce` | what the published monorepo promises | abstract |
| `MtGenerate` | agents that generate and push | checked, implements `TranslateOnce`, both proved |
| `MtUpstream` | agents of a downstream and those of its upstream | checked, proved |
| `SplitHistory` | the split repositories and what git answers about them | constant-level |
| `BranchPromise` | what interleaving promises of the branches | abstract |
| `CommitInterleaver` | `split2mono interleave-commits` | checked, implements `BranchPromise`, both proved |
| `DirList` | the directories of a run and their masks | checked, proved |
| `GitRevs` | SVN revisions, svnbase and what they decide | checked, proved |
| `Sha1Trie` | the tries in memory | checked, proved |
| `GitCalls` | calls of git | checked, proved |
| `Svn2Git` | the svn2git file and the command that fills it | checked, proved |
| `Fwd` | `git apple-llvm fwd` | checked; its types proved |
| `ZipperedMerge` | the zippered merge of the automerger | checked, proved |
| `Parts` | the parts that share no state, side by side | checked, proved |
| `*_proofs` | theorems about the module of that name; `InterleaverFunctions_proofs` has the lemmas about the functions of `CommitInterleaver` | proved |
| `MC*` | instances for TLC | |

`UpstreamMerge` uses a table as the map of `CommitMap` (with the order of its
records), which is what `SplitMonoTable` is shown to implement; `MtGenerate`
uses a database as one sequence and `MtUpstream` as two sets, the merge of
`UpstreamMerge` being one step of theirs; `CommitInterleaver` uses a database as
a map, and its own runs are the one step `Translate` of `MtGenerate`; `GitRevs`
takes up the second table, which that leaves out, for one directory.  The
modules form a tower in which each level uses the promise of the level below.
`DirList`, `Sha1Trie`, `GitCalls`, `Svn2Git`, `Fwd` and `ZipperedMerge` share no
state with the others; `Parts` puts them side by side, with `GitRevs` and two
instances of the table: its variable `part` says which one a behaviour is about.
So one run checks them all, and one module, `Parts_proofs`, has the theorems of
those that have no module of their own.

### SplitMonoTable and CommitMap

`data` and `index` are what the process reads through its streams, `diskData`
and `diskIndex` what the files hold; a write reaches the file at the *next* seek
of its stream (`FlushIndex`, `FlushData`) or at its close.  One action is one
seek-and-write, so the model stops, fails or is killed between any two writes.

- The bits of a key are grouped as the trie consumes them (`Digit`): 14 bits at
  the root, 6 below.  Nothing depends on the widths, and `Byte` keeps the one
  detail of the bitmap that matters, that its bits are written a byte at a time.
- `Descend` is one round of `index_query::lookup`; `FoundMapped`,
  `LookupAbsent`, `InsertNew` and `InsertCollision` are the outcomes of
  `lookup_data_impl` and `insert_data_impl`.  `FoundUnreadable`, an index entry
  without its record, exists only where the files of a killed process are opened
  as they are (`NextByHand` of `MCSplitMonoTable`); nothing else reaches it.
- `stack`, `top`, `half` are `trie_update_stack` and the position in it.  The
  entries are computed before the first write, as in the code; each is written
  by `WriteEntry` and then `WriteBitmap`, unless `skip` (`skip_bitmap_update`).
- `Fail` is an error return (the destructors flush), `Kill` a signal (they do
  not).  `Reset` is `mt_db_make_worktree`, `Save` is `mt_db_save`.
- `owner` is a history variable: the key and depth a node was made for.

Abstractions: files are sequences of records, not of bytes (a torn record is not
modelled); the number of a node or record is unbounded (23 bits in the code,
listed as a hazard); keys differ within `Depth` groups.

### UpstreamMerge

`db[r]` has the records of both tables in order (`log`), the mappings an index
leads to (`map`; a record without an index entry is a failed insertion), and the
file `upstreams` (`ups`, `file`).  `main_upstream` is `BeginMerge` (opening,
refusals, merging of the upstream's upstreams in memory), one `MergeRecord` per
record of `merge_tables`, `MergeSvnbase`, `Truncate`, `Rewrite`; it may fail at
any step.  A merge reads a snapshot, as agents fetch the upstream's mt-db before
they open it.  The file `upstreams` keeps only what the parser tells apart: a
file that parses, an empty one (read as a database without a name), and one
that no longer parses.

### MtGenerate and TranslateOnce

A split commit is its position in the one line of commits; a monorepo commit is
the sequence of the agents that made it and its ancestors, so that two agents
that translate the same commit make different commits, and "fast-forward" is
"prefix".  The mt-db is the sequence of the monorepo commits that the split
commits were translated to.

- `Start`, `SetupMono`, `SetupSources` are `mt_setup`: three fetches, at three
  moments, in the reverse of the order in which an mt-config declares its
  repositories (`reverse_lines`): splitrefs, monorepo, sources.
- `InitReset`, `InitMakeRef`, `InitMakeWorktree`, `InitOneCommit` are
  `mt_db_init`.
- `Fetch` is `mt_fetch_ref`, `Check` the comparison of mt-split and sources,
  `Translate` is `mt translate-ref` (the databases are files in the worktree,
  the refs move together), `HeadNotTranslated` its error, `Save` is
  `mt_db_save`.
- `Push` and `PushRejected` are `mt_push_ref`: branch and mt-db in one atomic
  push with a lease on the mt-db that was mirrored at setup.  The push to the
  local mirror and the one to the remote are one action: a failure between them
  leaves a mirror that the next setup overwrites (`+refs/*`), as a kill before
  the push does.
- `PushSplit` and `PushSplitRejected` are `mt_push_splitrefs`.
- `Kill` ends a run between any two steps.  The agent's refs and mt-db remain.

In this module a branch has one directory and the mt-config no upstream: several
directories per branch, tags, repeats, `splitrefs`, `--no-setup` and `--clean`
are left out; `mapping` is in `Svn2Git`.

### MtUpstream

The upstream step of `mt generate`, for several agents of a downstream while the
upstream's agents push.  Of those there are two steps, `UpstreamPush` (branch and
mt-db, atomically) and `UpstreamPushSplit`; what they do among themselves is
`MtGenerate`.  The downstream's own commits are left out, and a commit is a
position in the upstream's line.

- `Start` and `SetupUpstream` are `mt_setup`, at two moments: the downstream's
  repositories are fetched before the upstream's sources.
- `FetchFirst` and `FetchSecond` are `fetch_destinations`, in the order in which
  the mt-config declares them (`Declared`); `Work` is the upstream's own check
  for work on those mirrors, `Retry` and `SyncFails` are `sync_destinations`.
- `Merge` is `split2mono upstream`, with the refusals (`Refused`) that
  `UpstreamMerge` details; `PushMtDb` pushes the merged mt-db with a lease.
- `Generate`, `NoWork`, `Push` and `Rejected` are the rest of the run: whatever
  the mt-db does not know is translated.

### SplitHistory, CommitInterleaver and BranchPromise

`SplitHistory` holds a history of split commits (parents, dates, directory) and
the questions put to git: `LogOrder` is git-log's order, by date from a queue in
which equal dates keep their order, `MergeBase` is `git merge-base`, `Maximal`
`--independent`.

`CommitInterleaver` runs on one such history.  A run is `Begin` with the heads
the branch recorded and any goals, then the passes of `run_impl` in their order,
one action each, then `Publish`, which is `mt translate-ref` updating the branch
and its mt-split refs and mt-db saving the map; or `GiveUp`, after which the next
run finds the saved map (`mt_db_init` resets the worktree).  A run that is killed
leaves what one that fails leaves.

| action | code | what it does |
|---|---|---|
| `FindParentsToTranslate` | `find_dir_commit_parents_to_translate` | the commits no branch has, parents first |
| `CleanHeads` | `clean_initial_source_heads`, `clean_initial_head` | rewinds the heads the goals do not descend from |
| `FindDirCommits` | `find_dir_commits` of queue and sources | the path from each goal to its head, or first parents; marks what is translated; locks in |
| `OrderDirCommits` | `interleave_dir_commits`, `ff_translated_dir_commits` | one queue by date; moves heads over what is translated |
| `MergeHeads` | `merge_heads` | one commit of all the heads |
| `FastForward` | `fast_forward` | starts a branch without head |
| `InterleaveUntranslated` | `interleave`, `translate_commit` | side commits, then the commit on top of the head |
| `InterleaveTranslated` | `interleave`, `merge_targets` | merges a commit translated elsewhere |
| `MergeGoals` | `merge_goals` | merges the goals that the queue did not reach |

A mono commit is a record of its parents, its tree (a split commit for each
directory, which stands for its content) and the split commit it was made from;
one that is made twice is one object, as in git.  Directories with equally many
listed commits are merged in any order, because the heap's comparison leaves the
order open.  Goals are arbitrary: ahead, behind, or on another line.

`BranchPromise` knows only the published branches: after a run a branch has the
content of one commit per tracked directory and, where commits are dated after
their parents, their whole history; it keeps what it had if the new commits
descend from the old; the other branches and the mono commit of every split
commit stay as they were.

### DirList

`list` is the sorted vector of directories and `tracked`, `repeated`, `active`
are the masks, sets of positions.  `AddDir` is one `<head>:dir` argument of
interleave-commits: `Position` is `lookup_dir`'s bisection with its comparison of
as many characters as the name has, `MaskInsert` moves the bits as
`dir_mask::insert` does.  `EndDirs` is the end of the directories, `SetHead` the
activation of a directory whose first commit is translated.  `declared` is a
history variable.

### GitRevs

A split commit is a number, smaller for its ancestors; those of llvm.org are
their own revisions, and a downstream commit may name a revision in its message
(a cherry-pick).  `base` is the svnbase table, `memo` what the process has noted.
`Start` to `End` are a run: `List` is `parse_untranslated_commit` for each commit
listed, which skips those that have a monorepo commit (`KnowMono` is
`compute_mono` and what it leaves noted), `FindHead` the question `merge_heads`
asks, `Translate` is `translate_parents` (which asks for the revision of a mono
commit as if it were a split commit: `ParentRev`), `construct_tree` for one
directory that nobody tracks, and `set_base_rev`.  A negative base is one of a
downstream commit, as in the code.  What is listed and what is to be translated
are sets, of which the smallest number is next: parents before children, which is
the order of the reversed git log.

### Sha1Trie

A name is a sequence of bits, a slot the bits that lead to it.  `SlotOf` is
`lookup_impl`'s walk; `Insert` puts an entry into a free slot or replaces an
entry by the chain of subtries down to the bits in which the two names differ
(`Mismatch`, `LastLength`, `Parted`).

### GitCalls

The program calls git from one thread: the worker of `commit_source.h` is never
started (see 7).  The model has any number of them, as nothing in `call_git.h`
rules them out.  `call[t]` is where thread `t` is in `call_git_impl`, `mine` the
pipe ends that the process holds, `git[t].ends` those that a child holds: no end is
closed on exec, so `Spawn` copies every end there is but the two that the file
actions close.  `Write`, `BrokenPipe`, `Read`, `ReadEnd` and `Wait` are the system calls,
`Interrupt` one that returns EINTR and is made again.  `git` is modelled from the
commands in use: those with input read all of it before they write.

### Svn2Git

`file` has a slot per revision, 0 for a hole; `mtdb` is the version that is
saved.  `Start`, `Bisect`, `Insert` and `Save` are one `llvm-svn2git-map`:
nothing is done if the commit is mapped, the boundary is searched by bisection
(`Boundaries` is everything that it may end with), and the rest is inserted oldest
first, each record reaching the file with the `fseek` for the next.  `CutShort`
is a `git rev-list` or script that dies in the pipeline, whose status is that of
its last command; `SaveWithoutLast` a last write that fails unnoticed.

### Fwd

`refs[r]` is what a remote has, `cache[r]` the clone's `refs/remotes/r` and
`refs/remote-tags/r`.  A ref is its history, so that "fast-forward" is "prefix".
`Fetch` is one source; then for each remote of the push lines in the order of
their names: `Skip` (the local comparison finds no change), `FailLocally` (an
exact line whose source is gone), or `Push`, which each ref accepts or refuses by
itself, then `RecordHeads` and, if nothing was refused, `RecordTags`.  `Kill` is
between any two of these.  `former` and `restored` are history variables.

### ZipperedMerge

A branch is the sequence of the merge bases of its commits with the common
ancestor.  `NextMerge` is one round of `compute_zippered_merge_commits`: the next
commit of the left, else of the right, else `find_next_matching_merge_base`.
`Merge` is what the automerger does with the first result; `Commit` is anybody
pushing to one of the branches.

## 3. Runs

| run | states | question |
|---|---|---|
| `split_mono_table` | 163k | is the trie right for colliding keys, whatever fails or is killed; is the table the map of `CommitMap` |
| `split_mono_killed` | finding | the assertion of `update_after_collision` without mt-db's reset |
| `upstream_chain` | 284k | are recorded upstreams merged, at every step and after every failure |
| `commit_interleaver` | 161k | three runs on two branches with any goals: content, history, ancestry, reruns |
| `equal_dates` | finding | the path from goal to head when dates are equal |
| `base_revs` | finding | the base revision of a merge whose parents other runs translated |
| `mt_generate` | 416k | two agents, two branches, a kill of each: translated once, published in the end |
| `mt_new_repo` | 307k | two agents create the monorepo and its mt-db, two kills of each: who publishes it |
| `mt_push_only` | finding | `--no-push`, then `--push-only` |
| `mt_upstream` | 158k | two agents of a downstream and the pushes of its upstream, splitrefs declared first |
| `upstream_race` | finding | the same with the monorepo declared first |
| `parts` | 263k | the parts that share no state: see below |

A run with the word *finding* stops at the violation.  What `parts` asks of each
value of `part`:

| part | properties | question |
|---|---|---|
| `map` | `FilesLagBehind` | does a reader find nothing but what was written, with the values of the writer |
| `by hand` | `FilesLagBehind` | is that so when the files of a killed process are opened again as they are |
| `calls` | `ReplyIsOutput`, `EveryCallReturns` | do calls return, and all that git printed |
| `revs` | `NewestBaseWinsInOneRun`, `DownstreamTranslated` | is the base the newest revision; is a cherry-pick taken for the revision it names |
| `svn2git` | `ParentsMapped`, `EveryRevisionMapped` | does a fault leave a hole that the bisection never finds |
| `trie` | `OneEntryPerName` | do two names get two entries and one name one |
| `dirs` | `MasksFollow`, `EveryNameIsClaimed` | do the masks follow the list, and is every name found |
| `fwd` | `EventuallyForwarded` | does every ref arrive, whatever was killed or refused |
| `zipper` | `NothingLeftBehind` | does the greedy search reach the last pair in step |

**Bounds.**  A trie of three levels with three slots has every shape of
collision: keys that part right below the colliding place (one new subtrie) or
further down (a linked chain), in one bitmap byte or in two; a third key makes
collisions below subtries and bytes that already have a bit.  `MaxRecords`
equals or exceeds the number of keys, so each insertion may also fail once and
be repeated until the file is full.  In `parts` two tables with two keys and two
values, one pair that shares a path and one that does not, are small enough to
be read at every step and to be opened by hand after kills.

A chain of three databases has the smallest cascade, in which a database knows
one upstream only through another; two commits allow two merges of the same
upstream.  An mt-config names one upstream, so that there are no others.

Two agents are enough for a race, two branches for one run to use its lease
twice, two commits per branch for a source that moves during a run.  In
`mt_generate` one run of each agent is killed, at any step.  Its monorepo has all
its branches and mt-split refs, and those that a run fetches replace what a killed
one left.  A new monorepo has none, so that the kills add up: in `mt_new_repo` each
agent is killed up to twice, once before anything is published and once after, or
both agents, or none.
`mt_upstream` has two agents of the downstream, one of which tries twice and one
that gives up at once, and two commits, so that an mt-db can be one behind.

The interleaver runs on 17 histories: lines, side branches, merges of what a
branch has already, two roots, and lines in two directories, each with dates in
order, all equal, and skewed.  Three directories, two of them on both branches,
are the fewest in which a directory is active on one branch only; three runs are
the fewest in which a branch goes on after another translated its commits.
Batches of one and two commits replace 50 and 1000, so that short lines end
inside, at and after a batch.  No path in these histories is long enough for
equal dates to do harm; `AncestryKeptIfDated` says "dated after their parents"
because `equal_dates` refutes anything weaker.

The parts in `MCParts`: calls with and without input (of two threads, one more than
the program uses), with twice the data that a pipe has room for in either
direction, two calls each, a git that dies at
any point and a system call that is interrupted.  Two revisions, three commits
on top of them in every shape, two branches and two runs.  Every tree of four
revisions and two faults.  Six names of five bits in a trie of three levels,
which part at each bit.  Five directory names of which some begin others, in
every order and of every kind.  Three remotes, of which one is source and
destination, two moves of the sources and one kill at any step.  Windows of three
commits on branches of five, so that a window is left behind.

**Fairness.**  `MtGenerate`: `WF_vars(Step(a))` for each agent says that CI
starts the job again and again, and that a run that is not killed goes on until
it ends; no step waits for another agent.  `MtUpstream` has the same, and weak
fairness of the two pushes of the upstream, whose agents are such jobs.
`GitCalls`: a thread and a git that can go on do; a blocked one is one whose
actions are disabled.  `Svn2Git` and `Fwd`: the job is started again, and a run
that is not killed goes on.  Commits, moves of refs, kills, deaths, interrupts
and faults have no fairness, and they are bounded: "once the sources are quiet".

Deadlock is checked except where the system really comes to rest: after the last
run of the interleaver and of `GitRevs`, and in `Parts`, whose parts end.

## 4. What was found

The runs that expect a violation are disagreements between the code and its own
words; `findings` quotes the lines.

- *Index before data* (`split_mono_killed`).  The index is updated in reverse so
  that a killed process leaves no semantic change.  That holds for the mappings
  that were there, but the index may point to a record that was still in the data
  stream's buffer; a later record takes its number, and an insertion then arrives
  at a record of another path and fails an assertion.  In an mt-db the next
  session resets the worktree, and `CollisionAssertHolds` is a theorem.
- *`--push-only`* (`mt_push_only`).  The setup replaces the mt-db of the run whose
  results are to be pushed by the destination's older one.
- *Equal dates* (`equal_dates`).  `list_first_ancestry_path` follows the output of
  a plain `git log` and needs children before their parents.  Commits with one
  date, as a rebase makes them, may be printed parent first; the path then ends
  early, and a commit is translated on top of the head instead of its own parent,
  whose mono commit is missing from the ancestry for good.  Clock skew has the
  same effect with four commits.  `git log --topo-order` would list the path whole.
- *An upstream that moves* (`upstream_race`).  `fetch_destinations` mirrors the
  upstream's monorepo and its mt-split refs one after the other, in the order of
  the mt-config, and those in the repository declare the monorepo first.  If the
  upstream pushes in between, its mt-split refs say that it is up to date, but the
  mt-db that is merged is the one of before: the downstream translates commits
  that the upstream has published.  With the splitref destination declared first
  this cannot happen, which is a theorem.
- *Base revisions* (`base_revs`).  `translate_parents` asks for the revision of a
  parent's mono commit as if it were a split commit, so that svnbase is not read;
  the answer is right only if this process has noted it, which it has for what it
  translated itself and for the heads.  A merge of two downstream commits that
  earlier runs translated gets the older base and the untracked directories that
  go with it.  (With S5 and S10 of llvm.org, D1 on S10, A1 on S5 and their merge,
  `split2mono` in one run gives r10, in three runs r5.)  Within one run
  `NewestBaseWinsInOneRun` holds.

Smaller things that have no run of their own:

- Two upstreams that share a third one: with one record in the shared one, the
  second merge stops with "sha1 is already mapped".  An mt-config has one upstream.
- A new monorepo (or, but for the first of these, a new branch) that stays
  unpublished.  What the destination lacks is not
  fetched, so that an agent goes on from what a killed run left, and there are
  places where its runs do nothing more, or fail (`Stuck`):
  - killed between the two commits of the mt-db: every later run stops at "expected
    2 commits" (`mt_db.sh:28-31`), although a comment below reads "Handle a
    pre-existing ref with no worktree.";
  - killed between the update of the refs and the saving of the mt-db: "no work",
    and once the source moves mt-split is not in the mt-db, for good;
  - killed between the saving and the push: "no work" until the source moves.

  With a single agent one kill is enough, and `EventuallyPublished` is false of a
  new monorepo (four steps and a kill, for the first of these).  With two agents one
  that was never killed publishes, and the others fetch that over what they have.
  But there is a way for it to be stuck too (`HalfPublished`): the first push of the
  branch wins the race and is killed before it pushes mt-split; the loser fetches
  the branch and keeps the mt-split of its own commits, so that it finds "no work",
  or a head that is not translated, while the winner, killed again, is stuck by
  itself.  `PublishedUnlessStuck` says that there is no other way.
- Merges of commits that the head has already do occur when branches track
  different directories and a branch is behind in one of them; a comment in
  `mark_independent_targets` hopes that the preparation avoids them.  They repeat
  history and change no content, so no property forbids them.
- `read_all` grows its buffer before each read, so that a read which a signal
  interrupts leaves a chunk of zeros in the reply.  split2mono installs no
  handlers; `Interruptible` of the run leaves reads out, and the theorem says so
  (`ReadsGoOn`).
- Two threads that call git with input at a time would wait for ever: each of the
  gits holds the writing end of the other's input, which it inherited.  The program
  has one thread that calls git; the second one of the run has no input.
- `dir_mask::insert` loses the bits that move beyond the 64th directory;
  `MasksFollow` is for lists that the masks have room for.
- Fwd: a tag that is moved with force and a branch that is rewound without it,
  pushed to one remote, are refused in part; the tag is moved and not recorded.  If
  the source then goes back, the next run finds that its tag equals the old record
  and skips the push, and the destination keeps the moved tag.  A kill between push
  and record does the same.  `EventuallyForwarded` therefore excepts sources that
  went back to a former value (`restored`).  A line that is refused, or an exact
  line whose source is gone, stops all remotes that come later in the order of the
  names (`Behind`).
- Fwd: git refuses to delete the branch that HEAD names, so that the pruning push
  that clears the clone's refs (`git-apple-llvm-fwd:267-269`) cannot remove
  `refs/heads/<HEAD>` of the clone once a line has forwarded to that name.  `Fwd`
  takes the refs to be cleared; neither the run nor the documented configurations
  forward to that name.
- Zippered merge: the model takes it that the merge bases of a branch never go back.
  A reverse merge into the upstream branch breaks that, and the code has its doubts
  about it: "FIXME: This might be wrong if someone did a reverse merge into the
  upstream branch, and the first parent of the first commit doesn't reach the common
  ancestor." (`zippered_merge.py:153-154`).  With branches that start out of step,
  the search does not consider a commit that reaches what the other branch is merged
  up to, unless it is the next one; and a window (140 commits) without a match is never left.
  `Init` starts in step, and `NothingLeftBehind` speaks of the commits in the
  windows.

## 5. Proofs

Each `*_proofs` module has the inductive invariant first, one lemma per group of
actions, and one step per conjunct that an action can disturb.  A theorem assumes
what the `ASSUME` of its module says of the constants and what is named here.

| module | theorem | assuming |
|---|---|---|
| `SplitMonoTable_proofs` | `TypeCorrect`, `IndexSoundAlways`, `CollisionAssert`, `NoSemanticChangeAlways`, `FilesLagBehindAlways`, `TableImplementsMap` (from `Invariance` and `MapInvariance`) | different keys differ in some group |
| `UpstreamMerge_proofs` | `TypeCorrect`, `RecordedIsMergedAlways`, `UpToDateHasMappingsAlways`, `UpstreamsMoveForwardAlways` | no more; any graph of upstreams |
| | `UpToDateIsCompleteAlways` | `Cascade`: a repository has one upstream at most, which has an mt-db |
| | `MergesSucceedAlways` | `Cascade`, and `KeysApart`: a key is mapped by one repository only |
| `MtGenerate_proofs` | `TypeCorrect` | no more |
| | `PublishedIsMappedAlways`, `SplitRefsBehindAlways` | `Generating`: no `--push-only` |
| | `CompletedRunPublishesAlways`, `Refinement` | `Established`: the monorepo exists, every run fetches and generates; for the first also that every branch has a "generate branch" line |
| `MtUpstream_proofs` | `TypeCorrect` | no more |
| | `TranslatedOnceIfSplitFirst` | the splitref destination is declared first |
| `Sha1Trie_proofs` | `TypeCorrect`, `OneEntryPerNameAlways` | different names differ in a group of bits |
| `Parts_proofs` | `TypeCorrect`, `DownstreamTranslatedAlways`, `NewestBaseWinsInOneRunAlways`, `ParentsMappedAlways`, `OneEntryPerNameAlways`, `MasksFollowAlways`, `EveryNameIsClaimedAlways`, `NothingLeftBehindAlways`, `WholeOutputAlways`, `FilesLagBehindAlways` (from `Invariance`) | no more |
| | `ReplyIsOutputAlways` | `ReadsGoOn`: no read is interrupted |
| `CommitInterleaver_proofs` | `Typed`, `HeadKept`, `FailsOnly`, `AncestryIsKept`, `RerunsAreIdle`, `PromiseIsKept` (from `Invariant`, with the lemmas of `InterleaverFunctions_proofs`) | no more; any history of any directories |

*The table.*  `IndexSound` is not inductive: it says nothing of the entries whose
bit is not set yet, of the pending updates of an insertion, of the version a
reset goes back to, or of where a lookup stands.  `IInv` adds these.  *Sound*:
every entry that was written, with its bit or without, is sound and names a
subtrie the file already spans (the code computes the number of the next subtrie
from the file's length); the saved version is sound with its own data.  *OpSound*:
the operation has come to a node whose owner shares its key's path.  *StackSound*:
the stack may be carried out from its top at any point: each update, once those
above it are done, writes a sound entry, and the bits of the bitmap byte it writes
have an entry.  That is the reason for updating in reverse.  *ModesOK* ties the
modes to the streams and the stack.

*The map.*  A lookup is a walk of `Depth` levels, and facts about it are
inductions on the level: over a set of levels, with `Upwards`, which rests on the
well-foundedness of the numbers.  Two indexes that agree on a set of nodes closed
under their entries lead every key to the same record (`SameTrail`); one more bit
leads keys to one more record (`BitAddedLeads`); a place that is redirected takes
its key's record along if the new chain ends at it (`RedirectedHere`,
`ChainFollowed`).  `MInv` says which of these a write is.  *Underway*: the updates
above the top of the stack have been made, their nodes are beyond all that lookups
reach, and the byte that will be written has the bits that are set.  *OnTrail*: a
lookup has come to the node where the trail of its key is at its depth, so that
what it answers is what the index means.  *FilesInv*: the data file holds a
beginning of the records, and the index file leads no key to a record that the
streams do not.  So all writes but the last leave the map as it is, the last adds
one mapping, and what reaches the files, in whatever order the two streams are
flushed, takes none away (`NoSemanticChange`); and each step is one of `CommitMap`
or a stutter.

*Upstreams.*  That what is recorded is merged does not follow from itself: a merge
opens a snapshot, copies what is beyond the recorded size and takes over the
upstreams that the snapshot records.  `IInv` adds that every mapping is one of
the records, so that who has the records of a database has its mappings; that
snapshots and saved versions are prefixes of what is published later; and how
many records of the snapshot are mapped at each point of a merge.

*Cascades.*  check-upstream compares the number of upstreams and the sizes of the
two tables, and that is enough only if no two versions of a database have the same
numbers and different upstreams (`Ahead`).  With one upstream, the names in the
file are that upstream and those it had, one more than the number recorded of it
(`Shape`); so a merge that is not refused has a name or a record to gain
(`BeginGains`), and the sum of what is in a table and what is still to come stays
ahead of the saved version until it is all there (`WillGain`).  The hypothesis is
needed: if a repository merges both another one and the upstream of that, the
other's merge of an empty database changes what is known of it and none of the
numbers, and `UpToDateIsComplete` fails.  That a merge meets no mapped key
(`FreshInv`) rests on three facts of a session: the keys of a table's records
differ, who mapped a record is the repository or one its file names, and what is
mapped is the repository's own or among the records that the merge has behind it.

*Agents.*  The argument is the lease.  While a run works, the mt-db it leased is a
prefix of its own (`Leasing`), the branch it generated is in the latter
(`Generated`), and the destination accepts the push only while it has the mt-db of
the lease; so branches and mt-db only grow, and what a run saw stays behind them.
`EInv` adds, for an established monorepo, that a run which pushes has translated
for no other branch than the one it is at: so a push is one step of
`TranslateOnce`, and every other step a stutter.

*A downstream.*  What mt-split names when it is fetched is published by then, so
that the monorepo's mirror, fetched later, contains it; it must be at the
upstream's source as this run saw it, and that was fetched after the downstream's.
The merged mt-db hence knows all that the downstream's source contains.

*Calls of git.*  A balance: what git has yet to print, what is in the pipe and
what has been read are the output; and git holds the writing end of that pipe as
long as it runs, so that the end of the data is not seen before.

*The trie.*  Every entry hangs from a slot its name leads to, all slots above it
hold subtries, and an insertion changes no slot on the path of another entry but
the one it finds taken.

*The parts.*  A step of `Next` is one of one part and leaves the variables of the
others alone (`StepsApart`), so that the conjunction of the parts' invariants,
`PartsInv`, is inductive.  What the models define by recursion (the ancestors of a
commit, a line of first parents, the sequence of merges) is a function that TLA+
leaves open whether it exists; each is first shown to exist, by one that is right
up to n for every n (`ReachExists`), and facts about it are taken to the
smallest number for which they fail (`SmallestNat`).

*Revisions.*  The danger is that a downstream commit which names a revision is
taken for that revision, and for ever, since nobody lists it again.  `SplitRev`
believes a message only if the first parent neither is nor will be translated.  A
set that contains the parents of its members is the argument: `Known` (llvm.org
and the base table) is one, the published tips lie in it (`TipsKnown`), and during
a run `Pending`, that is `Known` with what is listed and to be translated, is one
too.  Parents are looked at first, so the first parent of a downstream commit is
in the table, or in `being`, when its message is read.  `MemoSound` adds that
nothing wrong was noted: no monorepo commit but of `Known` commits, and `based`
(found by revision) are those of llvm.org.

*The newest base.*  In the first run what is translated is noted, so that
`ParentRev`, which does not read svnbase, is right for every parent (`NotedSound`).
So the base of a commit is the largest among its parents' revisions, and the
winner's content is of that revision (`BaseFromParents`); by induction from
parents to children it is the newest revision the commit contains
(`NewestOfKnown`).  A second run forgets the notes and keeps the table, which is
where `base_revs` comes from: `FirstRunSound` is all that `RevsInv` claims for one
run only.

*svn2git.*  `Closed`: the parents of mapped revisions are mapped, in mt-db and in
the file that a run works on.  It survives because a run inserts oldest first, and
every record but the buffered one is in the file: `SvnRunSound` says where the
parent of each revision still to come is, in the file, in the buffer or to come.
A run that is cut short or killed stops anywhere in that order.  The search only
has to end at a boundary; which, does not matter.

*Directories.*  The list is strictly sorted in the order of characters, so the
bisection, which compares as many characters as the name has, still ends at the
one position where the name may be (names that begin others come before them);
each mask is the set of positions of the names that were declared so, and an
insertion moves it as it moves the names.

*Files opened by hand.*  If the files of a killed process are opened again as they
are, an index entry may have no record, so `IndexSound` fails and the argument for
the map with it.  `HandInv` is a simpler one, for keys that part at the root
(`HandNext` has no `Descend` and no `InsertCollision`): an update writes a place
that is not in use until its bit is written, and takes the other bits of its byte
from those that are set; so the files hold a beginning of the records and some of
the entries in use, each with the number it has in the streams (`PartOf`), whatever
was flushed.  With `FilesMap` of `SplitMonoTable_proofs` for mt-db, whose keys
collide anywhere, this gives `FilesLagBehindAlways` of `Parts_proofs`.

*Zippered merge.*  The target of the merges is in step, and the merge bases do not
decrease along a branch.  From a pair in step the greedy choice goes to a pair in
step; a pair that it passes on one side only has the merge base of the chosen
one, so that it is reached by what follows.  The measure is what is left of the
two windows.

*The interleaver.*  `HeadInStep` speaks of the passes that write commits, and what
they may rely on was arranged by the passes that list them; `Inv` says pass by pass
what that is.  *TodoOf*: what is left to translate of a directory is all that its
goal has and the table has not, parents first.  *ListOf*, *QueueOf*: the entries of
a directory are a path from its goal to its head; an entry is marked translated
exactly if the table has it; and the one nearest to the head is either translated
or has the head as the parent that its place on the path says.  *StepOf*: the head
has the content of the directories' heads and descends from their mono commits.
Interleaving takes the entry nearest to the head of some directory, and the three
are what it needs: the side commits before it have their parents mapped
(`SideSteps`), the head takes the place of a parent that it contains, and so the
ancestry of the split commit is kept (`AncestorsMapped`).  That git lists a path
without gaps is where the dates come in (`Dated`); without that the head may be
another commit of the directory than the parent on the path, and only
`AncestryKeptIfDated` is lost.

What git and the code compute by a loop is a fold in the model, and each has three
lemmas: the function that the fold is made of exists (`...FoldExists`; TLA+ leaves
it open, as for the parts), the fold is the last of a sequence of steps
(`...Steps`), and what holds of each step by induction (`...Is`).  So `LogOrder`
lists each commit that is reached in the region once, with `--date-order` children
first and by date if dates are in order (`LogState`); `FirstAncestryPath` is a path
(`PathSteps`); and the merge of the lists keeps the order of each (`Shuffled`,
`Woven`).

Two things came out of the proof.  Under `Inv` `merge_goals` finds nothing to do:
when the queue is empty every head is the goal.  And a run can fail in
`clean_head` only; that `translate_commit` meets no parent without a mono commit
does not rest on the dates, because `--date-order` keeps children before their
parents in any case, and the code reverses that.

A second run is idle by another invariant, `Again`: while a run has the goals which
the branch has already, no pass lists anything, and the merge of the heads is the
one commit the branch is at.

*The promise.*  Every step of a run but `Publish` is a stutter of `BranchPromise`,
and `Publish` is a `Move`.  `Inv` says of the tracked directories that the head has
the goals; the promise speaks of all the content that the branch gets and of its
history, for which `Kept` adds what holds of every mono commit.  *Sourced*: whatever
a mono commit holds, in any directory, is mapped to an ancestor of it, and so is the
split commit it was written for (`CommitTreeSourced`: a new tree takes its content
from the parents or is what the commit is written for).  It gives the history that
comes with the goals; and from it follows that a commit translated in a run never
gets a mono commit that was there before (`Adds`), hence *Settled*: nothing enters
the history of a branch which the run does not move, although the mono commits are
shared by all branches.  *Carried*: if the goals descend from the recorded heads,
then `clean_head` rewinds nothing (`OwnBase`) and every later pass goes on from the
head of the branch (`GoesOn`), so that the branch moves forward.  That a run fails
before it writes anything, the second result above, is what lets a failed run drop
its part of the map.

Only model-checked:

- `ReplyIsOutput` if a read is interrupted: it is false then (see above).
- All liveness, which rests on fairness and `ENABLED`: `EveryCallReturns`,
  `EveryRevisionMapped` and `EventuallyForwarded` of the parts,
  `EventuallyPublished`, `SplitRefsCatchUp` and `PublishedUnlessStuck` of
  `MtGenerate`, and
  `DownstreamCatchesUp` of `MtUpstream`.  Every other property of the passing runs
  is a theorem.

## 6. Plan

Done: the table; the upstream merges; the agents, one by themselves and with an
upstream; the interleaver for directories, its masks and its revisions; svn2git;
calls of git; the tries; fwd; the zippered merge; the theorems above, which say
something of every component that is modelled.

What would come next, and what it needs:

1. Repeated directories and the root directory in `CommitInterleaver`: a repeat
   takes its commits from the monorepo itself, so the history would have to grow
   by what a run generates.
2. Several directories, tags and the `splitrefs` action in `MtGenerate`, and
   `--no-setup` and `--clean`: each multiplies the states of the race; the present
   instances are near the size that is checked in minutes.
3. `mt split refs` on top of `CommitInterleaver`: the bisection for the newest
   commit of a directory is right if the mt-split refs of a branch are monotone,
   which is a property of the interleaver's published history.

## 7. Not modelled

- Parsing and formatting (`parsers.h`, the text side of `sha1convert.h`), memory
  management (`bump_allocator.h`), builds, installation and shell helpers: no
  state of the system.
- The worker thread and the boundary commits of `commit_source.h` and
  `queue_boundary_commit`: `git log` is called without `--boundary`, so no commit
  is marked with `-` and neither is ever reached.
- Memoised trees, authors, dates and messages of generated commits in
  `git_cache.h`: copies of what git has; they decide no parent and no tree.
- `mt split refs`: see the plan.
- The setup of fwd's clone, and of the automerger everything but the zippered
  merge: the rest reports what an automerger outside of this repository does.
- Push and pull request tools, CI dispatch: requests to a remote or a service, and
  no state.
- The update checker: one process and one marker.  It writes the marker of the day
  before it pulls, so a pull that fails is not tried again until the next day.
