-------------------------------- MODULE DirList --------------------------------
(***************************************************************************)
(* The directories of a run of split2mono (dir_list.h,                     *)
(* bisect_first_match.h, and the arguments that interleave-commits reads   *)
(* in split2mono.cpp).  The directories are kept in a list that is sorted  *)
(* by name, and which of them are tracked, repeated and active in masks    *)
(* that are indexed by their positions: adding a directory moves all those *)
(* behind it, in the list and in each of the masks.  A name is looked up   *)
(* by bisection with a comparison of as many characters as it has, so that *)
(* it also compares equal to longer names that it begins.                  *)
(*                                                                         *)
(* A name is a sequence of characters, which are numbers; Root is "-", the *)
(* directory of all names that nobody declared.                            *)
(***************************************************************************)
EXTENDS Naturals, Sequences, FiniteSetsExt, SequencesExt

CONSTANTS
  Name,     \* the names of directories
  Root,     \* "-"
  MaxSize   \* dir_mask::max_size

\* What the constants must be.
DirListAssumption ==
  /\ Root \in Name /\ \A n \in Name : n \in Seq(Nat) /\ n # <<>>
  /\ MaxSize \in Nat

VARIABLES
  list,      \* the names, in the list's order
  tracked, repeated, active,  \* masks: the positions that are set
  stable,    \* all directories have been added
  declared   \* what the arguments said: declared[n], of those that were read

masks == <<tracked, repeated, active>>
vars == <<list, masks, stable, declared>>

Init ==
  /\ list = <<>>
  /\ tracked = {} /\ repeated = {} /\ active = {}
  /\ stable = FALSE
  /\ declared = [n \in {} |-> "-"]

-----------------------------------------------------------------------------
\* strncmp(m, n, count) <= 0.
Common(m, n, count) == Max({0} \cup {l \in 1 .. Min({count, Len(m), Len(n)}) :
                              SubSeq(m, 1, l) = SubSeq(n, 1, l)})
AtMost(m, n, count) ==
  LET l == Common(m, n, count)
  IN  \/ l = count \/ l = Len(m)
      \/ l < Len(n) /\ m[l + 1] < n[l + 1]

\* lookup_dir, by bisect_first_match: the position of a name, counted from 0,
\* or where to add it.
Position(n) ==
  LET find[range \in (0 .. Len(list)) \X (0 .. Len(list))] ==
        LET first == range[1]
            last == range[2]
            mid == first + (last - first) \div 2
        IN  IF first >= last THEN first
            ELSE IF AtMost(n, list[mid + 1], Len(n)) THEN find[<<first, mid>>]
            ELSE find[<<mid + 1, last>>]
  IN  find[<<0, Len(list)>>]

\* A mutant of Found: a longer name will do.
FoundPrefix(n) ==
  LET d == Position(n) IN d < Len(list) /\ IsPrefix(n, list[d + 1])

Found(n) == LET d == Position(n) IN d < Len(list) /\ list[d + 1] = n

None == MaxSize
\* find_dir: "-" stands for all that are not found.
FindDir(n) ==
  IF Found(n) THEN Position(n) ELSE IF Found(Root) THEN Position(Root) ELSE None

\* A mutant of MaskInsert: the bit at the position stays where it is.
MaskInsertAfter(mask, d) == {i \in mask : i <= d} \cup {i + 1 : i \in {j \in mask : j > d}}

\* dir_mask::insert: a bit that is moved beyond the last one is lost.
MaskInsert(mask, d) ==
  ({i \in mask : i < d} \cup {i + 1 : i \in {j \in mask : j >= d}}) \cap 0 .. MaxSize - 1

(***************************************************************************)
(* An argument: "-:dir" declares a directory, "<head>:dir" tracks it, with *)
(* a head or none yet, and "%:dir" repeats it.  Duplicates are refused,    *)
(* and more arguments than the masks have room for.                        *)
(***************************************************************************)
Kinds == {"declared", "tracked", "tracked with head", "repeated"}

With(mask, is, d) == IF is THEN mask \cup {d} ELSE mask

AddDir(n, kind) ==
  /\ ~stable /\ Len(list) < MaxSize /\ ~Found(n)
  /\ LET d == Position(n)
         Moved(mask) == IF d = Len(list) THEN mask ELSE MaskInsert(mask, d)
     IN  /\ list' = InsertAt(list, d + 1, n)
         /\ tracked' = With(Moved(tracked), kind # "declared", d)
         /\ repeated' = With(Moved(repeated), kind = "repeated", d)
         /\ active' = With(Moved(active), kind = "tracked with head", d)
  /\ declared' = [m \in DOMAIN declared \cup {n} |-> IF m = n THEN kind ELSE declared[m]]
  /\ UNCHANGED stable

\* The end of the directories; those that are repeated have one head.
EndDirs ==
  /\ ~stable
  /\ stable' = TRUE
  /\ \E head \in BOOLEAN :
       active' = IF head /\ repeated # {} THEN active \cup repeated ELSE active
  /\ UNCHANGED <<list, tracked, repeated, declared>>

\* set_head of a source whose first commit is translated.
SetHead(n) ==
  /\ stable /\ Found(n) /\ Position(n) \in tracked
  /\ active' = active \cup {Position(n)}
  /\ UNCHANGED <<list, tracked, repeated, stable, declared>>

Next ==
  \/ \E n \in Name, kind \in Kinds : AddDir(n, kind)
  \/ EndDirs
  \/ \E n \in Name : SetHead(n)

Spec == Init /\ [][Next]_vars

-----------------------------------------------------------------------------
\* The types of the variables.
TypeOK ==
  /\ list \in Seq(Name)
  /\ tracked \cup repeated \cup active \subseteq 0 .. MaxSize - 1
  /\ stable \in BOOLEAN
  /\ DOMAIN declared \subseteq Name /\ \A n \in DOMAIN declared : declared[n] \in Kinds

Of(mask) == {list[d + 1] : d \in mask \cap 0 .. Len(list) - 1}

\* The masks name the directories the arguments named, in whichever order and
\* wherever in the list they were added; only tracked ones are active.
MasksFollow ==
  /\ Of(tracked) = {n \in DOMAIN declared : declared[n] # "declared"}
  /\ Of(repeated) = {n \in DOMAIN declared : declared[n] = "repeated"}
  /\ {n \in DOMAIN declared : declared[n] = "tracked with head"} \subseteq Of(active)
  /\ Of(active) \subseteq Of(tracked)

\* Every name of a tree is claimed by the directory of that name, also one
\* that begins another's name or with it, and else by "-" if that was declared.
EveryNameIsClaimed ==
  \A n \in Name :
    LET owner == IF n \in DOMAIN declared THEN n ELSE Root
    IN  IF owner \in DOMAIN declared
        THEN FindDir(n) < Len(list) /\ list[FindDir(n) + 1] = owner
        ELSE FindDir(n) = None
=============================================================================
