------------------------------- MODULE MCParts -------------------------------
(***************************************************************************)
(* The parts on small instances.                                           *)
(*   "map"       two keys that share a path down to their last digit, two  *)
(*               values to be mistaken                                     *)
(*   "by hand"   two keys that part at the root                            *)
(*   "calls"     two threads, one whose calls have input and one without   *)
(*   "revs"      two branches, two revisions of llvm.org                   *)
(*   "svn2git"   every tree of four revisions, two faults                  *)
(*   "trie"      names that part at each bit; three levels of the trie     *)
(*   "dirs"      five names, some of which begin others, and room for four  *)
(*   "fwd"       a branch that is forwarded twice, and a tag that may be   *)
(*               moved at one remote and not at the other                  *)
(*   "zipper"    branches of four commits on four merge bases              *)
(***************************************************************************)
EXTENDS Parts

MCSlot == {0, 1, 2}
MCByte == [s \in MCSlot |-> IF s = 2 THEN 1 ELSE 0]
Digits(x, y, z) == [d \in 0 .. 2 |-> IF d = 0 THEN x ELSE IF d = 1 THEN y ELSE z]
Near == [a |-> Digits(0, 0, 0), b |-> Digits(0, 0, 2)]
Apart == [a |-> Digits(0, 0, 0), d |-> Digits(1, 0, 0)]

MCInput == [main |-> 2, worker |-> 0]

MCNames ==
  {<<0,0,0,0,0>>, <<0,0,1,0,0>>, <<0,0,1,1,0>>, <<0,0,1,1,1>>, <<0,1,0,0,1>>, <<1,0,0,0,0>>}

\* "-", "c", "c-", "cc" and "d".
MCDirNames == {<<45>>, <<99>>, <<99,45>>, <<99,99>>, <<100>>}
MCRoot == <<45>>

MCOrder == <<"apple", "llvm", "mirror">>
PushLine(to, from, src, dst, force, exact) ==
  [to |-> to, from |-> from, src |-> src, dst |-> dst, force |-> force, exact |-> exact]
MCLine ==
  {PushLine("apple", "llvm", "main", "llvm/main", TRUE, TRUE),
   PushLine("apple", "llvm", "v1", "v1", TRUE, FALSE),
   PushLine("mirror", "llvm", "v1", "v1", FALSE, FALSE),
   PushLine("mirror", "apple", "llvm/main", "llvm/main", FALSE, TRUE)}
=============================================================================
