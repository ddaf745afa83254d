------------------------ MODULE MCContainerNumbers ------------------------
(* Small instances of ContainerNumbers for TLC.                            *)
EXTENDS ContainerNumbers, TLC

CONSTANTS c1, c2, c3, short1, root, alice

(* short1 is c1 without the domain of the farm.                            *)
FullNames == {c1, c2, c3}
WithShort == FullNames \cup {short1}
MCExpand  == [a \in WithShort |-> IF a = short1 THEN c1 ELSE a]

Orderly ==
  [sudoers |-> {}, ctypes |-> {"fedora"}, args |-> FullNames, max |-> 5,
   together |-> 1, mayFail |-> FALSE, mayImport |-> TRUE]

(* Root alone, in order; the same with a short name; and root with a user  *)
(* of sudo, all types, and commands that are killed.                       *)
MCEnvs == {
  Orderly,
  [Orderly EXCEPT !.args = WithShort, !.max = 3],
  [sudoers |-> {alice}, ctypes |-> {"fedora", "apache"}, args |-> FullNames,
   max |-> 3, together |-> 1, mayFail |-> TRUE, mayImport |-> FALSE]}

(* A user of sudo, otherwise in order.                                     *)
SudoEnvs == {[Orderly EXCEPT !.sudoers = {alice}, !.mayImport = FALSE]}
=============================================================================
