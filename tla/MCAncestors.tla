----------------------------- MODULE MCAncestors -----------------------------
\* Two directories on two devices, with one inode number.
EXTENDS Ancestors, TLC

MCIdentity == {[ino |-> 1, dev |-> 1], [ino |-> 1, dev |-> 2]}

Symmetry == Permutations(Proc)
=============================================================================
