----------------------------- MODULE MCFileData -----------------------------
(***************************************************************************)
(* The instance of FileData for TLC: each open file has an inode of its    *)
(* own, and every block its own bitmap block, the worst case for the size  *)
(* of a transaction.                                                       *)
(***************************************************************************)
EXTENDS FileData, TLC

CONSTANTS p1, p2, f1, f2, i1, i2

MCInodeOf == (f1 :> i1) @@ (f2 :> i2)
MCOpened == (p1 :> {f1, f2}) @@ (p2 :> {f1})
MCBBLOCK == [b \in Data |-> b]

\* A block; and read(fd, buf, -1), all of the file at offset 0, else nothing.
MCReadLens == {2, -1}

Symmetry == Permutations(Data)
=============================================================================
