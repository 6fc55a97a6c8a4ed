----------------------------- MODULE MCFileSys ------------------------------
(***************************************************************************)
(* The calls of the instance of FileSys that TLC checks.  One process      *)
(* creates and opens /a, which the other unlinks, and links into /b and    *)
(* unlinks there; /b is a directory that the first makes, enters and       *)
(* removes, or a device that it makes instead.                             *)
(***************************************************************************)
EXTENDS FileSys, TLC

CONSTANTS p1, p2

Call(op, path, new) == [op |-> op, path |-> path, new |-> new]

MCCalls ==
  (p1 :> {Call("unlink", <<"/", "a">>, <<>>),
          Call("link", <<"/", "a">>, <<"/", "b", "a">>),
          Call("unlink", <<"/", "b", "a">>, <<>>)})
  @@
  (p2 :> {Call("create", <<"a">>, <<>>), Call("open", <<"/", "b", "a">>, <<>>),
          Call("mkdir", <<"/", "b">>, <<>>), Call("mknod", <<"/", "b">>, <<>>),
          Call("unlink", <<"/", "b">>, <<>>),
          Call("chdir", <<"/", "b">>, <<>>), Call("chdir", <<"/">>, <<>>)})
=============================================================================
