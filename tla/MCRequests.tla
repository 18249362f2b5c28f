----------------------------- MODULE MCRequests -----------------------------
(***************************************************************************)
(* Two files of two users, of whom one may have no name.                   *)
(***************************************************************************)
EXTENDS Requests, TLC

CONSTANTS a, b

FilesValue == {a, b}
OwnerValue == a :> 1 @@ b :> 2
GroupValue == a :> 1 @@ b :> 3
=============================================================================
