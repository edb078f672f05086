---------------------------- MODULE MigrationsMC ----------------------------
(***************************************************************************)
(* Three releases for TLC: an old one with two migrations, a new one with  *)
(* three, and one whose second file was edited after it had been released. *)
(***************************************************************************)
EXTENDS Migrations

Releases ==
  [r \in Runners |-> CASE r = "old" -> <<"a", "b">>
                       [] r = "new" -> <<"a", "b", "c">>
                       [] r = "edited" -> <<"a", "x">>]

FileSizes == [m \in Migrations |-> IF m = 2 THEN 2 ELSE 1]
=============================================================================
