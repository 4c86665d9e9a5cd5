------------------------------ MODULE MCProfile ------------------------------
(***************************************************************************)
(* Instances of ProfileActivation for TLC: two profiles that overlap in    *)
(* one parameter and a workload type whose profile is the second.          *)
(***************************************************************************)
EXTENDS ProfileActivation, TLC

CONSTANTS a, b, c, web, db, mysql, v0, v1, v2

MCSetting == (web :> (a :> v1 @@ b :> v1)) @@ (db :> (b :> v2 @@ c :> v2))
(* The same machine with the shared parameter only, for many workers.      *)
OneParam == (web :> (b :> v1)) @@ (db :> (b :> v2))

MCProfileType == mysql :> db
=============================================================================
