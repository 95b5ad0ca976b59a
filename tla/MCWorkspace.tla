----------------------------- MODULE MCWorkspace -----------------------------
(* Small instances of Workspace: the second reference drops the Config of the
   first and adds one. *)
EXTENDS Workspace, TLC

CONSTANTS t1, t2, r1, r2

MCGit == r1 :> {t1} @@ r2 :> {t2}
=============================================================================
