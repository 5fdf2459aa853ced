----------------------------- MODULE MCHttpCache -----------------------------
(***************************************************************************)
(* Instances of HttpCache: three transactions on one key, the first of     *)
(* which may be asked for credentials once.                                *)
(***************************************************************************)
EXTENDS HttpCache

\* A page that is loaded or revalidated, reloaded, and loaded or gone back to.
LoadReloadBack == <<{"READ_WRITE", "UPDATE"}, {"WRITE"}, {"READ", "READ_WRITE", "NONE"}>>
FirstRestarts == <<1, 0, 0>>
=============================================================================
