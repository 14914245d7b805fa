----------------------------- MODULE MCAdminToken -----------------------------
(* An instance of AdminToken for TLC. *)
EXTENDS AdminToken

\* The shortest lifetime the assumption on the times allows.
ShortLifetime == 2 * MaxDelay + 1
=============================================================================
