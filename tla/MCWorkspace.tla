----------------------------- MODULE MCWorkspace -----------------------------
(* A small instance of Workspace for TLC. *)
EXTENDS Workspace, TLC

CONSTANTS t1, p1, s1, none

OneTab     == {t1}
OneProject == {p1}
OneSession == {s1}
=============================================================================
