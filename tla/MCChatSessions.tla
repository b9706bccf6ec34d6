--------------------------- MODULE MCChatSessions ---------------------------
(***************************************************************************)
(* Small instances of ChatSessions for TLC.  Projects, sessions and tabs   *)
(* are told apart only by equality, so they are symmetric.                 *)
(***************************************************************************)
EXTENDS ChatSessions, TLC

CONSTANTS t1, t2, p1, p2, s1, s2, none

OneTab      == {t1}
TwoTabs     == {t1, t2}
TwoProjects == {p1, p2}
TwoSessions == {s1, s2}

Alike == Permutations(TwoTabs) \cup Permutations(TwoProjects) \cup Permutations(TwoSessions)
=============================================================================
