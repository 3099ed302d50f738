------------------------------- MODULE MCPage -------------------------------
(* The page and the registry for TLC.                                      *)
EXTENDS Page

CONSTANTS s1, s2

OneSession == {s1}
TwoSessions == {s1, s2}
=============================================================================
