----------------------------- MODULE MCJournal ------------------------------
(* Two requests and a note read back, one request listed, and two listings *)
(* at once of a session that makes none.                                   *)
EXTENDS JournalFile

SomePlans == {[requests |-> 2, notes |-> 1, listings |-> 0],
              [requests |-> 1, notes |-> 0, listings |-> 1],
              [requests |-> 0, notes |-> 1, listings |-> 2]}
=============================================================================
