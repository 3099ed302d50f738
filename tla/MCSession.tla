----------------------------- MODULE MCSession ------------------------------
(* Instances of Session for TLC: who calls, and one menu per question.     *)
EXTENDS Session, TLC

CONSTANTS c1, c2, c3, opener, none

TwoCalls == {c1, c2}
ThreeCalls == {c1, c2, c3}

AnyOrder == Permutations(Calls)

OnlyContainer == {"container"}
OnlyProduction == {"production"}

NoKinds == {}
CodeKinds == {"exec", "run_test"}

MenuAll == [c \in Calls |-> CallKinds]
MenuTransaction == [c \in Calls |-> {"exec", "commit", "rollback"}]
MenuCommit == [c \in Calls |-> {"commit"}]
MenuEnding ==
    [c \in Calls |-> IF c = c1 THEN {"exec", "run_test", "commit"}
                               ELSE {"close", "kill", "interrupt"}]

(* On production no container switch reaches the session, and an opt-out   *)
(* from one says nothing: a run there fixes both.                          *)
ProductionInit == Init /\ ~switch /\ ~optedOut
ProductionSpec == ProductionInit /\ [][Next]_vars
=============================================================================
