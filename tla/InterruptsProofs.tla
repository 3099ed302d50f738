-------------------------- MODULE InterruptsProofs --------------------------
(***************************************************************************)
(* What SIGINT may never do to bootstrap.py's loop, however many of them   *)
(* strike one command: Spec => []Inv for every safety invariant of         *)
(* Interrupts.                                                             *)
(*                                                                         *)
(* None of them is inductive, for each speaks of the moments between       *)
(* commands and says nothing of the statements that lead there.  Point     *)
(* says where each statement stands: which commands reach it and whether   *)
(* _OS_LIVE can be set or an exception be under way.  Over it, Counted     *)
(* relates the signals to how far out they have got, Captured follows      *)
(* sys.stdout, Tagged the test configuration and Pending the work that a   *)
(* boundary has yet to end.                                                *)
(***************************************************************************)
EXTENDS Interrupts, TLAPS

Inside == {"try", "code", "render", "prepare", "tagged", "suite", "untag",
           "close", "caught", "described", "unwind"}

Point ==
    /\ pc \in {"code", "render", "unwind"} => kind \in {"exec", "run_test"}
    /\ pc \in {"prepare", "tagged", "suite", "untag"} => kind = "run_test"
    /\ pc \in {"flush", "cr", "invalidate"} => kind \in Boundaries
    /\ pc = "flush" => kind = "commit"
    /\ pc \in Inside => kind \notin {"close", "unknown"}
    /\ pc \in {"read", "try", "described", "send"} => ~live
    /\ raised # "none" => pc \in {"untag", "caught", "described", "unwind", "outer", "gone"}
    /\ pc = "unwind" => raised # "error" /\ (live => raised = "interrupt")

Counted ==
    /\ signals <= most
    /\ pc # "gone" => why = "none"
    /\ raised = "interrupt" => signals >= 1
    /\ pc = "outer" => signals >= 1
    /\ why = "interrupt" => signals >= 2

Captured ==
    /\ saved # "own" => most >= 2
    /\ stdout # "own" => most >= 2 \/ (kind \in {"exec", "run_test"} /\ pc \in Inside \cup {"gone"})

Tagged == config = "test" => struck \/ pc \in {"tagged", "suite", "untag"}

Pending ==
    kind \in Boundaries =>
        /\ pc = "cr" => "cached" \notin work
        /\ pc = "invalidate" /\ kind = "commit" => work = {}
        /\ pc = "close" => work = {}
        /\ pc = "send" /\ answer = "done" => work = {}

IInv == TypeOK /\ Point /\ Counted /\ Captured /\ Tagged /\ Pending

-----------------------------------------------------------------------------
(* The loop before its first command.                                      *)
LEMMA InitIInv == Init => IInv
  <1> SUFFICES ASSUME Init PROVE IInv
    OBVIOUS
  <1>1. TypeOK
    <2>1. 0 \in 0..MaxSignals
      BY InterruptsAssumption
    <2> QED
      BY <2>1 DEF Init, TypeOK, Kinds, Points, UserCode, Streams, Boundaries
  <1>2. Point /\ Tagged /\ Pending
    BY DEF Init, Point, Tagged, Pending, Boundaries, Inside
  <1>3. Counted /\ Captured
    BY DEF Init, Counted, Captured
  <1> QED
    BY <1>1, <1>2, <1>3 DEF IInv

(* No statement, and no signal at any of them, breaks it.                  *)
LEMMA NextIInv == IInv /\ [Next]_vars => IInv'
  <1> SUFFICES ASSUME IInv, [Next]_vars PROVE IInv'
    OBVIOUS
  <1> USE InterruptsAssumption
          DEF IInv, TypeOK, Point, Counted, Captured, Tagged, Pending, Kinds, Points,
              UserCode, Streams, Boundaries, Inside, At, Goes, Ends, Answers, Raises,
              Handler, NextInBoundary, loopVars, signalVars
  <1>1. CASE Read
    BY <1>1 DEF Read
  <1>2. CASE EndOfFile
    BY <1>2 DEF EndOfFile
  <1>3. CASE OpenSpan
    BY <1>3 DEF OpenSpan
  <1>4. CASE Prepare
    <2>1. TypeOK'
      BY <1>4 DEF Prepare
    <2>2. Point'
      <3>1. UNCHANGED <<kind, live>> /\ kind = "run_test"
        BY <1>4 DEF Prepare
      <3>2. \/ pc' \in {"close", "tagged"} /\ raised' = "none"
            \/ pc' = "caught"
        BY <1>4 DEF Prepare
      <3> QED
        BY <3>1, <3>2
    <2>3. Counted'
      BY <1>4 DEF Prepare
    <2>4. Captured'
      BY <1>4 DEF Prepare
    <2>5. Tagged'
      BY <1>4 DEF Prepare
    <2>6. Pending'
      BY <1>4 DEF Prepare
    <2> QED
      BY <2>1, <2>2, <2>3, <2>4, <2>5, <2>6
  <1>5. CASE EnterSuite
    BY <1>5 DEF EnterSuite
  <1>6. CASE Untag
    BY <1>6 DEF Untag
  <1>7. CASE Invalidate
    BY <1>7 DEF Invalidate
  <1>8. CASE CloseSpan
    BY <1>8 DEF CloseSpan
  <1>9. CASE Catch
    <2>1. TypeOK'
      <3>1. pc' \in Points /\ live' \in BOOLEAN
        BY <1>9 DEF Catch
      <3>2. UNCHANGED <<kind, answer, owes, why, stdout, saved, config, work, raised>>
        BY <1>9 DEF Catch
      <3>3. UNCHANGED <<signals, most, struck>>
        BY <1>9 DEF Catch
      <3> QED
        BY <3>1, <3>2, <3>3
    <2>2. Point'
      BY <1>9 DEF Catch
    <2>3. Counted'
      BY <1>9 DEF Catch
    <2>4. Captured'
      BY <1>9 DEF Catch
    <2>5. Tagged'
      BY <1>9 DEF Catch
    <2>6. Pending'
      BY <1>9 DEF Catch
    <2> QED
      BY <2>1, <2>2, <2>3, <2>4, <2>5, <2>6
  <1>10. CASE Describe
    BY <1>10 DEF Describe
  <1>11. CASE Unwind
    BY <1>11 DEF Unwind
  <1>12. CASE CatchOuter
    BY <1>12 DEF CatchOuter
  <1>13. CASE Send
    <2>1. TypeOK'
      <3>1. /\ pc' \in {"gone", "read"}
            /\ owes' \in BOOLEAN
            /\ why' \in {"closed", "error", why}
        BY <1>13 DEF Send
      <3>2. UNCHANGED <<kind, answer, live, stdout, saved, config, work, raised>>
        BY <1>13 DEF Send
      <3>3. UNCHANGED <<signals, most, struck>>
        BY <1>13 DEF Send
      <3> QED
        BY <3>1, <3>2, <3>3
    <2>2. Point'
      BY <1>13 DEF Send
    <2>3. Counted'
      BY <1>13 DEF Send
    <2>4. Captured'
      BY <1>13 DEF Send
    <2>5. Tagged'
      BY <1>13 DEF Send
    <2>6. Pending'
      BY <1>13 DEF Send
    <2> QED
      BY <2>1, <2>2, <2>3, <2>4, <2>5, <2>6
  <1>14. CASE RunCode
    BY <1>14 DEF RunCode
  <1>15. CASE Render
    BY <1>15 DEF Render
  <1>16. CASE RunSuite
    BY <1>16 DEF RunSuite
  <1>17. CASE Flush
    BY <1>17 DEF Flush
  <1>18. CASE EndTransaction
    BY <1>18 DEF EndTransaction
  <1>19. CASE Sigint
    BY <1>19 DEF Sigint, Strikes
  <1>20. CASE UNCHANGED vars
    BY <1>20 DEF vars
  <1> QED
    BY <1>1, <1>2, <1>3, <1>4, <1>5, <1>6, <1>7, <1>8, <1>9, <1>10, <1>11, <1>12,
       <1>13, <1>14, <1>15, <1>16, <1>17, <1>18, <1>19, <1>20 DEF Next, Step

-----------------------------------------------------------------------------
(* The inductive invariant holds of every behaviour of the loop.           *)
THEOREM SpecIInv == Spec => []IInv
  BY InitIInv, NextIInv, PTL DEF Spec

(* Every variable keeps its type, with any number of signals.              *)
THEOREM InterruptsTypeCorrect == Spec => []TypeOK
  <1>1. IInv => TypeOK
    BY DEF IInv
  <1> QED
    BY <1>1, SpecIInv, PTL

(* One SIGINT never ends the process.                                      *)
THEOREM LoopSurvivesAlways == Spec => []LoopSurvives
  <1>1. IInv => LoopSurvives
    BY DEF IInv, Counted, LoopSurvives
  <1> QED
    BY <1>1, SpecIInv, PTL

(* None is raised while a command is read or a frame is written.           *)
THEOREM FramesAlwaysWhole == Spec => []FramesAreWhole
  <1>1. IInv => FramesAreWhole
    BY DEF IInv, Point, FramesAreWhole
  <1> QED
    BY <1>1, SpecIInv, PTL

(* Between commands sys.stdout is the process's own, but for two signals   *)
(* in one command.                                                         *)
THEOREM StdoutAlwaysOwn == Spec => []StdoutIsOwn
  <1>1. IInv => StdoutIsOwn
    BY DEF IInv, TypeOK, Streams, Captured, Inside, StdoutIsOwn
  <1> QED
    BY <1>1, SpecIInv, PTL

(* Only an interrupted run leaves the test configuration behind.           *)
THEOREM TestsAlwaysPutAway == Spec => []OnlyAnInterruptLeavesTests
  <1>1. IInv => OnlyAnInterruptLeavesTests
    BY DEF IInv, Tagged, OnlyAnInterruptLeavesTests
  <1> QED
    BY <1>1, SpecIInv, PTL

(* A boundary answered without an error left nothing pending.              *)
THEOREM BoundaryAlwaysEnds == Spec => []BoundaryEnds
  <1>1. IInv => BoundaryEnds
    BY DEF IInv, Pending, BoundaryEnds
  <1> QED
    BY <1>1, SpecIInv, PTL

(* A commit's invalidation drops nothing that was not committed.           *)
THEOREM CommitNeverThrowsAway == Spec => []CommitThrowsNothingAway
  <1>1. IInv => CommitThrowsNothingAway
    BY DEF IInv, Pending, Boundaries, CommitThrowsNothingAway
  <1> QED
    BY <1>1, SpecIInv, PTL

=============================================================================
