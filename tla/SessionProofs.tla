--------------------------- MODULE SessionProofs ----------------------------
(***************************************************************************)
(* A session keeps its types, a ready one is quiet, and an ended one stays *)
(* ended, for any calls, menus and targets.                                *)
(*                                                                         *)
(* First the commit right alone, for every target and any number of        *)
(* handovers.  The four invariants the runs check are inductive together   *)
(* with the types; GrantNamesItsSource carries the argument: a right held  *)
(* by someone who needs a grant always has a source on record, so what a   *)
(* handover, a switch or a spent grant takes away is never left half       *)
(* taken.                                                                  *)
(*                                                                         *)
(* Then the session: its types, with what the reader holds, and then Inv,  *)
(* which is inductive: one lemma per kind of step, on what SafeInv adds to *)
(* the types.  Last, the commit right again, inside the session it is of.  *)
(***************************************************************************)
EXTENDS SessionInv, TLAPS

PolicyInv ==
    /\ PolicyTypeOK
    /\ ProductionRightIsHuman
    /\ RemoteRightWasGranted
    /\ GrantNamesItsSource
    /\ ContainerGrantNeedsSwitch

(* Every way a session can open satisfies the invariant.                   *)
LEMMA PolicyInitHolds == PolicyInit => PolicyInv
<1> SUFFICES ASSUME PolicyInit PROVE PolicyInv
  OBVIOUS
<1> USE PolicyAssumption
<1>1. PICK kind \in OwnerKinds, ask \in {"default", "yes", "no"} :
        /\ target \in Targets
        /\ owners = <<kind>>
        /\ switch \in BOOLEAN
        /\ optedOut = (ask = "no")
        /\ allow = /\ ~Production
                   /\ IF ask = "default" THEN StartsWithCommit(kind, FALSE)
                                         ELSE ask = "yes"
        /\ grant = IF allow /\ ~NeedsNoGrant(kind)
                   THEN IF SwitchCovers(kind, optedOut) THEN "container"
                                                        ELSE "session"
                   ELSE "none"
  BY DEF PolicyInit
<1>2. Len(owners) = 1 /\ Owner = kind /\ owners \in Seq(OwnerKinds)
  BY <1>1 DEF Owner
<1>3. allow \in BOOLEAN /\ optedOut \in BOOLEAN
  BY <1>1, Zenon DEF StartsWithCommit, NeedsNoGrant, SwitchCovers
<1>4. PolicyTypeOK
  BY <1>1, <1>2, <1>3 DEF PolicyTypeOK, Grants
<1>5. ProductionRightIsHuman /\ RemoteRightWasGranted
  BY <1>1, <1>2 DEF ProductionRightIsHuman, RemoteRightWasGranted,
                    NeedsNoGrant, SwitchCovers, Remote, Production, TargetKinds
<1>6. GrantNamesItsSource /\ ContainerGrantNeedsSwitch
  BY <1>1, <1>2 DEF GrantNamesItsSource, ContainerGrantNeedsSwitch,
                    NeedsNoGrant, SwitchCovers, Remote
<1> QED
  BY <1>4, <1>5, <1>6 DEF PolicyInv

(* A handover: the new owner starts where their kind starts.               *)
LEMMA TransferKeepsPolicy ==
    ASSUME PolicyInv, NEW kind \in OwnerKinds, TransferRights(kind)
    PROVE  PolicyInv'
<1> USE PolicyAssumption
<1>1. /\ owners' \in Seq(OwnerKinds)
      /\ Len(owners') = Len(owners) + 1
      /\ Owner' = kind
  BY DEF TransferRights, PolicyInv, PolicyTypeOK, Owner
<1>2. PolicyTypeOK'
  <2>1. allow' \in BOOLEAN
    BY Zenon DEF TransferRights, StartsWithCommit, NeedsNoGrant, SwitchCovers
  <2>2. Len(owners') \in 1..MaxOwners
    BY <1>1 DEF TransferRights, PolicyInv, PolicyTypeOK
  <2>3. grant' \in Grants /\ optedOut' \in BOOLEAN
    BY DEF TransferRights, Grants
  <2>4. switch' \in BOOLEAN /\ target' \in Targets
    BY DEF TransferRights, PolicyInv, PolicyTypeOK
  <2> QED
    BY <1>1, <2>1, <2>2, <2>3, <2>4 DEF PolicyTypeOK
<1>3. ProductionRightIsHuman' /\ RemoteRightWasGranted'
  BY <1>1 DEF TransferRights, StartsWithCommit, NeedsNoGrant, SwitchCovers,
              ProductionRightIsHuman, RemoteRightWasGranted, Remote, Production
<1>4. GrantNamesItsSource' /\ ContainerGrantNeedsSwitch'
  BY <1>1 DEF TransferRights, StartsWithCommit, NeedsNoGrant, SwitchCovers,
              GrantNamesItsSource, ContainerGrantNeedsSwitch, Remote, Production
<1> QED
  BY <1>2, <1>3, <1>4 DEF PolicyInv

(* Every other step changes the right of the owner there is.               *)
LEMMA RightKeepsPolicy ==
    ASSUME PolicyInv, UNCHANGED owners,
           \/ \E allowed, confirmed \in BOOLEAN : SetAllowCommit(allowed, confirmed)
           \/ \E live \in BOOLEAN : TurnOn(live)
           \/ SpendProductionGrant
    PROVE  PolicyInv'
<1> USE PolicyAssumption DEF PolicyInv, PolicyTypeOK, Grants, Owner,
        ProductionRightIsHuman, RemoteRightWasGranted, GrantNamesItsSource,
        ContainerGrantNeedsSwitch, NeedsNoGrant, Remote, Production
<1>1. CASE \E allowed, confirmed \in BOOLEAN : SetAllowCommit(allowed, confirmed)
  BY <1>1 DEF SetAllowCommit, SetAllowRefuses, OwnerKinds
<1>2. CASE \E live \in BOOLEAN : TurnOn(live)
  BY <1>2 DEF TurnOn, ApplySwitchOn, SwitchCovers, OwnerKinds
<1>3. CASE SpendProductionGrant
  BY <1>3 DEF SpendProductionGrant
<1> QED
  BY <1>1, <1>2, <1>3

(* Turning the switch off while the session is open: the sweep takes every *)
(* agent's right before the file says so.                                  *)
LEMMA TurnOffKeepsPolicy ==
    ASSUME PolicyInv, NEW stored \in BOOLEAN, TurnOff(TRUE, stored)
    PROVE  PolicyInv'
BY PolicyAssumption
   DEF TurnOff, ApplySwitchOff, OwnerKinds, PolicyInv, PolicyTypeOK, Grants,
       Owner, ProductionRightIsHuman, RemoteRightWasGranted,
       GrantNamesItsSource, ContainerGrantNeedsSwitch, NeedsNoGrant,
       Remote, Production

LEMMA PolicyStepHolds == PolicyInv /\ [PolicyNext]_policyVars => PolicyInv'
<1> SUFFICES ASSUME PolicyInv, [PolicyNext]_policyVars PROVE PolicyInv'
  OBVIOUS
<1>1. CASE \E kind \in OwnerKinds : TransferRights(kind)
  BY <1>1, TransferKeepsPolicy
<1>2. CASE \E allowed, confirmed \in BOOLEAN : SetAllowCommit(allowed, confirmed)
  <2>1. UNCHANGED owners
    BY <1>2 DEF SetAllowCommit
  <2> QED
    BY <1>2, <2>1, RightKeepsPolicy
<1>3. CASE TurnOn(TRUE)
  <2>1. UNCHANGED owners
    BY <1>3 DEF TurnOn
  <2>2. \E live \in BOOLEAN : TurnOn(live)
    BY <1>3
  <2> QED
    BY <2>1, <2>2, RightKeepsPolicy
<1>4. CASE \E stored \in BOOLEAN : TurnOff(TRUE, stored)
  BY <1>4, TurnOffKeepsPolicy
<1>5. CASE \E kind \in {"commit", "rollback"} : Boundary(kind)
  <2>1. SpendProductionGrant
    BY <1>5 DEF Boundary
  <2>2. UNCHANGED owners
    BY <2>1 DEF SpendProductionGrant
  <2> QED
    BY <2>1, <2>2, RightKeepsPolicy
<1>6. CASE UNCHANGED policyVars
  BY <1>6 DEF policyVars, PolicyInv, PolicyTypeOK, Owner, ProductionRightIsHuman,
              RemoteRightWasGranted, GrantNamesItsSource,
              ContainerGrantNeedsSwitch, NeedsNoGrant, Remote, Production
<1> QED
  BY <1>1, <1>2, <1>3, <1>4, <1>5, <1>6 DEF PolicyNext

LEMMA PolicyInvariance == PolicySpec => []PolicyInv
BY PolicyInitHolds, PolicyStepHolds, PTL DEF PolicySpec

(* The right, its source, its owners and the switch keep their types       *)
(* through every opening, handover, grant, switch and boundary.            *)
THEOREM PolicyTypeCorrect == PolicySpec => []PolicyTypeOK
<1>1. PolicyInv => PolicyTypeOK
  BY DEF PolicyInv
<1> QED
  BY <1>1, PolicyInvariance, PTL

(* On production an agent never holds the right, in any order of opening,  *)
(* granting, switching, handing over and committing.                       *)
THEOREM ProductionHuman == PolicySpec => []ProductionRightIsHuman
<1>1. PolicyInv => ProductionRightIsHuman
  BY DEF PolicyInv
<1> QED
  BY <1>1, PolicyInvariance, PTL

(* On a remote target the right is always one granted in this session to   *)
(* its present owner.                                                      *)
THEOREM RemoteGranted == PolicySpec => []RemoteRightWasGranted
<1>1. PolicyInv => RemoteRightWasGranted
  BY DEF PolicyInv
<1> QED
  BY <1>1, PolicyInvariance, PTL

(* commit_grant names a source exactly when the right needs one.           *)
THEOREM GrantHasSource == PolicySpec => []GrantNamesItsSource
<1>1. PolicyInv => GrantNamesItsSource
  BY DEF PolicyInv
<1> QED
  BY <1>1, PolicyInvariance, PTL

(* A right that came from the container's switch ends with the switch.     *)
THEOREM ContainerGrant == PolicySpec => []ContainerGrantNeedsSwitch
<1>1. PolicyInv => ContainerGrantNeedsSwitch
  BY DEF PolicyInv
<1> QED
  BY <1>1, PolicyInvariance, PTL

(* The step that turns the switch off leaves no agent with the right.      *)
THEOREM OffDisarms == PolicySpec => OffDisarmsAgents
<1>1. ASSUME PolicyInv, [PolicyNext]_policyVars
      PROVE  [switch /\ ~switch' => ~(Owner' = "agent" /\ ~Remote /\ allow')]_policyVars
  <2> SUFFICES ASSUME PolicyNext, switch, ~switch', Owner' = "agent", ~Remote, allow'
               PROVE  FALSE
    BY <1>1
  <2>1. PICK stored \in BOOLEAN : TurnOff(TRUE, stored)
    BY DEF PolicyNext, TransferRights, SetAllowCommit, TurnOn, Boundary,
           SpendProductionGrant
  <2>2. Owner = "agent" /\ ApplySwitchOff
    BY <2>1 DEF TurnOff, Owner, Remote
  <2> QED
    BY <2>2, <1>1 DEF ApplySwitchOff, PolicyInv, PolicyTypeOK
<1> QED
  BY <1>1, PolicyInvariance, PTL DEF PolicySpec, OffDisarmsAgents

-----------------------------------------------------------------------------
(* The types of a session.                                                 *)
LEMMA PolicyTypesKept ==
    ASSUME PolicyTypeOK,
           \/ \E kind \in OwnerKinds : TransferRights(kind)
           \/ \E allowed, confirmed \in BOOLEAN : SetAllowCommit(allowed, confirmed)
           \/ \E live \in BOOLEAN : TurnOn(live)
           \/ \E live, stored \in BOOLEAN : TurnOff(live, stored)
           \/ SpendProductionGrant
           \/ UNCHANGED policyVars
    PROVE  PolicyTypeOK'
<1> USE PolicyAssumption DEF PolicyTypeOK, Grants
<1>1. ASSUME NEW kind \in OwnerKinds, TransferRights(kind) PROVE PolicyTypeOK'
  <2>1. allow' \in BOOLEAN
    BY <1>1, Zenon DEF TransferRights, StartsWithCommit, NeedsNoGrant, SwitchCovers
  <2>2. owners' \in Seq(OwnerKinds) /\ Len(owners') \in 1..MaxOwners
    BY <1>1 DEF TransferRights
  <2>3. grant' \in Grants /\ optedOut' \in BOOLEAN /\ switch' \in BOOLEAN
    BY <1>1 DEF TransferRights
  <2>4. target' \in Targets
    BY <1>1 DEF TransferRights
  <2> QED
    BY <2>1, <2>2, <2>3, <2>4
<1>2. CASE \E allowed, confirmed \in BOOLEAN : SetAllowCommit(allowed, confirmed)
  BY <1>2 DEF SetAllowCommit
<1>3. CASE \E live \in BOOLEAN : TurnOn(live)
  BY <1>3 DEF TurnOn, ApplySwitchOn
<1>4. CASE \E live, stored \in BOOLEAN : TurnOff(live, stored)
  BY <1>4 DEF TurnOff, ApplySwitchOff
<1>5. CASE SpendProductionGrant
  BY <1>5 DEF SpendProductionGrant
<1>6. CASE UNCHANGED policyVars
  BY <1>6 DEF policyVars
<1> QED
  BY <1>1, <1>2, <1>3, <1>4, <1>5, <1>6

LEMMA RecordTyped ==
    ASSUME PolicyTypeOK, NEW kind \in RecordKinds, NEW c \in Calls \cup {NoCall},
           NEW of \in Calls \cup {NoCall}, NEW err \in BOOLEAN, NEW late \in BOOLEAN
    PROVE  Record(kind, c, of, err, late) \in Records
BY DEF Record, Records, PolicyTypeOK

LEMMA FrameTyped ==
    ASSUME NEW id \in Callers, NEW err \in BOOLEAN, NEW big \in BOOLEAN
    PROVE  Frame(id, err, big) \in Frames
BY DEF Frame, Frames

LEMMA FailWaitersTyped ==
    ASSUME SessionTypeOK, FailWaiters
    PROVE  fut' \in [Callers -> Futures]
BY DEF SessionTypeOK, FailWaiters, Futures

(* The shell's own steps.                                                  *)
LEMMA ShellTypes ==
    ASSUME ShellTypeOK, ShellNext
    PROVE  ShellTypeOK'
<1> USE ShellAssumption DEF ShellTypeOK, Callers
<1>1. CASE SayHello
  <2>1. outbox' \in Seq(Frames)
    BY <1>1 DEF SayHello, Frame, Frames
  <2> QED
    BY <1>1, <2>1 DEF SayHello
<1>2. CASE TakeCommand
  BY <1>2 DEF TakeCommand
<1>3. CASE SayBye
  <2>1. Head(pipe) \in Calls
    BY <1>3 DEF SayBye
  <2>3. outbox' \in Seq(Frames)
    BY <1>3, <2>1 DEF SayBye, Frame, Frames
  <2>4. pipe' = <<>> /\ proc' = "exited" /\ current' = NoCall /\ tx' = {}
        /\ UNCHANGED <<op, db>>
    BY <1>3 DEF SayBye, ProcessGone
  <2> QED
    BY <2>3, <2>4
<1>4. ASSUME NEW kind, NEW err \in BOOLEAN, Answers(kind, err)
      PROVE  /\ current \in Calls
             /\ op' \in [Calls -> CallKinds \cup {"none"}]
             /\ proc' \in {"booting", "idle", "running", "exited"}
             /\ pipe' \in Seq(Calls)
             /\ current' \in IF proc' = "running" THEN Calls ELSE {NoCall}
             /\ outbox' \in Seq(Frames)
  <2>1. PICK big \in BOOLEAN : outbox' = Append(outbox, Frame(current, err, big))
    BY <1>4 DEF Answers
  <2>2. current \in Calls
    BY <1>4 DEF Answers
  <2>3. Frame(current, err, big) \in Frames
    BY <2>2, FrameTyped
  <2>4. outbox' \in Seq(Frames)
    BY <2>1, <2>3
  <2> QED
    BY <1>4, <2>2, <2>4 DEF Answers
<1>5. CASE FinishExec
  BY <1>4, <1>5 DEF FinishExec
<1>6. CASE FinishRead
  BY <1>4, <1>6 DEF FinishRead
<1>7. CASE FinishRunTest
  BY <1>4, <1>7 DEF FinishRunTest
<1>8. CASE FinishCommit
  BY <1>4, <1>8 DEF FinishCommit
<1>9. CASE FinishRollback
  BY <1>4, <1>9 DEF FinishRollback
<1>10. CASE ProcessEnds
  BY <1>10 DEF ProcessEnds, ProcessGone
<1> QED
  BY <1>1, <1>2, <1>3, <1>5, <1>6, <1>7, <1>8, <1>9, <1>10 DEF ShellNext

LEMMA ProcessEndsTypes == ASSUME ShellTypeOK, ProcessEnds PROVE ShellTypeOK'
BY ShellTypes DEF ShellNext

-----------------------------------------------------------------------------
(* The daemon's steps.  Each keeps the types of the shell, of the policy   *)
(* and of the session's own state, in that order.                          *)

LEMMA SendTypes ==
    ASSUME TypeOK, NEW c \in Calls, NEW kind \in CommandKinds, Send(c, kind)
    PROVE  /\ pipe' \in Seq(Calls)
           /\ waiter' \in Calls \cup {NoCall}
           /\ fut' \in [Callers -> Futures]
           /\ activity' \in {"none", "exec", "run_test", "commit", "rollback", "close"}
           /\ state' \in States
           /\ phase' \in [Callers -> Phases]
<1> USE DEF TypeOK, ShellTypeOK, SessionTypeOK
<1>1. pipe' \in Seq(Calls)
  BY DEF Send
<1>2. fut' \in [Callers -> Futures] /\ waiter' \in Calls \cup {NoCall}
  BY DEF Send, Futures
<1>3. activity' \in {"none", "exec", "run_test", "commit", "rollback", "close"}
  BY DEF Send, TakesActivity, FrameType, CommandKinds
<1>4. state' \in States /\ phase' \in [Callers -> Phases]
  BY DEF Send, States, Phases
<1> QED
  BY <1>1, <1>2, <1>3, <1>4

LEMMA AskTypes ==
    ASSUME TypeOK, NEW c \in Calls, NEW kind \in CallKinds, Ask(c, kind)
    PROVE  /\ op' \in [Calls -> CallKinds \cup {"none"}]
           /\ sender' \in [Calls -> 0..MaxOwners]
BY PolicyAssumption DEF TypeOK, ShellTypeOK, SessionTypeOK, PolicyTypeOK, Ask

LEMMA ExecuteTypes ==
    ASSUME TypeOK, NEW c \in Calls, NEW kind \in {"exec", "read"}, Execute(c, kind)
    PROVE  TypeOK'
<1>1. kind \in CommandKinds /\ kind \in CallKinds
  BY DEF CommandKinds, CallKinds
<1>2. Record("exec", c, c, FALSE, FALSE) \in Records
  BY RecordTyped DEF TypeOK, RecordKinds
<1>3. journal' \subseteq Records
  BY <1>2 DEF Execute, Write, TypeOK, SessionTypeOK
<1>4. ShellTypeOK'
  BY <1>1, SendTypes, AskTypes DEF Execute, Send, TypeOK, ShellTypeOK
<1>5. PolicyTypeOK'
  BY PolicyTypesKept DEF Execute, TypeOK
<1>6. SessionTypeOK'
  BY <1>1, <1>3, SendTypes, AskTypes DEF Execute, Send, TypeOK, SessionTypeOK, runVars
<1> QED
  BY <1>4, <1>5, <1>6 DEF TypeOK

LEMMA RunTestTypes ==
    ASSUME TypeOK, NEW c \in Calls, RunTest(c)
    PROVE  TypeOK'
<1>1. "run_test" \in CommandKinds /\ "run_test" \in CallKinds
  BY DEF CommandKinds, CallKinds
<1>2. Record("run_test", c, c, FALSE, FALSE) \in Records
  BY RecordTyped DEF TypeOK, RecordKinds
<1>3. journal' \subseteq Records
  BY <1>2 DEF RunTest, Write, TypeOK, SessionTypeOK
<1>4. ShellTypeOK'
  BY <1>1, SendTypes, AskTypes DEF RunTest, Send, TypeOK, ShellTypeOK
<1>5. PolicyTypeOK'
  BY PolicyTypesKept DEF RunTest, TypeOK
<1>6. SessionTypeOK'
  BY <1>1, <1>3, SendTypes, AskTypes DEF RunTest, ForgetPending, Send, TypeOK, SessionTypeOK
<1> QED
  BY <1>4, <1>5, <1>6 DEF TypeOK

LEMMA EndTransactionTypes ==
    ASSUME TypeOK, NEW c \in Calls, NEW kind \in Boundaries, EndTransaction(c, kind)
    PROVE  TypeOK'
<1>1. kind \in CommandKinds /\ kind \in CallKinds
  BY DEF CommandKinds, CallKinds, Boundaries
<1>4. ShellTypeOK'
  BY <1>1, SendTypes, AskTypes DEF EndTransaction, Send, TypeOK, ShellTypeOK
<1>5. PolicyTypeOK'
  BY PolicyTypesKept DEF EndTransaction, TypeOK
<1>6. SessionTypeOK'
  BY <1>1, SendTypes, AskTypes DEF EndTransaction, Send, TypeOK, SessionTypeOK,
                                   runVars, bookVars
<1> QED
  BY <1>4, <1>5, <1>6 DEF TypeOK

(* A boundary's spent grant, or an untouched policy.                       *)
LEMMA SpendTypes ==
    ASSUME TypeOK, NEW c \in Calls, SpendIfBoundary(c) PROVE PolicyTypeOK'
BY PolicyTypesKept DEF SpendIfBoundary, TypeOK

LEMMA AnsweredTypes ==
    ASSUME TypeOK, NEW c \in Calls, Answered(c)
    PROVE  TypeOK'
<1>1. ShellTypeOK'
  BY DEF Answered, TypeOK, ShellTypeOK, pipes
<1>2. PolicyTypeOK'
  BY PolicyTypesKept DEF Answered, ResumeExec, ResumeRunTest, ResumeBoundary,
                         ResumeClose, TypeOK
<1>3. /\ state' \in States
      /\ activity' \in {"none", "exec", "run_test", "commit", "rollback", "close"}
      /\ waiter' \in Calls \cup {NoCall}
  BY DEF Answered, LeaveRequest, TypeOK, SessionTypeOK, States
<1>4. phase' \in [Callers -> Phases]
  BY DEF Answered, ResumeExec, ResumeRunTest, ResumeBoundary, ResumeClose,
         TypeOK, SessionTypeOK, Phases
<1>5. pending' \in Nat /\ inherited' \in Nat
  BY DEF Answered, ResumeExec, ResumeRunTest, ResumeBoundary, ResumeClose,
         BookExec, ForgetPending, TypeOK, SessionTypeOK, bookVars
<1>6. journal' \subseteq Records
  <2>1. (fut[c] = "error") \in BOOLEAN
    OBVIOUS
  <2>2. Record("result", c, c, fut[c] = "error", FALSE) \in Records
    BY <2>1, RecordTyped DEF TypeOK, RecordKinds
  <2>3. op[c] \in Boundaries => Record(op[c], c, c, fut[c] = "error", FALSE) \in Records
    BY <2>1, RecordTyped DEF TypeOK, RecordKinds, Boundaries
  <2>4. journal \subseteq Records
    BY DEF TypeOK, SessionTypeOK
  <2>5. CASE ResumeExec(c)
    BY <2>2, <2>4, <2>5 DEF ResumeExec, Write, bookVars
  <2>6. CASE ResumeBoundary(c)
    BY <2>3, <2>4, <2>6 DEF ResumeBoundary, Write
  <2>7. CASE ResumeRunTest(c) \/ ResumeClose(c)
    BY <2>4, <2>7 DEF ResumeRunTest, ResumeClose, bookVars
  <2> QED
    BY <2>5, <2>6, <2>7 DEF Answered
<1>7. SessionTypeOK'
  BY <1>3, <1>4, <1>5, <1>6 DEF Answered, TypeOK, SessionTypeOK, runVars
<1> QED
  BY <1>1, <1>2, <1>7 DEF TypeOK

LEMMA RaisedTypes ==
    ASSUME TypeOK, NEW c \in Calls, Failed(c) \/ DrainRaises(c)
    PROVE  TypeOK'
<1>1. Raised(c)
  BY DEF Failed, DrainRaises
<1>2. ShellTypeOK'
  BY <1>1 DEF Raised, TypeOK, ShellTypeOK, pipes
<1>3. PolicyTypeOK'
  BY <1>1, SpendTypes DEF Raised
<1>4. /\ state' \in States
      /\ activity' \in {"none", "exec", "run_test", "commit", "rollback", "close"}
      /\ waiter' \in Calls \cup {NoCall}
  BY DEF Failed, DrainRaises, LeaveRequest, TypeOK, SessionTypeOK, States
<1>5. SessionTypeOK'
  BY <1>1, <1>4 DEF Raised, AfterRequest, TypeOK, SessionTypeOK, bookVars, Phases
<1> QED
  BY <1>2, <1>3, <1>5 DEF TypeOK

LEMMA TimerTypes ==
    ASSUME TypeOK, NEW c \in Calls,
           TimerFires(c) \/ TimesOut(c) \/ SignalLands(c)
    PROVE  TypeOK'
<1>1. ShellTypeOK'
  BY DEF TimerFires, TimesOut, SignalLands, TypeOK, ShellTypeOK, pipes
<1>2. PolicyTypeOK'
  BY PolicyTypesKept DEF TimerFires, TimesOut, SignalLands, TypeOK
<1>3. SessionTypeOK'
  BY DEF TimerFires, TimesOut, SignalLands, TypeOK, SessionTypeOK, modeVars,
         waitVars, runVars, bookVars, Phases, Futures
<1> QED
  BY <1>1, <1>2, <1>3 DEF TypeOK

LEMMA SignalReturnsTypes ==
    ASSUME TypeOK, NEW c \in Calls, SignalReturns(c)
    PROVE  TypeOK'
<1>1. ShellTypeOK'
  BY DEF SignalReturns, TypeOK, ShellTypeOK, pipes
<1>2. PolicyTypeOK'
  BY SpendTypes DEF SignalReturns
<1>3. Record("timeout", c, c, FALSE, FALSE) \in Records
  BY RecordTyped DEF TypeOK, RecordKinds
<1>4. SessionTypeOK'
  BY <1>3 DEF SignalReturns, Write, AfterRequest, TypeOK, SessionTypeOK, modeVars,
              runVars, Phases
<1> QED
  BY <1>1, <1>2, <1>4 DEF TypeOK

LEMMA InterruptTypes ==
    ASSUME TypeOK, NEW c \in Calls, Interrupt(c) \/ InterruptReturns(c)
    PROVE  TypeOK'
<1>1. "interrupt" \in CallKinds
  BY DEF CallKinds
<1>2. ShellTypeOK'
  BY <1>1, AskTypes DEF Interrupt, InterruptReturns, TypeOK, ShellTypeOK, pipes
<1>3. PolicyTypeOK'
  BY PolicyTypesKept DEF Interrupt, InterruptReturns, TypeOK
<1>4. Record("interrupt", c, c, FALSE, FALSE) \in Records
  BY RecordTyped DEF TypeOK, RecordKinds
<1>5. CASE Interrupt(c)
  <2>1. sender' \in [Calls -> 0..MaxOwners]
    BY <1>1, <1>5, AskTypes DEF Interrupt
  <2>2. phase' \in [Callers -> Phases]
    BY <1>5 DEF Interrupt, TypeOK, SessionTypeOK, Callers, Phases
  <2>3. UNCHANGED <<modeVars, fut, timed, wasDead, waitVars, runVars, bookVars>>
    BY <1>5 DEF Interrupt
  <2>4. SessionTypeOK'
    BY <2>1, <2>2, <2>3 DEF TypeOK, SessionTypeOK, modeVars, waitVars, runVars, bookVars
  <2> QED
    BY <1>2, <1>3, <2>4 DEF TypeOK
<1>6. CASE InterruptReturns(c)
  <2>1. journal' \subseteq Records
    BY <1>4, <1>6 DEF InterruptReturns, Write, TypeOK, SessionTypeOK
  <2>2. phase' \in [Callers -> Phases]
    BY <1>6 DEF InterruptReturns, TypeOK, SessionTypeOK, Callers, Phases
  <2>3. UNCHANGED <<modeVars, fut, timed, wasDead, sender, waitVars, runVars,
                    pending, inherited>>
    BY <1>6 DEF InterruptReturns
  <2>4. SessionTypeOK'
    BY <2>1, <2>2, <2>3 DEF TypeOK, SessionTypeOK, modeVars, waitVars, runVars
  <2> QED
    BY <1>2, <1>3, <2>4 DEF TypeOK
<1> QED
  BY <1>5, <1>6

LEMMA DrainedTypes ==
    ASSUME TypeOK, NEW c \in Calls, Drained(c)
    PROVE  TypeOK'
<1>1. ShellTypeOK'
  BY DEF Drained, TypeOK, ShellTypeOK, pipes
<1>2. PolicyTypeOK'
  BY PolicyTypesKept DEF Drained, TypeOK
<1>3. /\ Record("result", c, c, fut[c] = "error", FALSE) \in Records
      /\ Record("result", c, run, fut[c] = "error", FALSE) \in Records
  <2>1. (fut[c] = "error") \in BOOLEAN /\ run \in Calls \cup {NoCall}
    BY DEF TypeOK, SessionTypeOK
  <2> QED
    BY <2>1, RecordTyped DEF TypeOK, RecordKinds
<1>4. journal' \subseteq Records
  BY <1>3 DEF Drained, ExecDrained, RunDrained, Write, TypeOK, SessionTypeOK
<1>5. pending' \in Nat /\ inherited' \in Nat /\ run' \in Calls \cup {NoCall}
  BY DEF Drained, ExecDrained, RunDrained, BookExec, TypeOK, SessionTypeOK, runVars
<1>6. announced' \in BOOLEAN /\ ranTest' \in BOOLEAN
  BY SessionAssumption, Zenon DEF Drained, ExecDrained, RunDrained, MayAnnounce, TypeOK,
                          SessionTypeOK, runVars
<1>7. SessionTypeOK'
  BY <1>4, <1>5, <1>6 DEF Drained, TypeOK, SessionTypeOK, modeVars, waitVars, Phases
<1> QED
  BY <1>1, <1>2, <1>7 DEF TypeOK

-----------------------------------------------------------------------------
(* The reader.  What a frame can change, whichever way it is taken.        *)

ReaderTyped ==
    /\ state' \in States
    /\ activity' \in {"none", "exec", "run_test", "commit", "rollback", "close"}
    /\ fut' \in [Callers -> Futures]
    /\ abandoned' \in Calls \cup {NoCall}
    /\ run' \in Calls \cup {NoCall}
    /\ announced' \in BOOLEAN
    /\ pending' \in Nat
    /\ inherited' \in Nat
    /\ journal' \subseteq Records

LEMMA LateRecordsTyped ==
    ASSUME TypeOK, NEW c \in Calls \cup {NoCall}, NEW err \in BOOLEAN
    PROVE  LateRecords(c, err) \subseteq Records
<1>1. (IF op[c] = "run_test" THEN run ELSE c) \in Calls \cup {NoCall}
  BY DEF TypeOK, SessionTypeOK
<1>2. Record("abandoned_result", c, IF op[c] = "run_test" THEN run ELSE c, err, FALSE)
        \in Records
  BY <1>1, RecordTyped DEF TypeOK, RecordKinds
<1>3. op[c] \in Boundaries => Record(op[c], c, c, err, TRUE) \in Records
  BY RecordTyped DEF TypeOK, RecordKinds, Boundaries
<1> QED
  BY <1>2, <1>3 DEF LateRecords

LEMMA SettleTypes ==
    ASSUME TypeOK, NEW err \in BOOLEAN, SettleAbandoned(err)
    PROVE  ReaderTyped
<1>1. LateRecords(abandoned, err) \subseteq Records
  BY LateRecordsTyped DEF TypeOK, SessionTypeOK
<1>2. journal' \subseteq Records
  BY <1>1 DEF SettleAbandoned, Write, TypeOK, SessionTypeOK
<1>3. announced' \in BOOLEAN
  BY SessionAssumption, Zenon DEF SettleAbandoned, MayAnnounce, TypeOK, SessionTypeOK
<1>4. pending' \in Nat /\ inherited' \in Nat
  BY DEF SettleAbandoned, ForgetPending, BookExec, TypeOK, SessionTypeOK
<1>5. /\ state' \in States
      /\ activity' \in {"none", "exec", "run_test", "commit", "rollback", "close"}
      /\ fut' \in [Callers -> Futures]
      /\ abandoned' \in Calls \cup {NoCall}
      /\ run' \in Calls \cup {NoCall}
  BY DEF SettleAbandoned, TypeOK, SessionTypeOK, States
<1> QED
  BY <1>2, <1>3, <1>4, <1>5 DEF ReaderTyped

LEMMA DeliverTypes ==
    ASSUME TypeOK, NEW c \in Callers, NEW err \in BOOLEAN, Deliver(c, err)
    PROVE  ReaderTyped
BY DEF Deliver, ReaderTyped, TypeOK, SessionTypeOK, bookVars, Futures

LEMMA DropTypes ==
    ASSUME TypeOK, DropFrame PROVE ReaderTyped
BY DEF DropFrame, ReaderTyped, TypeOK, SessionTypeOK, bookVars

LEMMA FrameTypes ==
    ASSUME TypeOK, NEW f \in Frames, FrameArrives(f)
    PROVE  ReaderTyped
<1>1. f.err \in BOOLEAN /\ TRUE \in BOOLEAN /\ FALSE \in BOOLEAN /\ Opener \in Callers
  BY DEF Frames, Callers
<1>2. WaiterPending => waiter \in Callers
  BY DEF WaiterPending, TypeOK, SessionTypeOK, Callers
<1>3. CASE Overrun
  BY <1>1, <1>2, <1>3, SettleTypes, DeliverTypes, DropTypes DEF Overrun
<1>4. CASE ~Overrun
  BY <1>1, <1>2, <1>4, SettleTypes, DeliverTypes, DropTypes DEF FrameArrives
<1> QED
  BY <1>3, <1>4

LEMMA DieTypes ==
    ASSUME TypeOK, Die
    PROVE  /\ state' \in States
           /\ activity' \in {"none", "exec", "run_test", "commit", "rollback", "close"}
           /\ fut' \in [Callers -> Futures]
           /\ abandoned' \in Calls \cup {NoCall}
           /\ run' \in Calls \cup {NoCall}
           /\ announced' \in BOOLEAN
           /\ journal' \subseteq Records
<1>1. Record("session_died", NoCall, NoCall, FALSE, FALSE) \in Records
  BY RecordTyped DEF TypeOK, RecordKinds
<1>2. journal' \subseteq Records
  BY <1>1 DEF Die, Write, TypeOK, SessionTypeOK
<1>3. announced' \in BOOLEAN
  BY SessionAssumption, Zenon DEF Die, MayAnnounce, TypeOK, SessionTypeOK
<1>4. fut' \in [Callers -> Futures]
  BY FailWaitersTyped DEF Die, TypeOK, SessionTypeOK
<1>5. /\ state' \in States
      /\ activity' \in {"none", "exec", "run_test", "commit", "rollback", "close"}
      /\ abandoned' \in Calls \cup {NoCall}
      /\ run' \in Calls \cup {NoCall}
  BY DEF Die, TypeOK, SessionTypeOK, States
<1> QED
  BY <1>2, <1>3, <1>4, <1>5

LEMMA ReadsTypes ==
    ASSUME TypeOK, HeldIsThere, Reads
    PROVE  TypeOK'
<1>1. PolicyTypeOK'
  BY PolicyTypesKept DEF Reads, ReadFrame, HoldLateRun, SettleLateRun, EndOfFrames,
                         ReaderElsewhere, TypeOK
<1>2. outbox # <<>> => Head(outbox) \in Frames /\ Tail(outbox) \in Seq(Frames)
  BY DEF TypeOK, ShellTypeOK
<1>3. ASSUME outbox' \in Seq(Frames), ReaderElsewhere, ReaderTyped,
             reader' \in {"reading", "draining", "stopped"}
      PROVE  TypeOK'
  BY <1>1, <1>3 DEF ReaderElsewhere, ReaderTyped, TypeOK, ShellTypeOK, SessionTypeOK
<1>4. CASE ReadFrame
  BY <1>2, <1>3, <1>4, FrameTypes DEF ReadFrame, TypeOK, SessionTypeOK
<1>5. CASE HoldLateRun
  BY <1>3, <1>5, DropTypes DEF HoldLateRun, TypeOK, ShellTypeOK
<1>6. CASE SettleLateRun
  <2>0. outbox # <<>>
    BY <1>6 DEF SettleLateRun, HeldIsThere
  <2>1. Head(outbox).err \in BOOLEAN
    BY <1>2, <2>0 DEF Frames
  <2>2. ReaderTyped
    BY <1>6, <2>1, SettleTypes, DropTypes DEF SettleLateRun
  <2> QED
    BY <1>2, <1>3, <1>6, <2>0, <2>2 DEF SettleLateRun
<1>7. CASE EndOfFrames
  <2>1. ReaderTyped
    BY <1>7, DieTypes DEF EndOfFrames, ReaderTyped, TypeOK, SessionTypeOK
  <2> QED
    BY <1>3, <1>7, <2>1 DEF EndOfFrames, TypeOK, ShellTypeOK
<1> QED
  BY <1>4, <1>5, <1>6, <1>7 DEF Reads

-----------------------------------------------------------------------------
(* Closing, killing, opening, and what people do meanwhile.                *)

LEMMA CloseTypes ==
    ASSUME TypeOK, NEW c \in Calls, Close(c) \/ Kill(c)
    PROVE  TypeOK'
<1>1. "close" \in CallKinds /\ "kill" \in CallKinds
  BY DEF CallKinds, CommandKinds
<1>2. op' \in [Calls -> CallKinds \cup {"none"}] /\ sender' \in [Calls -> 0..MaxOwners]
  BY <1>1, AskTypes DEF Close, Kill
<1>3. ShellTypeOK'
  BY <1>2 DEF Close, Kill, TypeOK, ShellTypeOK, pipes
<1>4. PolicyTypeOK'
  BY PolicyTypesKept DEF Close, Kill, TypeOK
<1>5. fut' \in [Callers -> Futures]
  BY FailWaitersTyped DEF Close, Kill, StartsKill, TypeOK
<1>6. SessionTypeOK'
  BY <1>2, <1>5 DEF Close, Kill, StartsKill, StateWas, TypeOK, SessionTypeOK,
                    waitVars, runVars, bookVars, Callers, Phases
<1> QED
  BY <1>3, <1>4, <1>6 DEF TypeOK

LEMMA CloseSendsTypes ==
    ASSUME TypeOK, NEW c \in Calls, CloseSends(c)
    PROVE  TypeOK'
<1>1. "close" \in CommandKinds
  BY DEF CommandKinds
<1>2. PolicyTypeOK'
  BY PolicyTypesKept DEF CloseSends, TypeOK
<1>3. CASE Send(c, "close")
  <2>1. ShellTypeOK'
    BY <1>1, <1>3, SendTypes DEF CloseSends, Send, TypeOK, ShellTypeOK
  <2>2. SessionTypeOK'
    BY <1>1, <1>3, SendTypes DEF CloseSends, Send, TypeOK, SessionTypeOK, runVars, bookVars
  <2> QED
    BY <1>2, <2>1, <2>2 DEF TypeOK
<1>4. CASE ~Send(c, "close")
  <2>1. ShellTypeOK'
    BY <1>4 DEF CloseSends, TypeOK, ShellTypeOK, pipes
  <2>2. SessionTypeOK'
    BY <1>4 DEF CloseSends, TypeOK, SessionTypeOK, modeVars, waitVars, runVars,
                bookVars, Phases
  <2> QED
    BY <1>2, <2>1, <2>2 DEF TypeOK
<1> QED
  BY <1>3, <1>4

LEMMA ClosesTypes ==
    ASSUME TypeOK, NEW killed \in BOOLEAN, Closes(killed)
    PROVE  /\ state' \in States
           /\ activity' = "none"
           /\ abandoned' \in Calls \cup {NoCall}
           /\ run' \in Calls \cup {NoCall}
           /\ journal' \subseteq Records
<1>1. Record("session_close", NoCall, NoCall, killed, FALSE) \in Records
  BY RecordTyped DEF TypeOK, RecordKinds
<1> QED
  BY <1>1 DEF Closes, Write, TypeOK, SessionTypeOK, States

LEMMA ReapedTypes ==
    ASSUME TypeOK, NEW c \in Calls, Reaped(c)
    PROVE  TypeOK'
<1>1. ShellTypeOK'
  BY DEF Reaped, TypeOK, ShellTypeOK, pipes
<1>2. PolicyTypeOK'
  BY PolicyTypesKept DEF Reaped, TypeOK
<1>3. CASE Closes(FALSE) /\ reader' = "stopped" /\ UNCHANGED <<closing, fut, wasDead>>
           /\ phase' = [phase EXCEPT ![c] = "done"]
  <2>1. SessionTypeOK'
    BY <1>3, ClosesTypes DEF Reaped, TypeOK, SessionTypeOK, Phases
  <2> QED
    BY <1>1, <1>2, <2>1 DEF TypeOK
<1>4. CASE StartsKill(c) /\ UNCHANGED <<state, activity, abandoned, run, journal, reader>>
  <2>1. fut' \in [Callers -> Futures]
    BY <1>4, FailWaitersTyped DEF StartsKill, TypeOK
  <2>2. SessionTypeOK'
    BY <1>4, <2>1 DEF Reaped, StartsKill, StateWas, TypeOK, SessionTypeOK, Callers, Phases
  <2> QED
    BY <1>1, <1>2, <2>2 DEF TypeOK
<1> QED
  BY <1>3, <1>4 DEF Reaped

LEMMA KillStrikesTypes ==
    ASSUME TypeOK, NEW c \in Callers, KillStrikes(c)
    PROVE  TypeOK'
<1>1. ShellTypeOK'
  BY ProcessEndsTypes DEF KillStrikes, TypeOK
<1>2. PolicyTypeOK'
  BY PolicyTypesKept DEF KillStrikes, TypeOK
<1>3. SessionTypeOK'
  BY DEF KillStrikes, TypeOK, SessionTypeOK, modeVars, waitVars, runVars, bookVars
<1> QED
  BY <1>1, <1>2, <1>3 DEF TypeOK

LEMMA KilledTypes ==
    ASSUME TypeOK, NEW c \in Callers, Killed(c)
    PROVE  TypeOK'
<1>1. ShellTypeOK'
  BY DEF Killed, TypeOK, ShellTypeOK, pipes
<1>2. PolicyTypeOK'
  BY PolicyTypesKept DEF Killed, TypeOK
<1>3. SessionTypeOK'
  BY ClosesTypes DEF Killed, TypeOK, SessionTypeOK, Phases
<1> QED
  BY <1>1, <1>2, <1>3 DEF TypeOK

LEMMA OpeningTypes ==
    ASSUME TypeOK, Opening
    PROVE  TypeOK'
<1> USE DEF Callers
<1>1. ShellTypeOK'
  BY DEF Opening, HelloTimesOut, Stopped, Opened, OpenFails, TypeOK, ShellTypeOK, pipes
<1>2. PolicyTypeOK'
  BY PolicyTypesKept DEF Opening, HelloTimesOut, Stopped, Opened, OpenFails, TypeOK
<1>3. StartsKill(Opener) => /\ fut' \in [Callers -> Futures]
                            /\ wasDead' \subseteq Callers
                            /\ phase' \in [Callers -> Phases]
                            /\ closing' \in BOOLEAN
  BY FailWaitersTyped DEF StartsKill, StateWas, TypeOK, SessionTypeOK, Phases
<1>4. CASE HelloTimesOut
  <2>1. SessionTypeOK'
    BY <1>4, DieTypes DEF HelloTimesOut, TypeOK, SessionTypeOK, Phases
  <2> QED
    BY <1>1, <1>2, <2>1 DEF TypeOK
<1>5. CASE Stopped
  <2>1. SessionTypeOK'
    BY <1>3, <1>5 DEF Stopped, TypeOK, SessionTypeOK, runVars, bookVars
  <2> QED
    BY <1>1, <1>2, <2>1 DEF TypeOK
<1>6. CASE Opened
  <2>1. Record("session_open", NoCall, NoCall, FALSE, FALSE) \in Records
    BY RecordTyped DEF TypeOK, RecordKinds
  <2>2. /\ fut' \in [Callers -> Futures]
        /\ wasDead' \subseteq Callers
        /\ phase' \in [Callers -> Phases]
        /\ closing' \in BOOLEAN
    BY <1>3, <1>6 DEF Opened, TypeOK, SessionTypeOK, Phases
  <2>3. SessionTypeOK'
    BY <1>6, <2>1, <2>2 DEF Opened, Write, TypeOK, SessionTypeOK, waitVars, runVars, States
  <2> QED
    BY <1>1, <1>2, <2>3 DEF TypeOK
<1>7. CASE OpenFails
  <2>1. SessionTypeOK'
    BY <1>3, <1>7 DEF OpenFails, TypeOK, SessionTypeOK, waitVars, runVars, bookVars
  <2> QED
    BY <1>1, <1>2, <2>1 DEF TypeOK
<1> QED
  BY <1>4, <1>5, <1>6, <1>7 DEF Opening

LEMMA PeopleTypes ==
    ASSUME TypeOK,
           (\E kind \in OwnerKinds : TransferOwner(kind)) \/ PolicyChanges
    PROVE  TypeOK'
<1>1. ShellTypeOK'
  BY DEF TransferOwner, PolicyChanges, TypeOK, ShellTypeOK, pipes, callVars
<1>2. PolicyTypeOK'
  <2>1. Live \in BOOLEAN
    BY DEF Live
  <2> QED
    BY <2>1, PolicyTypesKept DEF TransferOwner, PolicyChanges, TypeOK
<1>3. SessionTypeOK'
  BY DEF TransferOwner, PolicyChanges, TypeOK, SessionTypeOK, modeVars, callVars,
         waitVars, runVars, bookVars
<1> QED
  BY <1>1, <1>2, <1>3 DEF TypeOK

LEMMA ShellStepTypes ==
    ASSUME TypeOK, ShellStep PROVE TypeOK'
<1>1. ShellTypeOK'
  BY ShellTypes DEF ShellStep, TypeOK
<1>2. PolicyTypeOK'
  BY PolicyTypesKept DEF ShellStep, TypeOK
<1>3. SessionTypeOK'
  BY DEF ShellStep, TypeOK, SessionTypeOK, modeVars, waitVars, runVars, bookVars
<1> QED
  BY <1>1, <1>2, <1>3 DEF TypeOK

-----------------------------------------------------------------------------
LEMMA TypesBegin == Init => TypeOK /\ HeldIsThere
<1> SUFFICES ASSUME Init PROVE TypeOK /\ HeldIsThere
  OBVIOUS
<1>1. ShellTypeOK
  BY DEF Init, ShellInit, ShellTypeOK
<1>2. PolicyTypeOK
  <2> USE PolicyAssumption
  <2>1. PICK kind \in OwnerKinds, ask \in {"default", "yes", "no"} :
          /\ target \in Targets
          /\ owners = <<kind>>
          /\ switch \in BOOLEAN
          /\ optedOut = (ask = "no")
          /\ allow = /\ ~Production
                     /\ IF ask = "default" THEN StartsWithCommit(kind, FALSE)
                                           ELSE ask = "yes"
          /\ grant \in {"container", "session", "none"}
    BY DEF Init, PolicyInit
  <2>2. allow \in BOOLEAN /\ optedOut \in BOOLEAN
    BY <2>1, Zenon DEF StartsWithCommit, NeedsNoGrant, SwitchCovers
  <2>3. owners \in Seq(OwnerKinds) /\ Len(owners) \in 1..MaxOwners
    BY <2>1
  <2> QED
    BY <2>1, <2>2, <2>3 DEF PolicyTypeOK, Grants
<1>3. SessionTypeOK
  <2>1. phase \in [Callers -> Phases] /\ fut \in [Callers -> Futures]
    BY DEF Init, Phases, Futures
  <2>2. sender \in [Calls -> 0..MaxOwners]
    BY PolicyAssumption DEF Init
  <2>3. /\ state \in States /\ closing \in BOOLEAN /\ activity = "none"
        /\ timed = {} /\ wasDead = {} /\ journal = {}
        /\ waiter = NoCall /\ abandoned = NoCall /\ run = NoCall
        /\ reader = "reading" /\ ranTest \in BOOLEAN /\ announced \in BOOLEAN
        /\ pending \in Nat /\ inherited \in Nat
    BY DEF Init, States
  <2> QED
    BY <2>1, <2>2, <2>3 DEF SessionTypeOK
<1> QED
  BY <1>1, <1>2, <1>3 DEF Init, TypeOK, HeldIsThere

(* Only the reader takes a frame off the pipe, and not while it sleeps.    *)
OutboxGrows ==
    /\ reader' = reader
    /\ outbox' = outbox \/ \E f \in Frames : outbox' = Append(outbox, f)

LEMMA ShellAppends ==
    ASSUME TypeOK, ShellStep PROVE OutboxGrows
<1> USE DEF TypeOK, ShellTypeOK, OutboxGrows, Callers
<1>1. reader' = reader
  BY DEF ShellStep, waitVars
<1>2. CASE SayHello
  <2>1. Frame(Opener, FALSE, FALSE) \in Frames
    BY FrameTyped
  <2> QED
    BY <1>1, <1>2, <2>1 DEF SayHello
<1>3. CASE SayBye
  <2>1. Head(pipe) \in Callers
    BY <1>3 DEF SayBye
  <2>2. Frame(Head(pipe), FALSE, FALSE) \in Frames
    BY <2>1, FrameTyped
  <2> QED
    BY <1>1, <1>3, <2>2 DEF SayBye
<1>4. CASE TakeCommand \/ ProcessEnds
  BY <1>1, <1>4 DEF TakeCommand, ProcessEnds
<1>5. ASSUME NEW kind, NEW err \in BOOLEAN, Answers(kind, err) PROVE OutboxGrows
  <2>1. PICK big \in BOOLEAN : outbox' = Append(outbox, Frame(current, err, big))
    BY <1>5 DEF Answers
  <2>2. Frame(current, err, big) \in Frames
    BY <1>5, FrameTyped DEF Answers
  <2> QED
    BY <1>1, <2>1, <2>2
<1>6. CASE FinishExec \/ FinishRead \/ FinishRunTest \/ FinishCommit \/ FinishRollback
  BY <1>5, <1>6 DEF FinishExec, FinishRead, FinishRunTest, FinishCommit, FinishRollback
<1> QED
  BY <1>2, <1>3, <1>4, <1>6 DEF ShellStep, ShellNext

LEMMA GrowingKeepsHeld ==
    ASSUME TypeOK, HeldIsThere, OutboxGrows PROVE HeldIsThere'
BY DEF TypeOK, ShellTypeOK, HeldIsThere, OutboxGrows

LEMMA ReadsKeepHeld ==
    ASSUME TypeOK, HeldIsThere, Reads PROVE HeldIsThere'
BY DEF TypeOK, ShellTypeOK, HeldIsThere, Reads, ReadFrame, HoldLateRun,
       SettleLateRun, EndOfFrames

(* Every other step leaves the pipe alone, and the reader, or stops it.    *)
LEMMA OthersKeepHeld ==
    ASSUME HeldIsThere,
           UNCHANGED <<outbox, reader>> \/ reader' = "stopped"
    PROVE  HeldIsThere'
BY DEF HeldIsThere

-----------------------------------------------------------------------------
LEMMA TypesStep ==
    ASSUME TypeOK, HeldIsThere, [Next]_vars
    PROVE  (TypeOK /\ HeldIsThere)'
<1>1. CASE ShellStep
  BY <1>1, ShellStepTypes, ShellAppends, GrowingKeepsHeld
<1>2. ASSUME NEW c \in Calls, Asks(c) PROVE (TypeOK /\ HeldIsThere)'
  <2>1. TypeOK'
    BY <1>2, ExecuteTypes, RunTestTypes, EndTransactionTypes, InterruptTypes,
       CloseTypes DEF Asks
  <2>2. UNCHANGED <<outbox, reader>>
    BY <1>2 DEF Asks, Execute, RunTest, EndTransaction, Send, Interrupt, Close, Kill,
       waitVars, pipes
  <2> QED
    BY <2>1, <2>2, OthersKeepHeld
<1>3. ASSUME NEW c \in Calls, Proceeds(c) PROVE (TypeOK /\ HeldIsThere)'
  <2>1. TypeOK'
    BY <1>3, AnsweredTypes, RaisedTypes, TimerTypes, SignalReturnsTypes,
       InterruptTypes, DrainedTypes, CloseSendsTypes, ReapedTypes DEF Proceeds
  <2>2. UNCHANGED <<outbox, reader>> \/ reader' = "stopped"
    BY <1>3 DEF Proceeds, Answered, Failed, DrainRaises, Raised, TimesOut,
       SignalReturns, InterruptReturns, Drained, CloseSends, Send, Reaped,
       waitVars, pipes
  <2> QED
    BY <2>1, <2>2, OthersKeepHeld
<1>4. ASSUME NEW c \in Calls, TimerFires(c) \/ SignalLands(c)
      PROVE  (TypeOK /\ HeldIsThere)'
  BY <1>4, TimerTypes, OthersKeepHeld DEF TimerFires, SignalLands, waitVars, pipes
<1>5. ASSUME NEW c \in Callers, Ends(c) PROVE (TypeOK /\ HeldIsThere)'
  <2>1. TypeOK'
    BY <1>5, KillStrikesTypes, KilledTypes DEF Ends
  <2>2. UNCHANGED <<outbox, reader>> \/ reader' = "stopped"
    BY <1>5 DEF Ends, KillStrikes, ProcessEnds, Killed, waitVars, pipes
  <2> QED
    BY <2>1, <2>2, OthersKeepHeld
<1>6. CASE Reads
  BY <1>6, ReadsTypes, ReadsKeepHeld
<1>7. CASE Opening
  BY <1>7, OpeningTypes, OthersKeepHeld DEF Opening, HelloTimesOut, Stopped, Opened,
     OpenFails, waitVars, pipes
<1>8. CASE (\E kind \in OwnerKinds : TransferOwner(kind)) \/ PolicyChanges
  BY <1>8, PeopleTypes, OthersKeepHeld DEF TransferOwner, PolicyChanges, waitVars, pipes
<1>9. CASE UNCHANGED vars
  <2>1. UNCHANGED <<modeVars, callVars, waitVars, runVars, bookVars, pipes, policyVars>>
    BY <1>9 DEF vars
  <2>2. ShellTypeOK'
    BY <2>1 DEF TypeOK, ShellTypeOK, callVars, pipes
  <2>3. PolicyTypeOK'
    BY <2>1, PolicyTypesKept DEF TypeOK
  <2>4. SessionTypeOK'
    BY <2>1 DEF TypeOK, SessionTypeOK, modeVars, callVars, waitVars, runVars, bookVars
  <2>5. HeldIsThere'
    BY <2>1, OthersKeepHeld DEF waitVars, pipes
  <2> QED
    BY <2>2, <2>3, <2>4, <2>5 DEF TypeOK
<1> QED
  BY <1>1, <1>2, <1>3, <1>4, <1>5, <1>6, <1>7, <1>8, <1>9 DEF Next

(* Every variable of a session keeps its type whatever calls its clients   *)
(* make, whatever menus, targets, line limits and number of owners; and    *)
(* the reader never sleeps on a frame it does not hold.                    *)
THEOREM TypesHold == Spec => []TypeOK
<1>1. Spec => [](TypeOK /\ HeldIsThere)
  BY TypesBegin, TypesStep, PTL DEF Spec
<1> QED
  BY <1>1, PTL

-----------------------------------------------------------------------------
(* Over the types: what keeps a ready session quiet and an end final.      *)

LEMMA SafeBegins == Init => SafeInv
BY ShellAssumption
   DEF Init, ShellInit, SafeInv, ReadyMeansQuiet, Beginning, OneInFlight,
       AtMostOne, AnsweredIsQuiet, OneWaits, FailureIsFinal, EndingIsClosing,
       OpenerFirst, Quiet, Callers

(* What SafeInv reads.                                                     *)
safeVars == <<state, closing, op, phase, fut, wasDead, abandoned,
              proc, pipe, current, outbox>>

LEMMA UntouchedKeepsSafe == ASSUME SafeInv, UNCHANGED safeVars PROVE SafeInv'
BY DEF safeVars, SafeInv, ReadyMeansQuiet, Beginning, OneInFlight, AtMostOne,
       AnsweredIsQuiet, OneWaits, FailureIsFinal, EndingIsClosing, OpenerFirst,
       Quiet, Live

-----------------------------------------------------------------------------
(* The shell.                                                              *)

daemonVars == <<state, closing, op, phase, fut, wasDead, abandoned>>

(* Its steps concern the first four parts only.                            *)
LEMMA ShellConcerns ==
    ASSUME SafeInv, UNCHANGED daemonVars,
           ReadyMeansQuiet', Beginning', OneInFlight', AnsweredIsQuiet'
    PROVE  SafeInv'
BY DEF daemonVars, SafeInv, OneWaits, FailureIsFinal, EndingIsClosing,
       OpenerFirst, Live

(* Work in the container shows: nothing is ready, and nobody was answered. *)
NotQuiet ==
    /\ state # "ready"
    /\ ~closing => ~(fut[Opener] = "ok" /\ state = "starting")
    /\ ~closing /\ state = "busy" =>
          \A c \in Calls : ~(phase[c] = "waiting" /\ fut[c] \in {"ok", "error"})

LEMMA WorkShows == ASSUME SafeInv, ~Quiet PROVE NotQuiet
BY DEF SafeInv, ReadyMeansQuiet, AnsweredIsQuiet, NotQuiet

LEMMA WorkMoves ==
    ASSUME SafeInv, NotQuiet, UNCHANGED daemonVars, proc' # "booting",
           ~closing => AtMostOne'
    PROVE  SafeInv'
<1>1. ReadyMeansQuiet'
  BY DEF NotQuiet, ReadyMeansQuiet, daemonVars
<1>2. Beginning'
  BY DEF Beginning
<1>3. OneInFlight'
  BY DEF OneInFlight, daemonVars
<1>4. AnsweredIsQuiet'
  BY DEF NotQuiet, AnsweredIsQuiet, daemonVars
<1> QED
  BY <1>1, <1>2, <1>3, <1>4, ShellConcerns

LEMMA HelloKeepsSafe ==
    ASSUME TypeOK, SafeInv, SayHello, UNCHANGED daemonVars
    PROVE  SafeInv'
<1>1. Quiet /\ fut[Opener] # "ok" /\ state \notin {"ready", "busy"}
  BY DEF SayHello, SafeInv, Beginning
<1>2. NotQuiet
  BY <1>1 DEF NotQuiet
<1>3. AtMostOne'
  BY <1>1 DEF SayHello, Quiet, AtMostOne
<1> QED
  BY <1>2, <1>3, WorkMoves DEF SayHello

LEMMA TakeKeepsSafe ==
    ASSUME TypeOK, SafeInv, TakeCommand, UNCHANGED daemonVars
    PROVE  SafeInv'
<1>1. ~Quiet
  BY DEF TakeCommand, Quiet
<1>2. ~closing => AtMostOne'
  BY DEF TakeCommand, SafeInv, OneInFlight, AtMostOne, TypeOK, ShellTypeOK
<1> QED
  BY <1>1, <1>2, WorkShows, WorkMoves DEF TakeCommand

LEMMA ByeKeepsSafe ==
    ASSUME TypeOK, SafeInv, SayBye, UNCHANGED daemonVars
    PROVE  SafeInv'
<1>1. ~Quiet
  BY DEF SayBye, Quiet
<1>2. ASSUME ~closing PROVE AtMostOne'
  <2>1. outbox = <<>>
    BY <1>2 DEF SayBye, SafeInv, OneInFlight, AtMostOne
  <2>2. pipe' = <<>> /\ current' = NoCall
    BY DEF SayBye, ProcessGone
  <2>3. Len(outbox') = 1
    BY <2>1 DEF SayBye
  <2> QED
    BY <2>2, <2>3 DEF AtMostOne
<1> QED
  BY <1>1, <1>2, WorkShows, WorkMoves DEF SayBye, ProcessGone

LEMMA AnswersKeepsSafe ==
    ASSUME TypeOK, SafeInv, NEW kind, NEW err \in BOOLEAN, Answers(kind, err),
           UNCHANGED daemonVars
    PROVE  SafeInv'
<1>1. current # NoCall
  BY ShellAssumption DEF Answers, TypeOK, ShellTypeOK, Callers
<1>2. ~Quiet
  BY <1>1 DEF Quiet
<1>3. ~closing => AtMostOne'
  BY <1>1 DEF Answers, SafeInv, OneInFlight, AtMostOne
<1> QED
  BY <1>2, <1>3, WorkShows, WorkMoves DEF Answers

LEMMA DeathKeepsSafe ==
    ASSUME TypeOK, SafeInv, ProcessEnds, UNCHANGED daemonVars
    PROVE  SafeInv'
<1> USE DEF ProcessEnds, ProcessGone, SafeInv, Quiet, daemonVars
<1>1. ReadyMeansQuiet'
  BY DEF ReadyMeansQuiet
<1>2. Beginning'
  BY DEF Beginning
<1>3. OneInFlight'
  BY DEF OneInFlight, AtMostOne
<1>4. AnsweredIsQuiet'
  BY DEF AnsweredIsQuiet
<1> QED
  BY <1>1, <1>2, <1>3, <1>4, ShellConcerns

LEMMA ShellKeepsSafe == ASSUME TypeOK, SafeInv, ShellStep PROVE SafeInv'
<1>1. ShellNext => UNCHANGED op
  BY DEF ShellNext, SayHello, TakeCommand, SayBye, FinishExec, FinishRead,
         FinishRunTest, FinishCommit, FinishRollback, Answers, ProcessEnds
<1>2. UNCHANGED daemonVars
  BY <1>1 DEF ShellStep, daemonVars, modeVars, waitVars
<1>3. CASE FinishExec \/ FinishRead \/ FinishRunTest \/ FinishCommit \/ FinishRollback
  BY <1>2, <1>3, AnswersKeepsSafe
     DEF FinishExec, FinishRead, FinishRunTest, FinishCommit, FinishRollback
<1> QED
  BY <1>2, <1>3, HelloKeepsSafe, TakeKeepsSafe, ByeKeepsSafe, DeathKeepsSafe
     DEF ShellStep, ShellNext

-----------------------------------------------------------------------------
(* Steps that end the session's free life: in a closing session OneInFlight, *)
(* AnsweredIsQuiet and OneWaits ask nothing.                               *)

LEMMA ClosingConcerns ==
    ASSUME SafeInv, closing', UNCHANGED <<state, proc, pipe, current, outbox>>,
           fut'[Opener] = "ok" => fut[Opener] = "ok",
           phase'[Opener] = "starting" => phase[Opener] = "starting",
           EndingIsClosing'
    PROVE  SafeInv'
BY DEF SafeInv, ReadyMeansQuiet, Beginning, OneInFlight, AnsweredIsQuiet,
       OneWaits, FailureIsFinal, OpenerFirst, Quiet, Live

LEMMA FailingTellsNoOk ==
    ASSUME TypeOK, FailWaiters
    PROVE  \A c \in Callers : fut'[c] \in {fut[c], "failed"}
BY DEF TypeOK, SessionTypeOK, FailWaiters

LEMMA StartsKillKeepsSafe ==
    ASSUME TypeOK, SafeInv, NEW c \in Callers, StartsKill(c),
           UNCHANGED <<state, proc, pipe, current, outbox>>,
           \A d \in Calls : d # c => op'[d] = op[d],
           c \in Calls /\ op'[c] = "close" => op[c] = "close" /\ phase[c] # "done"
    PROVE  SafeInv'
<1>1. closing' /\ wasDead \subseteq wasDead' /\ (state = "dead" => c \in wasDead')
  BY DEF StartsKill, StateWas
<1>2. phase' = [phase EXCEPT ![c] = "killing"] /\ phase \in [Callers -> Phases]
  BY DEF StartsKill, TypeOK, SessionTypeOK
<1>3. fut'[Opener] = "ok" => fut[Opener] = "ok"
  BY FailingTellsNoOk DEF StartsKill, Callers
<1>4. \A d \in Callers : phase'[d] = IF d = c THEN "killing" ELSE phase[d]
  BY <1>2
<1>5. EndingIsClosing'
  <2>1. phase'[Opener] \in {"starting", "stopping", "killing", "done"}
    BY <1>4 DEF SafeInv, EndingIsClosing, Callers
  <2>2. \A d \in Callers : phase'[d] = "killing" => d \in wasDead' \/ state' # "dead"
    BY <1>1, <1>4 DEF SafeInv, EndingIsClosing
  <2>3. ASSUME NEW d \in Calls
        PROVE  /\ phase'[d] \notin {"starting", "stopping"}
               /\ phase'[d] \in {"closing", "reaping"} => op'[d] = "close"
               /\ op'[d] = "close" => phase'[d] # "new"
               /\ op'[d] = "close" /\ phase'[d] # "done" => state' # "dead"
    BY <1>4 DEF SafeInv, EndingIsClosing, Callers
  <2> QED
    BY <1>1, <2>1, <2>2, <2>3 DEF EndingIsClosing
<1> QED
  BY <1>1, <1>3, <1>4, <1>5, ClosingConcerns DEF Callers

LEMMA CloseKeepsSafe ==
    ASSUME TypeOK, SafeInv, NEW c \in Calls, Close(c)
    PROVE  SafeInv'
<1>1. closing' /\ UNCHANGED <<state, wasDead, proc, pipe, current, outbox>>
  BY DEF Close, pipes
<1>2. /\ phase' = [phase EXCEPT ![c] = "closing"] /\ phase \in [Callers -> Phases]
      /\ op' = [op EXCEPT ![c] = "close"] /\ op \in [Calls -> CallKinds \cup {"none"}]
      /\ state # "dead"
  BY DEF Close, Ask, Live, Terminal, TypeOK, ShellTypeOK, SessionTypeOK
<1>3. fut'[Opener] = "ok" => fut[Opener] = "ok"
  BY FailingTellsNoOk DEF Close, Callers
<1>4. EndingIsClosing'
  BY <1>1, <1>2, ShellAssumption DEF SafeInv, EndingIsClosing, Callers
<1> QED
  BY <1>1, <1>2, <1>3, <1>4, ClosingConcerns, ShellAssumption DEF Callers

-----------------------------------------------------------------------------
(* A command sent.                                                         *)

LEMMA SendKeepsSafe ==
    ASSUME TypeOK, SafeInv, NEW c \in Calls, NEW kind \in CommandKinds,
           Ask(c, kind), Send(c, kind), kind # "close"
    PROVE  SafeInv'
<1>1. ~closing /\ state = "ready" /\ Quiet
  BY DEF Send, Acceptable, Live, Terminal, States, TypeOK, SessionTypeOK, SafeInv,
         ReadyMeansQuiet
<1>2. /\ closing' = closing /\ state' = "busy" /\ abandoned' = abandoned
      /\ UNCHANGED <<proc, current, outbox, wasDead>>
      /\ pipe' \in {<<>>, <<c>>}
  BY <1>1 DEF Send, Quiet
<1>3. /\ \A d \in Callers : d # c => fut'[d] = fut[d] /\ phase'[d] = phase[d]
      /\ fut'[c] = "pending" /\ phase'[c] \in {"waiting", "broken"}
      /\ \A d \in Calls : d # c => op'[d] = op[d]
      /\ op'[c] = kind
      /\ c # Opener /\ c \in Callers /\ Opener \in Callers
  BY ShellAssumption DEF Send, Ask, TypeOK, ShellTypeOK, SessionTypeOK, Callers
<1>4. proc' # "booting"
  BY <1>1, <1>2 DEF SafeInv, Beginning
<1>5. OneInFlight'
  BY <1>1, <1>2 DEF OneInFlight, AtMostOne, Quiet
<1>6. abandoned' = NoCall /\ \A d \in Calls : phase'[d] = "waiting" => d = c
  BY <1>1, <1>2, <1>3 DEF SafeInv, OneWaits, Callers
<1>7. AnsweredIsQuiet' /\ OneWaits'
  BY <1>2, <1>3, <1>6 DEF AnsweredIsQuiet, OneWaits
<1>8. FailureIsFinal'
  BY <1>1, <1>2, <1>3 DEF SafeInv, FailureIsFinal, Live, Terminal
<1>9. EndingIsClosing'
  BY <1>1, <1>2, <1>3 DEF SafeInv, EndingIsClosing, Callers
<1>10. OpenerFirst'
  BY <1>1, <1>3 DEF SafeInv, OpenerFirst, Live, Terminal
<1> QED
  BY <1>2, <1>4, <1>5, <1>7, <1>8, <1>9, <1>10
     DEF SafeInv, ReadyMeansQuiet, Beginning

LEMMA CloseSendsKeepsSafe ==
    ASSUME TypeOK, SafeInv, NEW c \in Calls, phase[c] = "closing",
           Send(c, "close"), UNCHANGED op
    PROVE  SafeInv'
<1>1. closing /\ op[c] = "close"
  BY DEF SafeInv, EndingIsClosing
<1>2. closing' /\ state' = "busy" /\ UNCHANGED <<wasDead, proc>>
  BY <1>1 DEF Send
<1>3. /\ \A d \in Callers : d # c => phase'[d] = phase[d]
      /\ phase'[c] \in {"waiting", "broken"}
      /\ c # Opener /\ c \in Callers /\ Opener \in Callers
  BY ShellAssumption DEF Send, TypeOK, SessionTypeOK, Callers
<1>4. state \notin {"starting", "closed", "dead"}
  BY DEF Send, Acceptable, Live, Terminal
<1>5. proc' # "booting"
  BY <1>2, <1>4 DEF SafeInv, Beginning, Send, Acceptable, States, TypeOK,
                    SessionTypeOK
<1>6. EndingIsClosing'
  BY <1>1, <1>2, <1>3 DEF SafeInv, EndingIsClosing, Callers
<1>7. OpenerFirst'
  BY <1>3, <1>4 DEF SafeInv, OpenerFirst, Live, Terminal
<1> QED
  BY <1>2, <1>5, <1>6, <1>7 DEF SafeInv, ReadyMeansQuiet, Beginning,
     OneInFlight, AnsweredIsQuiet, OneWaits, FailureIsFinal

-----------------------------------------------------------------------------
(* A call moves on, and the session does not.                              *)

LEMMA MovingOnKeepsSafe ==
    ASSUME TypeOK, SafeInv, NEW c \in Calls,
           NEW p \in {"signalled", "draining", "reaping", "done"},
           phase' = [phase EXCEPT ![c] = p],
           p = "reaping" => op[c] = "close",
           phase[c] \notin {"new", "done"},
           UNCHANGED <<state, closing, op, fut, wasDead, abandoned, proc, pipe,
                       current, outbox>>
    PROVE  SafeInv'
<1>1. /\ \A d \in Callers : phase'[d] = IF d = c THEN p ELSE phase[d]
      /\ c # Opener
  BY ShellAssumption DEF TypeOK, SessionTypeOK, Callers
<1>2. \A d \in Calls : phase'[d] = "waiting" => phase[d] = "waiting" /\ d # c
  BY <1>1 DEF Callers
<1>3. ReadyMeansQuiet' /\ Beginning' /\ OneInFlight'
  BY DEF SafeInv, ReadyMeansQuiet, Beginning, OneInFlight, AtMostOne, Quiet
<1>4. AnsweredIsQuiet'
  BY <1>2 DEF SafeInv, AnsweredIsQuiet, Quiet
<1>5. OneWaits'
  BY <1>2 DEF SafeInv, OneWaits
<1>6. FailureIsFinal' /\ OpenerFirst'
  BY <1>1 DEF SafeInv, FailureIsFinal, OpenerFirst, Live, Callers
<1>7. EndingIsClosing'
  BY <1>1 DEF SafeInv, EndingIsClosing, Callers
<1> QED
  BY <1>3, <1>4, <1>5, <1>6, <1>7 DEF SafeInv

(* Nobody is answered by a timer.                                          *)
LEMMA TimerKeepsSafe ==
    ASSUME TypeOK, SafeInv, NEW c \in Calls, TimerFires(c)
    PROVE  SafeInv'
<1>1. UNCHANGED <<state, closing, op, phase, wasDead, abandoned, proc, pipe,
                  current, outbox>>
  BY DEF TimerFires, modeVars, waitVars, pipes
<1>2. \A d \in Callers : fut'[d] \in {fut[d], "cancelled"}
  BY DEF TimerFires, TypeOK, SessionTypeOK
<1>3. Opener \in Callers /\ \A d \in Calls : d \in Callers
  BY DEF Callers
<1>4. Beginning' /\ AnsweredIsQuiet' /\ FailureIsFinal'
  BY <1>1, <1>2, <1>3 DEF SafeInv, Beginning, AnsweredIsQuiet, FailureIsFinal,
     Quiet, Live
<1> QED
  BY <1>1, <1>4 DEF SafeInv, ReadyMeansQuiet, OneInFlight, AtMostOne, OneWaits,
     EndingIsClosing, OpenerFirst, Quiet, Live

(* An answer frees the session: it was the one thing in flight.            *)
LEMMA AnsweredKeepsSafe ==
    ASSUME TypeOK, SafeInv, NEW c \in Calls, Answered(c)
    PROVE  SafeInv'
<1>1. PICK p \in {"draining", "reaping", "done"} :
        phase' = [phase EXCEPT ![c] = p] /\ (p = "reaping" => op[c] = "close")
  BY DEF Answered, ResumeExec, ResumeRunTest, ResumeBoundary, ResumeClose
<1>2. /\ UNCHANGED <<closing, op, fut, wasDead, abandoned, proc, pipe, current, outbox>>
      /\ phase[c] = "waiting" /\ fut[c] \in {"ok", "error"}
  BY DEF Answered, pipes
<1>3. CASE ~FreesSession
  <2>1. UNCHANGED state
    BY <1>3 DEF Answered, LeaveRequest
  <2> QED
    BY <1>1, <1>2, <2>1, MovingOnKeepsSafe
<1>4. CASE FreesSession
  <2>1. state' = "ready" /\ state = "busy" /\ ~closing
    BY <1>4 DEF Answered, LeaveRequest, FreesSession
  <2>2. /\ \A d \in Callers : phase'[d] = IF d = c THEN p ELSE phase[d]
        /\ c # Opener
    BY <1>1, ShellAssumption DEF TypeOK, SessionTypeOK, Callers
  <2>3. Quiet /\ Quiet'
    BY <1>2, <2>1 DEF SafeInv, AnsweredIsQuiet, Quiet
  <2>4. Beginning' /\ OneInFlight' /\ AnsweredIsQuiet'
    BY <1>2, <2>1, <2>3 DEF SafeInv, Beginning, OneInFlight, AtMostOne, AnsweredIsQuiet
  <2>5. OneWaits'
    BY <1>2, <2>1, <2>2 DEF SafeInv, OneWaits, Callers
  <2>6. FailureIsFinal'
    BY <1>2, <2>1 DEF SafeInv, FailureIsFinal, Live, Terminal
  <2>7. EndingIsClosing'
    BY <1>1, <1>2, <2>1, <2>2 DEF SafeInv, EndingIsClosing, Callers
  <2>8. OpenerFirst'
    BY <2>1, <2>2 DEF SafeInv, OpenerFirst, Live, Terminal, Callers
  <2> QED
    BY <2>3, <2>4, <2>5, <2>6, <2>7, <2>8 DEF SafeInv, ReadyMeansQuiet
<1> QED
  BY <1>3, <1>4

(* A failed call leaves a session that is closing, or has ended.           *)
LEMMA RaisedKeepsSafe ==
    ASSUME TypeOK, SafeInv, NEW c \in Calls, Failed(c) \/ DrainRaises(c)
    PROVE  SafeInv'
<1>1. Raised(c) /\ phase[c] \in {"waiting", "broken"}
  BY DEF Failed, DrainRaises
<1>2. UNCHANGED state
  <2>1. CASE Failed(c)
    BY <2>1 DEF Failed, LeaveRequest, FreesSession, SafeInv, FailureIsFinal,
                Live, Terminal, Callers
  <2> QED
    BY <2>1 DEF DrainRaises
<1> QED
  BY <1>1, <1>2, MovingOnKeepsSafe DEF Raised, AfterRequest, pipes

LEMMA SignalsKeepSafe ==
    ASSUME TypeOK, SafeInv, NEW c \in Calls,
           SignalLands(c) \/ SignalReturns(c) \/ InterruptReturns(c) \/ Drained(c)
    PROVE  SafeInv'
<1>1. CASE SignalReturns(c)
  BY <1>1, MovingOnKeepsSafe DEF SignalReturns, AfterRequest, modeVars, pipes
<1>2. CASE SignalLands(c) \/ InterruptReturns(c) \/ Drained(c)
  BY <1>2, MovingOnKeepsSafe DEF SignalLands, InterruptReturns, Drained, modeVars,
     waitVars, pipes
<1> QED
  BY <1>1, <1>2

(* Who gives up was the only one waiting.                                  *)
LEMMA TimesOutKeepsSafe ==
    ASSUME TypeOK, SafeInv, NEW c \in Calls, TimesOut(c)
    PROVE  SafeInv'
<1>1. phase[c] = "waiting" /\ phase' = [phase EXCEPT ![c] = "signalling"]
  BY DEF TimesOut
<1>2. ~closing => state \notin {"starting", "ready"}
  BY <1>1 DEF SafeInv, OneWaits
<1>3. \A d \in Callers : phase'[d] = IF d = c THEN "signalling" ELSE phase[d]
  BY <1>1 DEF TypeOK, SessionTypeOK
<1>4. UNCHANGED <<state, closing, op, fut, wasDead, proc, pipe, current, outbox>>
  BY DEF TimesOut, modeVars, pipes
<1>5. OneWaits'
  BY <1>1, <1>2, <1>3, <1>4 DEF SafeInv, OneWaits, Callers
<1>6. AnsweredIsQuiet'
  BY <1>3, <1>4 DEF SafeInv, AnsweredIsQuiet, Quiet, Callers
<1>7. EndingIsClosing' /\ OpenerFirst'
  BY <1>1, <1>3, <1>4, ShellAssumption
     DEF SafeInv, EndingIsClosing, OpenerFirst, Live, Callers
<1> QED
  BY <1>4, <1>5, <1>6, <1>7 DEF SafeInv, ReadyMeansQuiet, Beginning, OneInFlight,
     AtMostOne, FailureIsFinal, Quiet, Live

-----------------------------------------------------------------------------
(* The end of a session.                                                   *)

LEMMA ClosedKeepsSafe ==
    ASSUME TypeOK, SafeInv, NEW c \in Callers, phase[c] \in {"reaping", "killing"},
           phase' = [phase EXCEPT ![c] = "done"], proc = "exited",
           state' = "closed", UNCHANGED <<closing, op, wasDead, proc>>
    PROVE  SafeInv'
<1>1. closing /\ closing'
  BY DEF SafeInv, EndingIsClosing, Callers
<1>2. \A d \in Callers : phase'[d] = IF d = c THEN "done" ELSE phase[d]
  BY DEF TypeOK, SessionTypeOK
<1>3. EndingIsClosing'
  BY <1>1, <1>2 DEF SafeInv, EndingIsClosing, Callers
<1> QED
  BY <1>1, <1>3 DEF SafeInv, ReadyMeansQuiet, Beginning, OneInFlight,
     AnsweredIsQuiet, OneWaits, FailureIsFinal, OpenerFirst, Live, Terminal

LEMMA ReapedKeepsSafe ==
    ASSUME TypeOK, SafeInv, NEW c \in Calls, Reaped(c)
    PROVE  SafeInv'
<1>1. c \in Callers /\ phase[c] = "reaping" /\ UNCHANGED <<op, proc, pipe, current, outbox>>
  BY DEF Reaped, pipes, Callers
<1>2. op[c] = "close"
  BY <1>1 DEF SafeInv, EndingIsClosing
<1>3. CASE proc = "exited"
  BY <1>1, <1>3, ClosedKeepsSafe DEF Reaped, Closes
<1>4. CASE proc # "exited"
  BY <1>1, <1>2, <1>4, StartsKillKeepsSafe DEF Reaped
<1> QED
  BY <1>3, <1>4

LEMMA KilledKeepsSafe ==
    ASSUME TypeOK, SafeInv, NEW c \in Callers, Killed(c)
    PROVE  SafeInv'
<1>1. /\ phase[c] = "killing" /\ phase' = [phase EXCEPT ![c] = "done"]
      /\ proc = "exited"
      /\ UNCHANGED <<closing, op, fut, wasDead, proc, pipe, current, outbox>>
  BY DEF Killed, pipes
<1>2. CASE c \notin wasDead
  BY <1>1, <1>2, ClosedKeepsSafe DEF Killed, Closes
<1>3. CASE c \in wasDead
  <2>1. UNCHANGED state /\ closing
    BY <1>1, <1>3 DEF Killed, SafeInv, EndingIsClosing
  <2>2. \A d \in Callers : phase'[d] = IF d = c THEN "done" ELSE phase[d]
    BY <1>1 DEF TypeOK, SessionTypeOK
  <2>3. EndingIsClosing'
    BY <1>1, <2>1, <2>2 DEF SafeInv, EndingIsClosing, Callers
  <2>4. phase'[Opener] = "starting" => phase[Opener] = "starting"
    BY <2>2 DEF Callers
  <2> QED
    BY <1>1, <2>1, <2>3, <2>4, ClosingConcerns
<1> QED
  BY <1>2, <1>3

(* _die: nobody is closing, so nobody is left in the middle of an end.     *)
LEMMA DyingKeepsSafe ==
    ASSUME TypeOK, SafeInv, Die, Dies,
           phase'[Opener] \in {phase[Opener], "stopping"},
           \A c \in Calls : phase'[c] = phase[c],
           UNCHANGED <<closing, op, wasDead, proc, pipe, current, outbox>>
    PROVE  SafeInv'
<1>1. state' = "dead" /\ ~closing /\ ~closing' /\ FailWaiters
  BY DEF Die, Dies
<1>2. fut'[Opener] = "ok" => fut[Opener] = "ok"
  BY <1>1, FailingTellsNoOk DEF Callers
<1>3. Beginning' /\ OneInFlight'
  BY <1>1, <1>2 DEF SafeInv, Beginning, OneInFlight, AtMostOne, Quiet
<1>4. EndingIsClosing'
  BY <1>1 DEF SafeInv, EndingIsClosing, Callers
<1> QED
  BY <1>1, <1>3, <1>4 DEF SafeInv, ReadyMeansQuiet, AnsweredIsQuiet, OneWaits,
     FailureIsFinal, OpenerFirst, Live, Terminal

LEMMA EndOfFramesKeepsSafe ==
    ASSUME TypeOK, SafeInv, EndOfFrames
    PROVE  SafeInv'
<1>1. UNCHANGED <<closing, op, phase, wasDead, proc, pipe, current, outbox>>
  BY DEF EndOfFrames, ReaderElsewhere
<1>2. CASE Dies
  BY <1>1, <1>2, DyingKeepsSafe DEF EndOfFrames
<1>3. CASE ~Dies
  BY <1>1, <1>3, UntouchedKeepsSafe DEF EndOfFrames, Die, safeVars
<1> QED
  BY <1>2, <1>3

-----------------------------------------------------------------------------
(* A frame is read.                                                        *)

(* It was the one thing in flight, unless the session is closing.          *)
LEMMA LastFrame ==
    ASSUME TypeOK, SafeInv, outbox # <<>>, outbox' = Tail(outbox),
           UNCHANGED <<pipe, current>>
    PROVE  /\ state # "ready" /\ proc # "booting"
           /\ ~closing => Quiet'
<1>1. ~Quiet
  BY DEF Quiet
<1>2. ASSUME ~closing PROVE Quiet'
  <2>1. Len(outbox) <= 1 /\ pipe = <<>> /\ current = NoCall
    BY <1>2 DEF SafeInv, OneInFlight, AtMostOne
  <2>2. outbox' = <<>>
    BY <2>1 DEF TypeOK, ShellTypeOK
  <2> QED
    BY <2>1, <2>2 DEF Quiet
<1> QED
  BY <1>1, <1>2 DEF SafeInv, ReadyMeansQuiet, Beginning

LEMMA FrameKeepsSafe ==
    ASSUME TypeOK, SafeInv, outbox # <<>>, outbox' = Tail(outbox),
           UNCHANGED <<closing, op, phase, wasDead, proc, pipe, current>>,
           \/ \E c \in Callers, err \in BOOLEAN : Deliver(c, err)
           \/ abandoned # NoCall /\ \E err \in BOOLEAN : SettleAbandoned(err)
           \/ DropFrame
    PROVE  SafeInv'
<1>1. state # "ready" /\ proc # "booting" /\ (~closing => Quiet')
  BY LastFrame
<1>2. Beginning'
  BY <1>1 DEF Beginning
<1>3. OneInFlight' /\ AnsweredIsQuiet'
  BY <1>1 DEF OneInFlight, AtMostOne, AnsweredIsQuiet, Quiet
<1>4. CASE UNCHANGED <<state, abandoned>>
           /\ \A c \in Callers : fut'[c] \in {fut[c], "ok", "error"}
  <2>1. ReadyMeansQuiet' /\ OneWaits' /\ FailureIsFinal' /\ EndingIsClosing' /\ OpenerFirst'
    BY <1>1, <1>4 DEF SafeInv, ReadyMeansQuiet, OneWaits, FailureIsFinal,
       EndingIsClosing, OpenerFirst, Live
  <2> QED
    BY <1>2, <1>3, <2>1 DEF SafeInv
<1>5. CASE abandoned # NoCall /\ \E err \in BOOLEAN : SettleAbandoned(err)
  <2>1. /\ abandoned' = NoCall /\ UNCHANGED fut
        /\ IF FreesSession THEN state' = "ready" ELSE UNCHANGED state
    BY <1>5 DEF SettleAbandoned
  <2>2. ~closing /\ state \in {"starting", "busy", "ready"} =>
           \A c \in Calls : phase[c] # "waiting"
    BY <1>5 DEF SafeInv, OneWaits
  <2>3. ReadyMeansQuiet' /\ OneWaits'
    BY <1>1, <2>1, <2>2 DEF FreesSession, ReadyMeansQuiet, OneWaits
  <2>4. FailureIsFinal' /\ EndingIsClosing' /\ OpenerFirst'
    BY <2>1 DEF SafeInv, FreesSession, FailureIsFinal, EndingIsClosing,
       OpenerFirst, Live, Terminal
  <2> QED
    BY <1>2, <1>3, <2>3, <2>4 DEF SafeInv
<1>6. CASE \E c \in Callers, err \in BOOLEAN : Deliver(c, err)
  BY <1>4, <1>6 DEF Deliver, TypeOK, SessionTypeOK
<1>7. CASE DropFrame
  BY <1>4, <1>7 DEF DropFrame
<1> QED
  BY <1>5, <1>6, <1>7

LEMMA ReadsKeepSafe ==
    ASSUME TypeOK, HeldIsThere, SafeInv, Reads
    PROVE  SafeInv'
<1>1. CASE EndOfFrames
  BY <1>1, EndOfFramesKeepsSafe
<1>2. CASE HoldLateRun
  BY <1>2, UntouchedKeepsSafe DEF HoldLateRun, DropFrame, ReaderElsewhere, safeVars
<1>3. outbox # <<>> => Head(outbox).id \in Callers /\ Head(outbox).err \in BOOLEAN
  <2>1. outbox # <<>> => Head(outbox) \in Frames
    BY DEF TypeOK, ShellTypeOK
  <2> QED
    BY <2>1 DEF Frames
<1>4. waiter # NoCall => waiter \in Callers
  BY DEF TypeOK, SessionTypeOK, Callers
<1>5. NoCall \notin Callers /\ Opener \in Callers
  BY ShellAssumption DEF Callers
<1>6. CASE ReadFrame
  <2>1. \/ \E c \in Callers, err \in BOOLEAN : Deliver(c, err)
        \/ abandoned # NoCall /\ \E err \in BOOLEAN : SettleAbandoned(err)
        \/ DropFrame
    <3> DEFINE f == Head(outbox)
    <3>1. f.id \in Callers /\ f.err \in BOOLEAN /\ FrameArrives(f)
      BY <1>3, <1>6 DEF ReadFrame
    <3>2. CASE f.big
      BY <1>4, <3>1, <3>2 DEF FrameArrives, Overrun, WaiterPending
    <3>3. CASE ~f.big /\ IsLate(f)
      BY <1>5, <3>1, <3>3 DEF FrameArrives, IsLate
    <3>4. CASE ~f.big /\ ~IsLate(f)
      BY <1>4, <1>5, <3>1, <3>4 DEF FrameArrives, WaiterPending
    <3> QED
      BY <3>2, <3>3, <3>4
  <2> QED
    BY <1>6, <2>1, FrameKeepsSafe DEF ReadFrame, ReaderElsewhere
<1>7. CASE SettleLateRun
  <2>1. outbox # <<>>
    BY <1>7 DEF SettleLateRun, HeldIsThere
  <2>2. \/ abandoned # NoCall /\ \E err \in BOOLEAN : SettleAbandoned(err)
        \/ DropFrame
    BY <1>3, <1>5, <1>7, <2>1 DEF SettleLateRun, IsLate
  <2> QED
    BY <1>7, <2>1, <2>2, FrameKeepsSafe DEF SettleLateRun, ReaderElsewhere
<1> QED
  BY <1>1, <1>2, <1>6, <1>7 DEF Reads

-----------------------------------------------------------------------------
(* The opening.                                                            *)

LEMMA OpenedKeepsSafe == ASSUME TypeOK, SafeInv, Opened PROVE SafeInv'
<1>1. /\ phase[Opener] = "starting" /\ fut[Opener] = "ok" /\ ~closing /\ Live
      /\ state' = "ready"
      /\ UNCHANGED <<op, abandoned, proc, pipe, current, outbox>>
  BY DEF Opened, waitVars, pipes
<1>2. state = "starting" /\ Quiet /\ proc # "booting"
  BY <1>1 DEF SafeInv, OpenerFirst, AnsweredIsQuiet, Beginning
<1>3. ReadyMeansQuiet' /\ Beginning' /\ OneInFlight' /\ AnsweredIsQuiet'
  BY <1>1, <1>2 DEF Quiet, ReadyMeansQuiet, Beginning, OneInFlight, AtMostOne,
     AnsweredIsQuiet
<1>4. PICK p \in {"done", "killing"} :
        /\ phase' = [phase EXCEPT ![Opener] = p]
        /\ IF p = "done" THEN UNCHANGED <<closing, wasDead, fut>> ELSE closing'
  BY DEF Opened, StartsKill
<1>5. \A d \in Callers : phase'[d] = IF d = Opener THEN p ELSE phase[d]
  BY <1>4 DEF TypeOK, SessionTypeOK
<1>6. OneWaits'
  BY <1>1, <1>2, <1>4, <1>5, ShellAssumption DEF SafeInv, OneWaits, Callers
<1>7. FailureIsFinal'
  BY <1>1, <1>4 DEF SafeInv, FailureIsFinal
<1>8. EndingIsClosing'
  <2>1. \A c \in Calls : phase'[c] = phase[c]
    BY <1>5, ShellAssumption DEF Callers
  <2>2. closing => closing'
    BY <1>1
  <2>3. \A c \in Callers : phase'[c] = "killing" => closing' /\ state' # "dead"
    BY <1>1, <1>4, <1>5 DEF SafeInv, EndingIsClosing
  <2> QED
    BY <1>1, <1>5, <2>1, <2>2, <2>3 DEF SafeInv, EndingIsClosing, Callers
<1>9. OpenerFirst'
  BY <1>5 DEF OpenerFirst, Callers
<1> QED
  BY <1>3, <1>6, <1>7, <1>8, <1>9 DEF SafeInv

LEMMA HelloTimesOutKeepsSafe == ASSUME TypeOK, SafeInv, HelloTimesOut PROVE SafeInv'
<1>1. UNCHANGED <<closing, op, wasDead, proc, pipe, current, outbox>>
  BY DEF HelloTimesOut, pipes
<1>2. \A d \in Callers : phase'[d] = IF d = Opener THEN "stopping" ELSE phase[d]
  BY DEF HelloTimesOut, TypeOK, SessionTypeOK
<1>3. phase'[Opener] = "stopping" /\ \A d \in Calls : phase'[d] = phase[d]
  BY <1>2, ShellAssumption DEF Callers
<1>4. CASE Dies
  BY <1>1, <1>3, <1>4, DyingKeepsSafe DEF HelloTimesOut
<1>5. CASE ~Dies
  <2>1. UNCHANGED <<state, abandoned, fut>>
    BY <1>5 DEF HelloTimesOut, Die
  <2>2. \A c \in Callers : phase'[c] = "killing" => phase[c] = "killing"
    BY <1>2
  <2>3. EndingIsClosing'
    BY <1>1, <1>3, <2>1, <2>2 DEF SafeInv, EndingIsClosing
  <2> QED
    BY <1>1, <1>3, <2>1, <2>3 DEF SafeInv, ReadyMeansQuiet, Beginning, OneInFlight,
       AtMostOne, AnsweredIsQuiet, OneWaits, FailureIsFinal, OpenerFirst, Quiet, Live
<1> QED
  BY <1>4, <1>5

LEMMA OpeningKeepsSafe == ASSUME TypeOK, SafeInv, Opening PROVE SafeInv'
<1>1. Opener \in Callers /\ Opener \notin Calls
  BY ShellAssumption DEF Callers
<1>2. CASE Stopped \/ OpenFails
  BY <1>1, <1>2, StartsKillKeepsSafe DEF Stopped, OpenFails, pipes
<1> QED
  BY <1>2, OpenedKeepsSafe, HelloTimesOutKeepsSafe DEF Opening

-----------------------------------------------------------------------------
LEMMA AsksKeepSafe ==
    ASSUME TypeOK, SafeInv, NEW c \in Calls, Asks(c)
    PROVE  SafeInv'
<1>1. ASSUME NEW kind \in {"exec", "read"}, Execute(c, kind) PROVE SafeInv'
  BY <1>1, SendKeepsSafe DEF Execute, CommandKinds
<1>2. CASE RunTest(c)
  BY <1>2, SendKeepsSafe DEF RunTest, CommandKinds
<1>3. ASSUME NEW kind \in Boundaries, EndTransaction(c, kind) PROVE SafeInv'
  BY <1>3, SendKeepsSafe DEF EndTransaction, Boundaries, CommandKinds
<1>4. CASE Interrupt(c)
  <2>1. /\ phase' = [phase EXCEPT ![c] = "signalling"] /\ phase[c] = "new"
        /\ op' = [op EXCEPT ![c] = "interrupt"]
        /\ UNCHANGED <<state, closing, fut, wasDead, abandoned, proc, pipe,
                       current, outbox>>
    BY <1>4 DEF Interrupt, Ask, modeVars, waitVars, pipes
  <2>2. /\ \A d \in Callers : phase'[d] = IF d = c THEN "signalling" ELSE phase[d]
        /\ \A d \in Calls : op'[d] = IF d = c THEN "interrupt" ELSE op[d]
        /\ c # Opener
    BY <2>1, ShellAssumption DEF TypeOK, ShellTypeOK, SessionTypeOK, Callers
  <2>3. EndingIsClosing'
    BY <2>1, <2>2 DEF SafeInv, EndingIsClosing, Callers
  <2>4. AnsweredIsQuiet' /\ OneWaits' /\ OpenerFirst'
    BY <2>1, <2>2 DEF SafeInv, AnsweredIsQuiet, OneWaits, OpenerFirst, Quiet, Live, Callers
  <2> QED
    BY <2>1, <2>3, <2>4 DEF SafeInv, ReadyMeansQuiet, Beginning, OneInFlight,
       AtMostOne, FailureIsFinal, Quiet, Live
<1>5. CASE Kill(c)
  <2>1. c \in Callers /\ op'[c] = "kill" /\ \A d \in Calls : d # c => op'[d] = op[d]
    BY <1>5 DEF Kill, Ask, TypeOK, ShellTypeOK, Callers
  <2> QED
    BY <1>5, <2>1, StartsKillKeepsSafe DEF Kill, pipes
<1> QED
  BY <1>1, <1>2, <1>3, <1>4, <1>5, CloseKeepsSafe DEF Asks

LEMMA ProceedsKeepSafe ==
    ASSUME TypeOK, SafeInv, NEW c \in Calls, Proceeds(c)
    PROVE  SafeInv'
<1>1. CASE CloseSends(c)
  <2>1. CASE Send(c, "close")
    BY <1>1, <2>1, CloseSendsKeepsSafe DEF CloseSends
  <2>2. CASE ~Send(c, "close")
    <3>1. phase[c] = "closing" /\ op[c] = "close"
      BY <1>1 DEF CloseSends, SafeInv, EndingIsClosing
    <3> QED
      BY <1>1, <2>2, <3>1, MovingOnKeepsSafe DEF CloseSends, modeVars, waitVars, pipes
  <2> QED
    BY <2>1, <2>2
<1> QED
  BY <1>1, AnsweredKeepsSafe, RaisedKeepsSafe, TimesOutKeepsSafe, SignalsKeepSafe,
     ReapedKeepsSafe DEF Proceeds

LEMMA EndsKeepSafe ==
    ASSUME TypeOK, SafeInv, NEW c \in Callers, Ends(c)
    PROVE  SafeInv'
<1>1. CASE KillStrikes(c)
  BY <1>1, DeathKeepsSafe DEF KillStrikes, ProcessEnds, daemonVars, modeVars, waitVars
<1> QED
  BY <1>1, KilledKeepsSafe DEF Ends

LEMMA InvStep == ASSUME Inv, [Next]_vars PROVE Inv'
<1> USE DEF Inv
<1>1. (TypeOK /\ HeldIsThere)'
  BY TypesStep
<1>2. SafeInv'
  <2>1. CASE \E c \in Calls : Asks(c) \/ Proceeds(c) \/ TimerFires(c) \/ SignalLands(c)
    BY <2>1, AsksKeepSafe, ProceedsKeepSafe, TimerKeepsSafe, SignalsKeepSafe
  <2>2. CASE (\E kind \in OwnerKinds : TransferOwner(kind)) \/ PolicyChanges
             \/ UNCHANGED vars
    BY <2>2, UntouchedKeepsSafe DEF TransferOwner, PolicyChanges, vars, modeVars,
       callVars, waitVars, pipes, safeVars
  <2> QED
    BY <2>1, <2>2, ShellKeepsSafe, EndsKeepSafe, ReadsKeepSafe, OpeningKeepsSafe DEF Next
<1> QED
  BY <1>1, <1>2

LEMMA Invariance == Spec => []Inv
<1>1. Init => Inv
  BY TypesBegin, SafeBegins DEF Inv
<1> QED
  BY <1>1, InvStep, PTL DEF Spec

(* A session that reports ready has nothing of its own in the container or *)
(* on the pipes, whatever timed out, overran, was interrupted or raced.    *)
THEOREM ReadyQuiet == Spec => []ReadyMeansQuiet
<1>1. Inv => ReadyMeansQuiet
  BY DEF Inv, SafeInv
<1> QED
  BY <1>1, Invariance, PTL

LEMMA EndStep == ASSUME Inv, Next, ~Live PROVE UNCHANGED state
<1> USE DEF Inv, modeVars
<1>1. ASSUME NEW c \in Calls, Asks(c) PROVE UNCHANGED state
  BY <1>1 DEF Asks, Execute, RunTest, EndTransaction, Send, Acceptable, Interrupt,
     Close, Kill
<1>2. ~FreesSession
  BY DEF FreesSession, Live, Terminal
<1>3. ASSUME NEW c \in Calls, Reaped(c) PROVE UNCHANGED state
  BY <1>3 DEF Reaped, Closes, SafeInv, EndingIsClosing, Live, Terminal
<1>4. ASSUME NEW c \in Callers, Killed(c) PROVE UNCHANGED state
  BY <1>4 DEF Killed, Closes, SafeInv, EndingIsClosing, Live, Terminal
<1>5. ASSUME NEW c \in Calls, Proceeds(c) PROVE UNCHANGED state
  BY <1>2, <1>3, <1>5 DEF Proceeds, Answered, Failed, LeaveRequest, DrainRaises,
     TimesOut, SignalReturns, InterruptReturns, Drained, CloseSends, Send, Acceptable
<1>6. CASE Reads
  BY <1>2, <1>6 DEF Reads, ReadFrame, HoldLateRun, SettleLateRun, EndOfFrames,
     FrameArrives, Overrun, Deliver, SettleAbandoned, DropFrame, Die, Dies
<1>7. CASE Opening
  BY <1>7 DEF Opening, HelloTimesOut, Stopped, Opened, OpenFails, Die, Dies
<1> QED
  BY <1>1, <1>4, <1>5, <1>6, <1>7 DEF Next, ShellStep, TimerFires, SignalLands,
     Ends, KillStrikes, TransferOwner, PolicyChanges

(* A session that has ended stays ended the way it did.                    *)
THEOREM EndFinal == Spec => EndIsFinal
<1>1. ASSUME Inv, [Next]_vars PROVE [~Live => UNCHANGED state]_vars
  BY <1>1, EndStep
<1> QED
  BY <1>1, Invariance, PTL DEF Spec, EndIsFinal

LEMMA NotReadyStep ==
    ASSUME Inv, Next, closing, state # "ready"
    PROVE  state' # "ready"
<1> USE DEF modeVars
<1>1. ~FreesSession
  BY DEF FreesSession
<1>2. ASSUME NEW c \in Calls, Asks(c) PROVE state' # "ready"
  BY <1>2 DEF Asks, Execute, RunTest, EndTransaction, Send, Interrupt, Close, Kill
<1>3. ASSUME NEW c \in Calls, Proceeds(c) PROVE state' # "ready"
  BY <1>1, <1>3 DEF Proceeds, Answered, Failed, LeaveRequest, DrainRaises, TimesOut,
     SignalReturns, InterruptReturns, Drained, CloseSends, Send, Reaped, Closes
<1>4. CASE Reads
  BY <1>1, <1>4 DEF Reads, ReadFrame, HoldLateRun, SettleLateRun, EndOfFrames,
     FrameArrives, Overrun, Deliver, SettleAbandoned, DropFrame, Die
<1>5. CASE Opening
  BY <1>5 DEF Opening, HelloTimesOut, Stopped, Opened, OpenFails, Die, Dies
<1> QED
  BY <1>2, <1>3, <1>4, <1>5 DEF Next, ShellStep, TimerFires, SignalLands, Ends,
     KillStrikes, Killed, Closes, TransferOwner, PolicyChanges

(* Once it is closing, a session never reports ready on the way.           *)
THEOREM NeverReadyAgain == Spec => ClosingNeverReady
<1>1. ASSUME Inv, [Next]_vars
      PROVE  [closing /\ state # "ready" => state' # "ready"]_vars
  BY <1>1, NotReadyStep
<1> QED
  BY <1>1, Invariance, PTL DEF Spec, ClosingNeverReady

-----------------------------------------------------------------------------
(* The counts of a transaction: what a step may make of them.              *)

CountsMove ==
    \/ UNCHANGED <<pending, inherited>>
    \/ pending' = 0 /\ inherited' = 0
    \/ pending' = pending + 1 /\ UNCHANGED inherited
    \/ UNCHANGED pending /\ inherited' = pending

LEMMA CountsOnlyMove == ASSUME [Next]_vars PROVE CountsMove
<1> USE DEF CountsMove, bookVars, ForgetPending, BookExec
<1>1. ASSUME NEW c \in Calls, Asks(c) PROVE CountsMove
  BY <1>1 DEF Asks, Execute, RunTest, EndTransaction, Interrupt, Close, Kill
<1>2. ASSUME NEW c \in Calls, Proceeds(c) PROVE CountsMove
  BY <1>2 DEF Proceeds, Answered, ResumeExec, ResumeRunTest, ResumeBoundary, ResumeClose,
     Failed, Raised, DrainRaises, TimesOut, SignalReturns, InterruptReturns, Drained,
     ExecDrained, RunDrained, CloseSends, Reaped
<1>3. CASE Reads
  BY <1>3 DEF Reads, ReadFrame, HoldLateRun, SettleLateRun, EndOfFrames, FrameArrives,
     Overrun, Deliver, SettleAbandoned, DropFrame
<1>4. CASE Opening
  BY <1>4 DEF Opening, HelloTimesOut, Stopped, Opened, OpenFails
<1> QED
  BY <1>1, <1>2, <1>3, <1>4 DEF Next, vars, ShellStep, TimerFires, SignalLands, Ends,
     KillStrikes, Killed, TransferOwner, PolicyChanges

(* A handover never carries more than is pending, and what ends or restarts*)
(* the transaction forgets both: in _run_result, _boundary,                *)
(* _settle_abandoned and set_owner, in any order of any calls.             *)
THEOREM InheritedFits == Spec => []InheritedWithinPending
<1>1. Init => InheritedWithinPending
  BY DEF Init, InheritedWithinPending
<1>2. ASSUME TypeOK, InheritedWithinPending, [Next]_vars PROVE InheritedWithinPending'
  <2>1. pending \in Nat /\ inherited \in Nat
    BY <1>2 DEF TypeOK, SessionTypeOK
  <2> QED
    BY <1>2, <2>1, CountsOnlyMove DEF CountsMove, InheritedWithinPending
<1> QED
  BY <1>1, <1>2, TypesHold, PTL DEF Spec

-----------------------------------------------------------------------------
(* The lifecycle: each step of a session is one of its abstract steps, or  *)
(* none at all.                                                            *)

lifeVars == <<state, closing>>

LEMMA EndingIsLife ==
    ASSUME TypeOK, state # "dead", closing, state' = "closed", UNCHANGED closing
    PROVE  [Life!Next]_lifeVars
BY DEF TypeOK, SessionTypeOK, States, lifeVars, Life!Next, Life!Close, Life!Ended

LEMMA DyingIsLife ==
    ASSUME TypeOK, Die, UNCHANGED closing
    PROVE  [Life!Next]_lifeVars
BY DEF Die, Dies, Live, Terminal, lifeVars, Life!Next, Life!Die, Life!Ended

LEMMA FreeingIsLife ==
    ASSUME UNCHANGED closing, IF FreesSession THEN state' = "ready" ELSE UNCHANGED state
    PROVE  [Life!Next]_lifeVars
BY DEF FreesSession, lifeVars, Life!Next, Life!Finish

LEMMA SendingIsLife ==
    ASSUME TypeOK, NEW c \in Calls, NEW kind \in CallKinds, Send(c, kind)
    PROVE  [Life!Next]_lifeVars
BY DEF Send, Acceptable, Live, Terminal, TypeOK, SessionTypeOK, States, lifeVars,
       Life!Next, Life!Begin

LEMMA AskingToEndIsLife ==
    ASSUME TypeOK, closing', UNCHANGED state
    PROVE  [Life!Next]_lifeVars
BY DEF TypeOK, SessionTypeOK, lifeVars, Life!Next, Life!AskToEnd

LEMMA AsksAreLife ==
    ASSUME TypeOK, NEW c \in Calls, Asks(c)
    PROVE  [Life!Next]_lifeVars
<1>1. CASE Close(c) \/ Kill(c)
  BY <1>1, AskingToEndIsLife DEF Close, Kill, StartsKill, modeVars, lifeVars
<1>2. CASE Interrupt(c)
  BY <1>2 DEF Interrupt, modeVars, lifeVars
<1> QED
  BY <1>1, <1>2, SendingIsLife DEF Asks, Execute, RunTest, EndTransaction, Boundaries,
     CallKinds, CommandKinds

LEMMA ProceedsAreLife ==
    ASSUME TypeOK, SafeInv, NEW c \in Calls, Proceeds(c)
    PROVE  [Life!Next]_lifeVars
<1>1. CASE Answered(c) \/ Failed(c)
  BY <1>1, FreeingIsLife DEF Answered, Failed, LeaveRequest, Raised
<1>2. CASE CloseSends(c)
  <2>1. "close" \in CallKinds
    BY DEF CallKinds, CommandKinds
  <2>2. CASE Send(c, "close")
    BY <2>1, <2>2, SendingIsLife
  <2>3. CASE ~Send(c, "close")
    BY <1>2, <2>3 DEF CloseSends, modeVars, lifeVars
  <2> QED
    BY <2>2, <2>3
<1>3. CASE Reaped(c)
  <2>1. closing /\ state # "dead"
    BY <1>3 DEF Reaped, SafeInv, EndingIsClosing
  <2> QED
    BY <1>3, <2>1, EndingIsLife, AskingToEndIsLife DEF Reaped, Closes, StartsKill
<1> QED
  BY <1>1, <1>2, <1>3 DEF Proceeds, DrainRaises, Raised, TimesOut, SignalReturns,
     InterruptReturns, Drained, modeVars, lifeVars

LEMMA ReadsAreLife == ASSUME TypeOK, Reads PROVE [Life!Next]_lifeVars
<1>1. UNCHANGED closing
  BY DEF Reads, ReadFrame, HoldLateRun, SettleLateRun, EndOfFrames, ReaderElsewhere,
         modeVars
<1>2. CASE EndOfFrames
  BY <1>1, <1>2, DyingIsLife DEF EndOfFrames
<1>3. CASE ReadFrame \/ SettleLateRun
  <2>1. IF FreesSession THEN state' \in {state, "ready"} ELSE UNCHANGED state
    BY <1>3 DEF ReadFrame, SettleLateRun, FrameArrives, Overrun, Deliver,
       SettleAbandoned, DropFrame
  <2> QED
    BY <1>1, <2>1, FreeingIsLife DEF lifeVars
<1> QED
  BY <1>1, <1>2, <1>3 DEF Reads, HoldLateRun, DropFrame, lifeVars

LEMMA OpeningIsLife == ASSUME TypeOK, SafeInv, Opening PROVE [Life!Next]_lifeVars
<1>1. CASE Opened
  <2>1. state = "starting" /\ ~closing /\ state' = "ready" /\ closing' \in BOOLEAN
    BY <1>1 DEF Opened, SafeInv, OpenerFirst, StartsKill, TypeOK, SessionTypeOK
  <2> QED
    BY <2>1 DEF lifeVars, Life!Next, Life!Open
<1>2. CASE Stopped \/ OpenFails
  BY <1>2, AskingToEndIsLife DEF Stopped, OpenFails, StartsKill
<1>3. CASE HelloTimesOut
  BY <1>3, DyingIsLife DEF HelloTimesOut
<1> QED
  BY <1>1, <1>2, <1>3 DEF Opening

(* A session implements the lifecycle its registry relies on: it opens     *)
(* once, ends once, dies only when nobody asked it to end and is closed    *)
(* only when somebody did.                                                 *)
THEOREM LifecycleKept == Spec => ImplementsLifecycle
<1>1. Init => Life!Init
  BY DEF Init, Life!Init
<1>2. ASSUME Inv, [Next]_vars PROVE [Life!Next]_lifeVars
  <2> USE <1>2 DEF Inv
  <2>1. ASSUME NEW c \in Callers, Ends(c) PROVE [Life!Next]_lifeVars
    <3>1. CASE Killed(c)
      BY <3>1, EndingIsLife DEF Killed, Closes, SafeInv, EndingIsClosing, lifeVars
    <3> QED
      BY <2>1, <3>1 DEF Ends, KillStrikes, modeVars, lifeVars
  <2>2. CASE Next
    BY <2>1, <2>2, AsksAreLife, ProceedsAreLife, ReadsAreLife, OpeningIsLife
       DEF Next, ShellStep, TimerFires, SignalLands, TransferOwner, PolicyChanges,
           modeVars, lifeVars
  <2>3. CASE UNCHANGED vars
    BY <2>3 DEF vars, modeVars, lifeVars
  <2> QED
    BY <2>2, <2>3
<1> QED
  BY <1>1, <1>2, Invariance, PTL DEF Spec, ImplementsLifecycle, Life!Spec, lifeVars

-----------------------------------------------------------------------------
(* The commit right inside the session.  CommitPolicy's theorems speak of  *)
(* a policy that moves by itself; here its moves are the session's own.    *)

(* A step of a session that has not ended does one thing to the right, if  *)
(* it does anything: what PolicyNext names.  After the end the switch goes *)
(* on turning, and its sweep passes the session by.                        *)
RightMovesAsStated == PolicyInit /\ [][Live => PolicyNext]_policyVars

(* What the right keeps to for as long as the session can use it.          *)
RightStandsWhileLive == Live => PolicyInv

LEMMA SpendIsPolicy ==
    ASSUME SpendProductionGrant \/ UNCHANGED policyVars
    PROVE  [PolicyNext]_policyVars
<1>1. CASE SpendProductionGrant
  <2>1. Boundary("rollback")
    BY <1>1 DEF Boundary
  <2> QED
    BY <2>1 DEF PolicyNext
<1> QED
  BY <1>1

LEMMA CallsArePolicy ==
    ASSUME NEW c \in Calls, Asks(c) \/ Proceeds(c) \/ TimerFires(c) \/ SignalLands(c)
    PROVE  [PolicyNext]_policyVars
<1>1. CASE Asks(c)
  BY <1>1 DEF Asks, Execute, RunTest, EndTransaction, Interrupt, Close, Kill
<1>2. CASE Answered(c)
  BY <1>2, SpendIsPolicy DEF Answered, ResumeExec, ResumeRunTest, ResumeBoundary, ResumeClose
<1>3. CASE Failed(c) \/ DrainRaises(c) \/ SignalReturns(c)
  BY <1>3, SpendIsPolicy DEF Failed, DrainRaises, SignalReturns, Raised, SpendIfBoundary
<1>4. CASE TimesOut(c) \/ InterruptReturns(c) \/ Drained(c) \/ CloseSends(c) \/ Reaped(c)
  BY <1>4 DEF TimesOut, InterruptReturns, Drained, CloseSends, Reaped
<1>5. CASE TimerFires(c) \/ SignalLands(c)
  BY <1>5 DEF TimerFires, SignalLands
<1> QED
  BY <1>1, <1>2, <1>3, <1>4, <1>5 DEF Proceeds

LEMMA LoopLeavesPolicy ==
    ASSUME \/ ShellStep \/ Reads \/ Opening
           \/ \E c \in Callers : Ends(c)
    PROVE  UNCHANGED policyVars
<1>1. CASE ShellStep
  BY <1>1 DEF ShellStep
<1>2. CASE Reads
  BY <1>2 DEF Reads, ReadFrame, HoldLateRun, SettleLateRun, EndOfFrames, ReaderElsewhere
<1>3. CASE Opening
  BY <1>3 DEF Opening, HelloTimesOut, Stopped, Opened, OpenFails
<1>4. CASE \E c \in Callers : Ends(c)
  BY <1>4 DEF Ends, KillStrikes, Killed
<1> QED
  BY <1>1, <1>2, <1>3, <1>4

LEMMA PeopleArePolicy ==
    ASSUME Live, (\E kind \in OwnerKinds : TransferOwner(kind)) \/ PolicyChanges
    PROVE  PolicyNext
<1>1. CASE \E kind \in OwnerKinds : TransferOwner(kind)
  BY <1>1 DEF TransferOwner, PolicyNext
<1>2. CASE \E allowed, confirmed \in BOOLEAN : SetAllowCommit(allowed, confirmed)
  BY <1>2 DEF PolicyNext
<1>3. CASE TurnOn(Live)
  <2>1. TurnOn(TRUE)
    BY <1>3, Zenon DEF TurnOn
  <2> QED
    BY <2>1 DEF PolicyNext
<1>4. CASE \E stored \in BOOLEAN : TurnOff(Live, stored)
  <2>1. PICK stored \in BOOLEAN : TurnOff(Live, stored)
    BY <1>4
  <2>2. TurnOff(TRUE, stored)
    BY <2>1, Zenon DEF TurnOff
  <2> QED
    BY <2>2 DEF PolicyNext
<1> QED
  BY <1>1, <1>2, <1>3, <1>4 DEF PolicyChanges

LEMMA PolicyOfNext == ASSUME [Next]_vars PROVE [Live => PolicyNext]_policyVars
<1>1. CASE \E c \in Calls : Asks(c) \/ Proceeds(c) \/ TimerFires(c) \/ SignalLands(c)
  BY <1>1, CallsArePolicy
<1>2. CASE (\E kind \in OwnerKinds : TransferOwner(kind)) \/ PolicyChanges
  BY <1>2, PeopleArePolicy
<1>3. CASE UNCHANGED vars
  BY <1>3 DEF vars
<1> QED
  BY <1>1, <1>2, <1>3, LoopLeavesPolicy DEF Next

(* Composed with its calls, timers, frames and deaths, a session moves its *)
(* commit right only as CommitPolicy says, until it ends: no path through  *)
(* a failed boundary, a ceiling or a kill grants, keeps or half-spends it. *)
THEOREM RightMoves == Spec => RightMovesAsStated
<1>1. Init => PolicyInit
  BY DEF Init
<1> QED
  BY <1>1, PolicyOfNext, PTL DEF Spec, RightMovesAsStated

(* In a session that can still commit, production is a human's, a remote   *)
(* right was granted here, and the right always names the source it has.   *)
THEOREM RightStands == Spec => []RightStandsWhileLive
<1>1. Init => RightStandsWhileLive
  BY PolicyInitHolds DEF Init, RightStandsWhileLive
<1>2. ASSUME Inv, [Next]_vars, RightStandsWhileLive
      PROVE  RightStandsWhileLive'
  <2> SUFFICES ASSUME Live' PROVE PolicyInv'
    BY DEF RightStandsWhileLive
  <2>1. Live
    <3>1. CASE Next
      BY <1>2, <3>1, EndStep DEF Live
    <3>2. CASE UNCHANGED vars
      BY <3>2 DEF vars, modeVars, Live
    <3> QED
      BY <1>2, <3>1, <3>2
  <2>2. PolicyInv /\ [PolicyNext]_policyVars
    BY <1>2, <2>1, PolicyOfNext DEF RightStandsWhileLive
  <2> QED
    BY <2>2, PolicyStepHolds
<1> QED
  BY <1>1, <1>2, Invariance, PTL DEF Spec
=============================================================================
