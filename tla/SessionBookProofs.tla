------------------------- MODULE SessionBookProofs --------------------------
(***************************************************************************)
(* The books of a session, for any calls: what the journal says happened,  *)
(* what is pending, what is announced, and the right that pays for it.     *)
(*                                                                         *)
(* First what any step may do to each variable the books are read from;    *)
(* then, over Inv, one inductive invariant per question.                   *)
(***************************************************************************)
EXTENDS SessionProofs, FiniteSetTheorems

(* Every call in progress stands at an await of its own.                   *)
CallMoves(c) ==
    \/ op'[c] = op[c] /\ (phase'[c] = "new" <=> phase[c] = "new")
    \/ op'[c] \in Menu[c] /\ phase[c] = "new" /\ phase'[c] # "new"

LEMMA OneCallMoves ==
    ASSUME TypeOK, NEW c \in Callers, phase[c] # "new", UNCHANGED op,
           NEW p \in Phases \ {"new"}, phase' = [phase EXCEPT ![c] = p]
    PROVE  \A d \in Calls : CallMoves(d)
BY DEF CallMoves, TypeOK, SessionTypeOK, Callers

LEMMA OneCallAsks ==
    ASSUME TypeOK, NEW c \in Calls, NEW kind, Ask(c, kind),
           NEW p \in Phases \ {"new"}, phase' = [phase EXCEPT ![c] = p]
    PROVE  \A d \in Calls : CallMoves(d)
BY DEF CallMoves, Ask, TypeOK, ShellTypeOK, SessionTypeOK, Callers

LEMMA CallsMove ==
    ASSUME Inv, [Next]_vars
    PROVE  \A d \in Calls : CallMoves(d)
<1> USE DEF Inv, Phases
<1>1. ASSUME NEW c \in Calls, Asks(c) PROVE \A d \in Calls : CallMoves(d)
  <2>1. ASSUME NEW kind, Ask(c, kind), Send(c, kind)
        PROVE  \A d \in Calls : CallMoves(d)
    BY <2>1, OneCallAsks DEF Send
  <2>2. CASE Interrupt(c) \/ Close(c) \/ Kill(c)
    BY <2>2, OneCallAsks DEF Interrupt, Close, Kill, StartsKill
  <2> QED
    BY <1>1, <2>1, <2>2 DEF Asks, Execute, RunTest, EndTransaction
<1>2. ASSUME NEW c \in Calls,
             Proceeds(c) \/ TimerFires(c) \/ SignalLands(c)
      PROVE  \A d \in Calls : CallMoves(d)
  <2>1. c \in Callers
    BY DEF Callers
  <2>2. CASE Answered(c)
    <3>1. /\ phase[c] # "new" /\ UNCHANGED op
          /\ \E p \in {"draining", "done", "reaping"} : phase' = [phase EXCEPT ![c] = p]
      BY <2>2 DEF Answered, ResumeExec, ResumeRunTest, ResumeBoundary, ResumeClose
    <3> QED
      BY <2>1, <3>1, OneCallMoves
  <2>3. CASE Failed(c) \/ DrainRaises(c) \/ SignalReturns(c)
    <3>1. /\ phase[c] # "new" /\ UNCHANGED op
          /\ \E p \in {"done", "reaping"} : phase' = [phase EXCEPT ![c] = p]
      BY <2>3 DEF Failed, DrainRaises, Raised, SignalReturns, AfterRequest
    <3> QED
      BY <2>1, <3>1, OneCallMoves
  <2>4. CASE TimesOut(c) \/ SignalLands(c) \/ InterruptReturns(c) \/ Drained(c)
    <3>1. /\ phase[c] # "new" /\ UNCHANGED op
          /\ \E p \in {"signalling", "signalled", "done"} : phase' = [phase EXCEPT ![c] = p]
      BY <2>4 DEF TimesOut, SignalLands, InterruptReturns, Drained
    <3> QED
      BY <2>1, <3>1, OneCallMoves
  <2>5. CASE CloseSends(c) \/ Reaped(c)
    <3>1. /\ phase[c] # "new" /\ UNCHANGED op
          /\ \E p \in {"waiting", "broken", "reaping", "done", "killing"} :
                phase' = [phase EXCEPT ![c] = p]
      BY <2>5 DEF CloseSends, Send, Reaped, StartsKill
    <3> QED
      BY <2>1, <3>1, OneCallMoves
  <2>6. CASE TimerFires(c)
    BY <2>6 DEF TimerFires, CallMoves
  <2> QED
    BY <1>2, <2>2, <2>3, <2>4, <2>5, <2>6 DEF Proceeds
<1>3. ASSUME NEW c \in Callers, Ends(c) PROVE \A d \in Calls : CallMoves(d)
  <2>1. CASE KillStrikes(c)
    BY <2>1 DEF KillStrikes, ProcessEnds, CallMoves
  <2>2. CASE Killed(c)
    BY <2>2, OneCallMoves DEF Killed
  <2> QED
    BY <1>3, <2>1, <2>2 DEF Ends
<1>4. CASE Opening
  <2>1. Opener \in Callers /\ phase[Opener] # "new"
    BY DEF Callers, SafeInv, EndingIsClosing
  <2>2. /\ UNCHANGED op
        /\ \E p \in {"stopping", "killing", "done"} : phase' = [phase EXCEPT ![Opener] = p]
    BY <1>4 DEF Opening, HelloTimesOut, Stopped, Opened, OpenFails, StartsKill
  <2> QED
    BY <2>1, <2>2, OneCallMoves
<1>5. CASE Reads
  BY <1>5 DEF Reads, ReadFrame, HoldLateRun, SettleLateRun, EndOfFrames,
     ReaderElsewhere, CallMoves
<1>6. CASE ShellStep
  BY <1>6 DEF ShellStep, ShellNext, SayHello, TakeCommand, SayBye, FinishExec, FinishRead,
     FinishRunTest, FinishCommit, FinishRollback, Answers, ProcessEnds, CallMoves
<1>7. CASE (\E kind \in OwnerKinds : TransferOwner(kind)) \/ PolicyChanges \/ UNCHANGED vars
  BY <1>7 DEF TransferOwner, PolicyChanges, vars, callVars, CallMoves
<1> QED
  BY <1>1, <1>2, <1>3, <1>4, <1>5, <1>6, <1>7 DEF Next

-----------------------------------------------------------------------------
(* What each step leaves of the futures, the pipes and the journal.        *)

Reading(c) == outbox # <<>> /\ Head(outbox).id = c /\ ~Head(outbox).err

(* A future is answered once, and well only by its own frame.              *)
FutureMoves(c) ==
    \/ fut'[c] = fut[c]
    \/ fut'[c] = "pending" /\ Send(c, op'[c])
    \/ fut[c] = "pending" /\ fut'[c] \in {"error", "failed", "cancelled"}
    \/ fut[c] = "pending" /\ fut'[c] = "ok" /\ Reading(c)

LEMMA FuturesMove ==
    ASSUME Inv, [Next]_vars
    PROVE  \A d \in Calls : FutureMoves(d)
<1> USE DEF Inv, FutureMoves
<1>1. ASSUME FailWaiters PROVE \A d \in Calls : FutureMoves(d)
  BY <1>1 DEF FailWaiters, Callers
<1>2. ASSUME NEW c \in Calls, NEW kind, Send(c, kind), op'[c] = kind
      PROVE  \A d \in Calls : FutureMoves(d)
  BY <1>2 DEF Send, TypeOK, SessionTypeOK, Callers
<1>3. ASSUME NEW c \in Calls, Asks(c) PROVE \A d \in Calls : FutureMoves(d)
  <2>1. \A kind : Ask(c, kind) => op'[c] = kind
    BY DEF Ask, TypeOK, ShellTypeOK
  <2>2. CASE Close(c) \/ Kill(c)
    BY <1>1, <2>2 DEF Close, Kill, StartsKill
  <2>3. CASE Interrupt(c)
    BY <2>3 DEF Interrupt
  <2> QED
    BY <1>2, <1>3, <2>1, <2>2, <2>3 DEF Asks, Execute, RunTest, EndTransaction
<1>4. ASSUME NEW c \in Calls, Proceeds(c) PROVE \A d \in Calls : FutureMoves(d)
  <2>1. CASE CloseSends(c)
    <3>1. op'[c] = "close"
      BY <2>1 DEF CloseSends, SafeInv, EndingIsClosing
    <3> QED
      BY <1>2, <2>1, <3>1 DEF CloseSends
  <2>2. CASE Reaped(c)
    BY <1>1, <2>2 DEF Reaped, StartsKill
  <2> QED
    BY <1>4, <2>1, <2>2 DEF Proceeds, Answered, Failed, DrainRaises, Raised, TimesOut,
       SignalReturns, InterruptReturns, Drained
<1>5. ASSUME NEW c \in Calls, TimerFires(c) PROVE \A d \in Calls : FutureMoves(d)
  BY <1>5 DEF TimerFires, TypeOK, SessionTypeOK
<1>6. CASE Opening
  BY <1>1, <1>6 DEF Opening, HelloTimesOut, Stopped, Opened, OpenFails, StartsKill, Die
<1>7. CASE Reads
  <2>1. CASE EndOfFrames \/ HoldLateRun
    BY <1>1, <2>1 DEF EndOfFrames, Die, HoldLateRun, DropFrame
  <2>2. CASE SettleLateRun
    BY <2>2 DEF SettleLateRun, SettleAbandoned, DropFrame
  <2>3. CASE ReadFrame
    <3> DEFINE f == Head(outbox)
    <3>1. outbox # <<>> /\ FrameArrives(f)
      BY <2>3 DEF ReadFrame
    <3>2. f.err \in BOOLEAN
      <4>1. f \in Frames
        BY <3>1 DEF TypeOK, ShellTypeOK
      <4> QED
        BY <4>1 DEF Frames
    <3>3. fut \in [Callers -> Futures] /\ \A d \in Calls : d \in Callers /\ d # Opener
      BY ShellAssumption DEF TypeOK, SessionTypeOK, Callers
    <3>4. CASE f.big
      BY <3>1, <3>3, <3>4 DEF FrameArrives, Overrun, WaiterPending, Deliver,
         SettleAbandoned, DropFrame
    <3>5. CASE ~f.big
      BY <3>1, <3>2, <3>3, <3>5 DEF FrameArrives, WaiterPending, Deliver,
         SettleAbandoned, DropFrame, Reading
    <3> QED
      BY <3>4, <3>5
  <2> QED
    BY <1>7, <2>1, <2>2, <2>3 DEF Reads
<1> QED
  BY <1>3, <1>4, <1>5, <1>6, <1>7 DEF Next, vars, callVars, ShellStep, SignalLands, Ends,
     KillStrikes, Killed, TransferOwner, PolicyChanges

(* A command reaches the container by being sent.                          *)
ContainerMoves(c) == InContainer(c)' => InContainer(c) \/ Send(c, op'[c])

LEMMA ShellFillsNothing ==
    ASSUME TypeOK, ShellNext
    PROVE  \A c \in Calls : InContainer(c)' => InContainer(c)
<1> USE DEF InContainer, TypeOK, ShellTypeOK
<1>1. CASE TakeCommand
  BY <1>1 DEF TakeCommand
<1>2. CASE SayBye \/ ProcessEnds
  <2>1. pipe' = <<>> /\ current' = NoCall
    BY <1>2 DEF SayBye, ProcessEnds, ProcessGone
  <2>2. DOMAIN pipe' = {}
    BY <2>1
  <2> QED
    BY <2>1, <2>2, ShellAssumption DEF Callers
<1> QED
  BY <1>1, <1>2, ShellAssumption DEF ShellNext, SayHello, FinishExec, FinishRead,
     FinishRunTest, FinishCommit, FinishRollback, Answers, Callers

LEMMA ContainersMove ==
    ASSUME Inv, [Next]_vars
    PROVE  \A d \in Calls : ContainerMoves(d)
<1> USE DEF Inv, ContainerMoves, pipes
<1>1. ASSUME UNCHANGED <<pipe, current>> PROVE \A d \in Calls : ContainerMoves(d)
  BY <1>1 DEF InContainer
<1>2. ASSUME ShellNext PROVE \A d \in Calls : ContainerMoves(d)
  BY <1>2, ShellFillsNothing
<1>3. ASSUME NEW c \in Calls, Send(c, op'[c])
      PROVE  \A d \in Calls : ContainerMoves(d)
  <2>1. current' = current /\ pipe' \in {pipe, Append(pipe, c)} /\ pipe \in Seq(Calls)
    BY <1>3 DEF Send, TypeOK, ShellTypeOK
  <2>2. \A i \in DOMAIN pipe' : (i \in DOMAIN pipe /\ pipe'[i] = pipe[i]) \/ pipe'[i] = c
    BY <2>1
  <2> QED
    BY <1>3, <2>1, <2>2 DEF InContainer
<1>4. ASSUME NEW c \in Calls, Asks(c) PROVE \A d \in Calls : ContainerMoves(d)
  <2>1. \A kind : Ask(c, kind) => op'[c] = kind
    BY DEF Ask, TypeOK, ShellTypeOK
  <2>2. CASE Close(c) \/ Kill(c) \/ Interrupt(c)
    BY <1>1, <2>2 DEF Close, Kill, Interrupt
  <2> QED
    BY <1>3, <1>4, <2>1, <2>2 DEF Asks, Execute, RunTest, EndTransaction
<1>5. ASSUME NEW c \in Calls, Proceeds(c) PROVE \A d \in Calls : ContainerMoves(d)
  <2>1. CASE CloseSends(c)
    <3>1. op'[c] = "close"
      BY <2>1 DEF CloseSends, SafeInv, EndingIsClosing
    <3> QED
      BY <1>1, <1>3, <2>1, <3>1 DEF CloseSends
  <2> QED
    BY <1>1, <1>5, <2>1 DEF Proceeds, Answered, Failed, DrainRaises, Raised, TimesOut,
       SignalReturns, InterruptReturns, Drained, Reaped
<1>6. CASE Reads \/ Opening
  BY <1>1, <1>6 DEF Reads, ReadFrame, HoldLateRun, SettleLateRun, EndOfFrames,
     ReaderElsewhere, Opening, HelloTimesOut, Stopped, Opened, OpenFails
<1>7. ASSUME NEW c \in Callers, Ends(c) PROVE \A d \in Calls : ContainerMoves(d)
  BY <1>1, <1>2, <1>7 DEF Ends, KillStrikes, Killed, ShellNext
<1> QED
  BY <1>1, <1>2, <1>4, <1>5, <1>6, <1>7 DEF Next, vars, ShellStep, TimerFires, SignalLands,
     TransferOwner, PolicyChanges

(* A frame is written by the command in the container, and says well of a  *)
(* boundary only that the transaction has ended.                           *)
Written(f) ==
    /\ f.id \in Calls
    /\ InContainer(f.id)
    /\ op[f.id] \in Boundaries /\ ~f.err =>
          tx' = {} /\ (op[f.id] = "commit" => f.id \in db')

FramesMove ==
    \A i \in DOMAIN outbox' :
        \/ \E j \in DOMAIN outbox : outbox'[i] = outbox[j]
        \/ outbox'[i].id = Opener
        \/ Written(outbox'[i])

LEMMA AppendedFrames ==
    ASSUME TypeOK, NEW f, outbox' = Append(outbox, f), f.id = Opener \/ Written(f)
    PROVE  FramesMove
<1>1. \A i \in DOMAIN outbox' : (i \in DOMAIN outbox /\ outbox'[i] = outbox[i]) \/ outbox'[i] = f
  BY DEF TypeOK, ShellTypeOK
<1> QED
  BY <1>1 DEF FramesMove

LEMMA ShellWrites == ASSUME TypeOK, ShellNext PROVE FramesMove
<1> USE DEF Frame, Boundaries
<1>1. current # NoCall => current \in Calls
  BY DEF TypeOK, ShellTypeOK
<1>2. proc = "running" => current \in Calls /\ InContainer(current)
  BY DEF TypeOK, ShellTypeOK, InContainer
<1>3. CASE SayHello
  BY <1>3, AppendedFrames DEF SayHello
<1>4. CASE TakeCommand \/ ProcessEnds
  BY <1>4 DEF TakeCommand, ProcessEnds, FramesMove
<1>5. CASE SayBye
  <2>1. Head(pipe) \in Calls /\ InContainer(Head(pipe))
    BY <1>5 DEF SayBye, TypeOK, ShellTypeOK, InContainer
  <2> QED
    BY <1>5, <2>1, AppendedFrames DEF SayBye, Written
<1>6. CASE FinishExec \/ FinishRead \/ FinishRunTest
  <2>1. PICK err, big \in BOOLEAN :
          /\ proc = "running" /\ op[current] \notin Boundaries
          /\ outbox' = Append(outbox, Frame(current, err, big))
    BY <1>6 DEF FinishExec, FinishRead, FinishRunTest, Answers
  <2> QED
    BY <1>2, <2>1, AppendedFrames DEF Written
<1>7. CASE FinishCommit \/ FinishRollback
  <2>1. PICK err, big \in BOOLEAN :
          /\ proc = "running"
          /\ outbox' = Append(outbox, Frame(current, err, big))
          /\ ~err => tx' = {} /\ (op[current] = "commit" => current \in db')
    BY <1>7 DEF FinishCommit, FinishRollback, Answers
  <2> QED
    BY <1>2, <2>1, AppendedFrames DEF Written
<1> QED
  BY <1>3, <1>4, <1>5, <1>6, <1>7 DEF ShellNext

LEMMA FramesOnlyMove == ASSUME Inv, [Next]_vars PROVE FramesMove
<1> USE DEF Inv, pipes
<1>1. ASSUME UNCHANGED outbox PROVE FramesMove
  BY <1>1 DEF FramesMove
<1>2. ASSUME outbox # <<>>, outbox' = Tail(outbox) PROVE FramesMove
  BY <1>2 DEF FramesMove, TypeOK, ShellTypeOK
<1>3. ASSUME NEW c \in Calls, Asks(c) \/ Proceeds(c) \/ TimerFires(c) \/ SignalLands(c)
      PROVE  UNCHANGED outbox
  BY <1>3 DEF Asks, Execute, RunTest, EndTransaction, Send, Interrupt, Close, Kill,
     Proceeds, Answered, Failed, DrainRaises, Raised, TimesOut, SignalReturns,
     InterruptReturns, Drained, CloseSends, Reaped, TimerFires, SignalLands
<1>4. ASSUME NEW c \in Callers, Ends(c) PROVE UNCHANGED outbox
  BY <1>4 DEF Ends, KillStrikes, ProcessEnds, Killed
<1>5. CASE Reads
  BY <1>1, <1>2, <1>5 DEF Reads, ReadFrame, HoldLateRun, SettleLateRun, EndOfFrames,
     HeldIsThere
<1>6. CASE Opening
  BY <1>1, <1>6 DEF Opening, HelloTimesOut, Stopped, Opened, OpenFails
<1> QED
  BY <1>1, <1>3, <1>4, <1>5, <1>6, ShellWrites DEF Next, vars, ShellStep, TransferOwner,
     PolicyChanges

-----------------------------------------------------------------------------
Conclusions == {"result", "abandoned_result"} \cup Boundaries

(* A record that concludes a call is written by the call itself, or for the*)
(* one given up on; of a boundary, it repeats the answer.                  *)
OwnRecord(r) ==
    /\ r.kind \in {"result"} \cup Boundaries
    /\ \/ phase[r.call] = "draining"
       \/ phase[r.call] = "waiting" /\ fut[r.call] \in {"ok", "error"}
    /\ r.kind \in Boundaries =>
          op[r.call] = r.kind /\ (~r.err => phase[r.call] = "waiting" /\ fut[r.call] = "ok")

LateRecord(r) ==
    /\ r.kind \in {"abandoned_result"} \cup Boundaries
    /\ r.call = abandoned /\ abandoned' = NoCall /\ outbox # <<>>
    /\ r.kind \in Boundaries => op[r.call] = r.kind /\ (~r.err => Reading(r.call))

OtherRecord(r) == r.kind \notin Conclusions /\ op'[r.call] # "none"

SessionRecord(r) == r.call = NoCall /\ r.kind \notin Conclusions

JournalMoves ==
    /\ journal \subseteq journal'
    /\ \A r \in journal' \ journal :
          \/ SessionRecord(r)
          \/ r.call \in Calls /\ (OwnRecord(r) \/ LateRecord(r) \/ OtherRecord(r))

LEMMA AsksRecord ==
    ASSUME Inv, NEW c \in Calls, Asks(c)
    PROVE  JournalMoves
<1> USE DEF Inv, JournalMoves, bookVars
<1>1. CASE Interrupt(c) \/ Close(c) \/ Kill(c)
  BY <1>1 DEF Interrupt, Close, Kill
<1>2. ASSUME NEW kind \in Boundaries, EndTransaction(c, kind) PROVE JournalMoves
  BY <1>2 DEF EndTransaction
<1>3. ASSUME NEW kind \in {"exec", "read"}, Execute(c, kind) PROVE JournalMoves
  <2>1. op'[c] = kind
    BY <1>3 DEF Execute, Ask, TypeOK, ShellTypeOK
  <2> QED
    BY <1>3, <2>1 DEF Execute, Write, Record, OtherRecord, Conclusions, Boundaries
<1>4. CASE RunTest(c)
  <2>1. op'[c] = "run_test"
    BY <1>4 DEF RunTest, Ask, TypeOK, ShellTypeOK
  <2> QED
    BY <1>4, <2>1 DEF RunTest, Write, Record, OtherRecord, Conclusions, Boundaries
<1> QED
  BY <1>1, <1>2, <1>3, <1>4 DEF Asks

(* A call in progress has said what it asks for.                           *)
LEMMA ProceedsRecord ==
    ASSUME Inv, Asked, NEW c \in Calls, Proceeds(c)
    PROVE  JournalMoves
<1> USE DEF Inv, JournalMoves, bookVars
<1>1. ASSUME NEW r, Write({r}),
             SessionRecord(r) \/ (r.call \in Calls /\ (OwnRecord(r) \/ OtherRecord(r)))
      PROVE  JournalMoves
  BY <1>1 DEF Write
<1>2. CASE Answered(c)
  <2>1. phase[c] = "waiting" /\ fut[c] \in {"ok", "error"}
    BY <1>2 DEF Answered
  <2>2. CASE ResumeExec(c)
    BY <1>1, <2>1, <2>2 DEF ResumeExec, Record, OwnRecord, Boundaries
  <2>3. CASE ResumeBoundary(c)
    <3> DEFINE r == Record(op[c], c, c, fut[c] = "error", FALSE)
    <3>1. OwnRecord(r) /\ r.call = c
      BY <2>1, <2>3 DEF ResumeBoundary, OwnRecord, Record, Boundaries
    <3> QED
      BY <1>1, <2>3, <3>1 DEF ResumeBoundary
  <2> QED
    BY <1>2, <2>2, <2>3 DEF Answered, ResumeRunTest, ResumeClose
<1>3. CASE Failed(c) \/ DrainRaises(c) \/ TimesOut(c) \/ CloseSends(c)
  BY <1>3 DEF Failed, DrainRaises, Raised, TimesOut, CloseSends
<1>4. CASE SignalReturns(c)
  <2>1. op'[c] # "none"
    BY <1>4 DEF SignalReturns, Asked
  <2> QED
    BY <1>1, <1>4, <2>1 DEF SignalReturns, Record, OtherRecord, Conclusions, Boundaries
<1>5. CASE InterruptReturns(c)
  <2>1. op'[c] # "none"
    BY <1>5 DEF InterruptReturns
  <2> QED
    BY <1>1, <1>5, <2>1 DEF InterruptReturns, Record, OtherRecord, Conclusions, Boundaries
<1>6. CASE Drained(c)
  <2>1. phase[c] = "draining"
    BY <1>6 DEF Drained
  <2>2. ASSUME NEW of, NEW err, Write({Record("result", c, of, err, FALSE)}) PROVE JournalMoves
    <3> DEFINE r == Record("result", c, of, err, FALSE)
    <3>1. r.call = c /\ r.kind = "result"
      BY DEF Record
    <3>2. OwnRecord(r)
      BY <2>1, <3>1 DEF OwnRecord, Boundaries
    <3> HIDE DEF r
    <3> QED
      BY <1>1, <2>2, <3>1, <3>2 DEF r
  <2> QED
    BY <1>6, <2>2 DEF Drained, ExecDrained, RunDrained
<1>7. CASE Reaped(c)
  <2>1. SessionRecord(Record("session_close", NoCall, NoCall, FALSE, FALSE))
    BY DEF SessionRecord, Record, Conclusions, Boundaries
  <2>2. CASE UNCHANGED journal
    BY <2>2
  <2>3. CASE Write({Record("session_close", NoCall, NoCall, FALSE, FALSE)})
    BY <2>1, <2>3 DEF Write
  <2> QED
    BY <1>7, <2>2, <2>3 DEF Reaped, Closes
<1> QED
  BY <1>2, <1>3, <1>4, <1>5, <1>6, <1>7 DEF Proceeds

LEMMA SettlingRecords ==
    ASSUME Inv, NEW err, SettleAbandoned(err), UNCHANGED op,
           abandoned \in Calls, outbox # <<>>, ~err => Reading(abandoned)
    PROVE  JournalMoves
BY DEF Inv, SettleAbandoned, Write, LateRecords, Record, JournalMoves, LateRecord, Boundaries

LEMMA ReadsRecord ==
    ASSUME Inv, Reads
    PROVE  JournalMoves
<1> USE DEF Inv, JournalMoves, bookVars
<1>1. abandoned # NoCall => abandoned \in Calls
  BY DEF TypeOK, SessionTypeOK
<1>2. ASSUME Die PROVE JournalMoves
  BY <1>2 DEF Die, Write, Record, SessionRecord, Conclusions, Boundaries
<1>3. outbox # <<>> => Head(outbox).err \in BOOLEAN /\ Head(outbox).id # NoCall
  <2>1. outbox # <<>> => Head(outbox) \in Frames
    BY DEF TypeOK, ShellTypeOK
  <2> QED
    BY <2>1, ShellAssumption DEF Frames
<1>4. CASE ReadFrame
  <2> DEFINE f == Head(outbox)
  <2>1. outbox # <<>> /\ FrameArrives(f) /\ UNCHANGED op
    BY <1>4 DEF ReadFrame, ReaderElsewhere
  <2>2. CASE f.big
    BY <1>1, <2>1, <2>2, SettlingRecords DEF FrameArrives, Overrun, Deliver, DropFrame
  <2>3. CASE ~f.big /\ IsLate(f)
    BY <1>1, <1>3, <2>1, <2>3, SettlingRecords DEF FrameArrives, IsLate, Reading
  <2>4. CASE ~f.big /\ ~IsLate(f)
    BY <2>1, <2>4 DEF FrameArrives, Deliver, DropFrame
  <2> QED
    BY <2>2, <2>3, <2>4
<1>5. CASE SettleLateRun
  <2>1. outbox # <<>> /\ UNCHANGED op
    BY <1>5 DEF SettleLateRun, HeldIsThere, ReaderElsewhere
  <2> QED
    BY <1>1, <1>3, <1>5, <2>1, SettlingRecords DEF SettleLateRun, DropFrame, IsLate, Reading
<1> QED
  BY <1>2, <1>4, <1>5 DEF Reads, HoldLateRun, DropFrame, EndOfFrames

LEMMA JournalOnlyMoves == ASSUME Inv, Asked, [Next]_vars PROVE JournalMoves
<1> USE DEF Inv
<1>1. ASSUME UNCHANGED journal \/ \E kind, killed :
               kind \notin Conclusions /\ Write({Record(kind, NoCall, NoCall, killed, FALSE)})
      PROVE  JournalMoves
  BY <1>1 DEF Write, Record, JournalMoves, SessionRecord
<1>2. CASE Opening
  BY <1>1, <1>2 DEF Opening, HelloTimesOut, Die, Stopped, Opened, OpenFails, bookVars,
     Conclusions, Boundaries
<1>3. ASSUME NEW c \in Callers, Ends(c) PROVE JournalMoves
  BY <1>1, <1>3 DEF Ends, KillStrikes, Killed, Closes, bookVars, Conclusions, Boundaries
<1> QED
  BY <1>1, <1>2, <1>3, AsksRecord, ProceedsRecord, ReadsRecord DEF Next, vars, bookVars,
     ShellStep, TimerFires, SignalLands, TransferOwner, PolicyChanges

-----------------------------------------------------------------------------
AbandonedMoves ==
    \/ abandoned' \in {abandoned, NoCall}
    \/ /\ abandoned' \in Calls \cap timed
       /\ phase[abandoned'] = "waiting" /\ phase'[abandoned'] = "signalling"
       /\ state' = state

BusyMoves ==
    state' = "busy" => (state = "busy" /\ activity' = activity) \/ \E c \in Calls : Send(c, op'[c])

KillersMove ==
    \A c \in Calls : phase'[c] = "killing" => phase[c] = "killing" \/ op'[c] \in {"close", "kill"}

ModesMove == AbandonedMoves /\ BusyMoves /\ KillersMove

LEMMA AskersMoveModes == ASSUME Inv, NEW c \in Calls, Asks(c) PROVE ModesMove
<1> USE DEF Inv, ModesMove, AbandonedMoves, BusyMoves, KillersMove, modeVars, waitVars
<1>1. \A kind : Ask(c, kind) => op'[c] = kind
  BY DEF Ask, TypeOK, ShellTypeOK
<1>2. phase \in [Callers -> Phases] /\ c \in Callers /\ \A d \in Calls : d \in Callers
  BY DEF TypeOK, SessionTypeOK, Callers
<1>3. ASSUME NEW kind, Send(c, kind), op'[c] = kind PROVE ModesMove
  BY <1>2, <1>3 DEF Send
<1>4. CASE Interrupt(c) \/ Close(c) \/ Kill(c)
  BY <1>1, <1>2, <1>4 DEF Interrupt, Close, Kill, StartsKill
<1> QED
  BY <1>1, <1>3, <1>4 DEF Asks, Execute, RunTest, EndTransaction

LEMMA CallersMoveModes ==
    ASSUME Inv, NEW c \in Calls, Proceeds(c) \/ TimerFires(c) \/ SignalLands(c)
    PROVE  ModesMove
<1> USE DEF Inv, ModesMove, AbandonedMoves, BusyMoves, KillersMove, modeVars, waitVars
<1>1. phase \in [Callers -> Phases] /\ c \in Callers /\ \A d \in Calls : d \in Callers
  BY DEF TypeOK, SessionTypeOK, Callers
<1>2. CASE Answered(c)
  BY <1>1, <1>2 DEF Answered, LeaveRequest, ResumeExec, ResumeRunTest, ResumeBoundary,
     ResumeClose
<1>3. CASE Failed(c) \/ DrainRaises(c)
  BY <1>1, <1>3 DEF Failed, DrainRaises, LeaveRequest, Raised, AfterRequest
<1>4. CASE TimesOut(c)
  BY <1>1, <1>4 DEF TimesOut
<1>5. CASE SignalReturns(c) \/ InterruptReturns(c) \/ Drained(c)
  BY <1>1, <1>5 DEF SignalReturns, InterruptReturns, Drained, AfterRequest
<1>6. CASE CloseSends(c)
  <2>1. op'[c] = "close"
    BY <1>6 DEF CloseSends, SafeInv, EndingIsClosing
  <2> QED
    BY <1>1, <1>6, <2>1 DEF CloseSends, Send
<1>7. CASE Reaped(c)
  <2>1. op'[c] = "close"
    BY <1>7 DEF Reaped, SafeInv, EndingIsClosing
  <2> QED
    BY <1>1, <1>7, <2>1 DEF Reaped, Closes, StartsKill
<1>8. CASE TimerFires(c) \/ SignalLands(c)
  BY <1>1, <1>8 DEF TimerFires, SignalLands
<1> QED
  BY <1>2, <1>3, <1>4, <1>5, <1>6, <1>7, <1>8 DEF Proceeds

LEMMA ModesOnlyMove == ASSUME Inv, [Next]_vars PROVE ModesMove
<1> USE DEF Inv, ModesMove, AbandonedMoves, BusyMoves, KillersMove, modeVars, waitVars
<1>1. ASSUME NEW c \in Callers, Ends(c) PROVE ModesMove
  BY <1>1 DEF Ends, KillStrikes, Killed, Closes, TypeOK, SessionTypeOK, Callers
<1>2. CASE Reads
  BY <1>2 DEF Reads, ReadFrame, HoldLateRun, SettleLateRun, EndOfFrames, ReaderElsewhere,
     FrameArrives, Overrun, Deliver, SettleAbandoned, DropFrame, Die
<1>3. CASE Opening
  <2>1. \A c \in Calls : phase'[c] = phase[c]
    BY <1>3, ShellAssumption DEF Opening, HelloTimesOut, Stopped, Opened, OpenFails,
       StartsKill, TypeOK, SessionTypeOK, Callers
  <2> QED
    BY <1>3, <2>1 DEF Opening, HelloTimesOut, Stopped, Opened, OpenFails, Die
<1> QED
  BY <1>1, <1>2, <1>3, AskersMoveModes, CallersMoveModes DEF Next, vars, callVars,
     ShellStep, TransferOwner, PolicyChanges

-----------------------------------------------------------------------------
(* What the books keep of each call: TraceInv.                             *)

LEMMA AskedStep == ASSUME Inv, Asked, [Next]_vars PROVE Asked'
<1> USE DEF Asked
<1>1. \A c \in Calls : CallMoves(c) /\ FutureMoves(c) /\ ContainerMoves(c)
  BY CallsMove, FuturesMove, ContainersMove
<1>2. FramesMove /\ JournalMoves /\ AbandonedMoves
  BY FramesOnlyMove, JournalOnlyMoves, ModesOnlyMove DEF ModesMove
<1>3. \A c \in Calls : op[c] # "none" => op'[c] # "none"
  BY <1>1 DEF CallMoves
<1>4. \A c \in Calls : op[c] = "none" /\ op'[c] # "none" => op'[c] \in CallKinds
  BY <1>1, SessionAssumption DEF CallMoves
<1>5. \A c \in Calls : phase'[c] = "new" <=> op'[c] = "none"
  BY <1>1, SessionAssumption DEF CallMoves, CallKinds, CommandKinds
<1>6. \A c \in Calls : Send(c, op'[c]) => op'[c] # "none"
  BY <1>5, ShellAssumption DEF Send, Inv, TypeOK, SessionTypeOK, Callers
<1>7. \A c \in Calls : op'[c] = "none" => fut'[c] = "none" /\ ~InContainer(c)'
  BY <1>1, <1>3, <1>6 DEF FutureMoves, ContainerMoves
<1>8. \A i \in DOMAIN outbox' : outbox'[i].id \in Calls => op'[outbox'[i].id] # "none"
  BY <1>2, <1>3, ShellAssumption DEF FramesMove, Written
<1>9. \A r \in journal' : r.call \in Calls => op'[r.call] # "none"
  BY <1>2, <1>3, ShellAssumption DEF JournalMoves, SessionRecord, OwnRecord, LateRecord,
     OtherRecord, Callers
<1>10. abandoned' \in Calls => op'[abandoned'] # "none"
  BY <1>2, <1>3, ShellAssumption DEF AbandonedMoves, Callers
<1> QED
  BY <1>5, <1>7, <1>8, <1>9, <1>10

LEMMA OpsStay ==
    ASSUME Inv, Asked, [Next]_vars, NEW c \in Calls, op[c] # "none"
    PROVE  op'[c] = op[c]
BY CallsMove DEF CallMoves, Asked

LEMMA CommittedStays == ASSUME Inv, [Next]_vars PROVE db \subseteq db'
<1> USE DEF Inv, pipes
<1>1. ASSUME ShellNext PROVE db \subseteq db'
  BY <1>1 DEF ShellNext, SayHello, TakeCommand, SayBye, FinishExec, FinishRead,
     FinishRunTest, FinishCommit, FinishRollback, ProcessEnds
<1>2. ASSUME NEW c \in Calls, Asks(c) \/ Proceeds(c) \/ TimerFires(c) \/ SignalLands(c)
      PROVE  UNCHANGED db
  BY <1>2 DEF Asks, Execute, RunTest, EndTransaction, Send, Interrupt, Close, Kill,
     Proceeds, Answered, Failed, DrainRaises, Raised, TimesOut, SignalReturns,
     InterruptReturns, Drained, CloseSends, Reaped, TimerFires, SignalLands
<1>3. ASSUME NEW c \in Callers, Ends(c) PROVE db \subseteq db'
  BY <1>1, <1>3 DEF Ends, KillStrikes, Killed, ShellNext
<1>4. CASE Reads \/ Opening
  BY <1>4 DEF Reads, ReadFrame, HoldLateRun, SettleLateRun, EndOfFrames, ReaderElsewhere,
     Opening, HelloTimesOut, Stopped, Opened, OpenFails
<1> QED
  BY <1>1, <1>2, <1>3, <1>4 DEF Next, vars, ShellStep, TransferOwner, PolicyChanges

LEMMA CommitsStep ==
    ASSUME Inv, TraceInv, [Next]_vars
    PROVE  CommitAnswersAreTrue' /\ CommitRecordIsTrue'
<1> USE DEF TraceInv
<1>1. \A c \in Calls : FutureMoves(c) /\ (op[c] # "none" => op'[c] = op[c])
  BY FuturesMove, OpsStay
<1>2. FramesMove /\ JournalMoves /\ db \subseteq db'
  BY FramesOnlyMove, JournalOnlyMoves, CommittedStays
<1>3. ASSUME NEW i \in DOMAIN outbox', outbox'[i].id \in Calls,
             op'[outbox'[i].id] = "commit", ~outbox'[i].err
      PROVE  outbox'[i].id \in db'
  <2>1. CASE \E j \in DOMAIN outbox : outbox'[i] = outbox[j]
    BY <1>1, <1>2, <1>3, <2>1 DEF Asked, CommitAnswersAreTrue
  <2>2. CASE Written(outbox'[i])
    BY <1>1, <1>2, <1>3, <2>2 DEF Asked, Written, Boundaries
  <2> QED
    BY <1>2, <1>3, <2>1, <2>2, ShellAssumption DEF FramesMove
<1>4. \A c \in Calls : op[c] = "commit" /\ Reading(c) => c \in db
  <2>1. outbox # <<>> => 1 \in DOMAIN outbox /\ Head(outbox) = outbox[1]
    BY DEF Inv, TypeOK, ShellTypeOK
  <2> QED
    BY <2>1 DEF Reading, CommitAnswersAreTrue
<1>5. ASSUME NEW c \in Calls, op'[c] = "commit", fut'[c] = "ok" PROVE c \in db'
  BY <1>1, <1>2, <1>4, <1>5 DEF FutureMoves, CommitAnswersAreTrue, Asked
<1>6. ASSUME NEW r \in journal', r.kind = "commit", ~r.err PROVE r.call \in db'
  <2>1. CASE r \in journal
    BY <1>2, <1>6, <2>1 DEF CommitRecordIsTrue
  <2>2. CASE r.call \in Calls /\ OwnRecord(r)
    BY <1>2, <1>6, <2>2 DEF OwnRecord, Boundaries, CommitAnswersAreTrue
  <2>3. CASE r.call \in Calls /\ LateRecord(r)
    BY <1>2, <1>4, <1>6, <2>3 DEF LateRecord, Boundaries
  <2> QED
    BY <1>2, <1>6, <2>1, <2>2, <2>3 DEF JournalMoves, SessionRecord, OtherRecord, Conclusions,
       Boundaries
<1> QED
  BY <1>3, <1>5, <1>6 DEF CommitAnswersAreTrue, CommitRecordIsTrue

(* Only a ready session takes a command, and a busy one only its close.    *)
LEMMA ActivityStep == ASSUME Inv, TraceInv, [Next]_vars PROVE ActivityIsTheWork'
<1> USE DEF Inv, TraceInv
<1> SUFFICES ASSUME state' = "busy", NEW c \in Calls, InContainer(c)', op'[c] # "close"
             PROVE  activity' = FrameType(op'[c])
  BY DEF ActivityIsTheWork
<1>1. InContainer(c) \/ Send(c, op'[c])
  BY ContainersMove DEF ContainerMoves
<1>2. CASE Send(c, op'[c])
  BY <1>2 DEF Send, Acceptable, TakesActivity
<1>3. CASE InContainer(c)
  <2>1. ~Quiet
    BY <1>3, ShellAssumption DEF Quiet, InContainer, Callers
  <2>2. state # "ready"
    BY <2>1 DEF SafeInv, ReadyMeansQuiet
  <2>3. state = "busy" /\ activity' = activity
    BY <2>2, ModesOnlyMove DEF ModesMove, BusyMoves, Send, Acceptable, TakesActivity, Live,
       Terminal, States, TypeOK, SessionTypeOK
  <2>4. op'[c] = op[c]
    BY <1>3, OpsStay DEF Asked
  <2> QED
    BY <1>3, <2>3, <2>4 DEF ActivityIsTheWork
<1> QED
  BY <1>1, <1>2, <1>3

RunMoves ==
    \/ current' = current
    \/ current' = NoCall
    \/ current' \in Calls /\ op[current'] \notin {"none", "close"}

LEMMA RunsStep == ASSUME Inv, TraceInv, [Next]_vars PROVE CloseDoesNotRun'
<1> USE DEF Inv, TraceInv, pipes
<1>1. RunMoves
  <2>1. ASSUME ShellNext PROVE RunMoves
    <3>1. CASE TakeCommand
      <4>1. current' \in Calls /\ current' = pipe[1] /\ 1 \in DOMAIN pipe /\ op[current'] # "close"
        BY <3>1 DEF TakeCommand, TypeOK, ShellTypeOK
      <4> QED
        BY <4>1 DEF Asked, InContainer, RunMoves
    <3> QED
      BY <2>1, <3>1 DEF ShellNext, SayHello, SayBye, FinishExec, FinishRead, FinishRunTest,
         FinishCommit, FinishRollback, Answers, ProcessEnds, ProcessGone, RunMoves
  <2>2. ASSUME NEW c \in Calls, Asks(c) \/ Proceeds(c) \/ TimerFires(c) \/ SignalLands(c)
        PROVE  UNCHANGED current
    BY <2>2 DEF Asks, Execute, RunTest, EndTransaction, Send, Interrupt, Close, Kill,
       Proceeds, Answered, Failed, DrainRaises, Raised, TimesOut, SignalReturns,
       InterruptReturns, Drained, CloseSends, Reaped, TimerFires, SignalLands
  <2>3. ASSUME NEW c \in Callers, Ends(c) PROVE RunMoves
    BY <2>3 DEF Ends, KillStrikes, Killed, ProcessEnds, ProcessGone, RunMoves
  <2>4. ASSUME Reads \/ Opening PROVE UNCHANGED current
    BY <2>4 DEF Reads, ReadFrame, HoldLateRun, SettleLateRun, EndOfFrames, ReaderElsewhere,
       Opening, HelloTimesOut, Stopped, Opened, OpenFails
  <2> QED
    BY <2>1, <2>2, <2>3, <2>4 DEF Next, vars, ShellStep, TransferOwner, PolicyChanges, RunMoves
<1>2. \A c \in Calls : InContainer(c) => op'[c] = op[c]
  BY OpsStay DEF Asked
<1>3. \A c \in Calls : op[c] # "none" => op'[c] = op[c]
  BY OpsStay
<1> QED
  BY <1>1, <1>2, <1>3, ShellAssumption DEF RunMoves, CloseDoesNotRun, InContainer, Callers

LEMMA TraceBegins == Init => TraceInv
BY ShellAssumption
   DEF Init, ShellInit, TraceInv, Asked, EndersKill, CommitAnswersAreTrue,
       CommitRecordIsTrue, ActivityIsTheWork, CloseDoesNotRun, InContainer, Callers

LEMMA TraceStep == ASSUME Inv, TraceInv, [Next]_vars PROVE TraceInv'
<1>1. EndersKill'
  BY ModesOnlyMove, OpsStay DEF TraceInv, ModesMove, KillersMove, EndersKill
<1> QED
  BY <1>1, AskedStep, RunsStep, CommitsStep, ActivityStep DEF TraceInv

LEMMA TraceHolds == Spec => [](Inv /\ TraceInv)
<1>1. Init => TraceInv
  BY TraceBegins
<1>2. Inv /\ TraceInv /\ [Next]_vars => TraceInv'
  BY TraceStep
<1> QED
  BY <1>1, <1>2, Invariance, PTL DEF Spec

(* A commit the journal reports without an error reached the database: the *)
(* answer in time, the late one (_settle_abandoned) and the one taken for  *)
(* another's (_overrun_frame) included.                                    *)
THEOREM CommitRecordsTrue == Spec => []CommitRecordIsTrue
<1>1. TraceInv => CommitRecordIsTrue
  BY DEF TraceInv
<1> QED
  BY <1>1, TraceHolds, PTL

(* The activity a busy session shows is the command the container runs:    *)
(* _request sets it before the frame is written and a close sent over it   *)
(* leaves it alone.                                                        *)
THEOREM BusyNamed == Spec => []BusyNamesTheWork
<1>1. Inv /\ TraceInv => BusyNamesTheWork
  <2> SUFFICES ASSUME Inv, TraceInv, state = "busy", current # NoCall
               PROVE  activity = FrameType(op[current])
    BY DEF BusyNamesTheWork
  <2>1. current \in Calls /\ InContainer(current)
    BY DEF Inv, TypeOK, ShellTypeOK, InContainer
  <2>2. op[current] # "close"
    BY <2>1 DEF TraceInv, CloseDoesNotRun
  <2> QED
    BY <2>1, <2>2 DEF TraceInv, ActivityIsTheWork
<1> QED
  BY <1>1, TraceHolds, PTL

LEMMA SpendingDisarms ==
    ASSUME Production, SpendProductionGrant
    PROVE  ~allow'
BY DEF SpendProductionGrant

(* A boundary returns to its caller only through _spend_production_grant:  *)
(* answered, failed, never written, or given up on.                        *)
LEMMA BoundaryReturnSpends ==
    ASSUME Inv, TraceInv, Next, NEW c \in Calls, op[c] \in Boundaries,
           phase[c] # "done", phase'[c] = "done"
    PROVE  SpendProductionGrant
<1> USE DEF Inv, callVars
<1>1. phase \in [Callers -> Phases] /\ \A d \in Calls : d \in Callers /\ d # Opener
  BY ShellAssumption DEF TypeOK, SessionTypeOK, Callers
<1>2. op[c] \notin {"exec", "read", "run_test", "close", "kill", "interrupt"}
  BY DEF Boundaries
<1>3. ASSUME NEW d \in Calls, Asks(d) PROVE FALSE
  BY <1>1, <1>3 DEF Asks, Execute, RunTest, EndTransaction, Send, Interrupt, Close, Kill,
     StartsKill
<1>4. ASSUME NEW d \in Calls, Proceeds(d) PROVE SpendProductionGrant
  <2>1. d = c
    <3>1. d # c => phase'[c] = phase[c]
      BY <1>1, <1>4 DEF Proceeds, Answered, ResumeExec, ResumeRunTest, ResumeBoundary,
         ResumeClose, Failed, DrainRaises, Raised, TimesOut, SignalReturns, InterruptReturns,
         Drained, CloseSends, Send, Reaped, StartsKill
    <3> QED
      BY <3>1
  <2>2. CASE Answered(d)
    BY <1>1, <1>2, <2>1, <2>2 DEF Answered, ResumeExec, ResumeRunTest, ResumeBoundary,
       ResumeClose
  <2>3. CASE Failed(d) \/ DrainRaises(d) \/ SignalReturns(d)
    BY <2>1, <2>3 DEF Failed, DrainRaises, Raised, SignalReturns, SpendIfBoundary, Spends
  <2>4. CASE TimesOut(d) \/ InterruptReturns(d) \/ Drained(d)
    BY <1>1, <1>2, <2>1, <2>4 DEF TimesOut, InterruptReturns, Drained, ExecDrained, RunDrained
  <2>5. CASE CloseSends(d) \/ Reaped(d)
    BY <1>2, <2>1, <2>5 DEF CloseSends, Reaped, SafeInv, EndingIsClosing
  <2> QED
    BY <1>4, <2>2, <2>3, <2>4, <2>5 DEF Proceeds
<1>5. ASSUME NEW d \in Callers, Ends(d) PROVE FALSE
  BY <1>1, <1>2, <1>5 DEF Ends, KillStrikes, Killed, TraceInv, EndersKill
<1>6. CASE Opening
  BY <1>1, <1>6 DEF Opening, HelloTimesOut, Stopped, Opened, OpenFails, StartsKill
<1>7. CASE Reads
  BY <1>7 DEF Reads, ReadFrame, HoldLateRun, SettleLateRun, EndOfFrames, ReaderElsewhere
<1> QED
  BY <1>1, <1>3, <1>4, <1>5, <1>6, <1>7 DEF Next, ShellStep, TimerFires, SignalLands,
     TransferOwner, PolicyChanges

(* However a commit or a rollback ends, the production grant it was given  *)
(* is gone when its caller hears of it: _boundary spends it in a finally.  *)
THEOREM GrantDies == Spec => GrantDiesWithItsCommit
<1>1. ASSUME Inv, TraceInv, [Next]_vars
      PROVE  [Production => \A c \in Calls :
                 op[c] \in Boundaries /\ phase[c] # "done" /\ phase'[c] = "done"
                     => ~allow']_vars
  BY <1>1, BoundaryReturnSpends, SpendingDisarms
<1> QED
  BY <1>1, TraceHolds, PTL DEF Spec, GrantDiesWithItsCommit

-----------------------------------------------------------------------------
(* How a session becomes free, and how a caller leaves it.                 *)

(* A call waits from the moment its command is sent.                       *)
WaitMoves(c) ==
    phase'[c] \in {"waiting", "broken"} =>
        \/ phase'[c] = phase[c]
        \/ Send(c, op'[c]) /\ IF op'[c] = "close" THEN closing ELSE phase[c] = "new"

(* A call that has left its wait got there by one of these.                *)
LeaveMoves(c) ==
    phase'[c] \in Left =>
        \/ phase[c] \in Left
        \/ TimesOut(c) \/ Answered(c) \/ Failed(c) \/ DrainRaises(c) \/ Drained(c)
        \/ op'[c] \in {"close", "kill", "interrupt"}

(* The only way on from there is the call's own end.                       *)
EndMoves(c) ==
    LET after == Left \cup {"reaping", "killing"}
    IN  phase[c] \in after => phase'[c] \in after

WaitsMove == \A c \in Calls : WaitMoves(c) /\ LeaveMoves(c) /\ EndMoves(c)

LEMMA AsksMoveWaits == ASSUME Inv, NEW c \in Calls, Asks(c) PROVE WaitsMove
<1> USE DEF Inv, WaitsMove, WaitMoves, LeaveMoves, EndMoves, Left
<1>1. phase \in [Callers -> Phases] /\ \A d \in Calls : d \in Callers
  BY DEF TypeOK, SessionTypeOK, Callers
<1>2. \A kind : Ask(c, kind) => op'[c] = kind /\ phase[c] = "new"
  BY DEF Ask, TypeOK, ShellTypeOK
<1>3. ASSUME NEW kind, Ask(c, kind), Send(c, kind), kind # "close" PROVE WaitsMove
  <2>1. Send(c, op'[c]) /\ op'[c] # "close" /\ phase[c] = "new"
    BY <1>2, <1>3
  <2>2. \E p \in {"waiting", "broken"} : phase' = [phase EXCEPT ![c] = p]
    BY <1>3 DEF Send
  <2> QED
    BY <1>1, <2>1, <2>2
<1>4. CASE Interrupt(c) \/ Close(c) \/ Kill(c)
  BY <1>1, <1>2, <1>4 DEF Interrupt, Close, Kill, StartsKill
<1> QED
  BY <1>3, <1>4 DEF Asks, Execute, RunTest, EndTransaction, Boundaries

LEMMA ProceedsMoveWaits == ASSUME Inv, NEW c \in Calls, Proceeds(c) PROVE WaitsMove
<1> USE DEF Inv, WaitsMove, WaitMoves, LeaveMoves, EndMoves, Left
<1>1. phase \in [Callers -> Phases] /\ \A d \in Calls : d \in Callers
  BY DEF TypeOK, SessionTypeOK, Callers
<1>2. CASE Answered(c)
  <2>1. /\ phase[c] = "waiting"
        /\ \E p \in {"draining", "done", "reaping"} : phase' = [phase EXCEPT ![c] = p]
    BY <1>2 DEF Answered, ResumeExec, ResumeRunTest, ResumeBoundary, ResumeClose
  <2> QED
    BY <1>1, <1>2, <2>1
<1>3. CASE Failed(c) \/ DrainRaises(c)
  <2>1. /\ phase[c] \in {"waiting", "broken"}
        /\ \E p \in {"done", "reaping"} : phase' = [phase EXCEPT ![c] = p]
    BY <1>3 DEF Failed, DrainRaises, Raised, AfterRequest
  <2> QED
    BY <1>1, <1>3, <2>1
<1>4. CASE TimesOut(c) \/ Drained(c)
  <2>1. /\ phase[c] \in {"waiting", "draining"}
        /\ \E p \in {"signalling", "done"} : phase' = [phase EXCEPT ![c] = p]
    BY <1>4 DEF TimesOut, Drained
  <2> QED
    BY <1>1, <1>4, <2>1
<1>5. CASE SignalReturns(c) \/ InterruptReturns(c)
  BY <1>1, <1>5 DEF SignalReturns, InterruptReturns, AfterRequest
<1>6. CASE CloseSends(c)
  <2>1. closing /\ op'[c] = "close" /\ phase[c] = "closing"
    BY <1>6 DEF CloseSends, SafeInv, EndingIsClosing
  <2> QED
    BY <1>1, <1>6, <2>1 DEF CloseSends, Send
<1>7. CASE Reaped(c)
  <2>1. op'[c] = "close" /\ phase[c] = "reaping"
    BY <1>7 DEF Reaped, SafeInv, EndingIsClosing
  <2> QED
    BY <1>1, <1>7, <2>1 DEF Reaped, StartsKill
<1> QED
  BY <1>2, <1>3, <1>4, <1>5, <1>6, <1>7 DEF Proceeds

LEMMA WaitsOnlyMove == ASSUME Inv, TraceInv, [Next]_vars PROVE WaitsMove
<1> USE DEF Inv
<1>1. ASSUME \A c \in Calls : phase'[c] = phase[c] PROVE WaitsMove
  BY <1>1 DEF WaitsMove, WaitMoves, LeaveMoves, EndMoves
<1>2. CASE Opening
  BY <1>1, <1>2, ShellAssumption DEF Opening, HelloTimesOut, Stopped, Opened, OpenFails,
     StartsKill, TypeOK, SessionTypeOK, Callers
<1>3. ASSUME NEW c \in Callers, Ends(c) PROVE WaitsMove
  <2>1. CASE KillStrikes(c)
    BY <1>1, <2>1 DEF KillStrikes
  <2>2. CASE Killed(c)
    <3>1. phase[c] = "killing" /\ phase' = [phase EXCEPT ![c] = "done"] /\ UNCHANGED op
      BY <2>2 DEF Killed
    <3>2. c \in Calls => op'[c] \in {"close", "kill"}
      BY <3>1 DEF TraceInv, EndersKill
    <3>3. phase \in [Callers -> Phases] /\ \A d \in Calls : d \in Callers
      BY DEF TypeOK, SessionTypeOK, Callers
    <3> QED
      BY <3>1, <3>2, <3>3 DEF WaitsMove, WaitMoves, LeaveMoves, EndMoves, Left
  <2> QED
    BY <1>3, <2>1, <2>2 DEF Ends
<1>4. ASSUME NEW c \in Calls, SignalLands(c) PROVE WaitsMove
  BY <1>4 DEF SignalLands, WaitsMove, WaitMoves, LeaveMoves, EndMoves, Left, TypeOK,
     SessionTypeOK, Callers
<1>5. CASE Reads
  BY <1>1, <1>5 DEF Reads, ReadFrame, HoldLateRun, SettleLateRun, EndOfFrames, ReaderElsewhere
<1> QED
  BY <1>1, <1>2, <1>3, <1>4, <1>5, AsksMoveWaits, ProceedsMoveWaits
     DEF Next, vars, callVars, ShellStep, TimerFires, TransferOwner, PolicyChanges

(* The session is freed by the answer in time, by the late one, or by its  *)
(* opening.                                                                *)
FreeMoves ==
    state' \in {"starting", "ready"} =>
        \/ state' = state
        \/ Opened
        \/ FreesSession /\ \E c \in Calls : Answered(c)
        \/ FreesSession /\ abandoned # NoCall /\ abandoned' = NoCall /\ UNCHANGED phase

LEMMA FreedBy == ASSUME Inv, [Next]_vars PROVE FreeMoves
<1> USE DEF Inv, FreeMoves, modeVars
<1>1. ASSUME NEW c \in Calls, Asks(c) PROVE FreeMoves
  BY <1>1 DEF Asks, Execute, RunTest, EndTransaction, Send, Interrupt, Close, Kill
<1>2. ASSUME NEW c \in Calls, Proceeds(c) PROVE FreeMoves
  <2>1. CASE Failed(c)
    <3>1. ~FreesSession
      BY <2>1 DEF Failed, FreesSession, SafeInv, FailureIsFinal, Live, Terminal, Callers
    <3> QED
      BY <2>1, <3>1 DEF Failed, LeaveRequest
  <2> QED
    BY <1>2, <2>1 DEF Proceeds, Answered, LeaveRequest, DrainRaises, TimesOut, SignalReturns,
       InterruptReturns, Drained, CloseSends, Send, Reaped, Closes
<1>3. CASE Reads
  <2>1. CASE EndOfFrames \/ HoldLateRun
    BY <2>1 DEF EndOfFrames, Die, HoldLateRun, DropFrame
  <2>2. ASSUME NEW err, SettleAbandoned(err), abandoned # NoCall, UNCHANGED phase PROVE FreeMoves
    BY <2>2 DEF SettleAbandoned
  <2>3. outbox # <<>> => Head(outbox).id # NoCall
    <3>1. outbox # <<>> => Head(outbox) \in Frames
      BY DEF TypeOK, ShellTypeOK
    <3> QED
      BY <3>1, ShellAssumption DEF Frames
  <2>4. CASE ReadFrame
    BY <2>2, <2>3, <2>4 DEF ReadFrame, ReaderElsewhere, FrameArrives, Overrun, Deliver,
       DropFrame, IsLate
  <2>5. CASE SettleLateRun
    BY <2>2, <2>3, <2>5 DEF SettleLateRun, HeldIsThere, ReaderElsewhere, DropFrame, IsLate
  <2> QED
    BY <1>3, <2>1, <2>4, <2>5 DEF Reads
<1>4. CASE Opening
  BY <1>4 DEF Opening, HelloTimesOut, Stopped, OpenFails, Die
<1> QED
  BY <1>1, <1>2, <1>3, <1>4 DEF Next, vars, ShellStep, TimerFires, SignalLands, Ends,
     KillStrikes, Killed, Closes, TransferOwner, PolicyChanges

(* A command given up on is settled, unless the session ends.              *)
SettleMoves ==
    abandoned # NoCall /\ abandoned' = NoCall =>
        \/ ~Live'
        \/ \E r \in journal' : r.call = abandoned /\ r.kind = "abandoned_result"

LEMMA Settles == ASSUME Inv, [Next]_vars PROVE SettleMoves
<1> USE DEF Inv, SettleMoves, waitVars
<1>1. ASSUME NEW err, SettleAbandoned(err) PROVE SettleMoves
  <2> DEFINE r == Record("abandoned_result", abandoned,
                         IF op[abandoned] = "run_test" THEN run ELSE abandoned, err, FALSE)
  <2>1. r \in journal'
    BY <1>1 DEF SettleAbandoned, Write, LateRecords
  <2>2. r.call = abandoned /\ r.kind = "abandoned_result"
    BY DEF Record
  <2> QED
    BY <2>1, <2>2
<1>2. ASSUME NEW killed, Closes(killed) PROVE ~Live'
  BY <1>2 DEF Closes, Live, Terminal
<1>3. ASSUME Die PROVE SettleMoves
  BY <1>3 DEF Die, Live, Terminal
<1>4. ASSUME NEW c \in Calls, Asks(c) PROVE UNCHANGED abandoned
  BY <1>4 DEF Asks, Execute, RunTest, EndTransaction, Send, Interrupt, Close, Kill
<1>5. ASSUME NEW c \in Calls, Proceeds(c) PROVE SettleMoves
  <2>1. CASE TimesOut(c)
    BY <2>1, ShellAssumption DEF TimesOut, Callers
  <2> QED
    BY <1>2, <1>5, <2>1 DEF Proceeds, Answered, Failed, DrainRaises, Raised, SignalReturns,
       InterruptReturns, Drained, CloseSends, Send, Reaped
<1>6. ASSUME NEW c \in Callers, Ends(c) PROVE SettleMoves
  BY <1>2, <1>6 DEF Ends, KillStrikes, Killed
<1>7. CASE Reads
  BY <1>1, <1>3, <1>7 DEF Reads, ReadFrame, HoldLateRun, SettleLateRun, EndOfFrames,
     FrameArrives, Overrun, Deliver, DropFrame
<1>8. CASE Opening
  BY <1>3, <1>8 DEF Opening, HelloTimesOut, Stopped, Opened, OpenFails
<1> QED
  BY <1>4, <1>5, <1>6, <1>7, <1>8 DEF Next, vars, ShellStep, TimerFires, SignalLands,
     TransferOwner, PolicyChanges

-----------------------------------------------------------------------------
(* Every caller's command is on the journal by the time the session is     *)
(* ready again: RecordInv.                                                 *)

LEMMA ReadyIsFreeStep == ASSUME Inv, TraceInv, RecordInv, [Next]_vars PROVE ReadyIsFree'
<1> USE DEF Inv, RecordInv
<1> SUFFICES ASSUME state' \in {"starting", "ready"}
             PROVE  abandoned' = NoCall /\ \A c \in Calls : phase'[c] \notin {"waiting", "broken"}
  BY DEF ReadyIsFree
<1>1. \A c \in Calls : WaitMoves(c)
  BY WaitsOnlyMove DEF WaitsMove
<1>2. AbandonedMoves /\ FreeMoves
  BY ModesOnlyMove, FreedBy DEF ModesMove
<1>3. \A c \in Calls : ~Send(c, op'[c])
  BY DEF Send
<1>4. \A c \in Calls : phase[c] \notin {"waiting", "broken"} => phase'[c] \notin {"waiting", "broken"}
  BY <1>1, <1>3 DEF WaitMoves
<1>5. CASE state' = state \/ Opened
  <2>1. state \in {"starting", "ready"}
    BY <1>5 DEF Opened, SafeInv, OpenerFirst
  <2> QED
    BY <1>2, <1>4, <2>1 DEF ReadyIsFree, AbandonedMoves
<1>6. ASSUME FreesSession, NEW c \in Calls, Answered(c) PROVE
        abandoned' = NoCall /\ \A d \in Calls : phase'[d] \notin {"waiting", "broken"}
  <2>1. state = "busy" /\ ~closing /\ phase[c] = "waiting" /\ abandoned' = abandoned
    BY <1>6 DEF FreesSession, Answered
  <2>2. abandoned = NoCall /\ \A d \in Calls : phase[d] = "waiting" => d = c
    BY <2>1 DEF SafeInv, OneWaits
  <2>3. \A d \in Calls : phase[d] # "broken"
    BY <2>1 DEF BrokenIsStuck, Stuck, Live, Terminal
  <2>4. phase'[c] \notin {"waiting", "broken"}
    BY <1>6 DEF Answered, ResumeExec, ResumeRunTest, ResumeBoundary, ResumeClose, TypeOK,
       SessionTypeOK, Callers
  <2> QED
    BY <1>4, <2>1, <2>2, <2>3, <2>4
<1>7. CASE FreesSession /\ abandoned # NoCall /\ abandoned' = NoCall /\ UNCHANGED phase
  <2>1. state = "busy" /\ ~closing
    BY <1>7 DEF FreesSession
  <2> QED
    BY <1>7, <2>1 DEF SafeInv, OneWaits, BrokenIsStuck, Stuck, Live, Terminal
<1> QED
  BY <1>2, <1>5, <1>6, <1>7 DEF FreeMoves

LEMMA AbandonedHasLeftStep ==
    ASSUME Inv, TraceInv, RecordInv, [Next]_vars
    PROVE  AbandonedHasLeft'
<1>1. AbandonedMoves /\ \A c \in Calls : EndMoves(c)
  BY ModesOnlyMove, WaitsOnlyMove DEF ModesMove, WaitsMove
<1> QED
  BY <1>1, ShellAssumption DEF RecordInv, AbandonedMoves, EndMoves, AbandonedHasLeft, Left, Callers

LEMMA ClosingStays == ASSUME Inv, [Next]_vars, closing PROVE closing'
<1> USE DEF modeVars
<1>1. ASSUME NEW c \in Calls, Asks(c) \/ Proceeds(c) \/ TimerFires(c) \/ SignalLands(c)
      PROVE  closing'
  BY <1>1 DEF Asks, Execute, RunTest, EndTransaction, Send, Interrupt, Close, Kill,
     StartsKill, Proceeds, Answered, Failed, DrainRaises, Raised, TimesOut, SignalReturns,
     InterruptReturns, Drained, CloseSends, Reaped, TimerFires, SignalLands
<1>2. ASSUME NEW c \in Callers, Ends(c) PROVE closing'
  BY <1>2 DEF Ends, KillStrikes, Killed
<1>3. CASE Reads \/ Opening
  BY <1>3 DEF Reads, ReadFrame, HoldLateRun, SettleLateRun, EndOfFrames, ReaderElsewhere,
     Opening, HelloTimesOut, Stopped, Opened, OpenFails, StartsKill
<1> QED
  BY <1>1, <1>2, <1>3 DEF Next, vars, ShellStep, TransferOwner, PolicyChanges

(* From a stuck session only its end leads away.                           *)
LEMMA StuckStays ==
    ASSUME Inv, TraceInv, RecordInv, [Next]_vars, Stuck
    PROVE  state' # "ready" /\ (closing' \/ ~Live' \/ Stuck')
<1> USE DEF Inv, Stuck
<1>1. AbandonedMoves /\ FreeMoves /\ \A c \in Calls : WaitMoves(c)
  BY ModesOnlyMove, FreedBy, WaitsOnlyMove DEF ModesMove, WaitsMove
<1>2. state' \notin {"starting", "ready"}
  BY <1>1, ClosingStays DEF FreeMoves, Opened, Answered, SafeInv, OpenerFirst
<1>3. ~closing => \A c \in Calls : ~Send(c, op'[c]) \/ op'[c] = "close"
  BY DEF Send, Acceptable
<1>4. ~closing => \A c \in Calls : phase'[c] # "waiting"
  BY <1>1, <1>3 DEF WaitMoves
<1>5. abandoned' = NoCall
  BY <1>1 DEF AbandonedMoves
<1>6. state' \in States
  BY TypesStep DEF TypeOK, SessionTypeOK
<1> QED
  BY <1>2, <1>4, <1>5, <1>6, ClosingStays DEF States, Live, Terminal

LEMMA ExcuseStays ==
    ASSUME Inv, TraceInv, RecordInv, [Next]_vars, NEW c \in Calls, Excused(c)
    PROVE  Excused(c)' \/ Concluded(c)'
<1> USE DEF Inv, Excused
<1>1. CASE ~Live
  <2>1. state' = state
    BY <1>1, EndStep DEF vars, modeVars
  <2> QED
    BY <1>1, <2>1 DEF Live
<1>2. CASE closing
  BY <1>2, ClosingStays, NotReadyStep DEF vars, modeVars
<1>3. CASE Stuck
  BY <1>3, StuckStays
<1>4. CASE abandoned = c /\ ~closing /\ Live
  <2>1. AbandonedMoves /\ SettleMoves /\ ReadyIsFree'
    BY ModesOnlyMove, Settles, ReadyIsFreeStep DEF ModesMove
  <2>2. c # NoCall
    BY ShellAssumption DEF Callers
  <2>3. abandoned' = c => state' # "ready"
    BY <2>1, <2>2 DEF ReadyIsFree
  <2>4. \A d \in Calls : phase[d] # "waiting"
    BY <1>4, <2>2 DEF SafeInv, OneWaits, Live, Terminal, States, TypeOK, SessionTypeOK
  <2>5. abandoned' \in {c, NoCall}
    BY <1>4, <2>1, <2>4 DEF AbandonedMoves
  <2>6. CASE abandoned' = NoCall
    BY <1>4, <2>1, <2>2, <2>6 DEF SettleMoves, Concluded, Live, Terminal
  <2> QED
    BY <2>3, <2>5, <2>6
<1> QED
  BY <1>1, <1>2, <1>3, <1>4

LEMMA BrokenIsStuckStep == ASSUME Inv, TraceInv, RecordInv, [Next]_vars PROVE BrokenIsStuck'
<1> USE DEF Inv, RecordInv
<1> SUFFICES ASSUME NEW c \in Calls, phase'[c] = "broken"
             PROVE  closing' \/ ~Live' \/ Stuck'
  BY DEF BrokenIsStuck
<1>1. phase[c] = "broken" \/ (Send(c, op'[c]) /\ (op'[c] = "close" => closing))
  BY WaitsOnlyMove DEF WaitsMove, WaitMoves
<1>2. CASE phase[c] = "broken"
  <2>1. CASE ~Live
    BY <2>1, EndStep DEF Live, vars, modeVars
  <2> QED
    BY <1>2, <2>1, ClosingStays, StuckStays DEF BrokenIsStuck
<1>3. CASE Send(c, op'[c]) /\ ~closing /\ op'[c] # "close"
  <2>1. state = "ready" /\ state' = "busy" /\ abandoned' = abandoned
    BY <1>3 DEF Send, Acceptable, Live, Terminal, States, TypeOK, SessionTypeOK
  <2>2. \A d \in Calls : d # c => phase'[d] = phase[d]
    BY <1>3 DEF Send, TypeOK, SessionTypeOK, Callers
  <2> QED
    BY <2>1, <2>2 DEF ReadyIsFree, Stuck
<1> QED
  BY <1>1, <1>2, <1>3, ClosingStays

LEMMA ConcludedStays ==
    ASSUME Inv, TraceInv, [Next]_vars, NEW c, Concluded(c)
    PROVE  Concluded(c)'
BY JournalOnlyMoves DEF TraceInv, JournalMoves, Concluded

(* A caller told of an error that is not its ceiling's left a session that *)
(* cannot become ready again.                                              *)
LEMMA RaisedIsExcused ==
    ASSUME Inv, TraceInv, RecordInv, [Next]_vars, NEW c \in Calls, Failed(c) \/ DrainRaises(c)
    PROVE  Excused(c)'
<1> USE DEF Inv, RecordInv
<1>1. phase[c] \in {"waiting", "broken"} /\ UNCHANGED closing
  BY DEF Failed, DrainRaises, Raised
<1>2. state \notin {"starting", "ready"}
  BY <1>1 DEF ReadyIsFree
<1>3. closing \/ ~Live \/ Stuck
  BY DEF Failed, DrainRaises, SafeInv, FailureIsFinal, Callers, BrokenIsStuck
<1>4. CASE Failed(c)
  <2>1. ~FreesSession
    BY <1>4 DEF Failed, SafeInv, FailureIsFinal, Callers, FreesSession, Live, Terminal
  <2>2. state' = state /\ (closing \/ ~Live)
    BY <1>3, <1>4, <2>1 DEF Failed, LeaveRequest, Stuck
  <2> QED
    BY <1>1, <1>2, <2>2 DEF Excused, Live
<1>5. CASE DrainRaises(c)
  <2>1. UNCHANGED <<state, abandoned>>
    BY <1>5 DEF DrainRaises, Raised
  <2>2. \A d \in Calls : phase'[d] = "waiting" => phase[d] = "waiting"
    BY <1>5 DEF DrainRaises, Raised, AfterRequest, TypeOK, SessionTypeOK, Callers
  <2> QED
    BY <1>1, <1>2, <1>3, <2>1, <2>2 DEF Excused, Live, Stuck
<1> QED
  BY <1>4, <1>5

LEMMA GivingUpIsExcused ==
    ASSUME Inv, RecordInv, NEW c \in Calls, TimesOut(c)
    PROVE  Excused(c)'
<1>1. phase[c] = "waiting" /\ abandoned' = c /\ UNCHANGED state
  BY DEF TimesOut, modeVars
<1> QED
  BY <1>1 DEF RecordInv, ReadyIsFree, Excused

LEMMA CallersRecordedStep ==
    ASSUME Inv, TraceInv, RecordInv, [Next]_vars
    PROVE  CallersAreRecorded'
<1> USE DEF Inv, RecordInv
<1> SUFFICES ASSUME NEW c \in Calls, op'[c] \in Commands \ {"run_test"}, phase'[c] \in Left
             PROVE  Concluded(c)' \/ Excused(c)'
  BY DEF CallersAreRecorded
<1>1. LeaveMoves(c) /\ CallMoves(c) /\ (op[c] # "none" => op'[c] = op[c])
  BY WaitsOnlyMove, CallsMove, OpsStay DEF WaitsMove, TraceInv
<1>2. CASE phase[c] \in Left
  <2>1. op'[c] = op[c]
    BY <1>1, <1>2 DEF CallMoves, Left
  <2> QED
    BY <1>2, <2>1, ConcludedStays, ExcuseStays DEF CallersAreRecorded
<1>3. CASE Failed(c) \/ DrainRaises(c) \/ TimesOut(c)
  BY <1>3, RaisedIsExcused, GivingUpIsExcused
<1>4. CASE Answered(c)
  <2>1. op'[c] = op[c] /\ phase' \in {[phase EXCEPT ![c] = p] : p \in Phases}
    BY <1>4 DEF Answered, ResumeExec, ResumeRunTest, ResumeBoundary, ResumeClose, Phases
  <2>2. CASE ResumeExec(c)
    <3>1. phase' # [phase EXCEPT ![c] = "draining"]
      BY DEF Left, TypeOK, SessionTypeOK, Callers
    <3>2. Record("result", c, c, fut[c] = "error", FALSE) \in journal'
      BY <2>2, <3>1 DEF ResumeExec, Write
    <3> QED
      BY <3>2 DEF Record, Concluded
  <2>3. CASE ResumeBoundary(c)
    <3>1. Record(op[c], c, c, fut[c] = "error", FALSE) \in journal' /\ op[c] \in Boundaries
      BY <2>3 DEF ResumeBoundary, Write
    <3> QED
      BY <3>1 DEF Record, Concluded
  <2> QED
    BY <1>4, <2>1, <2>2, <2>3 DEF Answered, ResumeRunTest, ResumeClose, Commands, Boundaries
<1>5. CASE Drained(c)
  <2>1. op'[c] = op[c]
    BY <1>5 DEF Drained
  <2>2. Record("result", c, c, fut[c] = "error", FALSE) \in journal'
    BY <1>5, <2>1 DEF Drained, ExecDrained, RunDrained, Write
  <2> QED
    BY <2>2 DEF Record, Concluded
<1> QED
  BY <1>1, <1>2, <1>3, <1>4, <1>5 DEF LeaveMoves, Commands, Boundaries

LEMMA RecordBegins == Init => RecordInv
BY ShellAssumption DEF Init, ShellInit, RecordInv, ReadyIsFree, AbandonedHasLeft,
   BrokenIsStuck, CallersAreRecorded, Left, Callers, Commands, Boundaries

LEMMA RecordStep == ASSUME Inv, TraceInv, RecordInv, [Next]_vars PROVE RecordInv'
BY ReadyIsFreeStep, AbandonedHasLeftStep, BrokenIsStuckStep, CallersRecordedStep DEF RecordInv

LEMMA RecordHolds == Spec => [](Inv /\ TraceInv /\ RecordInv)
<1>1. Init => RecordInv
  BY RecordBegins
<1>2. Inv /\ TraceInv /\ RecordInv /\ [Next]_vars => RecordInv'
  BY RecordStep
<1> QED
  BY <1>1, <1>2, TraceHolds, PTL DEF Spec

-----------------------------------------------------------------------------
(* The same of runs, while one call only may ask for one: RunsAreRecorded. *)

(* The window kept is given up by the run's own caller, by the frame that  *)
(* settles it, or by the next run.                                         *)
WindowMoves ==
    \/ run' = run
    \/ ~Live'
    \/ \E c \in Calls : RunTest(c)
    \/ \E c \in Calls : /\ op[c] = "run_test" /\ phase'[c] = "done"
                        /\ phase[c] \in {"waiting", "broken", "draining"}
    \/ abandoned \in Calls /\ op[abandoned] = "run_test"

RunEnters(c) ==
    op'[c] = "run_test" /\ phase'[c] \in {"waiting", "draining"} =>
        phase[c] \in {"waiting", "draining"} \/ run' = c

LEMMA WindowOnlyMoves == ASSUME Inv, [Next]_vars PROVE WindowMoves
<1> USE DEF Inv, WindowMoves, runVars
<1>1. ASSUME NEW killed, Closes(killed) PROVE ~Live'
  BY <1>1 DEF Closes, Live, Terminal
<1>2. ASSUME Die PROVE WindowMoves
  BY <1>2 DEF Die, Live, Terminal
<1>3. ASSUME NEW c \in Calls, Asks(c) PROVE WindowMoves
  BY <1>3 DEF Asks, Execute, EndTransaction, Interrupt, Close, Kill
<1>4. ASSUME NEW c \in Calls, Failed(c) \/ DrainRaises(c) PROVE WindowMoves
  <2>1. op[c] = "run_test" => phase'[c] = "done"
    BY <1>4 DEF Failed, DrainRaises, Raised, AfterRequest, TypeOK, SessionTypeOK, Callers
  <2>2. phase[c] \in {"waiting", "broken"}
    BY <1>4 DEF Failed, DrainRaises
  <2>3. CASE op[c] = "run_test"
    BY <2>1, <2>2, <2>3
  <2>4. CASE op[c] # "run_test"
    BY <1>4, <2>4 DEF Failed, DrainRaises, Raised
  <2> QED
    BY <2>3, <2>4
<1>5. ASSUME NEW c \in Calls, Drained(c) PROVE WindowMoves
  <2>1. phase[c] = "draining" /\ phase'[c] = "done"
    BY <1>5 DEF Drained, TypeOK, SessionTypeOK, Callers
  <2>2. CASE op[c] = "run_test"
    BY <2>1, <2>2
  <2>3. CASE op[c] # "run_test"
    BY <1>5, <2>3 DEF Drained, ExecDrained, RunDrained
  <2> QED
    BY <2>2, <2>3
<1>6. ASSUME NEW c \in Calls, Proceeds(c) PROVE WindowMoves
  BY <1>1, <1>4, <1>5, <1>6 DEF Proceeds, Answered, TimesOut, SignalReturns,
     InterruptReturns, CloseSends, Reaped
<1>7. ASSUME NEW c \in Callers, Ends(c) PROVE WindowMoves
  BY <1>1, <1>7 DEF Ends, KillStrikes, Killed
<1>8. CASE Reads
  <2>1. ASSUME NEW err, SettleAbandoned(err), abandoned # NoCall PROVE WindowMoves
    BY <2>1 DEF SettleAbandoned, TypeOK, SessionTypeOK
  <2>2. outbox # <<>> => Head(outbox).id # NoCall
    <3>1. outbox # <<>> => Head(outbox) \in Frames
      BY DEF TypeOK, ShellTypeOK
    <3> QED
      BY <3>1, ShellAssumption DEF Frames
  <2> QED
    BY <1>2, <1>8, <2>1, <2>2 DEF Reads, ReadFrame, HoldLateRun, SettleLateRun, EndOfFrames,
       FrameArrives, Overrun, Deliver, DropFrame, IsLate, HeldIsThere
<1>9. CASE Opening
  BY <1>2, <1>9 DEF Opening, HelloTimesOut, Stopped, Opened, OpenFails
<1> QED
  BY <1>3, <1>6, <1>7, <1>8, <1>9 DEF Next, vars, ShellStep, TimerFires, SignalLands,
     TransferOwner, PolicyChanges

LEMMA RunsEnter ==
    ASSUME Inv, TraceInv, [Next]_vars, NEW c \in Calls
    PROVE  RunEnters(c)
<1> USE DEF Inv, RunEnters
<1>1. phase \in [Callers -> Phases] /\ \A d \in Calls : d \in Callers /\ d # Opener
  BY ShellAssumption DEF TypeOK, SessionTypeOK, Callers
<1>2. ASSUME phase'[c] \in {phase[c], "new", "starting", "stopping", "broken", "signalling",
                            "signalled", "closing", "reaping", "killing", "done"}
      PROVE  RunEnters(c)
  BY <1>2
<1>3. ASSUME NEW d \in Calls, Asks(d) PROVE RunEnters(c)
  <2>1. \A kind : Ask(d, kind) => op'[d] = kind
    BY DEF Ask, TypeOK, ShellTypeOK
  <2>2. ASSUME NEW kind, Ask(d, kind), Send(d, kind), kind # "run_test" PROVE RunEnters(c)
    BY <1>1, <2>1, <2>2 DEF Send
  <2>3. CASE RunTest(d)
    BY <1>1, <2>3 DEF RunTest, Send
  <2>4. CASE Interrupt(d) \/ Close(d) \/ Kill(d)
    BY <1>1, <1>2, <2>4 DEF Interrupt, Close, Kill, StartsKill
  <2> QED
    BY <1>3, <2>2, <2>3, <2>4 DEF Asks, Execute, EndTransaction, Boundaries
<1>4. ASSUME NEW d \in Calls, Proceeds(d) PROVE RunEnters(c)
  <2>1. CASE Answered(d)
    BY <1>1, <2>1 DEF Answered, ResumeExec, ResumeRunTest, ResumeBoundary, ResumeClose
  <2>2. CASE CloseSends(d)
    <3>1. op'[d] = "close"
      BY <2>2 DEF CloseSends, SafeInv, EndingIsClosing
    <3> QED
      BY <1>1, <2>2, <3>1 DEF CloseSends, Send
  <2>3. CASE Failed(d) \/ DrainRaises(d) \/ SignalReturns(d)
    BY <1>1, <1>2, <2>3 DEF Failed, DrainRaises, Raised, SignalReturns, AfterRequest
  <2>4. CASE TimesOut(d) \/ InterruptReturns(d) \/ Drained(d) \/ Reaped(d)
    BY <1>1, <1>2, <2>4 DEF TimesOut, InterruptReturns, Drained, Reaped, StartsKill
  <2> QED
    BY <1>4, <2>1, <2>2, <2>3, <2>4 DEF Proceeds
<1>5. ASSUME NEW d \in Calls, TimerFires(d) \/ SignalLands(d) PROVE RunEnters(c)
  BY <1>1, <1>2, <1>5 DEF TimerFires, SignalLands
<1>6. ASSUME NEW d \in Callers, Ends(d) PROVE RunEnters(c)
  BY <1>1, <1>2, <1>6 DEF Ends, KillStrikes, Killed
<1>7. CASE Reads \/ Opening
  BY <1>1, <1>2, <1>7 DEF Reads, ReadFrame, HoldLateRun, SettleLateRun, EndOfFrames,
     ReaderElsewhere, Opening, HelloTimesOut, Stopped, Opened, OpenFails, StartsKill
<1> QED
  BY <1>2, <1>3, <1>4, <1>5, <1>6, <1>7 DEF Next, vars, callVars, ShellStep, TransferOwner,
     PolicyChanges

LEMMA RunsRecordedStep ==
    ASSUME OneRuns, Inv, TraceInv, RecordInv, RunsAreRecorded, [Next]_vars
    PROVE  RunsAreRecorded'
<1> USE DEF Inv, RecordInv
<1> SUFFICES ASSUME NEW c \in Calls, op'[c] = "run_test"
             PROVE  /\ "run_test" \in Menu[c]
                    /\ phase'[c] \in {"waiting", "draining"} => run' = c \/ ~Live'
                    /\ phase'[c] \in Left => Concluded(c)' \/ Excused(c)'
  BY DEF RunsAreRecorded
<1>1. CallMoves(c) /\ LeaveMoves(c) /\ RunEnters(c) /\ WindowMoves
  BY CallsMove, WaitsOnlyMove, RunsEnter, WindowOnlyMoves DEF WaitsMove
<1>2. "run_test" \in Menu[c]
  BY <1>1 DEF CallMoves, RunsAreRecorded
<1>3. phase[c] # "new" => op[c] = "run_test"
  BY <1>1 DEF CallMoves
<1>4. \A d \in Calls : op[d] = "run_test" => d = c
  BY <1>2 DEF OneRuns, RunsAreRecorded
<1>5. ASSUME phase'[c] \in {"waiting", "draining"} PROVE run' = c \/ ~Live'
  <2>1. CASE phase[c] \in {"waiting", "draining"}
    <3>1. run = c \/ ~Live
      BY <1>3, <2>1 DEF RunsAreRecorded
    <3>2. CASE ~Live
      BY <3>2, EndStep DEF Live, vars, modeVars
    <3>3. ASSUME NEW d \in Calls, RunTest(d) PROVE FALSE
      <4>1. op'[d] = "run_test" /\ phase[d] = "new" /\ "run_test" \in Menu[d]
        BY <3>3 DEF RunTest, Ask, TypeOK, ShellTypeOK
      <4> QED
        BY <1>2, <2>1, <4>1 DEF OneRuns
    <3> QED
      BY <1>1, <1>4, <1>5, <2>1, <3>1, <3>2, <3>3 DEF WindowMoves, AbandonedHasLeft, Left
  <2> QED
    BY <1>1, <1>5, <2>1 DEF RunEnters
<1>6. ASSUME phase'[c] \in Left PROVE Concluded(c)' \/ Excused(c)'
  <2>1. CASE phase[c] \in Left
    BY <1>3, <2>1, ConcludedStays, ExcuseStays DEF RunsAreRecorded, Left
  <2>2. CASE Failed(c) \/ DrainRaises(c) \/ TimesOut(c)
    BY <2>2, RaisedIsExcused, GivingUpIsExcused
  <2>3. CASE Answered(c)
    BY <1>6, <2>3 DEF Answered, ResumeExec, ResumeRunTest, ResumeBoundary, ResumeClose, Left,
       Boundaries, TypeOK, SessionTypeOK, Callers
  <2>4. CASE Drained(c)
    <3>1. phase[c] = "draining" /\ op[c] = "run_test" /\ UNCHANGED <<state, closing>>
      BY <2>4 DEF Drained, modeVars
    <3>2. CASE ~Live
      BY <3>1, <3>2 DEF Excused, Live, Terminal
    <3>3. CASE run = c
      <4>1. run # NoCall
        BY <3>3, ShellAssumption DEF Callers
      <4>2. Record("result", c, run, fut[c] = "error", FALSE) \in journal'
        BY <2>4, <3>1, <4>1 DEF Drained, ExecDrained, RunDrained, Write
      <4> QED
        BY <4>2 DEF Record, Concluded
    <3> QED
      BY <3>1, <3>2, <3>3 DEF RunsAreRecorded
  <2> QED
    BY <1>1, <1>6, <2>1, <2>2, <2>3, <2>4 DEF LeaveMoves
<1> QED
  BY <1>2, <1>5, <1>6

(* A session that is ready again has on its journal how every command sent *)
(* to it ended, whoever gave up on it (_settle_abandoned, _boundary,       *)
(* _run_result), as long as one call at most runs tests: two overlapping   *)
(* runs share one window, and the second to end finds it gone.             *)
THEOREM ReadyRecorded == ASSUME OneRuns PROVE Spec => []ReadyIsRecorded
<1>1. Init => RunsAreRecorded
  BY DEF Init, ShellInit, RunsAreRecorded
<1>2. Inv /\ TraceInv /\ RecordInv /\ RunsAreRecorded /\ [Next]_vars => RunsAreRecorded'
  BY RunsRecordedStep
<1>3. RecordInv /\ RunsAreRecorded => ReadyIsRecorded
  BY DEF RecordInv, CallersAreRecorded, RunsAreRecorded, ReadyIsRecorded, Excused, Left
<1> QED
  BY <1>1, <1>2, <1>3, RecordHolds, PTL DEF Spec

-----------------------------------------------------------------------------
(* A session announces its end with a verdict on the journal: VerdictInv.  *)

(* A wait and a log's drain have one way out each, and a ceiling fires in  *)
(* no drain.                                                               *)
StayMoves(c) ==
    /\ phase[c] = "waiting" =>
          phase'[c] = "waiting" \/ TimesOut(c) \/ Answered(c) \/ Failed(c)
    /\ phase[c] = "draining" => phase'[c] = "draining" \/ Drained(c)
    /\ phase'[c] = "draining" => phase[c] = "draining" \/ Answered(c)

TimedMoves == timed' = timed \/ \E c \in Calls : TimerFires(c)

StaysMove == TimedMoves /\ \A c \in Calls : StayMoves(c)

LEMMA StaysOnlyMove == ASSUME Inv, [Next]_vars PROVE StaysMove
<1> USE DEF Inv, StaysMove, TimedMoves, StayMoves
<1>1. phase \in [Callers -> Phases] /\ \A d \in Calls : d \in Callers /\ d # Opener
  BY ShellAssumption DEF TypeOK, SessionTypeOK, Callers
<1>2. ASSUME NEW c \in Calls, Asks(c) PROVE StaysMove
  BY <1>1, <1>2 DEF Asks, Ask, Execute, RunTest, EndTransaction, Send, Interrupt, Close, Kill,
     StartsKill
<1>3. ASSUME NEW c \in Calls, Proceeds(c) PROVE StaysMove
  <2>1. UNCHANGED timed
    BY <1>3 DEF Proceeds, Answered, Failed, DrainRaises, Raised, TimesOut, SignalReturns,
       InterruptReturns, Drained, CloseSends, Send, Reaped
  <2>2. CASE Answered(c) \/ Failed(c) \/ TimesOut(c) \/ Drained(c)
    <3>1. \A d \in Calls : d # c => phase'[d] = phase[d]
      BY <1>1, <2>2 DEF Answered, ResumeExec, ResumeRunTest, ResumeBoundary, ResumeClose,
         Failed, Raised, TimesOut, Drained
    <3>2. Answered(c) \/ Failed(c) \/ TimesOut(c) => phase[c] = "waiting"
      BY DEF Answered, Failed, TimesOut
    <3>3. Drained(c) => phase[c] = "draining"
      BY DEF Drained
    <3>4. Answered(c) \/ phase'[c] # "draining"
      BY <1>1, <2>2 DEF Failed, Raised, TimesOut, Drained, AfterRequest
    <3> QED
      BY <2>1, <2>2, <3>1, <3>2, <3>3, <3>4
  <2>3. CASE DrainRaises(c) \/ SignalReturns(c) \/ InterruptReturns(c)
    BY <1>1, <2>1, <2>3 DEF DrainRaises, Raised, SignalReturns, InterruptReturns, AfterRequest
  <2>4. CASE CloseSends(c) \/ Reaped(c)
    BY <1>1, <2>1, <2>4 DEF CloseSends, Send, Reaped, StartsKill
  <2> QED
    BY <1>3, <2>2, <2>3, <2>4 DEF Proceeds
<1>4. ASSUME NEW c \in Calls, TimerFires(c) PROVE StaysMove
  BY <1>4 DEF TimerFires
<1>5. ASSUME NEW c \in Calls, SignalLands(c) PROVE StaysMove
  BY <1>1, <1>5 DEF SignalLands
<1>6. ASSUME NEW c \in Callers, Ends(c) PROVE StaysMove
  BY <1>1, <1>6 DEF Ends, KillStrikes, Killed
<1>7. CASE Reads \/ Opening
  BY <1>1, <1>7 DEF Reads, ReadFrame, HoldLateRun, SettleLateRun, EndOfFrames,
     ReaderElsewhere, Opening, HelloTimesOut, Stopped, Opened, OpenFails, StartsKill
<1> QED
  BY <1>2, <1>3, <1>4, <1>5, <1>6, <1>7 DEF Next, vars, callVars, ShellStep, TransferOwner,
     PolicyChanges

(* What is announced, and on what.                                         *)
AnnounceMoves ==
    /\ ranTest' => ranTest \/ \E c \in Calls : RunTest(c)
    /\ ranTest => ranTest'
    /\ announced' /\ ~announced =>
          /\ ranTest
          /\ \/ ~Live'
             \/ \E c \in Calls : Drained(c) /\ op[c] = "run_test" /\ run # NoCall
             \/ abandoned # NoCall /\ abandoned' = NoCall

LEMMA AnnouncesMove == ASSUME Inv, [Next]_vars PROVE AnnounceMoves
<1> USE DEF Inv, AnnounceMoves, MayAnnounce, runVars
<1>1. announced \in BOOLEAN /\ ranTest \in BOOLEAN
  BY DEF TypeOK, SessionTypeOK
<1>2. ASSUME UNCHANGED <<ranTest, announced>> PROVE AnnounceMoves
  BY <1>2
<1>3. ASSUME Die, UNCHANGED ranTest PROVE AnnounceMoves
  BY <1>1, <1>3 DEF Die, Live, Terminal
<1>4. ASSUME NEW err, SettleAbandoned(err), abandoned # NoCall, UNCHANGED ranTest
      PROVE  AnnounceMoves
  BY <1>1, <1>4 DEF SettleAbandoned
<1>5. ASSUME NEW c \in Calls, Asks(c) PROVE AnnounceMoves
  <2>1. CASE RunTest(c)
    <3>1. UNCHANGED announced /\ ranTest'
      BY <2>1 DEF RunTest
    <3> QED
      BY <2>1, <3>1
  <2>2. CASE ~RunTest(c)
    <3>1. UNCHANGED <<ranTest, announced>>
      BY <1>5, <2>2 DEF Asks, Execute, EndTransaction, Interrupt, Close, Kill
    <3> QED
      BY <1>2, <3>1
  <2> QED
    BY <2>1, <2>2
<1>6. ASSUME NEW c \in Calls, Drained(c) PROVE AnnounceMoves
  <2>1. CASE UNCHANGED <<ranTest, announced>>
    BY <1>2, <2>1
  <2>2. CASE ~UNCHANGED <<ranTest, announced>>
    <3>1. /\ op[c] = "run_test" /\ run # NoCall /\ UNCHANGED ranTest
          /\ announced' = (announced \/ MayAnnounce)
      BY <1>6, <2>2 DEF Drained, ExecDrained, RunDrained
    <3> QED
      BY <1>1, <1>6, <3>1
  <2> QED
    BY <2>1, <2>2
<1>7. ASSUME NEW c \in Calls, Proceeds(c) PROVE AnnounceMoves
  BY <1>2, <1>6, <1>7 DEF Proceeds, Answered, Failed, DrainRaises, Raised, TimesOut,
     SignalReturns, InterruptReturns, CloseSends, Reaped
<1>8. outbox # <<>> => Head(outbox).id # NoCall
  <2>1. outbox # <<>> => Head(outbox) \in Frames
    BY DEF TypeOK, ShellTypeOK
  <2> QED
    BY <2>1, ShellAssumption DEF Frames
<1>9. CASE Reads
  BY <1>2, <1>3, <1>4, <1>8, <1>9 DEF Reads, ReadFrame, HoldLateRun, SettleLateRun,
     EndOfFrames, ReaderElsewhere, FrameArrives, Overrun, Deliver, DropFrame, IsLate, HeldIsThere
<1>10. CASE Opening
  BY <1>2, <1>3, <1>10 DEF Opening, HelloTimesOut, Stopped, Opened, OpenFails
<1> QED
  BY <1>2, <1>5, <1>7, <1>9, <1>10 DEF Next, vars, ShellStep, TimerFires, SignalLands, Ends,
     KillStrikes, Killed, TransferOwner, PolicyChanges

LEMMA VerdictStays ==
    ASSUME Inv, TraceInv, [Next]_vars, VerdictKnown
    PROVE  VerdictKnown'
<1>1. JournalMoves
  BY JournalOnlyMoves DEF TraceInv
<1> QED
  BY <1>1, OpsStay DEF TraceInv, JournalMoves, VerdictKnown

LEMMA DrainedRunIsKnown ==
    ASSUME Inv, NEW c \in Calls, Drained(c), op[c] = "run_test", run # NoCall
    PROVE  VerdictKnown'
<1>1. Record("result", c, run, fut[c] = "error", FALSE) \in journal' /\ UNCHANGED op
  BY DEF Drained, ExecDrained, RunDrained, Write
<1> QED
  BY <1>1 DEF Record, VerdictKnown

LEMMA SettledRunIsKnown ==
    ASSUME Inv, TraceInv, [Next]_vars, RunAbandoned, abandoned' = NoCall, Live'
    PROVE  VerdictKnown'
<1>1. abandoned # NoCall /\ op'[abandoned] = "run_test"
  BY OpsStay, ShellAssumption DEF TraceInv, RunAbandoned, Callers
<1> QED
  BY <1>1, Settles DEF SettleMoves, RunAbandoned, VerdictKnown

(* What may become of the run nobody has a verdict of, in a session that   *)
(* goes on.                                                                *)
GoesOn == Live /\ Live' /\ ~closing /\ ~closing' /\ ~VerdictKnown'

UnderWay == RunWaits \/ RunDrains \/ RunAbandoned \/ Stuck

LEMMA RunWaitsOn ==
    ASSUME Inv, TraceInv, RecordInv, [Next]_vars, GoesOn, RunWaits
    PROVE  UnderWay'
<1> USE DEF Inv
<1>1. PICK c \in Calls : op[c] = "run_test" /\ phase[c] = "waiting"
  BY DEF RunWaits
<1>2. state = "busy"
  BY <1>1 DEF GoesOn, RecordInv, ReadyIsFree, Live, Terminal, States, TypeOK, SessionTypeOK
<1>3. abandoned = NoCall /\ \A d \in Calls : phase[d] = "waiting" => d = c
  BY <1>1, <1>2 DEF GoesOn, SafeInv, OneWaits
<1>4. \A d \in Calls : ~Failed(d) /\ ~DrainRaises(d)
  BY <1>1 DEF GoesOn, Failed, DrainRaises, SafeInv, FailureIsFinal, RecordInv, BrokenIsStuck,
     Stuck, Callers
<1>5. \A d \in Calls : ~RunTest(d)
  BY <1>2 DEF RunTest, Send, Acceptable
<1>6. op'[c] = "run_test"
  BY <1>1, OpsStay DEF TraceInv
<1>7. run' = run
  <2>1. ASSUME NEW d \in Calls, op[d] = "run_test", phase'[d] = "done",
               phase[d] \in {"waiting", "broken", "draining"}
        PROVE  FALSE
    <3>1. Drained(d) \/ Answered(d)
      BY <1>4, <2>1, WaitsOnlyMove, OpsStay
         DEF TraceInv, WaitsMove, LeaveMoves, Left, TimesOut, TypeOK, SessionTypeOK, Callers
    <3>2. ~Drained(d)
      BY <2>1, DrainedRunIsKnown DEF GoesOn, RunWaits
    <3>3. Answered(d) => phase'[d] = "draining"
      BY <2>1 DEF Answered, ResumeExec, ResumeRunTest, ResumeBoundary, ResumeClose,
         Boundaries, TypeOK, SessionTypeOK, Callers
    <3> QED
      BY <2>1, <3>1, <3>2, <3>3
  <2> QED
    BY <1>3, <1>5, <2>1, WindowOnlyMoves, ShellAssumption DEF WindowMoves, GoesOn, Callers
<1>8. CASE phase'[c] = "waiting"
  BY <1>6, <1>7, <1>8 DEF RunWaits, UnderWay
<1>9. CASE TimesOut(c)
  BY <1>6, <1>9 DEF TimesOut, RunAbandoned, UnderWay
<1>10. CASE Answered(c)
  <2>1. phase' = [phase EXCEPT ![c] = "draining"] /\ UNCHANGED <<abandoned, timed>>
    BY <1>1, <1>10 DEF Answered, ResumeExec, ResumeRunTest, ResumeBoundary, ResumeClose,
       Boundaries
  <2>2. phase'[c] = "draining" /\ \A d \in Calls : phase'[d] # "waiting"
    BY <1>3, <2>1 DEF TypeOK, SessionTypeOK, Callers
  <2> QED
    BY <1>3, <1>6, <1>7, <2>1, <2>2 DEF RunWaits, RunDrains, UnderWay
<1> QED
  BY <1>1, <1>4, <1>8, <1>9, <1>10, StaysOnlyMove DEF StaysMove, StayMoves

LEMMA RunDrainsOn ==
    ASSUME Inv, TraceInv, RecordInv, TimedHaveAsked, [Next]_vars, GoesOn, RunDrains
    PROVE  UnderWay'
<1> USE DEF Inv
<1>1. PICK c \in Calls : op[c] = "run_test" /\ phase[c] = "draining"
  BY DEF RunDrains
<1>2. abandoned' = NoCall
  BY ModesOnlyMove DEF RunDrains, ModesMove, AbandonedMoves
<1>3. \A d \in Calls : op[d] = "run_test" => ~Drained(d)
  BY DrainedRunIsKnown DEF GoesOn, RunDrains
<1>4. op'[c] = "run_test" /\ phase'[c] = "draining"
  BY <1>1, <1>3, OpsStay, StaysOnlyMove DEF TraceInv, StaysMove, StayMoves
<1>5. UNCHANGED timed
  BY <1>1, StaysOnlyMove DEF StaysMove, TimedMoves, TimerFires, NoDrain
<1>6. \A d \in Calls : phase'[d] = "waiting" => d \notin timed'
  BY <1>5, WaitsOnlyMove DEF WaitsMove, WaitMoves, RunDrains, GoesOn, TimedHaveAsked
<1>7. CASE \E d \in Calls : DrainRaises(d)
  <2>1. Stuck
    BY <1>7 DEF DrainRaises, GoesOn, RecordInv, BrokenIsStuck
  <2> QED
    BY <2>1, StuckStays DEF GoesOn, UnderWay
<1>8. CASE ~\E d \in Calls : DrainRaises(d)
  <2>1. \A d \in Calls : ~Failed(d)
    BY DEF GoesOn, Failed, SafeInv, FailureIsFinal, Callers
  <2>2. ASSUME NEW d \in Calls, op[d] = "run_test", phase'[d] = "done",
               phase[d] \in {"waiting", "broken", "draining"}
        PROVE  FALSE
    <3>1. Answered(d)
      BY <1>3, <1>8, <2>1, <2>2, WaitsOnlyMove, OpsStay
         DEF TraceInv, WaitsMove, LeaveMoves, Left, TimesOut, TypeOK, SessionTypeOK, Callers
    <3>2. phase'[d] = "draining"
      BY <2>2, <3>1 DEF Answered, ResumeExec, ResumeRunTest, ResumeBoundary, ResumeClose,
         Boundaries, TypeOK, SessionTypeOK, Callers
    <3> QED
      BY <2>2, <3>2
  <2>3. \A d \in Calls : RunTest(d) => run' # NoCall
    BY ShellAssumption DEF RunTest, Callers
  <2>4. run' # NoCall
    BY <2>2, <2>3, WindowOnlyMoves, ShellAssumption DEF WindowMoves, GoesOn, RunDrains, Callers
  <2> QED
    BY <1>2, <1>4, <1>6, <2>4 DEF RunDrains, UnderWay
<1> QED
  BY <1>7, <1>8

LEMMA RunAbandonedOn ==
    ASSUME Inv, TraceInv, RecordInv, [Next]_vars, GoesOn, RunAbandoned
    PROVE  UnderWay'
<1> USE DEF Inv
<1>1. abandoned # NoCall
  BY ShellAssumption DEF RunAbandoned, Callers
<1>2. \A d \in Calls : phase[d] # "waiting"
  BY <1>1 DEF GoesOn, SafeInv, OneWaits, Live, Terminal, States, TypeOK, SessionTypeOK
<1>3. abandoned' \in {abandoned, NoCall}
  BY <1>2, ModesOnlyMove DEF ModesMove, AbandonedMoves
<1>4. abandoned' # NoCall
  BY SettledRunIsKnown DEF GoesOn
<1> QED
  BY <1>3, <1>4, OpsStay DEF TraceInv, RunAbandoned, UnderWay

(* A session with a run nobody has a verdict of announces nothing.         *)
LEMMA UnderWaySaysNothing ==
    ASSUME Inv, TraceInv, RecordInv, [Next]_vars, GoesOn, ~announced, ranTest, UnderWay
    PROVE  ~announced'
<1> USE DEF Inv
<1>1. ~\E c \in Calls : Drained(c) /\ op[c] = "run_test" /\ run # NoCall
  BY DrainedRunIsKnown DEF GoesOn
<1>2. abandoned # NoCall => RunAbandoned
  <2>1. CASE RunWaits
    <3>1. PICK c \in Calls : phase[c] = "waiting"
      BY <2>1 DEF RunWaits
    <3>2. state = "busy"
      BY <3>1 DEF GoesOn, RecordInv, ReadyIsFree, Live, Terminal, States, TypeOK, SessionTypeOK
    <3> QED
      BY <3>1, <3>2 DEF GoesOn, SafeInv, OneWaits
  <2> QED
    BY <2>1 DEF UnderWay, RunDrains, Stuck
<1>3. ~(abandoned # NoCall /\ abandoned' = NoCall)
  BY <1>2, SettledRunIsKnown DEF GoesOn
<1> QED
  BY <1>1, <1>3, AnnouncesMove DEF AnnounceMoves, GoesOn

(* A run that begins waits for its answer, or could not be written.        *)
LEMMA NewRunIsUnderWay ==
    ASSUME Inv, TraceInv, RecordInv, [Next]_vars, GoesOn, NEW c \in Calls, RunTest(c)
    PROVE  UnderWay'
<1> USE DEF Inv
<1>1. run' = c /\ op'[c] = "run_test" /\ phase'[c] \in {"waiting", "broken"} /\ c # NoCall
  BY ShellAssumption DEF RunTest, Ask, Send, Callers, TypeOK, ShellTypeOK, SessionTypeOK
<1>2. CASE phase'[c] = "waiting"
  BY <1>1, <1>2 DEF UnderWay, RunWaits
<1>3. CASE phase'[c] = "broken"
  BY <1>3, RecordStep DEF RecordInv, BrokenIsStuck, GoesOn, UnderWay
<1> QED
  BY <1>1, <1>2, <1>3

LEMMA VerdictFirstStep ==
    ASSUME Inv, TraceInv, RecordInv, VerdictInv, [Next]_vars
    PROVE  VerdictFirst'
<1> USE DEF Inv, VerdictInv
<1>1. announced' => ranTest'
  BY AnnouncesMove DEF AnnounceMoves, VerdictFirst
<1>2. SUFFICES ASSUME ranTest', Live', ~closing', ~VerdictKnown'
               PROVE  ~announced' /\ UnderWay'
  BY <1>1 DEF VerdictFirst, UnderWay
<1>3. GoesOn
  <2>1. Live
    BY <1>2, EndStep DEF Live, vars, modeVars
  <2> QED
    BY <1>2, <2>1, ClosingStays, VerdictStays DEF GoesOn
<1>4. CASE ranTest
  <2>1. ~announced /\ UnderWay
    BY <1>3, <1>4, VerdictStays DEF VerdictFirst, GoesOn, UnderWay
  <2>2. ~announced'
    BY <1>3, <1>4, <2>1, UnderWaySaysNothing
  <2>3. UnderWay'
    BY <1>3, <2>1, RunWaitsOn, RunDrainsOn, RunAbandonedOn, StuckStays DEF UnderWay, GoesOn
  <2> QED
    BY <2>2, <2>3
<1>5. CASE ~ranTest
  <2>1. PICK c \in Calls : RunTest(c)
    BY <1>2, <1>5, AnnouncesMove DEF AnnounceMoves
  <2>2. ~announced'
    BY <1>5, AnnouncesMove DEF AnnounceMoves, VerdictFirst
  <2> QED
    BY <1>3, <2>1, <2>2, NewRunIsUnderWay
<1> QED
  BY <1>4, <1>5

LEMMA TimedHaveAskedStep ==
    ASSUME Inv, TimedHaveAsked, [Next]_vars
    PROVE  TimedHaveAsked'
<1> USE DEF Inv
<1>1. \A c \in Calls : phase'[c] = "new" => phase[c] = "new"
  BY CallsMove DEF CallMoves
<1>2. timed' \subseteq Calls
  BY TypesStep DEF TypeOK, SessionTypeOK
<1>3. \A c \in timed' : c \in timed \/ phase[c] = "waiting"
  BY StaysOnlyMove DEF StaysMove, TimedMoves, TimerFires
<1> QED
  BY <1>1, <1>2, <1>3 DEF TimedHaveAsked

LEMMA VerdictBegins == Init => VerdictInv
BY DEF Init, VerdictInv, VerdictFirst, TimedHaveAsked

(* What closes an autoclose session on is the verdict of its run, or the   *)
(* session's own end (_run_result, _settle_abandoned, _die): no command    *)
(* answered late, timed out or failed announces it over a run still under  *)
(* way.                                                                    *)
THEOREM AnnouncedVerdict == Spec => []AnnouncedAfterVerdict
<1>1. Init => VerdictInv
  BY VerdictBegins
<1>2. Inv /\ TraceInv /\ RecordInv /\ VerdictInv /\ [Next]_vars => VerdictInv'
  BY VerdictFirstStep, TimedHaveAskedStep DEF VerdictInv
<1>3. VerdictInv => AnnouncedAfterVerdict
  BY DEF VerdictInv, VerdictFirst, AnnouncedAfterVerdict, VerdictKnown
<1> QED
  BY <1>1, <1>2, <1>3, RecordHolds, PTL DEF Spec

-----------------------------------------------------------------------------
(* What is pending covers what is open, while nobody runs tests: CountInv. *)

(* The transaction grows by what an exec wrote, and ends as a whole.       *)
TxMoves ==
    \/ tx' \in {tx, {}}
    \/ tx' = tx \cup {current} /\ current \in Calls /\ op[current] = "exec"

LEMMA TxOnlyMoves == ASSUME Inv, [Next]_vars PROVE TxMoves
<1> USE DEF Inv, TxMoves, pipes
<1>1. ASSUME ShellNext PROVE TxMoves
  <2>1. CASE FinishExec
    BY <2>1 DEF FinishExec, Answers, TypeOK, ShellTypeOK
  <2>2. CASE FinishRunTest \/ FinishCommit \/ FinishRollback
    BY <2>2 DEF FinishRunTest, FinishCommit, FinishRollback
  <2> QED
    BY <1>1, <2>1, <2>2 DEF ShellNext, SayHello, TakeCommand, SayBye, FinishRead, ProcessEnds,
       ProcessGone
<1>2. ASSUME NEW c \in Calls, Asks(c) \/ Proceeds(c) \/ TimerFires(c) \/ SignalLands(c)
      PROVE  UNCHANGED tx
  BY <1>2 DEF Asks, Execute, RunTest, EndTransaction, Send, Interrupt, Close, Kill,
     Proceeds, Answered, Failed, DrainRaises, Raised, TimesOut, SignalReturns,
     InterruptReturns, Drained, CloseSends, Reaped, TimerFires, SignalLands
<1>3. ASSUME NEW c \in Callers, Ends(c) PROVE TxMoves
  BY <1>1, <1>3 DEF Ends, KillStrikes, Killed, ShellNext
<1>4. CASE Reads \/ Opening
  BY <1>4 DEF Reads, ReadFrame, HoldLateRun, SettleLateRun, EndOfFrames, ReaderElsewhere,
     Opening, HelloTimesOut, Stopped, Opened, OpenFails
<1> QED
  BY <1>1, <1>2, <1>3, <1>4 DEF Next, vars, ShellStep, TransferOwner, PolicyChanges

(* A command that ended the transaction, with its answer at hand.          *)
EndedIt(c) ==
    /\ op[c] \in Boundaries
    /\ \/ phase[c] = "waiting" /\ fut[c] = "ok"
       \/ abandoned = c /\ Reading(c)

KeepsCount ==
    /\ pending' = pending
    /\ \A d \in Calls : op'[d] = "exec" /\ Concluded(d)' => Concluded(d)

CountsOne(c) ==
    /\ pending' = pending + 1
    /\ \A d \in Calls : d # c /\ Concluded(d)' => Concluded(d)
    /\ UNCHANGED tx

ForgetsAll(c) == pending' = 0 /\ EndedIt(c) /\ UNCHANGED tx

CountMoves == KeepsCount \/ \E c \in Calls : CountsOne(c) \/ ForgetsAll(c)

(* A record about one call concludes no other, and may conclude none.      *)
LEMMA OneConcludes ==
    ASSUME NEW c, NEW records, Write(records), \A r \in records : r.call = c
    PROVE  \A d \in Calls : d # c /\ Concluded(d)' => Concluded(d)
BY DEF Write, Concluded

LEMMA NoneConclude ==
    ASSUME NEW records, Write(records), \A r \in records : r.kind \notin Conclusions
    PROVE  \A d \in Calls : Concluded(d)' => Concluded(d)
BY DEF Write, Concluded, Conclusions

LEMMA SameConcluded ==
    ASSUME UNCHANGED journal
    PROVE  \A d \in Calls : Concluded(d)' => Concluded(d)
BY DEF Concluded

LEMMA BookingCounts ==
    ASSUME NEW c \in Calls, BookExec(c), UNCHANGED <<op, tx>>,
           NEW records, Write(records), \A r \in records : r.call = c
    PROVE  CountMoves
<1>1. \A d \in Calls : d # c /\ Concluded(d)' => Concluded(d)
  BY OneConcludes
<1>2. CASE op[c] = "exec"
  BY <1>1, <1>2 DEF BookExec, CountMoves, CountsOne
<1>3. CASE op[c] # "exec"
  BY <1>1, <1>3 DEF BookExec, CountMoves, KeepsCount
<1> QED
  BY <1>2, <1>3

LEMMA AsksCount ==
    ASSUME TypeOK, NoRunIsAsked', NEW c \in Calls, Asks(c)
    PROVE  KeepsCount
<1> USE DEF KeepsCount, bookVars
<1>1. ~RunTest(c)
  BY DEF RunTest, Ask, TypeOK, ShellTypeOK, NoRunIsAsked
<1>2. ASSUME NEW kind, Execute(c, kind) PROVE KeepsCount
  <2>1. \A r \in {Record("exec", c, c, FALSE, FALSE)} : r.kind \notin Conclusions
    BY DEF Record, Conclusions, Boundaries
  <2> QED
    BY <1>2, <2>1, NoneConclude DEF Execute
<1>3. ASSUME UNCHANGED bookVars PROVE KeepsCount
  BY <1>3, SameConcluded
<1> QED
  BY <1>1, <1>2, <1>3 DEF Asks, EndTransaction, Interrupt, Close, Kill

LEMMA ProceedsCount ==
    ASSUME TypeOK, NoRunIsAsked', NEW c \in Calls, Proceeds(c)
    PROVE  CountMoves
<1> USE DEF bookVars, pipes
<1>1. op'[c] = op[c] /\ op[c] # "run_test" /\ UNCHANGED <<op, tx>>
  BY DEF Proceeds, Answered, Failed, DrainRaises, Raised, TimesOut, SignalReturns,
     InterruptReturns, Drained, CloseSends, Send, Reaped, NoRunIsAsked
<1>2. ASSUME UNCHANGED bookVars PROVE CountMoves
  BY <1>2, SameConcluded DEF CountMoves, KeepsCount
<1>3. ASSUME NEW kind, NEW killed, NEW d, kind \notin Conclusions,
             Write({Record(kind, d, d, killed, FALSE)}), UNCHANGED pending
      PROVE  CountMoves
  <2>1. \A r \in {Record(kind, d, d, killed, FALSE)} : r.kind \notin Conclusions
    BY <1>3 DEF Record
  <2> QED
    BY <1>3, <2>1, NoneConclude DEF CountMoves, KeepsCount
<1>4. ASSUME NEW err, BookExec(c), Write({Record("result", c, c, err, FALSE)}) PROVE CountMoves
  <2>1. \A r \in {Record("result", c, c, err, FALSE)} : r.call = c
    BY DEF Record
  <2> QED
    BY <1>1, <1>4, <2>1, BookingCounts
<1>5. CASE Answered(c)
  <2>1. CASE ResumeExec(c)
    BY <1>2, <1>4, <2>1 DEF ResumeExec
  <2>2. CASE ResumeBoundary(c) /\ fut[c] = "ok"
    BY <1>1, <1>5, <2>2 DEF Answered, ResumeBoundary, ForgetPending, CountMoves, ForgetsAll, EndedIt
  <2>3. CASE ResumeBoundary(c) /\ fut[c] # "ok"
    <3>1. \A r \in {Record(op[c], c, c, fut[c] = "error", FALSE)} : r.call = c
      BY DEF Record
    <3>2. \A d \in Calls : d # c /\ Concluded(d)' => Concluded(d)
      BY <2>3, <3>1, OneConcludes DEF ResumeBoundary
    <3> QED
      BY <1>1, <2>3, <3>2 DEF ResumeBoundary, Boundaries, CountMoves, KeepsCount
  <2> QED
    BY <1>1, <1>2, <1>5, <2>1, <2>2, <2>3 DEF Answered, ResumeRunTest, ResumeClose
<1>6. CASE Drained(c)
  BY <1>1, <1>4, <1>6 DEF Drained, ExecDrained, RunDrained
<1>7. CASE SignalReturns(c) \/ InterruptReturns(c)
  BY <1>2, <1>3, <1>7 DEF SignalReturns, InterruptReturns, Conclusions, Boundaries
<1>8. CASE Reaped(c)
  BY <1>2, <1>3, <1>8 DEF Reaped, Closes, Conclusions, Boundaries
<1> QED
  BY <1>2, <1>5, <1>6, <1>7, <1>8 DEF Proceeds, Failed, DrainRaises, Raised, TimesOut, CloseSends

LEMMA SettlingCounts ==
    ASSUME TypeOK, NEW err \in BOOLEAN, SettleAbandoned(err), abandoned \in Calls,
           UNCHANGED <<op, tx>>, ~err => Reading(abandoned)
    PROVE  CountMoves
<1>1. \A r \in LateRecords(abandoned, err) : r.call = abandoned
  BY DEF LateRecords, Record
<1>2. Write(LateRecords(abandoned, err))
  BY DEF SettleAbandoned
<1>3. CASE op[abandoned] \in Boundaries /\ ~err
  BY <1>3 DEF SettleAbandoned, ForgetPending, CountMoves, ForgetsAll, EndedIt
<1>4. CASE BookExec(abandoned)
  BY <1>1, <1>2, <1>4, BookingCounts
<1> QED
  BY <1>3, <1>4 DEF SettleAbandoned

LEMMA ReadsCount == ASSUME TypeOK, HeldIsThere, Reads PROVE CountMoves
<1> USE DEF bookVars
<1>1. outbox # <<>> => Head(outbox).err \in BOOLEAN /\ Head(outbox).id # NoCall
  <2>1. outbox # <<>> => Head(outbox) \in Frames
    BY DEF TypeOK, ShellTypeOK
  <2> QED
    BY <2>1, ShellAssumption DEF Frames
<1>2. abandoned # NoCall => abandoned \in Calls
  BY DEF TypeOK, SessionTypeOK
<1>3. UNCHANGED <<op, tx>>
  BY DEF Reads, ReadFrame, HoldLateRun, SettleLateRun, EndOfFrames, ReaderElsewhere
<1>4. ASSUME UNCHANGED bookVars PROVE CountMoves
  BY <1>4, SameConcluded DEF CountMoves, KeepsCount
<1>5. ASSUME Die, UNCHANGED pending PROVE CountMoves
  <2>1. \A r \in {Record("session_died", NoCall, NoCall, FALSE, FALSE)} : r.kind \notin Conclusions
    BY DEF Record, Conclusions, Boundaries
  <2>2. \A d \in Calls : Concluded(d)' => Concluded(d)
    BY <1>5, <2>1, NoneConclude, SameConcluded DEF Die
  <2> QED
    BY <1>5, <2>2 DEF CountMoves, KeepsCount
<1>6. CASE ReadFrame
  <2> DEFINE f == Head(outbox)
  <2>1. outbox # <<>> /\ FrameArrives(f)
    BY <1>6 DEF ReadFrame
  <2>2. CASE f.big
    BY <1>2, <1>3, <1>4, <2>1, <2>2, SettlingCounts DEF FrameArrives, Overrun, Deliver, DropFrame
  <2>3. CASE ~f.big /\ IsLate(f)
    BY <1>1, <1>2, <1>3, <2>1, <2>3, SettlingCounts DEF FrameArrives, IsLate, Reading
  <2>4. CASE ~f.big /\ ~IsLate(f)
    BY <1>4, <2>1, <2>4 DEF FrameArrives, Deliver, DropFrame
  <2> QED
    BY <2>2, <2>3, <2>4
<1>7. CASE SettleLateRun
  <2>1. outbox # <<>>
    BY <1>7 DEF SettleLateRun, HeldIsThere
  <2> QED
    BY <1>1, <1>2, <1>3, <1>4, <1>7, <2>1, SettlingCounts DEF SettleLateRun, DropFrame, IsLate, Reading
<1>8. CASE EndOfFrames
  BY <1>5, <1>8 DEF EndOfFrames
<1> QED
  BY <1>4, <1>6, <1>7, <1>8 DEF Reads, HoldLateRun, DropFrame

LEMMA CountOnlyMoves == ASSUME Inv, NoRunIsAsked', [Next]_vars PROVE CountMoves
<1> USE DEF Inv, bookVars
<1>1. ASSUME UNCHANGED <<pending, journal>> PROVE CountMoves
  BY <1>1, SameConcluded DEF CountMoves, KeepsCount
<1>2. ASSUME NEW kind, NEW killed, kind \notin Conclusions, UNCHANGED pending,
             Write({Record(kind, NoCall, NoCall, killed, FALSE)})
      PROVE  CountMoves
  <2>1. \A r \in {Record(kind, NoCall, NoCall, killed, FALSE)} : r.kind \notin Conclusions
    BY <1>2 DEF Record
  <2> QED
    BY <1>2, <2>1, NoneConclude DEF CountMoves, KeepsCount
<1>3. CASE Opening
  BY <1>1, <1>2, <1>3 DEF Opening, HelloTimesOut, Die, Stopped, Opened, OpenFails,
     Conclusions, Boundaries
<1>4. ASSUME NEW c \in Callers, Ends(c) PROVE CountMoves
  BY <1>1, <1>2, <1>4 DEF Ends, KillStrikes, Killed, Closes, Conclusions, Boundaries
<1> QED
  BY <1>1, <1>3, <1>4, AsksCount, ProceedsCount, ReadsCount DEF CountMoves, Next, vars,
     ShellStep, TimerFires, SignalLands, TransferOwner, PolicyChanges

(* Until a close, a command is sent by a call that was not made yet.       *)
LEMMA SentIsNew ==
    ASSUME Inv, TraceInv, RecordInv, [Next]_vars, ~closing', NEW c \in Calls, Send(c, op'[c])
    PROVE  phase[c] = "new"
<1> USE DEF Inv
<1>1. ~closing
  BY ClosingStays
<1>2. phase'[c] \in {"waiting", "broken"}
  BY DEF Send, TypeOK, SessionTypeOK, Callers
<1>3. SUFFICES ASSUME phase'[c] = phase[c] PROVE phase[c] = "new"
  BY <1>1, <1>2, WaitsOnlyMove DEF WaitsMove, WaitMoves
<1>4. state = "busy" /\ op'[c] = "close"
  BY <1>2, <1>3 DEF Send, Acceptable, RecordInv, ReadyIsFree, Live, Terminal, States, TypeOK,
     SessionTypeOK
<1>5. op[c] = "close"
  BY <1>2, <1>3, <1>4, OpsStay DEF TraceInv, Asked
<1> QED
  BY <1>1, <1>2, <1>3, <1>5 DEF SafeInv, EndingIsClosing

LEMMA LivesOn == ASSUME Inv, [Next]_vars, Live', ~closing' PROVE Live /\ ~closing
<1>1. Live
  BY EndStep DEF Live, vars, modeVars
<1> QED
  BY <1>1, ClosingStays

LEMMA RecordedHasRunStep ==
    ASSUME Inv, TraceInv, RecordInv, RecordedHasRun, [Next]_vars
    PROVE  RecordedHasRun'
<1> USE DEF Inv
<1> SUFFICES ASSUME Live', ~closing', NEW c \in Calls, InContainer(c)'
             PROVE  ~Concluded(c)' /\ phase'[c] # "draining"
  BY DEF RecordedHasRun
<1>1. Live /\ ~closing
  BY LivesOn
<1>2. JournalMoves /\ StayMoves(c)
  BY JournalOnlyMoves, StaysOnlyMove DEF TraceInv, StaysMove
<1>3. CASE Send(c, op'[c])
  <2>1. phase[c] = "new" /\ op[c] = "none" /\ abandoned # c /\ ~Concluded(c)
    BY <1>3, SentIsNew DEF TraceInv, Asked, Concluded
  <2>2. ~Concluded(c)'
    BY <1>2, <2>1 DEF JournalMoves, Concluded, Conclusions, SessionRecord, OwnRecord, LateRecord,
       OtherRecord
  <2>3. phase'[c] # "draining"
    BY <1>3 DEF Send, TypeOK, SessionTypeOK, Callers
  <2> QED
    BY <2>2, <2>3
<1>4. CASE InContainer(c)
  <2>1. ~Concluded(c) /\ phase[c] # "draining"
    BY <1>1, <1>4 DEF RecordedHasRun
  <2>2. outbox = <<>>
    BY <1>1, <1>4, ShellAssumption DEF InContainer, SafeInv, OneInFlight, AtMostOne, Callers
  <2>3. phase[c] = "waiting" => fut[c] \notin {"ok", "error"}
    <3>1. ~Quiet
      BY <1>4, ShellAssumption DEF InContainer, Quiet, Callers
    <3>2. phase[c] = "waiting" => state = "busy"
      BY <1>1 DEF RecordInv, ReadyIsFree, Live, Terminal, States, TypeOK, SessionTypeOK
    <3> QED
      BY <1>1, <3>1, <3>2 DEF SafeInv, AnsweredIsQuiet
  <2>4. ~Concluded(c)'
    BY <1>2, <2>1, <2>2, <2>3 DEF JournalMoves, Concluded, Conclusions, SessionRecord, OwnRecord,
       LateRecord, OtherRecord
  <2>5. phase'[c] # "draining"
    BY <1>2, <2>1, <2>3 DEF StayMoves, Answered
  <2> QED
    BY <2>4, <2>5
<1> QED
  BY <1>3, <1>4, ContainersMove DEF ContainerMoves

(* What is in the container, read or not, is alone.                        *)
LEMMA RunningIsAlone ==
    ASSUME Inv, ~closing, current # NoCall
    PROVE  outbox = <<>>
BY DEF Inv, SafeInv, OneInFlight, AtMostOne

LEMMA EndedIsEmptyStep ==
    ASSUME Inv, TraceInv, RecordInv, EndedIsEmpty, [Next]_vars
    PROVE  EndedIsEmpty'
<1> USE DEF Inv
<1>1. SUFFICES ASSUME Live', ~closing'
               PROVE  /\ \A i \in DOMAIN outbox' :
                            /\ outbox'[i].id \in Calls /\ op'[outbox'[i].id] \in Boundaries
                            /\ ~outbox'[i].err
                            => tx' = {}
                      /\ \A c \in Calls :
                            op'[c] \in Boundaries /\ phase'[c] = "waiting" /\ fut'[c] = "ok"
                            => tx' = {}
  BY DEF EndedIsEmpty
<1>2. Live /\ ~closing
  BY <1>1, LivesOn
<1>3. tx = {} /\ (current # NoCall => tx' = {}) => tx' = {}
  BY TxOnlyMoves, ShellAssumption DEF TxMoves, Callers
<1>4. outbox # <<>> => current = NoCall
  BY <1>2, RunningIsAlone
<1>5. \A c \in Calls : InContainer(c) => op[c] # "none"
  BY DEF TraceInv, Asked
<1>6. ASSUME NEW i \in DOMAIN outbox, outbox[i].id \in Calls, ~outbox[i].err,
             op'[outbox[i].id] \in Boundaries
      PROVE  tx' = {}
  <2>1. op[outbox[i].id] = op'[outbox[i].id]
    BY <1>6, OpsStay DEF TraceInv, Asked
  <2>2. tx = {} /\ outbox # <<>>
    BY <1>2, <1>6, <2>1 DEF EndedIsEmpty
  <2> QED
    BY <1>3, <1>4, <2>2
<1>7. ASSUME NEW i \in DOMAIN outbox', outbox'[i].id \in Calls, ~outbox'[i].err,
             op'[outbox'[i].id] \in Boundaries
      PROVE  tx' = {}
  <2>1. CASE Written(outbox'[i])
    BY <1>5, <1>7, <2>1, OpsStay DEF TraceInv, Written
  <2> QED
    BY <1>6, <1>7, <2>1, FramesOnlyMove, ShellAssumption DEF FramesMove
<1>8. ASSUME NEW c \in Calls, op'[c] \in Boundaries, phase'[c] = "waiting", fut'[c] = "ok"
      PROVE  tx' = {}
  <2>1. ~Send(c, op'[c])
    BY <1>8 DEF Send, TypeOK, SessionTypeOK, Callers
  <2>2. phase[c] = "waiting" /\ op'[c] = op[c]
    BY <1>8, <2>1, WaitsOnlyMove, OpsStay DEF WaitsMove, WaitMoves, TraceInv, Asked
  <2>3. CASE fut[c] = "ok"
    <3>1. state = "busy"
      BY <1>2, <2>2 DEF RecordInv, ReadyIsFree, Live, Terminal, States, TypeOK, SessionTypeOK
    <3>2. current = NoCall
      BY <1>2, <2>2, <2>3, <3>1 DEF SafeInv, AnsweredIsQuiet, Quiet
    <3> QED
      BY <1>2, <1>3, <1>8, <2>2, <2>3, <3>2 DEF EndedIsEmpty
  <2>4. CASE Reading(c)
    <3>1. 1 \in DOMAIN outbox /\ outbox[1].id = c /\ ~outbox[1].err
      BY <2>4 DEF Reading, TypeOK, ShellTypeOK
    <3> QED
      BY <1>6, <1>8, <3>1
  <2> QED
    BY <1>8, <2>1, <2>3, <2>4, FuturesMove DEF FutureMoves
<1> QED
  BY <1>7, <1>8

LEMMA OnlyExecWritesStep ==
    ASSUME Inv, TraceInv, OnlyExecWrites, [Next]_vars
    PROVE  OnlyExecWrites'
<1>1. \A c \in Calls : op[c] = "exec" => op'[c] = "exec"
  BY OpsStay DEF TraceInv
<1>2. tx \subseteq Calls
  BY DEF Inv, TypeOK, ShellTypeOK
<1> QED
  BY <1>1, <1>2, TxOnlyMoves DEF TxMoves, OnlyExecWrites

LEMMA NoRunIsAskedStep ==
    ASSUME NoRuns, Inv, NoRunIsAsked, [Next]_vars
    PROVE  NoRunIsAsked'
BY CallsMove DEF CallMoves, NoRuns, NoRunIsAsked

LEMMA FewerCount ==
    ASSUME NEW S, IsFiniteSet(S), NEW T \in SUBSET S, NEW n \in Nat, Cardinality(S) <= n
    PROVE  Cardinality(T) <= n
<1>1. /\ Cardinality(S) \in Nat /\ Cardinality(T) \in Nat
      /\ Cardinality(T) <= Cardinality(S)
  BY FS_Subset, FS_CardinalityType
<1> QED
  BY <1>1

LEMMA OneMoreCounts ==
    ASSUME NEW S, IsFiniteSet(S), NEW x, NEW n \in Nat, Cardinality(S) <= n
    PROVE  IsFiniteSet(S \cup {x}) /\ Cardinality(S \cup {x}) <= n + 1
<1>1. Cardinality(S) \in Nat
  BY FS_CardinalityType
<1>2. /\ IsFiniteSet(S \cup {x})
      /\ Cardinality(S \cup {x}) = IF x \in S THEN Cardinality(S) ELSE Cardinality(S) + 1
  BY FS_AddElement
<1> QED
  BY <1>1, <1>2

(* What counted still does, and what an answer ended is empty.             *)
LEMMA CountedStep ==
    ASSUME Inv, TraceInv, RecordInv, CountInv, NoRunIsAsked', [Next]_vars,
           IsFiniteSet(tx'), StillCounts'
    PROVE  Cardinality(Counted') <= pending'
<1> USE DEF Inv, CountInv
<1>1. Live /\ (closing => state = "ready")
  <2>1. Live
    BY EndStep DEF StillCounts, Live, vars, modeVars
  <2>2. CASE closing
    BY <2>1, <2>2, ClosingStays, NotReadyStep DEF StillCounts, vars, modeVars
  <2> QED
    BY <2>1, <2>2
<1>2. /\ IsFiniteSet(tx) /\ IsFiniteSet(Counted) /\ Cardinality(Counted) <= pending
      /\ pending \in Nat /\ pending' \in Nat
  <2>1. IsFiniteSet(tx) /\ Counted \in SUBSET tx /\ Cardinality(Counted) <= pending
    BY <1>1 DEF WritesAreCounted, StillCounts, Counted
  <2>2. pending \in Nat /\ pending' \in Nat
    BY TypesStep DEF TypeOK, SessionTypeOK
  <2> QED
    BY <2>1, <2>2, FS_Subset
<1>3. CASE tx' = {}
  <2>1. Counted' = {}
    BY <1>3 DEF Counted
  <2> QED
    BY <1>2, <2>1, FS_EmptySet
<1>4. tx \subseteq Calls /\ \A c \in tx : op'[c] = "exec"
  <2>1. tx \subseteq Calls
    BY DEF TypeOK, ShellTypeOK
  <2> QED
    BY <2>1, OpsStay DEF TraceInv, OnlyExecWrites
<1>5. CASE KeepsCount /\ tx' # {}
  <2>1. current # NoCall => ~Concluded(current)
    <3>1. current # NoCall => current \in Calls /\ InContainer(current) /\ state # "ready"
      BY DEF TypeOK, ShellTypeOK, InContainer, SafeInv, ReadyMeansQuiet, Quiet
    <3> QED
      BY <1>1, <3>1 DEF RecordedHasRun
  <2>2. current # NoCall /\ op[current] = "exec" => op'[current] = "exec"
    <3>1. current # NoCall => current \in Calls
      BY DEF TypeOK, ShellTypeOK
    <3> QED
      BY <3>1, OpsStay DEF TraceInv
  <2>3. Counted' \in SUBSET Counted
    BY <1>4, <1>5, <2>1, <2>2, TxOnlyMoves, ShellAssumption DEF TxMoves, KeepsCount, Counted, Callers
  <2>4. pending' = pending
    BY <1>5 DEF KeepsCount
  <2> HIDE DEF Inv, CountInv
  <2> QED
    BY <1>2, <2>3, <2>4, FewerCount
<1>6. ASSUME NEW c \in Calls, CountsOne(c) PROVE Cardinality(Counted') <= pending'
  <2>1. Counted' \in SUBSET (Counted \cup {c})
    BY <1>4, <1>6 DEF CountsOne, Counted
  <2>2. IsFiniteSet(Counted \cup {c}) /\ Cardinality(Counted \cup {c}) <= pending'
    BY <1>2, <1>6, OneMoreCounts DEF CountsOne
  <2> QED
    BY <1>2, <2>1, <2>2, FewerCount
<1>7. ASSUME NEW c \in Calls, ForgetsAll(c) PROVE tx' = {}
  <2>1. phase[c] # "waiting" \/ ~closing
    BY <1>1 DEF RecordInv, ReadyIsFree
  <2>2. abandoned # c \/ ~closing
    BY <1>1, ShellAssumption DEF RecordInv, ReadyIsFree, Callers
  <2>3. ~closing
    BY <1>7, <2>1, <2>2 DEF ForgetsAll, EndedIt
  <2>4. CASE Reading(c)
    <3>1. 1 \in DOMAIN outbox /\ outbox[1].id = c /\ ~outbox[1].err
      BY <2>4 DEF Reading, TypeOK, ShellTypeOK
    <3> QED
      BY <1>1, <1>7, <2>3, <3>1 DEF ForgetsAll, EndedIt, EndedIsEmpty
  <2>5. CASE phase[c] = "waiting" /\ fut[c] = "ok"
    BY <1>1, <1>7, <2>3, <2>5 DEF ForgetsAll, EndedIt, EndedIsEmpty
  <2> QED
    BY <1>7, <2>4, <2>5 DEF ForgetsAll, EndedIt
<1> QED
  BY <1>3, <1>5, <1>6, <1>7, CountOnlyMoves DEF CountMoves

LEMMA WritesAreCountedStep ==
    ASSUME Inv, TraceInv, RecordInv, CountInv, NoRunIsAsked', [Next]_vars
    PROVE  WritesAreCounted'
<1>1. IsFiniteSet(tx)
  BY DEF CountInv, WritesAreCounted
<1>2. IsFiniteSet(tx \cup {current}) /\ IsFiniteSet({})
  BY <1>1, FS_AddElement, FS_EmptySet
<1>3. IsFiniteSet(tx')
  BY <1>1, <1>2, TxOnlyMoves DEF TxMoves
<1> QED
  BY <1>3, CountedStep DEF WritesAreCounted

LEMMA CountBegins == Init => CountInv
<1>1. Init => IsFiniteSet(tx) /\ Cardinality(Counted) = 0
  <2>1. Init => tx = {} /\ Counted = {}
    BY DEF Init, ShellInit, Counted
  <2> QED
    BY <2>1, FS_EmptySet
<1>2. Init => NoRunIsAsked /\ OnlyExecWrites /\ EndedIsEmpty /\ pending = 0
  BY DEF Init, ShellInit, NoRunIsAsked, OnlyExecWrites, EndedIsEmpty, Boundaries
<1>3. Init => RecordedHasRun
  BY ShellAssumption DEF Init, ShellInit, RecordedHasRun, InContainer, Concluded, Callers
<1> QED
  BY <1>1, <1>2, <1>3 DEF CountInv, WritesAreCounted

LEMMA CountStep ==
    ASSUME NoRuns, Inv, TraceInv, RecordInv, CountInv, [Next]_vars
    PROVE  CountInv'
<1>1. NoRunIsAsked' /\ OnlyExecWrites'
  BY NoRunIsAskedStep, OnlyExecWritesStep DEF CountInv
<1>2. RecordedHasRun' /\ EndedIsEmpty'
  BY RecordedHasRunStep, EndedIsEmptyStep DEF CountInv
<1> QED
  BY <1>1, <1>2, WritesAreCountedStep DEF CountInv

(* In a ready session whoever wrote is done, and so is on the journal.     *)
LEMMA CountCovers == ASSUME Inv, TraceInv, RecordInv, CountInv PROVE PendingCoversTx
<1> USE DEF Inv, CountInv
<1> SUFFICES ASSUME state = "ready", ~Draining PROVE Cardinality(tx) <= pending
  BY DEF PendingCoversTx
<1>1. ASSUME NEW c \in tx PROVE Concluded(c)
  <2>1. c \in Calls /\ c \in Callers /\ op[c] = "exec"
    BY DEF OnlyExecWrites, TypeOK, ShellTypeOK, Callers
  <2>2. phase[c] \notin {"new", "waiting", "broken", "draining"}
    BY <2>1 DEF TraceInv, Asked, RecordInv, ReadyIsFree, Draining
  <2>3. phase[c] \notin {"starting", "stopping", "closing", "reaping", "killing"}
    BY <2>1 DEF TraceInv, EndersKill, SafeInv, EndingIsClosing
  <2>4. phase[c] \in Phases
    BY <2>1 DEF TypeOK, SessionTypeOK
  <2>5. phase[c] \in Left
    BY <2>2, <2>3, <2>4 DEF Phases, Left
  <2> QED
    BY <2>1, <2>5 DEF RecordInv, CallersAreRecorded, Excused, Commands, Boundaries
<1>2. tx = Counted
  BY <1>1 DEF Counted
<1> QED
  BY <1>2 DEF WritesAreCounted, StillCounts, Live, Terminal

(* Whoever takes over or discards a ready session is warned of at least as *)
(* many pending commands as have writes open in the transaction            *)
(* (_book_command, _boundary, _settle_abandoned), as long as no run zeroes *)
(* the books before the bootstrap has agreed to it.                        *)
THEOREM PendingCovers == ASSUME NoRuns PROVE Spec => []PendingCoversTx
<1>1. Init => CountInv
  BY CountBegins
<1>2. Inv /\ TraceInv /\ RecordInv /\ CountInv /\ [Next]_vars => CountInv'
  BY CountStep
<1>3. Inv /\ TraceInv /\ RecordInv /\ CountInv => PendingCoversTx
  BY CountCovers
<1> QED
  BY <1>1, <1>2, <1>3, RecordHolds, PTL DEF Spec
=============================================================================
