------------------------------ MODULE Session -------------------------------
(***************************************************************************)
(* One session of the daemon (odoo_sheller/session.py): the state machine, *)
(* the calls in flight in it, its frame reader, the transaction's books    *)
(* and the journal, over the shell of module Shell and under the commit    *)
(* right of module CommitPolicy.                                           *)
(*                                                                         *)
(* The daemon is one asyncio loop: what a coroutine does between two awaits*)
(* is one action here, and phase says at which await each call stands.     *)
(***************************************************************************)
EXTENDS Shell, CommitPolicy

CONSTANTS
    Menu,         \* what each call may ask for: bounds a run's scenario
    Autoclose,    \* Session.autoclose
    PolicyMoves   \* whether grants and the switch change while the calls run

ASSUME SessionAssumption ==
    /\ Menu \in [Calls -> SUBSET CallKinds]
    /\ Autoclose \in BOOLEAN
    /\ PolicyMoves \in BOOLEAN

VARIABLES
    state,      \* Session._state
    closing,    \* Session._closing
    activity,   \* Session._activity
    phase,      \* the await each call stands at
    fut,        \* the future each call waits on; the opener's is hello's
    timed,      \* calls whose ceiling has fired
    wasDead,    \* kills that found the session dead
    waiter,     \* Session._waiter and _waiter_id
    abandoned,  \* Session._abandoned_id; its kind is op[abandoned]
    reader,     \* _read_frames: reading, draining (asleep), stopped
    run,        \* Session._run: the run whose window and failures are kept
    ranTest,    \* Session._ran_test
    announced,  \* Session._autoclose_announced
    pending,    \* Session.pending_commands
    inherited,  \* Session.inherited_pending
    journal,    \* the records written about calls and about the session
    sender      \* history: the owner, by position, each call was sent by

modeVars == <<state, closing, activity>>
callVars == <<op, phase, fut, timed, wasDead, sender>>
waitVars == <<waiter, abandoned, reader>>
runVars == <<run, ranTest, announced>>
bookVars == <<pending, inherited, journal>>
pipes == <<proc, pipe, current, outbox, tx, db>>

vars == <<modeVars, callVars, waitVars, runVars, bookVars, pipes, policyVars>>

States == {"starting", "ready", "busy", "closed", "dead"}
Terminal == {"closed", "dead"}
Boundaries == {"commit", "rollback"}
Commands == {"exec", "read", "run_test"} \cup Boundaries
Phases == {"new", "starting", "stopping", "waiting", "broken", "signalling",
           "signalled", "draining", "closing", "reaping", "killing", "done"}
Futures == {"none", "pending", "ok", "error", "failed", "cancelled"}

(* Bug: a source read shows its own name as the activity.                  *)
FrameTypeIsTheKind(kind) == kind

(* The account a command is booked to is not its frame's type: a source    *)
(* read is sent as exec.                                                   *)
FrameType(kind) == IF kind = "read" THEN "exec" ELSE kind

Record(kind, c, of, err, late) ==
    [kind |-> kind, call |-> c, of |-> of, err |-> err, late |-> late,
     by |-> Len(owners)]

Write(records) == journal' = journal \cup records

Live == state \notin Terminal

(* Bug: only a close in progress refuses a command.                        *)
AcceptableWhileBusy(kind) ==
    Live /\ state # "starting" /\ (kind = "close" \/ ~closing)

(* _ensure_acceptable.  Close is the one frame a busy session takes.       *)
Acceptable(kind) ==
    /\ Live
    /\ state # "starting"
    /\ kind = "close" \/ (~closing /\ state # "busy")

(* _fail_pending_waiters, and the same in _die: whoever waits for a frame  *)
(* or for hello is told the session is over.                               *)
FailWaiters ==
    fut' = [c \in Callers |-> IF fut[c] = "pending" /\ c \in {waiter, Opener}
                              THEN "failed" ELSE fut[c]]

(* A transaction ends: nothing is pending, the inherited part included.    *)
ForgetPending == pending' = 0 /\ inherited' = 0

(* Bug: any result announces the session's end.                            *)
MayAnnounceAnyEnd == Autoclose

MayAnnounce == Autoclose /\ ranTest

-----------------------------------------------------------------------------
(* _request, up to its first await.                                        *)

(* Bug: a close sent to a busy session takes the activity over.            *)
TakesActivityAlways(kind) == FrameType(kind)

TakesActivity(kind) == IF state = "busy" THEN activity ELSE FrameType(kind)

Send(c, kind) ==
    /\ Acceptable(kind)
    /\ waiter' = c
    /\ fut' = [fut EXCEPT ![c] = "pending"]
    /\ activity' = TakesActivity(kind)
    /\ state' = "busy"
    /\ pipe' = IF proc = "exited" THEN pipe ELSE Append(pipe, c)
    /\ \E p \in {"waiting"} \cup IF proc = "exited" THEN {"broken"} ELSE {} :
           phase' = [phase EXCEPT ![c] = p]
    /\ UNCHANGED <<closing, timed, wasDead, abandoned, reader,
                   proc, current, outbox, tx, db>>

(* Requests find the session in the registry: it leaves it in the step that*)
(* closes it, or with the end of a kill that found it dead.                *)
Registered == state # "closed" /\ \A c \in wasDead : phase[c] # "done"

Ask(c, kind) ==
    /\ Registered
    /\ phase[c] = "new"
    /\ kind \in Menu[c]
    /\ op' = [op EXCEPT ![c] = kind]
    /\ sender' = [sender EXCEPT ![c] = Len(owners)]

Execute(c, kind) ==
    /\ Ask(c, kind)
    /\ Send(c, kind)
    /\ Write({Record("exec", c, c, FALSE, FALSE)})
    /\ UNCHANGED <<runVars, pending, inherited, policyVars>>

RunTest(c) ==
    /\ Ask(c, "run_test")
    /\ Send(c, "run_test")
    /\ ForgetPending
    /\ run' = c
    /\ ranTest' = TRUE
    /\ Write({Record("run_test", c, c, FALSE, FALSE)})
    /\ UNCHANGED <<announced, policyVars>>

EndTransaction(c, kind) ==
    /\ Ask(c, kind)
    /\ kind = "commit" => MayCommit
    /\ Send(c, kind)
    /\ UNCHANGED <<runVars, bookVars, policyVars>>

-----------------------------------------------------------------------------
(* _request, after its await: the answer, the end of the session, or the   *)
(* ceiling.                                                                *)

FreesSession == state = "busy" /\ ~closing

LeaveRequest(c) ==
    /\ waiter' = IF waiter = c THEN NoCall ELSE waiter
    /\ IF FreesSession
       THEN state' = "ready" /\ activity' = "none"
       ELSE UNCHANGED <<state, activity>>

(* Bug: only an answered boundary spends the grant.                        *)
SpendsWhenAnswered(c) == FALSE

Spends(c) == op[c] \in Boundaries

SpendIfBoundary(c) ==
    IF Spends(c) THEN SpendProductionGrant ELSE UNCHANGED policyVars

AfterRequest(c) == IF op[c] = "close" THEN "reaping" ELSE "done"

(* Bug: a command answered after its ceiling is not counted.               *)
BookExecInTime(c) ==
    pending' = IF op[c] = "exec" /\ c # abandoned THEN pending + 1 ELSE pending

BookExec(c) == pending' = IF op[c] = "exec" THEN pending + 1 ELSE pending

(* The answer is there.  An exec that logged something waits for the rest  *)
(* of its log, as a run always does; a boundary is booked at once.         *)
ResumeExec(c) ==
    /\ op[c] \in {"exec", "read"}
    /\ \/ /\ phase' = [phase EXCEPT ![c] = "draining"]
          /\ UNCHANGED bookVars
       \/ /\ phase' = [phase EXCEPT ![c] = "done"]
          /\ BookExec(c)
          /\ Write({Record("result", c, c, fut[c] = "error", FALSE)})
          /\ UNCHANGED inherited
    /\ UNCHANGED policyVars

ResumeRunTest(c) ==
    /\ op[c] = "run_test"
    /\ phase' = [phase EXCEPT ![c] = "draining"]
    /\ UNCHANGED <<bookVars, policyVars>>

ResumeBoundary(c) ==
    /\ op[c] \in Boundaries
    /\ phase' = [phase EXCEPT ![c] = "done"]
    /\ Write({Record(op[c], c, c, fut[c] = "error", FALSE)})
    /\ IF fut[c] = "ok" THEN ForgetPending ELSE UNCHANGED <<pending, inherited>>
    /\ SpendProductionGrant

ResumeClose(c) ==
    /\ op[c] = "close"
    /\ phase' = [phase EXCEPT ![c] = "reaping"]
    /\ UNCHANGED <<bookVars, policyVars>>

Answered(c) ==
    /\ phase[c] = "waiting"
    /\ c \notin timed
    /\ fut[c] \in {"ok", "error"}
    /\ LeaveRequest(c)
    /\ ResumeExec(c) \/ ResumeRunTest(c) \/ ResumeBoundary(c) \/ ResumeClose(c)
    /\ UNCHANGED <<closing, op, fut, timed, wasDead, sender, abandoned, reader,
                   runVars, pipes>>

(* What a caller does with an exception that is not its own ceiling.       *)
Raised(c) ==
    /\ phase' = [phase EXCEPT ![c] = AfterRequest(c)]
    /\ run' = IF op[c] = "run_test" THEN NoCall ELSE run
    /\ SpendIfBoundary(c)
    /\ UNCHANGED <<closing, op, fut, timed, wasDead, sender, abandoned, reader,
                   ranTest, announced, bookVars, pipes>>

Failed(c) ==
    /\ phase[c] = "waiting"
    /\ c \notin timed
    /\ fut[c] = "failed"
    /\ LeaveRequest(c)
    /\ Raised(c)

(* stdin.drain() raised: the process is gone and EOF not read yet.  It is  *)
(* outside the try, so the session stays busy and the waiter set.          *)
DrainRaises(c) ==
    /\ phase[c] = "broken"
    /\ Raised(c)
    /\ UNCHANGED <<state, activity, waiter>>

(* wait_for's timer fires, and cancels what the call waits on; the call is *)
(* resumed later in the same turn of the loop, and answers already there   *)
(* are lost to it.  A log drain (50 ms) ends before any ceiling that was   *)
(* set while it ran.                                                       *)
NoDrain == reader # "draining" /\ \A c \in Calls : phase[c] # "draining"

TimerFires(c) ==
    /\ phase[c] = "waiting"
    /\ c \notin timed
    /\ NoDrain
    /\ timed' = timed \cup {c}
    /\ fut' = IF fut[c] = "pending" THEN [fut EXCEPT ![c] = "cancelled"] ELSE fut
    /\ UNCHANGED <<modeVars, op, phase, wasDead, sender, waitVars, runVars,
                   bookVars, pipes, policyVars>>

TimesOut(c) ==
    /\ phase[c] = "waiting"
    /\ c \in timed
    /\ abandoned' = c
    /\ phase' = [phase EXCEPT ![c] = "signalling"]
    /\ UNCHANGED <<modeVars, op, fut, timed, wasDead, sender, waiter, reader,
                   runVars, bookVars, pipes, policyVars>>

-----------------------------------------------------------------------------
(* send_signal INT: a second docker exec, or ssh, that takes its time.     *)

SignalLands(c) ==
    /\ phase[c] = "signalling"
    /\ proc # "exited"
    /\ phase' = [phase EXCEPT ![c] = "signalled"]
    /\ UNCHANGED <<modeVars, op, fut, timed, wasDead, sender, waitVars, runVars,
                   bookVars, pipes, policyVars>>

(* Back in _request: the ceiling is journalled and raised.  The session is *)
(* not freed here, and a command sent meanwhile may own the waiter.        *)
SignalReturns(c) ==
    /\ phase[c] \in {"signalling", "signalled"}
    /\ op[c] # "interrupt"
    /\ Write({Record("timeout", c, c, FALSE, FALSE)})
    /\ waiter' = IF waiter = c THEN NoCall ELSE waiter
    /\ phase' = [phase EXCEPT ![c] = AfterRequest(c)]
    /\ SpendIfBoundary(c)
    /\ UNCHANGED <<modeVars, op, fut, timed, wasDead, sender, abandoned, reader,
                   runVars, pending, inherited, pipes>>

(* Session.interrupt: anyone's, at any time once the pid is known.         *)
Interrupt(c) ==
    /\ Ask(c, "interrupt")
    /\ phase[Opener] # "starting" /\ fut[Opener] = "ok"
    /\ phase' = [phase EXCEPT ![c] = "signalling"]
    /\ UNCHANGED <<modeVars, fut, timed, wasDead, waitVars, runVars, bookVars,
                   pipes, policyVars>>

InterruptReturns(c) ==
    /\ op[c] = "interrupt"
    /\ \/ phase[c] = "signalled" /\ Write({Record("interrupt", c, c, FALSE, FALSE)})
       \/ phase[c] = "signalling" /\ UNCHANGED journal
    /\ phase' = [phase EXCEPT ![c] = "done"]
    /\ UNCHANGED <<modeVars, op, fut, timed, wasDead, sender, waitVars, runVars,
                   pending, inherited, pipes, policyVars>>

-----------------------------------------------------------------------------
(* The 50 ms after an answer, and the books at their end.                  *)

ExecDrained(c) ==
    /\ op[c] \in {"exec", "read"}
    /\ BookExec(c)
    /\ Write({Record("result", c, c, fut[c] = "error", FALSE)})
    /\ UNCHANGED <<inherited, runVars>>

(* _run_result reads self._run, whoever put it there; without one it       *)
(* raises, and nothing is journalled.                                      *)
RunDrained(c) ==
    /\ op[c] = "run_test"
    /\ run' = NoCall
    /\ IF run = NoCall
       THEN UNCHANGED <<journal, announced>>
       ELSE /\ Write({Record("result", c, run, fut[c] = "error", FALSE)})
            /\ announced' = (announced \/ MayAnnounce)
    /\ UNCHANGED <<ranTest, pending, inherited>>

Drained(c) ==
    /\ phase[c] = "draining"
    /\ phase' = [phase EXCEPT ![c] = "done"]
    /\ ExecDrained(c) \/ RunDrained(c)
    /\ UNCHANGED <<modeVars, op, fut, timed, wasDead, sender, waitVars, pipes,
                   policyVars>>

-----------------------------------------------------------------------------
(* _read_frames.                                                           *)

WaiterPending == waiter # NoCall /\ fut[waiter] = "pending"

(* Bug: a late answer frees the session and is not journalled.             *)
LateRecordsNone(c, err) == {}

(* Bug: a late boundary is recorded as done, whatever its answer says.     *)
LateRecordsDone(c, err) ==
    {Record("abandoned_result", c, c, err, FALSE)}
    \cup IF op[c] \in Boundaries THEN {Record(op[c], c, c, FALSE, TRUE)} ELSE {}

LateRecords(c, err) ==
    {Record("abandoned_result", c, IF op[c] = "run_test" THEN run ELSE c, err, FALSE)}
    \cup IF op[c] \in Boundaries THEN {Record(op[c], c, c, err, TRUE)} ELSE {}

(* _settle_abandoned: booked as an answer in time would have been.         *)
SettleAbandoned(err) ==
    /\ abandoned' = NoCall
    /\ run' = IF op[abandoned] = "run_test" THEN NoCall ELSE run
    /\ Write(LateRecords(abandoned, err))
    /\ IF op[abandoned] \in Boundaries /\ ~err
       THEN ForgetPending
       ELSE BookExec(abandoned) /\ UNCHANGED inherited
    /\ IF FreesSession
       THEN state' = "ready" /\ activity' = "none"
       ELSE UNCHANGED <<state, activity>>
    /\ announced' = (announced \/ MayAnnounce)
    /\ UNCHANGED fut

Deliver(c, err) ==
    /\ fut' = [fut EXCEPT ![c] = IF err THEN "error" ELSE "ok"]
    /\ UNCHANGED <<state, activity, abandoned, run, announced, bookVars>>

DropFrame ==
    UNCHANGED <<state, activity, fut, abandoned, run, announced, bookVars>>

(* A line past the limit is lost with the id in it (_overrun_frame): it is *)
(* taken for the answer to whoever waits, or to the abandoned command.     *)
Overrun ==
    IF WaiterPending THEN Deliver(waiter, TRUE)
    ELSE IF abandoned # NoCall THEN SettleAbandoned(TRUE)
    ELSE DropFrame

IsHello(f) == f.id = Opener
IsBye(f) == ~IsHello(f) /\ op[f.id] = "close"
IsLate(f) == ~IsHello(f) /\ ~IsBye(f) /\ f.id = abandoned

(* A late run's frame waits 50 ms at the head of the pipe, for its log.    *)
HeldForLog(f) == ~f.big /\ IsLate(f) /\ run # NoCall

FrameArrives(f) ==
    IF f.big THEN Overrun
    ELSE IF IsLate(f) THEN SettleAbandoned(f.err)
    ELSE IF IsHello(f) THEN IF fut[Opener] = "pending"
                            THEN Deliver(Opener, FALSE) ELSE DropFrame
    ELSE IF WaiterPending /\ f.id = waiter THEN Deliver(waiter, f.err)
    ELSE DropFrame

ReaderElsewhere ==
    UNCHANGED <<closing, op, phase, timed, wasDead, sender, waiter, ranTest,
                proc, pipe, current, tx, db, policyVars>>

ReadFrame ==
    /\ reader = "reading"
    /\ outbox # <<>>
    /\ ~HeldForLog(Head(outbox))
    /\ FrameArrives(Head(outbox))
    /\ outbox' = Tail(outbox)
    /\ UNCHANGED reader
    /\ ReaderElsewhere

HoldLateRun ==
    /\ reader = "reading"
    /\ outbox # <<>>
    /\ HeldForLog(Head(outbox))
    /\ reader' = "draining"
    /\ DropFrame
    /\ UNCHANGED outbox
    /\ ReaderElsewhere

SettleLateRun ==
    /\ reader = "draining"
    /\ reader' = "reading"
    /\ IF IsLate(Head(outbox)) THEN SettleAbandoned(Head(outbox).err) ELSE DropFrame
    /\ outbox' = Tail(outbox)
    /\ ReaderElsewhere

(* Bug: an end of the frames that no call was waiting through goes unseen. *)
DiesWhenAwaited == ~closing /\ Live /\ WaiterPending

(* Bug: the death of a closing session goes over its close.                *)
DiesAnyway == Live

Dies == ~closing /\ Live

(* _die.  A closing session is not dying: its close has the last word.     *)
Die ==
    IF ~Dies
    THEN UNCHANGED <<state, activity, abandoned, run, announced, journal, fut>>
    ELSE /\ state' = "dead"
         /\ activity' = "none"
         /\ abandoned' = NoCall
         /\ run' = NoCall
         /\ Write({Record("session_died", NoCall, NoCall, FALSE, FALSE)})
         /\ announced' = (announced \/ MayAnnounce)
         /\ FailWaiters

EndOfFrames ==
    /\ reader = "reading"
    /\ outbox = <<>>
    /\ proc = "exited"
    /\ reader' = "stopped"
    /\ Die
    /\ UNCHANGED <<pending, inherited, outbox>>
    /\ ReaderElsewhere

-----------------------------------------------------------------------------
(* Session.close: says it is closing, gives a failed call one turn of the  *)
(* loop to leave, asks the shell to end, waits, and kills what remains.    *)
Close(c) ==
    /\ Ask(c, "close")
    /\ Live
    /\ closing' = TRUE
    /\ FailWaiters
    /\ phase' = [phase EXCEPT ![c] = "closing"]
    /\ UNCHANGED <<state, activity, timed, wasDead, waitVars, runVars, bookVars,
                   pipes, policyVars>>

(* The request of a close; one the session cannot take is suppressed.      *)
CloseSends(c) ==
    /\ phase[c] = "closing"
    /\ \/ Send(c, "close")
       \/ /\ ~Acceptable("close")
          /\ phase' = [phase EXCEPT ![c] = "reaping"]
          /\ UNCHANGED <<modeVars, fut, timed, wasDead, waitVars, pipes>>
    /\ UNCHANGED <<op, sender, runVars, bookVars, policyVars>>

StateWas(c) == IF state = "dead" THEN wasDead \cup {c} ELSE wasDead

StartsKill(c) ==
    /\ closing' = TRUE
    /\ wasDead' = StateWas(c)
    /\ FailWaiters
    /\ phase' = [phase EXCEPT ![c] = "killing"]

(* _set_state(CLOSED), and what it clears.                                 *)
Closes(killed) ==
    /\ state' = "closed"
    /\ activity' = "none"
    /\ IF state = "closed" THEN UNCHANGED <<abandoned, run>>
                           ELSE abandoned' = NoCall /\ run' = NoCall
    /\ Write({Record("session_close", NoCall, NoCall, killed, FALSE)})

(* Bug: a close only waits for a process that does not end.                *)
ReapedByWaiting(c) ==
    /\ phase[c] = "reaping"
    /\ proc = "exited"
    /\ Closes(FALSE)
    /\ reader' = "stopped"
    /\ phase' = [phase EXCEPT ![c] = "done"]
    /\ UNCHANGED <<closing, fut, wasDead, op, timed, sender, waiter, ranTest,
                   announced, pending, inherited, pipes, policyVars>>

(* The process has ended, or it has not by the ceiling of the wait.        *)
Reaped(c) ==
    /\ phase[c] = "reaping"
    /\ \/ /\ proc = "exited"
          /\ Closes(FALSE)
          /\ reader' = "stopped"
          /\ phase' = [phase EXCEPT ![c] = "done"]
          /\ UNCHANGED <<closing, fut, wasDead>>
       \/ /\ proc # "exited"
          /\ StartsKill(c)
          /\ UNCHANGED <<state, activity, abandoned, run, journal, reader>>
    /\ UNCHANGED <<op, timed, sender, waiter, ranTest, announced, pending,
                   inherited, pipes, policyVars>>

Kill(c) ==
    /\ Ask(c, "kill")
    /\ StartsKill(c)
    /\ UNCHANGED <<state, activity, timed, waitVars, runVars, bookVars, pipes,
                   policyVars>>

(* SIGKILL in the container, or Process.kill on the launcher: either ends  *)
(* it as far as the daemon can tell.                                       *)
KillStrikes(c) ==
    /\ phase[c] \in {"killing", "stopping"}
    /\ ProcessEnds
    /\ UNCHANGED <<modeVars, phase, fut, timed, wasDead, sender, waitVars,
                   runVars, bookVars, policyVars>>

Killed(c) ==
    /\ phase[c] = "killing"
    /\ proc = "exited"
    /\ phase' = [phase EXCEPT ![c] = "done"]
    /\ reader' = "stopped"
    /\ IF c \in wasDead
       THEN UNCHANGED <<state, activity, abandoned, run, journal>>
       ELSE Closes(TRUE)
    /\ UNCHANGED <<closing, op, fut, timed, wasDead, sender, waiter, ranTest,
                   announced, pending, inherited, pipes, policyVars>>

-----------------------------------------------------------------------------
(* Session.start inside Registry.open, which kills the session on any      *)
(* failure: no hello, a close meanwhile, a version refused after hello.    *)

HelloTimesOut ==
    /\ phase[Opener] = "starting"
    /\ fut[Opener] = "pending"
    /\ phase' = [phase EXCEPT ![Opener] = "stopping"]
    /\ Die
    /\ UNCHANGED <<closing, op, timed, wasDead, sender, waiter, reader, ranTest,
                   pending, inherited, pipes, policyVars>>

Stopped ==
    /\ phase[Opener] = "stopping"
    /\ proc = "exited"
    /\ StartsKill(Opener)
    /\ reader' = "stopped"
    /\ UNCHANGED <<state, activity, op, timed, sender, waiter, abandoned, runVars,
                   bookVars, pipes, policyVars>>

Opened ==
    /\ phase[Opener] = "starting"
    /\ fut[Opener] = "ok"
    /\ ~closing /\ Live
    /\ state' = "ready"
    /\ activity' = "none"
    /\ Write({Record("session_open", NoCall, NoCall, FALSE, FALSE)})
    /\ \/ /\ phase' = [phase EXCEPT ![Opener] = "done"]
          /\ UNCHANGED <<closing, wasDead, fut>>
       \/ Remote /\ StartsKill(Opener)
    /\ UNCHANGED <<op, timed, sender, waitVars, runVars, pending, inherited,
                   pipes, policyVars>>

OpenFails ==
    /\ phase[Opener] = "starting"
    /\ fut[Opener] \in {"ok", "failed"}
    /\ fut[Opener] = "ok" => closing \/ ~Live
    /\ StartsKill(Opener)
    /\ UNCHANGED <<state, activity, op, timed, sender, waitVars, runVars,
                   bookVars, pipes, policyVars>>

-----------------------------------------------------------------------------
(* What people do meanwhile.                                               *)

TransferOwner(kind) ==
    /\ Registered
    /\ TransferRights(kind)
    /\ inherited' = pending
    /\ UNCHANGED <<modeVars, callVars, waitVars, runVars, pending, journal, pipes>>

PolicyChanges ==
    /\ \/ /\ Registered
          /\ \E allowed, confirmed \in BOOLEAN : SetAllowCommit(allowed, confirmed)
       \/ ~Remote /\ (TurnOn(Live) \/ \E stored \in BOOLEAN : TurnOff(Live, stored))
    /\ UNCHANGED <<modeVars, callVars, waitVars, runVars, bookVars, pipes>>

ShellStep ==
    /\ ShellNext
    /\ UNCHANGED <<modeVars, phase, fut, timed, wasDead, sender, waitVars, runVars,
                   bookVars, policyVars>>

-----------------------------------------------------------------------------
Init ==
    /\ ShellInit
    /\ PolicyInit
    /\ state = "starting" /\ closing = FALSE /\ activity = "none"
    /\ phase = [c \in Callers |-> IF c = Opener THEN "starting" ELSE "new"]
    /\ fut = [c \in Callers |-> IF c = Opener THEN "pending" ELSE "none"]
    /\ timed = {} /\ wasDead = {}
    /\ sender = [c \in Calls |-> 0]
    /\ waiter = NoCall /\ abandoned = NoCall /\ reader = "reading"
    /\ run = NoCall /\ ranTest = FALSE /\ announced = FALSE
    /\ pending = 0 /\ inherited = 0 /\ journal = {}

Asks(c) ==
    \/ \E kind \in {"exec", "read"} : Execute(c, kind)
    \/ RunTest(c)
    \/ \E kind \in Boundaries : EndTransaction(c, kind)
    \/ Interrupt(c)
    \/ Close(c)
    \/ Kill(c)

(* What the loop does for a call by itself.                                *)
Proceeds(c) ==
    \/ Answered(c) \/ Failed(c) \/ DrainRaises(c) \/ TimesOut(c)
    \/ SignalReturns(c) \/ InterruptReturns(c) \/ Drained(c)
    \/ CloseSends(c) \/ Reaped(c)

Ends(c) == KillStrikes(c) \/ Killed(c)

Reads == ReadFrame \/ HoldLateRun \/ SettleLateRun \/ EndOfFrames

Opening == HelloTimesOut \/ Stopped \/ Opened \/ OpenFails

Next ==
    \/ ShellStep
    \/ \E c \in Calls : Asks(c) \/ Proceeds(c) \/ TimerFires(c) \/ SignalLands(c)
    \/ \E c \in Callers : Ends(c)
    \/ Reads
    \/ Opening
    \/ \E kind \in OwnerKinds : TransferOwner(kind)
    \/ PolicyMoves /\ PolicyChanges

Spec == Init /\ [][Next]_vars

(* The loop runs what is ready, every wait has a ceiling, and a SIGKILL    *)
(* ends a process.  Nothing is asked of the shell, of clients or of a      *)
(* SIGINT.                                                                 *)
Fairness ==
    /\ \A c \in Calls : WF_vars(Proceeds(c)) /\ WF_vars(TimerFires(c))
    /\ \A c \in Callers : WF_vars(Ends(c))
    /\ WF_vars(Reads)
    /\ WF_vars(Opening)

FairSpec == Spec /\ Fairness

-----------------------------------------------------------------------------
RecordKinds == {"session_open", "exec", "run_test", "result", "abandoned_result",
                "commit", "rollback", "timeout", "interrupt", "session_close",
                "session_died"}

Records == [kind : RecordKinds, call : Calls \cup {NoCall},
            of : Calls \cup {NoCall}, err : BOOLEAN, late : BOOLEAN,
            by : 1..MaxOwners]

(* The types of the session's own state.                                   *)
SessionTypeOK ==
    /\ state \in States
    /\ closing \in BOOLEAN
    /\ activity \in {"none", "exec", "run_test", "commit", "rollback", "close"}
    /\ phase \in [Callers -> Phases]
    /\ fut \in [Callers -> Futures]
    /\ timed \subseteq Calls
    /\ wasDead \subseteq Callers
    /\ sender \in [Calls -> 0..MaxOwners]
    /\ waiter \in Calls \cup {NoCall}
    /\ abandoned \in Calls \cup {NoCall}
    /\ reader \in {"reading", "draining", "stopped"}
    /\ run \in Calls \cup {NoCall}
    /\ ranTest \in BOOLEAN
    /\ announced \in BOOLEAN
    /\ pending \in Nat
    /\ inherited \in Nat
    /\ journal \subseteq Records

(* Every variable, this module's and the two it extends, has its type.     *)
TypeOK == ShellTypeOK /\ PolicyTypeOK /\ SessionTypeOK

-----------------------------------------------------------------------------
(* Safety.                                                                 *)

Quiet == pipe = <<>> /\ current = NoCall /\ outbox = <<>>

(* A session that says it is ready has nothing of its own in the container *)
(* or on the way: no command can queue behind another, whatever timed out, *)
(* was answered late, overran the line limit or was interrupted.           *)
ReadyMeansQuiet == state = "ready" => Quiet

(* While it is busy, the activity it shows is the command the container is *)
(* running: a close accepted meanwhile does not take its place.            *)
BusyNamesTheWork ==
    state = "busy" /\ current # NoCall => activity = FrameType(op[current])

(* A session that has ended stays ended the way it did: a dead session that*)
(* is closed or killed afterwards keeps its cause of death.                *)
EndIsFinal == [][~Live => UNCHANGED state]_vars

(* Once it is closing, a session never reports ready on the way.           *)
ClosingNeverReady == [][closing /\ state # "ready" => state' # "ready"]_vars

Life == INSTANCE Lifecycle

(* The registry may rely on the lifecycle: a session opens once, ends once,*)
(* dies only when nobody asked it to end, and is closed only when somebody *)
(* did, whatever its calls, timers and frames do in between.               *)
ImplementsLifecycle == Life!Spec

Concluded(c) ==
    \E r \in journal : r.call = c /\ r.kind \in {"result", "abandoned_result"} \cup Boundaries

(* When the session is ready again the journal says how every command sent *)
(* to it ended, the ones their callers gave up on included.                *)
ReadyIsRecorded ==
    state = "ready" =>
        \A c \in Calls : op[c] \in Commands /\ phase[c] = "done" => Concluded(c)

Draining == \E c \in Calls : phase[c] = "draining"

(* What a handover and a discard are warned by: a ready session with open  *)
(* writes in its transaction counts at least one pending command for each. *)
PendingCoversTx == state = "ready" /\ ~Draining => Cardinality(tx) <= pending

(* A handover never carries more than there is: whatever commits, rolls    *)
(* back or restarts the transaction forgets what was inherited too.        *)
InheritedWithinPending == inherited <= pending

(* A commit or rollback the journal reports without an error happened.     *)
CommitRecordIsTrue ==
    \A r \in journal : r.kind = "commit" /\ ~r.err => r.call \in db

(* An autoclose session announces itself only once its run is on the       *)
(* journal, or nothing more can be: the registry closes it on that, and a  *)
(* session already closing is past caring.                                 *)
AnnouncedAfterVerdict ==
    announced /\ Live /\ ~closing =>
        \E r \in journal : /\ r.kind \in {"result", "abandoned_result"}
                           /\ op[r.call] = "run_test"

(* However a commit or rollback request ends (answered, failed, timed out, *)
(* never written), a production grant does not outlive it.                 *)
GrantDiesWithItsCommit ==
    [][Production => \A c \in Calls :
          op[c] \in Boundaries /\ phase[c] # "done" /\ phase'[c] = "done"
              => ~allow']_vars

-----------------------------------------------------------------------------
(* Liveness, under FairSpec.                                               *)

(* A close or a kill always ends the session, a shell that ignores both    *)
(* the close and the interrupt included.                                   *)
ClosingEnds == closing ~> ~Live

(* Every call made returns to its caller.                                  *)
CallsReturn == \A c \in Calls : op[c] # "none" ~> phase[c] = "done"

(* A process that ended leaves no session that looks alive.                *)
DeathIsSeen == proc = "exited" ~> ~Live

-----------------------------------------------------------------------------
(* What the documents and comments say and the code does not do.           *)

Owed(c) ==
    \/ proc = "exited" \/ current = c
    \/ \E i \in DOMAIN pipe : pipe[i] = c
    \/ \E i \in DOMAIN outbox : outbox[i].id = c

(* A command that timed out keeps the session busy until its result frame  *)
(* arrives (docs/architecture.md): so that frame is still to come.         *)
LateResultIsOwed == abandoned # NoCall /\ ~closing /\ Live => Owed(abandoned)

(* A production grant is for one commit (_spend_production_grant): no      *)
(* second one is sent while the first has still to spend it.               *)
GrantIsForOneCommit ==
    [][Production => \A c, d \in Calls :
          op[c] = "commit" /\ op[d] = "none" /\ op'[d] = "commit"
              => phase[c] = "done"]_vars

(* inherited_pending is how many of the pending commands were run by a     *)
(* previous owner (Session.describe).                                      *)
InheritedCountsOthers ==
    state = "ready" /\ ~Draining =>
        Cardinality({c \in tx : sender[c] < Len(owners)}) <= inherited

(* The journal records who ran every command (docs/architecture.md).       *)
BoundaryNamesItsSender ==
    \A r \in journal : r.kind \in Boundaries => r.by = sender[r.call]

(* The interrupt a ceiling sends is for the command that exceeded it.      *)
InterruptHitsItsCommand ==
    [][\A c \in Calls :
          op[c] \in Commands /\ phase[c] = "signalling" /\ phase'[c] = "signalled"
              => current \in {c, NoCall}]_vars

(* A run's result carries what that run's own window and parsers read.     *)
RunReportsItsOwn ==
    \A r \in journal : r.kind = "result" => r.of = r.call
=============================================================================
