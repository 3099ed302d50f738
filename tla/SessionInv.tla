----------------------------- MODULE SessionInv -----------------------------
(***************************************************************************)
(* The inductive invariant behind ReadyMeansQuiet and EndIsFinal.          *)
(*                                                                         *)
(* Until a close or a kill begins there is at most one thing of the        *)
(* session's in the container or on the pipes: hello, or one command, or   *)
(* its answer.  So consuming any frame leaves both sides quiet, whichever  *)
(* command the frame is taken for, and that is when ready is reached.      *)
(***************************************************************************)
EXTENDS Session

Beginning == proc = "booting" => Quiet /\ fut[Opener] # "ok" /\ state \notin {"ready", "busy"}

AtMostOne ==
    \/ pipe = <<>> /\ current = NoCall /\ Len(outbox) <= 1
    \/ pipe = <<>> /\ outbox = <<>>
    \/ current = NoCall /\ outbox = <<>> /\ Len(pipe) = 1

OneInFlight == ~closing => AtMostOne

(* Whoever has an answer has the one thing there was.                      *)
AnsweredIsQuiet ==
    /\ ~closing /\ fut[Opener] = "ok" /\ state = "starting" => Quiet
    /\ ~closing /\ state = "busy" =>
          \A c \in Calls : phase[c] = "waiting" /\ fut[c] \in {"ok", "error"} => Quiet

(* One call waits, or one command is abandoned, or the session is free.    *)
OneWaits ==
    /\ ~closing /\ state \in {"starting", "ready"} =>
          abandoned = NoCall /\ \A c \in Calls : phase[c] # "waiting"
    /\ ~closing /\ state = "busy" =>
          \A c \in Calls : phase[c] = "waiting" =>
              abandoned = NoCall /\ \A d \in Calls : phase[d] = "waiting" => d = c

FailureIsFinal == \A c \in Callers : fut[c] = "failed" => closing \/ ~Live

HeldIsThere == reader = "draining" => outbox # <<>>

(* A close begins on a live session and from then on nothing calls it dead;*)
(* a kill remembers whether it found it dead.                              *)
EndingIsClosing ==
    /\ phase[Opener] \in {"starting", "stopping", "killing", "done"}
    /\ \A c \in Calls :
          /\ phase[c] \notin {"starting", "stopping"}
          /\ phase[c] \in {"closing", "reaping"} => op[c] = "close"
          /\ op[c] = "close" => phase[c] # "new"
          /\ op[c] = "close" /\ phase[c] # "done" => closing /\ state # "dead"
    /\ \A c \in Callers : phase[c] = "killing" => closing /\ (c \in wasDead \/ state # "dead")

OpenerFirst == phase[Opener] = "starting" /\ Live => state = "starting"

SafeInv ==
    /\ ReadyMeansQuiet
    /\ Beginning
    /\ OneInFlight
    /\ AnsweredIsQuiet
    /\ OneWaits
    /\ FailureIsFinal
    /\ EndingIsClosing
    /\ OpenerFirst

Inv == TypeOK /\ HeldIsThere /\ SafeInv

-----------------------------------------------------------------------------
(* The books: what the journal, the counts and the right to commit rest on,*)
(* over Inv.                                                               *)

(* What is in the container, or on its way there.                          *)
InContainer(c) == c = current \/ \E i \in DOMAIN pipe : pipe[i] = c

(* Only a call that was made has left a trace.                             *)
Asked ==
    /\ \A c \in Calls : phase[c] = "new" <=> op[c] = "none"
    /\ \A c \in Calls : op[c] = "none" => fut[c] = "none" /\ ~InContainer(c)
    /\ \A i \in DOMAIN outbox : outbox[i].id \in Calls => op[outbox[i].id] # "none"
    /\ \A r \in journal : r.call \in Calls => op[r.call] # "none"
    /\ abandoned \in Calls => op[abandoned] # "none"

(* Only a call that ends the session kills for it.                         *)
EndersKill == \A c \in Calls : phase[c] = "killing" => op[c] \in {"close", "kill"}

(* An answer without an error to a commit is about one that happened.      *)
CommitAnswersAreTrue ==
    /\ \A i \in DOMAIN outbox :
          /\ outbox[i].id \in Calls /\ op[outbox[i].id] = "commit"
          /\ ~outbox[i].err
          => outbox[i].id \in db
    /\ \A c \in Calls : op[c] = "commit" /\ fut[c] = "ok" => c \in db

(* The activity shown is the work there is, not only what already runs.    *)
ActivityIsTheWork ==
    state = "busy" =>
        \A c \in Calls : InContainer(c) /\ op[c] # "close" => activity = FrameType(op[c])

(* A close is answered as soon as it is read.                              *)
CloseDoesNotRun == current \in Calls => op[current] # "close"

TraceInv ==
    /\ Asked
    /\ CloseDoesNotRun
    /\ EndersKill
    /\ CommitAnswersAreTrue
    /\ CommitRecordIsTrue
    /\ ActivityIsTheWork

-----------------------------------------------------------------------------
(* Nothing frees the session any more: only its end is left.               *)
Stuck ==
    /\ state = "busy"
    /\ abandoned = NoCall
    /\ \A c \in Calls : phase[c] # "waiting"

(* A session that is ready, or not open yet, owes no answer: a closing one *)
(* included.                                                               *)
ReadyIsFree ==
    state \in {"starting", "ready"} =>
        abandoned = NoCall /\ \A c \in Calls : phase[c] \notin {"waiting", "broken"}

Left == {"signalling", "signalled", "done"}

(* A caller that gave up is past every wait of its own.                    *)
AbandonedHasLeft ==
    abandoned \in Calls => phase[abandoned] \in Left \cup {"reaping", "killing"}

(* A command that could not be written is the last of its session.         *)
BrokenIsStuck ==
    \A c \in Calls : phase[c] = "broken" => closing \/ ~Live \/ Stuck

(* Why the journal may still be silent about a command whose caller has    *)
(* gone: never while the session is ready.                                 *)
Excused(c) == state # "ready" /\ (closing \/ ~Live \/ abandoned = c \/ Stuck)

(* A run is left to RunsAreRecorded: its window may be another's.          *)
CallersAreRecorded ==
    \A c \in Calls :
        op[c] \in Commands \ {"run_test"} /\ phase[c] \in Left
            => Concluded(c) \/ Excused(c)

RecordInv == ReadyIsFree /\ AbandonedHasLeft /\ BrokenIsStuck /\ CallersAreRecorded

(* At most one of the calls may run tests.                                 *)
OneRuns ==
    \A c, d \in Calls : "run_test" \in Menu[c] /\ "run_test" \in Menu[d] => c = d

(* Then the window kept is that call's, until its result is recorded.      *)
RunsAreRecorded ==
    \A c \in Calls : op[c] = "run_test" =>
        /\ "run_test" \in Menu[c]
        /\ phase[c] \in {"waiting", "draining"} => run = c \/ ~Live
        /\ phase[c] \in Left => Concluded(c) \/ Excused(c)

-----------------------------------------------------------------------------
(* A run's verdict is on the journal.                                      *)
VerdictKnown ==
    \E r \in journal : /\ r.call \in Calls /\ op[r.call] = "run_test"
                       /\ r.kind \in {"result", "abandoned_result"}

(* A run that waits for its answer, or for its log while nobody's ceiling  *)
(* can have passed.                                                        *)
RunWaits ==
    run # NoCall /\ \E c \in Calls : op[c] = "run_test" /\ phase[c] = "waiting"

RunDrains ==
    /\ run # NoCall
    /\ abandoned = NoCall
    /\ \E c \in Calls : op[c] = "run_test" /\ phase[c] = "draining"
    /\ \A c \in Calls : phase[c] = "waiting" => c \notin timed

RunAbandoned == abandoned \in Calls /\ op[abandoned] = "run_test"

(* Until then the run is still under way somewhere, and nothing that ends  *)
(* before it can announce the session's end.                               *)
VerdictFirst ==
    /\ announced => ranTest
    /\ ranTest /\ Live /\ ~closing /\ ~VerdictKnown =>
          ~announced /\ (RunWaits \/ RunDrains \/ RunAbandoned \/ Stuck)

(* A ceiling is a waiting call's.                                          *)
TimedHaveAsked == \A c \in timed : phase[c] # "new"

VerdictInv == VerdictFirst /\ TimedHaveAsked

-----------------------------------------------------------------------------
(* While nobody runs tests: what is pending and what is open.              *)
NoRuns == \A c \in Calls : "run_test" \notin Menu[c]

NoRunIsAsked == \A c \in Calls : op[c] # "run_test"

(* What is written and recorded counts; what is written and not recorded   *)
(* yet is its own command's, and that one is still in the container, on the*)
(* way back or waiting for its log.                                        *)
Counted == {c \in tx : Concluded(c)}

StillCounts == Live /\ (closing => state = "ready")

WritesAreCounted == IsFiniteSet(tx) /\ (StillCounts => Cardinality(Counted) <= pending)

OnlyExecWrites == \A c \in tx : op[c] = "exec"

(* Nothing is recorded, nor waits for its log, before it has run.          *)
RecordedHasRun ==
    Live /\ ~closing => \A c \in Calls : InContainer(c) => ~Concluded(c) /\ phase[c] # "draining"

(* An answer that ends the transaction finds it ended.                     *)
EndedIsEmpty ==
    Live /\ ~closing =>
        /\ \A i \in DOMAIN outbox :
              /\ outbox[i].id \in Calls /\ op[outbox[i].id] \in Boundaries
              /\ ~outbox[i].err
              => tx = {}
        /\ \A c \in Calls :
              /\ op[c] \in Boundaries /\ phase[c] = "waiting"
              /\ fut[c] = "ok"
              => tx = {}

CountInv ==
    /\ NoRunIsAsked
    /\ WritesAreCounted
    /\ OnlyExecWrites
    /\ RecordedHasRun
    /\ EndedIsEmpty
=============================================================================
