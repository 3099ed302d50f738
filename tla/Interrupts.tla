----------------------------- MODULE Interrupts -----------------------------
(***************************************************************************)
(* The command loop of bootstrap.py under SIGINT.                          *)
(*                                                                         *)
(* Shell takes a command's run as one step.  Here it is cut where a signal *)
(* can make a difference: before and after each assignment of _OS_LIVE,    *)
(* sys.stdout and Odoo's test configuration, inside each try, except and   *)
(* finally, and between the two halves of a commit.  pc names the          *)
(* statement about to run:                                                 *)
(*                                                                         *)
(*   _os_main           read, outer (its except), send, gone               *)
(*   _os_run            try, code, render, close, caught, described, unwind *)
(*   _os_run_test       the same with prepare, tagged, suite, untag for    *)
(*                      code; the last three are the fallback runner's     *)
(*   _os_boundary       try, flush, cr, invalidate, close, caught,         *)
(*                      described                                          *)
(*                                                                         *)
(* The loop runs in the main thread, where its handler is installed.       *)
(***************************************************************************)
EXTENDS Naturals

CONSTANT MaxSignals  \* bound: SIGINTs while one command is answered

ASSUME InterruptsAssumption == MaxSignals \in Nat

VARIABLES
    pc,
    kind,     \* the command read last
    live,     \* _OS_LIVE[0]
    stdout,   \* sys.stdout: the process's own, or a command's capture
    saved,    \* saved_stdout
    config,   \* config["test_tags"] and config["test_enable"]
    work,     \* uncommitted: in Odoo's cache, or written in the transaction
    raised,   \* the exception under way
    answer,   \* the frame made for the command
    owes,     \* a command was read and has no frame yet
    signals,  \* SIGINTs since it was read
    most,     \* history: the most of them in one command
    struck,   \* history: one raised in a test run
    why       \* how the process ended

loopVars == <<pc, kind, answer, owes, why>>
signalVars == <<signals, most, struck>>
vars == <<loopVars, live, stdout, saved, config, work, raised, signalVars>>

Boundaries == {"commit", "rollback"}
Kinds == Boundaries \cup {"exec", "run_test", "close", "unknown"}
UserCode == {"code", "suite", "flush", "cr"}
Points == UserCode \cup {"read", "try", "render", "prepare", "tagged", "untag",
                         "invalidate", "close", "caught", "described", "unwind",
                         "outer", "send", "gone"}
Streams == {"own", "captured"}

TypeOK ==
    /\ pc \in Points
    /\ kind \in Kinds
    /\ live \in BOOLEAN
    /\ stdout \in Streams /\ saved \in Streams
    /\ config \in {"clean", "test"}
    /\ work \subseteq {"cached", "written"}
    /\ raised \in {"none", "interrupt", "error"}
    /\ answer \in {"none", "done", "error", "plain"}
    /\ owes \in BOOLEAN
    /\ signals \in 0..MaxSignals /\ most \in 0..MaxSignals
    /\ struck \in BOOLEAN
    /\ why \in {"none", "closed", "interrupt", "error"}

Init ==
    /\ pc = "read"
    /\ kind = "unknown"
    /\ live = FALSE
    /\ stdout = "own" /\ saved = "own"
    /\ config = "clean"
    /\ work = {}
    /\ raised = "none"
    /\ answer = "none"
    /\ owes = FALSE
    /\ signals = 0 /\ most = 0
    /\ struck = FALSE
    /\ why = "none"

At(p) == pc = p

Goes(p) == pc' = p /\ UNCHANGED <<kind, answer, owes, why>>

Ends(reason) ==
    /\ pc' = "gone"
    /\ why' = reason
    /\ UNCHANGED <<kind, answer, owes>>

(* An answer is made: the loop is about to send it.                        *)
Answers(a, p) ==
    /\ answer' = a
    /\ pc' = p
    /\ UNCHANGED <<kind, owes, why>>

-----------------------------------------------------------------------------
(* _os_main: readline, and _os_answer's choice.  A close is answered bye,  *)
(* an unknown type by an error.                                            *)
Read ==
    /\ At("read")
    /\ \E k \in Kinds :
        /\ kind' = k
        /\ pc' = IF k \in {"close", "unknown"} THEN "send" ELSE "try"
        /\ answer' = CASE k = "close" -> "plain" [] k = "unknown" -> "error"
                       [] OTHER -> "none"
        /\ stdout' = IF k \in {"exec", "run_test"} THEN "captured" ELSE stdout
        /\ saved' = IF k \in {"exec", "run_test"} THEN stdout ELSE saved
    /\ owes' = TRUE
    /\ signals' = 0
    /\ UNCHANGED <<live, config, work, raised, most, struck, why>>

(* The command pipe is closed: the loop breaks.                            *)
EndOfFile ==
    /\ At("read")
    /\ Ends("closed")
    /\ UNCHANGED <<live, stdout, saved, config, work, raised, signalVars>>

(* The first statement of every command's try.                             *)
OpenSpan ==
    /\ At("try")
    /\ live' = TRUE
    /\ Goes(CASE kind = "exec" -> "code" [] kind = "run_test" -> "prepare"
              [] kind = "commit" -> "flush" [] kind = "rollback" -> "invalidate")
    /\ UNCHANGED <<stdout, saved, config, work, raised, signalVars>>

-----------------------------------------------------------------------------
(* Where an exception raised at the statement about to run goes.           *)
Handler(p) ==
    CASE p = "suite" -> "untag"
      [] p = "caught" -> IF kind \in Boundaries THEN "outer" ELSE "unwind"
      [] p \in {"try", "unwind"} -> "outer"
      [] OTHER -> "caught"

Raises(e) == raised' = e /\ Goes(Handler(pc))

(* exec(compile(...)): the caller's code, which may write, flush what it   *)
(* wrote, and end the transaction itself; its last expression is rendered. *)
RunCode ==
    /\ At("code")
    /\ work' \in SUBSET {"cached", "written"}
    /\ \/ raised' = raised /\ \E p \in {"render", "close"} : Goes(p)
       \/ Raises("error")
    /\ UNCHANGED <<live, stdout, saved, config, signalVars>>

(* _os_safe_repr: the value's own code; an error that cannot be put into   *)
(* words leaves by its except clause.                                      *)
Render ==
    /\ At("render")
    /\ (raised' = raised /\ Goes("close")) \/ Raises("error")
    /\ UNCHANGED <<live, stdout, saved, config, work, signalVars>>

(* _os_run_test up to the runner: refused where the container has workers, *)
(* unsupported on Odoo 13, Odoo's own from 17, else the fallback, which    *)
(* rolls back and sets the configuration just before its try.              *)
Prepare ==
    /\ At("prepare")
    /\ \/ /\ raised' = raised /\ Goes("close")
          /\ work' \in SUBSET {"cached", "written"} /\ config' = config
       \/ Raises("error") /\ UNCHANGED <<work, config>>
       \/ /\ raised' = raised /\ Goes("tagged")
          /\ work' \in SUBSET work /\ config' = "test"
    /\ UNCHANGED <<live, stdout, saved, signalVars>>

EnterSuite ==
    /\ At("tagged")
    /\ Goes("suite")
    /\ UNCHANGED <<live, stdout, saved, config, work, raised, signalVars>>

RunSuite ==
    /\ At("suite")
    /\ work' \in SUBSET {"cached", "written"}
    /\ (raised' = raised /\ Goes("untag")) \/ Raises("error")
    /\ UNCHANGED <<live, stdout, saved, config, signalVars>>

(* Bug: the configuration is reset after the try, not in a finally.      *)
UntagWhenDone ==
    /\ At("untag")
    /\ config' = IF raised = "none" THEN "clean" ELSE config
    /\ Goes(IF raised = "none" THEN "close" ELSE "caught")
    /\ UNCHANGED <<live, stdout, saved, work, raised, signalVars>>

(* The fallback's finally.                                                 *)
Untag ==
    /\ At("untag")
    /\ config' = "clean"
    /\ Goes(IF raised = "none" THEN "close" ELSE "caught")
    /\ UNCHANGED <<live, stdout, saved, work, raised, signalVars>>

-----------------------------------------------------------------------------
(* What runs after a statement of _os_commit, or of _os_rollback.          *)
NextInBoundary ==
    CASE pc = "flush" -> "cr"
      [] pc = "cr" -> IF kind = "commit" THEN "invalidate" ELSE "close"
      [] pc = "invalidate" -> IF kind = "commit" THEN "close" ELSE "cr"

(* _os_flush: the pending computations of the models, which are user code. *)
Flush ==
    /\ At("flush")
    /\ \/ /\ raised' = raised /\ Goes(NextInBoundary)
          /\ work' = IF work = {} THEN {} ELSE {"written"}
       \/ Raises("error") /\ work' \in SUBSET {"cached", "written"}
    /\ UNCHANGED <<live, stdout, saved, config, signalVars>>

(* env.cr.commit or env.cr.rollback: what was written is settled.  It may  *)
(* fail with the transaction open, ended, or, in its postcommit hooks,     *)
(* after it did what it was asked.                                         *)
EndTransaction ==
    /\ At("cr")
    /\ \/ raised' = raised /\ Goes(NextInBoundary) /\ work' = work \ {"written"}
       \/ Raises("error") /\ work' \in {work, work \ {"written"}}
    /\ UNCHANGED <<live, stdout, saved, config, signalVars>>

(* Bug: the caches are left as they are.                                 *)
InvalidateNothing ==
    /\ At("invalidate")
    /\ (raised' = raised /\ Goes(NextInBoundary)) \/ Raises("error")
    /\ UNCHANGED <<live, stdout, saved, config, work, signalVars>>

(* _os_invalidate: the caches go with what was pending in them.            *)
Invalidate ==
    /\ At("invalidate")
    /\ \/ raised' = raised /\ Goes(NextInBoundary) /\ work' = work \ {"cached"}
       \/ Raises("error") /\ work' = work
    /\ UNCHANGED <<live, stdout, saved, config, signalVars>>

-----------------------------------------------------------------------------
(* The last statement of every command's try.                              *)
CloseSpan ==
    /\ At("close")
    /\ live' = FALSE
    /\ Answers("done", IF kind \in Boundaries THEN "send" ELSE "unwind")
    /\ UNCHANGED <<stdout, saved, config, work, raised, signalVars>>

(* except BaseException: the flag first.                                   *)
Catch ==
    /\ At("caught")
    /\ live' = FALSE
    /\ Goes("described")
    /\ UNCHANGED <<stdout, saved, config, work, raised, signalVars>>

(* Then the error in words, which asks the exception itself: a __str__     *)
(* that raises leaves through main, which catches interrupts only.         *)
Describe ==
    /\ At("described")
    /\ \/ /\ Answers("error", IF kind \in Boundaries THEN "send" ELSE "unwind")
          /\ raised' = "none"
       \/ raised = "error" /\ Ends("error") /\ UNCHANGED raised
    /\ UNCHANGED <<live, stdout, saved, config, work, signalVars>>

(* Bugs: restored after the try, not in a finally; and set to None.      *)
UnwindWhenDone ==
    /\ At("unwind")
    /\ stdout' = IF answer = "done" THEN saved ELSE stdout
    /\ Goes(IF raised = "none" THEN "send" ELSE "outer")
    /\ UNCHANGED <<live, saved, config, work, raised, signalVars>>

(* finally: sys.stdout = saved_stdout.                                     *)
Unwind ==
    /\ At("unwind")
    /\ stdout' = saved
    /\ Goes(IF raised = "none" THEN "send" ELSE "outer")
    /\ UNCHANGED <<live, saved, config, work, raised, signalVars>>

(* Bugs: main continues, as it does after an interrupted readline; and   *)
(* main catches nothing.                                                   *)
CatchOuterContinues ==
    /\ At("outer")
    /\ live' = FALSE
    /\ raised' = "none"
    /\ Goes("read")
    /\ UNCHANGED <<stdout, saved, config, work, signalVars>>

CatchOuterMissing ==
    /\ At("outer")
    /\ Ends("interrupt")
    /\ UNCHANGED <<live, stdout, saved, config, work, raised, signalVars>>

(* main's except KeyboardInterrupt.                                        *)
CatchOuter ==
    /\ At("outer")
    /\ live' = FALSE
    /\ raised' = "none"
    /\ Answers("plain", "send")
    /\ UNCHANGED <<stdout, saved, config, work, signalVars>>

(* _os_send.  What code wrote may be text UTF-8 cannot hold.               *)
Send ==
    /\ At("send")
    /\ \/ /\ owes' = FALSE
          /\ pc' = IF kind = "close" THEN "gone" ELSE "read"
          /\ why' = IF kind = "close" THEN "closed" ELSE why
          /\ UNCHANGED <<kind, answer>>
       \/ kind \in {"exec", "run_test"} /\ answer # "plain" /\ Ends("error")
    /\ UNCHANGED <<live, stdout, saved, config, work, raised, signalVars>>

-----------------------------------------------------------------------------
(* The interrupt is raised at the statement about to run.  Code may catch  *)
(* it for itself, and _os_safe_repr does.                                  *)
Strikes ==
    /\ UNCHANGED <<live, stdout, saved, config, work>>
    /\ struck' = (struck \/ kind = "run_test")
    /\ \/ pc \in UserCode /\ raised' = raised /\ Goes(pc)
       \/ pc = "render" /\ raised' = raised /\ Goes("close")
       \/ pc \notin {"render", "outer"} /\ Raises("interrupt")
       \/ pc = "outer" /\ raised' = "interrupt" /\ Ends("interrupt")

(* SIGINT, at any time: _os_on_sigint raises only while live.              *)
Sigint ==
    /\ pc # "gone"
    /\ signals < MaxSignals
    /\ signals' = signals + 1
    /\ most' = IF signals' > most THEN signals' ELSE most
    /\ \/ live /\ Strikes
       \/ ~live /\ UNCHANGED <<loopVars, live, stdout, saved, config, work, raised, struck>>

Step == OpenSpan \/ Prepare \/ EnterSuite \/ Untag \/ Invalidate \/ CloseSpan
          \/ Catch \/ Describe \/ Unwind \/ CatchOuter \/ Send

Next == Read \/ EndOfFile \/ Step \/ RunCode \/ Render \/ RunSuite \/ Flush
          \/ EndTransaction \/ Sigint

(* The loop's own statements run; the user's code may never return.        *)
Spec == Init /\ [][Next]_vars /\ WF_vars(Step)

-----------------------------------------------------------------------------
(* One signal never ends the process.  Each span catches its own; in the   *)
(* sliver before the flag is reset a signal that finds the command failing *)
(* gets out to main, and only another, in main's own sliver, gets past it  *)
(* (_OS_LIVE).                                                             *)
LoopSurvives == why = "interrupt" => signals >= 2

(* While the loop reads a command or writes a frame no interrupt raises,   *)
(* whatever way the command before ended (_os_main).                       *)
FramesAreWhole == pc \in {"read", "send"} => ~live

(* Between commands sys.stdout is the process's own, unless two signals    *)
(* met in one command: no error and no single signal gets past the finally *)
(* of _os_run, or comes before its try.                                    *)
StdoutIsOwn == pc = "read" /\ stdout # "own" => most >= 2

(* A run that failed, was refused or ended in an error leaves no test      *)
(* configuration behind for the commands after it; an interrupt in one of  *)
(* the two slivers around the fallback's try may.                          *)
OnlyAnInterruptLeavesTests == pc = "read" /\ config = "test" => struck

(* A commit or a rollback answered without an error left nothing pending,  *)
(* in the transaction or in the cache, for the next boundary to write.     *)
BoundaryEnds == pc = "send" /\ kind \in Boundaries /\ answer = "done" => work = {}

(* What a commit's invalidation drops from the cache had been written and  *)
(* committed by then: a commit never throws work away (_os_commit).        *)
CommitThrowsNothingAway == pc = "invalidate" /\ kind = "commit" => work = {}

(* Once the code a command asked for has returned or raised, the command   *)
(* is answered or the process is gone: no signal makes the loop swallow a  *)
(* command (the daemon would be busy with it forever).                     *)
EndedIsAnswered ==
    pc \in {"close", "caught", "described", "unwind", "outer", "send"}
        ~> (~owes \/ pc = "gone")

(* "an interrupted command is an ordinary result frame, not a reason to    *)
(* lose the session" (_os_run), "a broken __repr__ must not kill the       *)
(* session" (_os_safe_repr): no command but a close ends the process.      *)
CommandsNeverEndTheLoop == why # "error"
=============================================================================
