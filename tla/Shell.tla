------------------------------- MODULE Shell --------------------------------
(***************************************************************************)
(* The container's side of a session: bootstrap.py running inside          *)
(* odoo-bin shell, its command pipe and its frame pipe, the SIGINTs that   *)
(* reach it, and the one transaction its commands share.                   *)
(*                                                                         *)
(* Code is abstracted to whether it wrote.  A command is known by the call *)
(* that sent it, and its frame by the same name: ids are never reused.     *)
(* A SIGINT is one reason more for a command to end early with an error,   *)
(* which every command here may do at any time; the LIVE flag and the      *)
(* slivers around it are smaller than this module's steps.                 *)
(***************************************************************************)
EXTENDS Naturals, Sequences, FiniteSets

CONSTANTS
    Calls,    \* the API calls clients make in one session
    Opener,   \* the call that opened it: hello answers it
    NoCall,   \* None
    Oversize  \* the kinds whose frame may exceed the daemon's line limit

CommandKinds == {"exec", "read", "run_test", "commit", "rollback", "close"}
CallKinds == CommandKinds \cup {"kill", "interrupt"}
Callers == Calls \cup {Opener}

ASSUME ShellAssumption ==
    /\ Opener \notin Calls
    /\ NoCall \notin Callers
    /\ Oversize \subseteq {"exec", "read", "run_test"}

VARIABLES
    op,       \* what each call asks for, "none" before it is made
    proc,     \* the process: booting, idle, running, exited
    pipe,     \* commands written to it and not read yet
    current,  \* the command it is running
    outbox,   \* frames written by it and not read by the daemon yet
    tx,       \* commands whose writes are in the open transaction
    db        \* commands whose writes, or whose commit, reached the database

shellVars == <<proc, pipe, current, outbox, tx, db>>

Frames == [id : Callers, err : BOOLEAN, big : BOOLEAN]

Frame(id, err, big) == [id |-> id, err |-> err, big |-> big]

ShellInit ==
    /\ op = [c \in Calls |-> "none"]
    /\ proc = "booting"
    /\ pipe = <<>>
    /\ current = NoCall
    /\ outbox = <<>>
    /\ tx = {}
    /\ db = {}

-----------------------------------------------------------------------------
(* _os_main: the hello frame, once Odoo has loaded.                        *)
SayHello ==
    /\ proc = "booting"
    /\ proc' = "idle"
    /\ outbox' = Append(outbox, Frame(Opener, FALSE, FALSE))
    /\ UNCHANGED <<op, pipe, current, tx, db>>

(* The loop reads the next command and starts it.                          *)
TakeCommand ==
    /\ proc = "idle"
    /\ pipe # <<>>
    /\ op[Head(pipe)] # "close"
    /\ proc' = "running"
    /\ current' = Head(pipe)
    /\ pipe' = Tail(pipe)
    /\ UNCHANGED <<op, outbox, tx, db>>

(* The process is gone: unread commands are lost, the cursor rolls back,   *)
(* and what it wrote to the frame pipe can still be read.                  *)
ProcessGone ==
    /\ proc' = "exited"
    /\ pipe' = <<>>
    /\ current' = NoCall
    /\ tx' = {}

(* `close` is answered with bye, and ends the loop.                        *)
SayBye ==
    /\ proc = "idle"
    /\ pipe # <<>>
    /\ op[Head(pipe)] = "close"
    /\ outbox' = Append(outbox, Frame(Head(pipe), FALSE, FALSE))
    /\ ProcessGone
    /\ UNCHANGED <<op, db>>

(* The running command is over and its frame is on the pipe.               *)
Answers(kind, err) ==
    /\ proc = "running"
    /\ op[current] = kind
    /\ \E big \in BOOLEAN :
           /\ big => kind \in Oversize
           /\ outbox' = Append(outbox, Frame(current, err, big))
    /\ proc' = "idle"
    /\ current' = NoCall
    /\ UNCHANGED <<op, pipe>>

(* Code may write and still fail, and may catch the interrupt.  `read` is  *)
(* the caller's word that the code writes nothing, and it is kept.         *)
FinishExec ==
    \E err \in BOOLEAN :
        /\ Answers("exec", err)
        /\ tx' \in {tx, tx \cup {current}}
        /\ UNCHANGED db

FinishRead ==
    /\ \E err \in BOOLEAN : Answers("read", err)
    /\ UNCHANGED <<tx, db>>

(* Odoo's runner rolls an open transaction back before it tests; a run     *)
(* that is refused (workers, Odoo 13) or interrupted before that does not. *)
FinishRunTest ==
    /\ \E err \in BOOLEAN : Answers("run_test", err)
    /\ tx' \in {tx, {}}
    /\ UNCHANGED db

(* _os_commit is flush, cr.commit, invalidate.  A failure in the first two *)
(* writes nothing; an error after cr.commit, an interrupt's or that of a   *)
(* hook it runs, is reported over a commit that happened.                  *)
FinishCommit ==
    \/ /\ Answers("commit", FALSE)
       /\ db' = db \cup tx \cup {current}
       /\ tx' = {}
    \/ /\ Answers("commit", TRUE)
       /\ tx' \in {tx, {}}
       /\ UNCHANGED db
    \/ /\ Answers("commit", TRUE)
       /\ db' = db \cup tx \cup {current}
       /\ tx' = {}

FinishRollback ==
    \E err \in BOOLEAN :
        /\ Answers("rollback", err)
        /\ tx' \in IF err THEN {tx, {}} ELSE {{}}
        /\ UNCHANGED db

(* The process dies: at any moment, on a commit's either side.             *)
ProcessEnds ==
    /\ proc # "exited"
    /\ ProcessGone
    /\ db' \in {db} \cup IF current # NoCall /\ op[current] = "commit"
                         THEN {db \cup tx \cup {current}} ELSE {}
    /\ UNCHANGED <<op, outbox>>

ShellNext ==
    \/ SayHello \/ TakeCommand \/ SayBye
    \/ FinishExec \/ FinishRead \/ FinishRunTest
    \/ FinishCommit \/ FinishRollback
    \/ ProcessEnds

-----------------------------------------------------------------------------
ShellTypeOK ==
    /\ op \in [Calls -> CallKinds \cup {"none"}]
    /\ proc \in {"booting", "idle", "running", "exited"}
    /\ pipe \in Seq(Calls)
    /\ current \in IF proc = "running" THEN Calls ELSE {NoCall}
    /\ outbox \in Seq(Frames)
    /\ tx \subseteq Calls
    /\ db \subseteq Calls
=============================================================================
