------------------------------- MODULE Agent --------------------------------
(***************************************************************************)
(* An agent's tools (odoo_sheller/mcp.py) beside the people who share its  *)
(* sessions: what each tool asks of the daemon, in one or two requests,    *)
(* and the gates of the routes that answer (odoo_sheller/api.py).          *)
(*                                                                         *)
(* Between two requests of one tool, and between a request and its answer, *)
(* sessions change hands, finish, die and close; an answer may never come  *)
(* and a request may arrive after the tool gave it up.  One tool runs at a *)
(* time.  The sessions are on local containers, with the switch off.       *)
(*                                                                         *)
(* Keys are numbered as in CommitPolicy: in each session, the position of  *)
(* the owner they were issued to.  Key 0 opens nothing.                    *)
(***************************************************************************)
EXTENDS Naturals, Sequences, Functions

CONSTANTS
    Sessions,
    NoSession,
    MaxKeys,     \* bound: keys issued in one session
    MaxPending,  \* bound: commands pending in one transaction
    LateVerbs    \* bound: requests that may arrive after their tool gave up, one at a time

ASSUME AgentAssumption ==
    /\ NoSession \notin Sessions
    /\ MaxKeys \in Nat \ {0}
    /\ MaxPending \in Nat \ {0}
    /\ LateVerbs \subseteq {"open", "exec", "run", "commit", "rollback", "close"}

VARIABLES
    state,      \* each session: not opened, as Session._state, or gone
    owners,     \* the kind each key was issued to, oldest first
    allow,      \* Session.allow_commit
    pending,    \* Session.pending_commands
    inherited,  \* Session.inherited_pending
    doing,      \* what the container does for it
    overdue,    \* and whether its ceiling has passed (Session._abandoned_id)
    run,        \* what the journal says of its last test run
    autoclose,  \* whether it closes after its run, and whether that is due
    held,       \* mcp._keys
    known,      \* the keys an agent was given, or was answered
    call,       \* the tool under way and its request
    late,       \* requests given up that have yet to arrive
    granted,    \* history: a person granted commit since it changed hands
    blind,      \* history: how the commits of inherited work were checked
    lost        \* history: sessions whose run was said to be lost

sessionVars == <<state, owners, allow, pending, inherited, doing, overdue, run, autoclose>>
agentVars == <<held, known, call, late>>
historyVars == <<granted, blind, lost>>
vars == <<sessionVars, agentVars, historyVars>>

Work == {"exec", "read", "run", "commit", "rollback"}
Verbs == Work \cup {"open", "list", "get", "history", "close"}
Tools == {"os_open_session", "os_list_sessions", "os_attach_session", "os_exec",
          "os_source", "os_run_test", "os_test_result", "os_rollback",
          "os_commit", "os_close_session"}
Checks == {"none", "answered", "unanswered"}

Requests == [tool : Tools, verb : Verbs, of : Sessions \cup {NoSession},
             key : 0..MaxKeys, check : Checks]
Answers == {"none", "ok", "refused", "gone", "owner", "former_owner", "invalid",
            "inherited", "settled", "open"}
Idle == [at |-> "idle"]

Registered(s) == state[s] \in {"ready", "busy", "dead"}
Owner(s) == owners[s][Len(owners[s])]

-----------------------------------------------------------------------------
(* The gates.  A request without the header has key 0.                     *)

(* Bug: the key of anyone who ever owned it types.                         *)
OwnsIfHeld(s, key) == key \in DOMAIN owners[s]

(* require_owner *)
Owns(s, key) == key = Len(owners[s]) /\ key # 0

(* held_by: the owner, and whoever owned it before *)
HeldBy(s, key) == key \in DOMAIN owners[s]

HeldByHuman(s, key) == HeldBy(s, key) /\ owners[s][key] = "human"

KeyStatus(s, key) ==
    IF Owns(s, key) THEN "owner" ELSE IF HeldBy(s, key) THEN "former_owner" ELSE "invalid"

MayCommit(s) == Owner(s) = "human" \/ allow[s]

-----------------------------------------------------------------------------
(* The tool's side of a request.                                           *)

KeyFor(s) == IF s \in DOMAIN held THEN held[s] ELSE 0

Asks(tool, verb, s, key, check) ==
    call' = [at |-> "sent",
             req |-> [tool |-> tool, verb |-> verb, of |-> s, key |-> key, check |-> check],
             got |-> "none", shows |-> {}]

Drop(s) == Restrict(held, DOMAIN held \ {s})
Keep(s, key) == [x \in DOMAIN held \cup {s} |-> IF x = s THEN key ELSE held[x]]

(* A tool with one request, on a session named or the only one held.       *)
Begins(tool, verb, s) ==
    /\ call.at = "idle"
    /\ Asks(tool, verb, s, KeyFor(s), "none")
    /\ UNCHANGED <<sessionVars, held, known, late, historyVars>>

Opened == {s \in Sessions : state[s] # "new"}

os_open_session == Begins("os_open_session", "open", NoSession)
os_list_sessions == Begins("os_list_sessions", "list", NoSession)
os_exec == \E s \in Opened : Begins("os_exec", "exec", s)
os_source == \E s \in Opened : Begins("os_source", "read", s)
os_rollback == \E s \in Opened : Begins("os_rollback", "rollback", s)
os_close_session == \E s \in Opened : Begins("os_close_session", "close", s)
os_test_result == \E s \in Opened : Begins("os_test_result", "history", s)

(* In a session of its own, which closes after the run, or in one it was   *)
(* handed.                                                                 *)
os_run_test ==
    \/ Begins("os_run_test", "open", NoSession)
    \/ \E s \in Opened : Begins("os_run_test", "run", s)

(* Without include_inherited it first asks whose work it would write.      *)
os_commit == \E s \in Opened :
    \/ Begins("os_commit", "commit", s)
    \/ Begins("os_commit", "get", s)

(* With a key it was given, or with one that was never issued here.        *)
os_attach_session == \E s \in Opened, key \in 0..MaxKeys :
    /\ call.at = "idle"
    /\ key = 0 \/ <<s, key>> \in known
    /\ held' = Keep(s, key)
    /\ Asks("os_attach_session", "get", s, key, "none")
    /\ UNCHANGED <<sessionVars, known, late, historyVars>>

-----------------------------------------------------------------------------
(* The daemon's side.  mine: the tool still waits for this request.        *)

Replies(mine, answer) ==
    call' = IF mine THEN [call EXCEPT !.at = "answered", !.got = answer] ELSE call

(* POST /api/sessions for an agent, without the right to commit.           *)
Opens(r, mine) ==
    /\ r.verb = "open"
    /\ UNCHANGED <<allow, pending, inherited, doing, overdue, run, held, known, historyVars>>
    /\ \/ /\ Replies(mine, "refused")
          /\ UNCHANGED <<state, owners, autoclose>>
       \/ \E s \in Sessions :
            /\ state[s] = "new"
            /\ state' = [state EXCEPT ![s] = "ready"]
            /\ owners' = [owners EXCEPT ![s] = <<"agent">>]
            /\ autoclose' = [autoclose EXCEPT
                                ![s] = IF r.tool = "os_run_test" THEN "yes" ELSE "no"]
            /\ call' = IF mine THEN [call EXCEPT !.at = "answered", !.got = "ok", !.req.of = s]
                               ELSE call

Lists(r, mine) ==
    /\ r.verb = "list"
    /\ call' = [call EXCEPT !.at = "answered", !.got = "ok",
                            !.shows = {s \in Sessions : Registered(s)}]
    /\ UNCHANGED <<sessionVars, held, known, historyVars>>

(* GET /api/sessions/{id}: what the key is worth, whose work is pending.   *)
Describes(r, mine) ==
    /\ r.verb = "get"
    /\ Replies(mine,
           IF ~Registered(r.of) THEN "gone"
           ELSE IF r.tool = "os_attach_session" THEN KeyStatus(r.of, r.key)
           ELSE IF inherited[r.of] > 0 THEN "inherited" ELSE "ok")
    /\ UNCHANGED <<sessionVars, held, known, historyVars>>

(* require_owner, _may_commit and _ensure_acceptable.                      *)
Refusal(r) ==
    IF state[r.of] = "gone" THEN "gone"
    ELSE IF \/ ~Owns(r.of, r.key)
            \/ r.verb = "commit" /\ ~MayCommit(r.of)
            \/ state[r.of] = "busy"
         THEN "refused"
    ELSE IF state[r.of] = "dead" THEN "gone" ELSE "none"

(* The command is sent to the container; a run first discards the work.    *)
Takes(r, mine) ==
    /\ r.verb \in Work
    /\ UNCHANGED <<owners, allow, overdue, autoclose, held, known, granted, lost>>
    /\ IF Refusal(r) # "none"
       THEN Replies(mine, Refusal(r)) /\ UNCHANGED <<state, pending, inherited, doing, run, blind>>
       ELSE LET s == r.of IN
            /\ call' = IF mine THEN [call EXCEPT !.at = "working"] ELSE call
            /\ state' = [state EXCEPT ![s] = "busy"]
            /\ doing' = [doing EXCEPT ![s] = r.verb]
            /\ IF r.verb = "run"
               THEN /\ run' = [run EXCEPT ![s] = "running"]
                    /\ pending' = [pending EXCEPT ![s] = 0]
                    /\ inherited' = [inherited EXCEPT ![s] = 0]
               ELSE UNCHANGED <<run, pending, inherited>>
            /\ blind' = IF r.verb = "commit" /\ inherited[s] > 0
                        THEN blind \cup {r.check} ELSE blind

(* GET /history begins: live or gone, the records are read off the loop.   *)
ReadsHistory(r, mine) ==
    /\ r.verb = "history"
    /\ call' = [call EXCEPT !.at = "reading",
                            !.got = IF Registered(r.of) THEN "open" ELSE "gone"]
    /\ UNCHANGED <<sessionVars, held, known, historyVars>>

(* Registry.close: what ran there is over, whoever waits hears it is gone. *)
LeavesTable(s) ==
    /\ state' = [state EXCEPT ![s] = "gone"]
    /\ doing' = [doing EXCEPT ![s] = "none"]
    /\ overdue' = [overdue EXCEPT ![s] = FALSE]
    /\ autoclose' = [autoclose EXCEPT ![s] = "no"]
    /\ UNCHANGED <<owners, allow, pending, inherited, run>>

WaitsOn(s) == call.at = "working" /\ call.req.of = s

(* DELETE /api/sessions/{id}: a dead one is anyone's to close.             *)
Closes(r, mine) ==
    LET s == r.of IN
    /\ r.verb = "close"
    /\ IF state[s] = "dead" \/ (Registered(s) /\ HeldBy(s, r.key))
       THEN LeavesTable(s) /\ IF WaitsOn(s) THEN Replies(TRUE, "gone") ELSE Replies(mine, "ok")
       ELSE UNCHANGED sessionVars /\ Replies(mine, IF Registered(s) THEN "refused" ELSE "gone")
    /\ UNCHANGED <<held, known, historyVars>>

Handles(r, mine) ==
    \/ Opens(r, mine)
    \/ Lists(r, mine)
    \/ Describes(r, mine)
    \/ Takes(r, mine)
    \/ ReadsHistory(r, mine)
    \/ Closes(r, mine)

Arrives ==
    \/ call.at = "sent" /\ Handles(call.req, TRUE) /\ UNCHANGED late
    \/ \E r \in late : Handles(r, FALSE) /\ late' = late \ {r}

-----------------------------------------------------------------------------
(* The container's side of a session.                                      *)

(* The journal has the result, and a session opened for a run is to close. *)
Books(s) ==
    LET what == doing[s]
        more == IF what = "exec" /\ pending[s] < MaxPending THEN pending[s] + 1 ELSE pending[s]
    IN
    /\ state' = [state EXCEPT ![s] = "ready"]
    /\ doing' = [doing EXCEPT ![s] = "none"]
    /\ overdue' = [overdue EXCEPT ![s] = FALSE]
    /\ run' = IF what = "run" THEN [run EXCEPT ![s] = "settled"] ELSE run
    /\ autoclose' = IF what = "run" /\ autoclose[s] = "yes"
                    THEN [autoclose EXCEPT ![s] = "due"] ELSE autoclose
    /\ \/ /\ what \in {"commit", "rollback"}
          /\ pending' = [pending EXCEPT ![s] = 0]
          /\ inherited' = [inherited EXCEPT ![s] = 0]
       \/ /\ what \notin {"rollback"}   \* a commit may fail
          /\ pending' = [pending EXCEPT ![s] = more]
          /\ UNCHANGED inherited
    /\ UNCHANGED <<owners, allow>>

Finishes(s) ==
    /\ state[s] = "busy"
    /\ Books(s)
    /\ IF WaitsOn(s) THEN Replies(TRUE, "ok") ELSE UNCHANGED call
    /\ UNCHANGED <<held, known, late, historyVars>>

(* The ceiling of a command: the session stays busy, a run's entry reads   *)
(* TimeoutError until the late result takes its place.                     *)
Overruns(s) ==
    /\ state[s] = "busy"
    /\ ~overdue[s]
    /\ overdue' = [overdue EXCEPT ![s] = TRUE]
    /\ run' = IF doing[s] = "run" THEN [run EXCEPT ![s] = "overrun"] ELSE run
    /\ IF WaitsOn(s) THEN Replies(TRUE, "refused") ELSE UNCHANGED call
    /\ UNCHANGED <<state, owners, allow, pending, inherited, doing, autoclose,
                   held, known, late, historyVars>>

Dies(s) ==
    /\ state[s] \in {"ready", "busy"}
    /\ state' = [state EXCEPT ![s] = "dead"]
    /\ doing' = [doing EXCEPT ![s] = "none"]
    /\ overdue' = [overdue EXCEPT ![s] = FALSE]
    /\ autoclose' = IF autoclose[s] = "yes" /\ run[s] # "none"
                    THEN [autoclose EXCEPT ![s] = "due"] ELSE autoclose
    /\ IF WaitsOn(s) THEN Replies(TRUE, "gone") ELSE UNCHANGED call
    /\ UNCHANGED <<owners, allow, pending, inherited, run, held, known, late, historyVars>>

(* Its own close once the run is booked, or a person's.                    *)
Leaves(s) ==
    /\ Registered(s)
    /\ LeavesTable(s)
    /\ IF WaitsOn(s) THEN Replies(TRUE, "gone") ELSE UNCHANGED call
    /\ UNCHANGED <<held, known, late, historyVars>>

Autocloses(s) == autoclose[s] = "due" /\ Leaves(s)
IsClosed(s) == autoclose[s] # "due" /\ Leaves(s)

DaemonRestarts ==
    /\ \E s \in Sessions : Registered(s)
    /\ state' = [s \in Sessions |-> IF Registered(s) THEN "gone" ELSE state[s]]
    /\ doing' = [s \in Sessions |-> "none"]
    /\ overdue' = [s \in Sessions |-> FALSE]
    /\ autoclose' = [s \in Sessions |-> "no"]
    /\ call' = IF call.at = "idle" THEN call
               ELSE [call EXCEPT !.at = "answered", !.got = "none", !.shows = {}]
    /\ late' = {}
    /\ UNCHANGED <<owners, allow, pending, inherited, run, held, known, historyVars>>

(* session_history answers: the records as they are now, beside whether    *)
(* the session was in the table when it began.                             *)
HasResult(s) == run[s] \in {"settled", "overrun"}

(* Bug: the end of the session is looked at before the run.                *)
RunShownGoneFirst(s, found) ==
    IF found = "gone" THEN "gone" ELSE IF HasResult(s) THEN "settled" ELSE "open"

RunShown(s, found) == IF HasResult(s) THEN "settled" ELSE found

AnswersHistory ==
    LET s == call.req.of IN
    /\ call.at = "reading"
    /\ call' = [call EXCEPT !.at = "answered", !.got = RunShown(s, call.got),
                            !.shows = IF state[s] = "dead" THEN {} ELSE {s}]
    /\ UNCHANGED <<sessionVars, held, known, late, historyVars>>

-----------------------------------------------------------------------------
(* People, and agents that ask the daemon for more than their tools do.    *)

PersonOpens(s) ==
    /\ state[s] = "new"
    /\ state' = [state EXCEPT ![s] = "ready"]
    /\ owners' = [owners EXCEPT ![s] = <<"human">>]
    /\ allow' = [allow EXCEPT ![s] = TRUE]
    /\ UNCHANGED <<pending, inherited, doing, overdue, run, autoclose, agentVars, historyVars>>

(* A person's command in a session of theirs, from start to end.           *)
PersonWorks(s) ==
    /\ state[s] = "ready"
    /\ Owner(s) = "human"
    /\ \/ pending[s] < MaxPending /\ pending' = [pending EXCEPT ![s] = @ + 1] /\ UNCHANGED inherited
       \/ pending' = [pending EXCEPT ![s] = 0] /\ inherited' = [inherited EXCEPT ![s] = 0]
    /\ UNCHANGED <<state, owners, allow, doing, overdue, run, autoclose, agentVars, historyVars>>

(* Who asks: a person has the admin key, an agent the keys it knows of s.  *)
Askers(s) == {[key |-> 0, admin |-> TRUE]}
             \cup {[key |-> k, admin |-> FALSE] : k \in {n \in 1..MaxKeys : <<s, n>> \in known}}

MaySetOwner(s, who, kind) ==
    IF HeldBy(s, who.key) THEN kind = "human" => who.admin \/ HeldByHuman(s, who.key)
                          ELSE who.admin

MaySetPolicy(s, who, allowed) ==
    IF HeldBy(s, who.key) THEN allowed => who.admin \/ HeldByHuman(s, who.key)
                          ELSE who.admin

(* Bug: the right stays with the session.                                  *)
StartsWithCommitAsBefore(s, kind) == allow[s] \/ kind = "human"

(* _starts_with_commit: locally a human does, an agent does not.           *)
StartsWithCommit(s, kind) == kind = "human"

(* POST /owner.  The new key is told to whoever asked, and an agent's to   *)
(* the agent: it attaches at once, or when the session has moved on.       *)
SetOwner(s, who, kind) ==
    /\ Registered(s)
    /\ Len(owners[s]) < MaxKeys
    /\ MaySetOwner(s, who, kind)
    /\ owners' = [owners EXCEPT ![s] = Append(@, kind)]
    /\ inherited' = [inherited EXCEPT ![s] = pending[s]]
    /\ allow' = [allow EXCEPT ![s] = StartsWithCommit(s, kind)]
    /\ known' = IF who.admin /\ kind = "human" THEN known
                ELSE known \cup {<<s, Len(owners[s]) + 1>>}
    /\ granted' = [granted EXCEPT ![s] = FALSE]
    /\ UNCHANGED <<state, pending, doing, overdue, run, autoclose, held, call, late, blind, lost>>

(* POST /policy.  A local human's right gates nothing: taking it is a 409. *)
SetPolicy(s, who, allowed) ==
    /\ Registered(s)
    /\ MaySetPolicy(s, who, allowed)
    /\ allowed \/ Owner(s) = "agent"
    /\ allow' = [allow EXCEPT ![s] = allowed]
    /\ granted' = IF allowed /\ who.admin THEN [granted EXCEPT ![s] = TRUE] ELSE granted
    /\ UNCHANGED <<state, owners, pending, inherited, doing, overdue, run, autoclose,
                   agentVars, blind, lost>>

-----------------------------------------------------------------------------
(* The tool hears an answer, or "none": its own timeout, a daemon that is  *)
(* not there, an answer that was lost.                                     *)

Done == call' = Idle

HearsOpen(r, answer) ==
    /\ r.verb = "open"
    /\ IF answer = "ok"
       THEN /\ held' = Keep(r.of, 1)
            /\ known' = known \cup {<<r.of, 1>>}
            /\ IF r.tool = "os_run_test" THEN Asks("os_run_test", "run", r.of, 1, "none") ELSE Done
       ELSE Done /\ UNCHANGED <<held, known>>
    /\ UNCHANGED lost

HearsList(r, answer) ==
    /\ r.verb = "list"
    /\ held' = IF answer = "ok" THEN Restrict(held, DOMAIN held \cap call.shows) ELSE held
    /\ Done
    /\ UNCHANGED <<known, lost>>

HearsAttach(r, answer) ==
    /\ r.tool = "os_attach_session"
    /\ held' = IF answer = "owner" THEN held ELSE Drop(r.of)
    /\ Done
    /\ UNCHANGED <<known, lost>>

(* A check without an answer reads as nothing inherited.                   *)
HearsCheck(r, answer) ==
    /\ r.tool = "os_commit" /\ r.verb = "get"
    /\ IF answer = "inherited" THEN Done
       ELSE Asks("os_commit", "commit", r.of, KeyFor(r.of),
                 IF answer = "ok" THEN "answered" ELSE "unanswered")
    /\ UNCHANGED <<held, known, lost>>

(* While the run is open it asks again, until its budget is spent.         *)
HearsHistory(r, answer) ==
    /\ r.verb = "history"
    /\ lost' = IF answer = "gone" THEN lost \cup {r.of} ELSE lost
    /\ Done \/ (answer = "open" /\ Asks(r.tool, "history", r.of, r.key, "none"))
    /\ UNCHANGED <<held, known>>

(* os_close_session forgets the key whatever it hears.                     *)
HearsRest(r, answer) ==
    /\ r.verb \in Work \cup {"close"}
    /\ held' = IF r.verb = "close" THEN Drop(r.of) ELSE held
    /\ Done
    /\ UNCHANGED <<known, lost>>

Hears(answer) ==
    LET r == call.req IN
    /\ \/ HearsOpen(r, answer)
       \/ HearsList(r, answer)
       \/ HearsAttach(r, answer)
       \/ HearsCheck(r, answer)
       \/ HearsHistory(r, answer)
       \/ HearsRest(r, answer)
    /\ UNCHANGED <<sessionVars, granted, blind>>

HearsAnswer == call.at = "answered" /\ Hears(call.got) /\ UNCHANGED late

(* What only reads does nothing when it arrives late.                      *)
GivesUp ==
    /\ call.at # "idle"
    /\ Hears("none")
    /\ \/ UNCHANGED late
       \/ /\ call.at = "sent"
          /\ call.req.verb \in LateVerbs
          /\ late = {}
          /\ late' = {call.req}

-----------------------------------------------------------------------------
Init ==
    /\ state = [s \in Sessions |-> "new"]
    /\ owners = [s \in Sessions |-> <<>>]
    /\ allow = [s \in Sessions |-> FALSE]
    /\ pending = [s \in Sessions |-> 0]
    /\ inherited = [s \in Sessions |-> 0]
    /\ doing = [s \in Sessions |-> "none"]
    /\ overdue = [s \in Sessions |-> FALSE]
    /\ run = [s \in Sessions |-> "none"]
    /\ autoclose = [s \in Sessions |-> "no"]
    /\ held = <<>>
    /\ known = {}
    /\ call = Idle
    /\ late = {}
    /\ granted = [s \in Sessions |-> FALSE]
    /\ blind = {}
    /\ lost = {}

UsesTool ==
    \/ os_open_session \/ os_list_sessions \/ os_attach_session
    \/ os_exec \/ os_source \/ os_run_test \/ os_test_result
    \/ os_rollback \/ os_commit \/ os_close_session

People(s) ==
    \/ PersonOpens(s) \/ PersonWorks(s) \/ IsClosed(s)
    \/ \E who \in Askers(s) :
        \/ \E kind \in {"human", "agent"} : SetOwner(s, who, kind)
        \/ \E allowed \in BOOLEAN : SetPolicy(s, who, allowed)

Container(s) == Finishes(s) \/ Overruns(s) \/ Dies(s) \/ Autocloses(s)

Next ==
    \/ UsesTool
    \/ Arrives
    \/ HearsAnswer
    \/ GivesUp
    \/ AnswersHistory
    \/ DaemonRestarts
    \/ \E s \in Sessions : People(s) \/ Container(s)

Spec == Init /\ [][Next]_vars

-----------------------------------------------------------------------------
Calls == [at : {"sent", "working", "reading", "answered"},
          req : Requests, got : Answers, shows : SUBSET Sessions]

(* The variables hold what the code puts in them.                          *)
TypeOK ==
    /\ state \in [Sessions -> {"new", "ready", "busy", "dead", "gone"}]
    /\ owners \in [Sessions -> Seq({"human", "agent"})]
    /\ allow \in [Sessions -> BOOLEAN]
    /\ pending \in [Sessions -> 0..MaxPending]
    /\ inherited \in [Sessions -> 0..MaxPending]
    /\ doing \in [Sessions -> Work \cup {"none"}]
    /\ overdue \in [Sessions -> BOOLEAN]
    /\ run \in [Sessions -> {"none", "running", "overrun", "settled"}]
    /\ autoclose \in [Sessions -> {"no", "yes", "due"}]
    /\ DOMAIN held \subseteq Sessions
    /\ \A s \in DOMAIN held : held[s] \in 0..MaxKeys
    /\ known \subseteq Sessions \X (1..MaxKeys)
    /\ call \in Calls \cup {Idle}
    /\ late \subseteq Requests

(* An agent may commit only where a person granted it since the session    *)
(* last changed hands: no key an agent holds, now or from before, can make *)
(* that grant, nor hand the session to "a human" and commit as one         *)
(* (require_human_or_admin, transfer_owner).                               *)
OnlyPeopleGrant ==
    \A s \in Sessions : Registered(s) /\ allow[s] =>
        Owner(s) = "human" \/ granted[s]

(* Whatever an agent asks of the daemon, every key it gets to know was     *)
(* issued to an agent.                                                     *)
AgentKeysAreAgents ==
    \A s \in Sessions, k \in 1..MaxKeys :
        <<s, k>> \in known => k \in DOMAIN owners[s] /\ owners[s][k] = "agent"

(* When os_commit has asked whether the work is inherited and was told it  *)
(* is not, no inherited work is written, whatever moves between its two    *)
(* requests and however late the second arrives.                           *)
CheckedCommitIsOwn == "answered" \notin blind

(* A run os_test_result called lost never turns out to have a result: the  *)
(* advice is to start it again.                                            *)
LostIsLost == \A s \in lost : ~HasResult(s)

(* "refused once as inherited_pending" (os_commit): a commit of inherited  *)
(* work was asked for with include_inherited, or refused before.           *)
InheritedIsRefusedOnce == blind \subseteq {"none"}

(* "Saying "running" here would be a poll forever" (os_test_result): a run *)
(* is not said to go on in a session the answer shows dead.                *)
DeadRunIsNotRunning ==
    call.at = "answered" /\ call.req.verb = "history" /\ call.got = "open" => call.shows # {}
=============================================================================
