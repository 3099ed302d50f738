----------------------------- MODULE AgentProofs ----------------------------
(***************************************************************************)
(* Who can let an agent commit, for any sessions, handovers and requests:  *)
(* OnlyPeopleGrant and AgentKeysAreAgents of Agent, and its types; then    *)
(* what the agent may believe of the sessions it used: that one it calls   *)
(* lost is gone (LostIsLost), and that what it was told to be its own work *)
(* still was when it committed (CheckedCommitIsOwn).                       *)
(*                                                                         *)
(* The first two lean on each other: an agent cannot grant because no key  *)
(* it knows was issued to a human, and it learns no such key because       *)
(* handing a session to a human takes one.  Neither is inductive without   *)
(* what an answer on its way says (Told): a session just opened for an     *)
(* agent is an agent's, whatever happens to it before the agent hears of   *)
(* it; and without what holds before a session is opened (Unopened).       *)
(***************************************************************************)
EXTENDS Agent, SequenceTheorems, TLAPS

(* What TypeOK leaves out: the history, and which requests arrive late.    *)
HistoryTypes ==
    /\ granted \in [Sessions -> BOOLEAN]
    /\ \A r \in late : r.verb \in LateVerbs

(* A session nobody opened yet has no owner and gives nobody the right.    *)
Unopened == \A s \in Sessions : state[s] = "new" => owners[s] = <<>> /\ ~allow[s]

(* What the request under way can be, and what an agent that opened a      *)
(* session is about to learn.                                              *)
Told ==
    call # Idle =>
        /\ call.at = "working" => call.req.verb \in Work
        /\ call.at = "reading" => call.req.verb = "history"
        /\ call.req.verb = "history" => call.req.of \in Sessions
        /\ call.at = "answered" /\ call.req.verb = "open" /\ call.got = "ok" =>
               /\ call.req.of \in Sessions
               /\ 1 \in DOMAIN owners[call.req.of]
               /\ owners[call.req.of][1] = "agent"

IInv == TypeOK /\ HistoryTypes /\ Unopened /\ Told /\ OnlyPeopleGrant /\ AgentKeysAreAgents

-----------------------------------------------------------------------------
(* The types.                                                              *)

SessionTypes ==
    /\ state \in [Sessions -> {"new", "ready", "busy", "dead", "gone"}]
    /\ owners \in [Sessions -> Seq({"human", "agent"})]
    /\ allow \in [Sessions -> BOOLEAN]
    /\ pending \in [Sessions -> 0..MaxPending]
    /\ inherited \in [Sessions -> 0..MaxPending]
    /\ doing \in [Sessions -> Work \cup {"none"}]
    /\ overdue \in [Sessions -> BOOLEAN]
    /\ run \in [Sessions -> {"none", "running", "overrun", "settled"}]
    /\ autoclose \in [Sessions -> {"no", "yes", "due"}]

AgentTypes ==
    /\ DOMAIN held \subseteq Sessions
    /\ \A s \in DOMAIN held : held[s] \in 0..MaxKeys
    /\ known \subseteq Sessions \X (1..MaxKeys)
    /\ call \in Calls \cup {Idle}
    /\ late \subseteq Requests

LEMMA TypeParts == TypeOK <=> SessionTypes /\ AgentTypes
  BY DEF TypeOK, SessionTypes, AgentTypes

LEMMA InitTypes == Init => TypeOK /\ HistoryTypes
  <1> SUFFICES ASSUME Init PROVE TypeOK /\ HistoryTypes
    OBVIOUS
  <1>1. SessionTypes
    BY AgentAssumption DEF Init, SessionTypes, Work
  <1>2. AgentTypes
    BY DEF Init, AgentTypes
  <1> QED
    BY <1>1, <1>2, TypeParts DEF HistoryTypes, Init

(* A request a tool makes, and what it keeps, is of the right type.        *)
LEMMA AsksTypes ==
    ASSUME NEW tool \in Tools, NEW verb \in Verbs, NEW s \in Sessions \cup {NoSession},
           NEW key \in 0..MaxKeys, NEW check \in Checks, Asks(tool, verb, s, key, check)
    PROVE  call' \in Calls
  BY DEF Asks, Calls, Requests, Answers

LEMMA KeyForTypes ==
    ASSUME AgentTypes, NEW s
    PROVE  KeyFor(s) \in 0..MaxKeys
  BY AgentAssumption DEF AgentTypes, KeyFor

LEMMA KeepTypes ==
    ASSUME AgentTypes, NEW s \in Sessions, NEW key \in 0..MaxKeys, held' = Keep(s, key)
    PROVE  DOMAIN held' \subseteq Sessions /\ \A x \in DOMAIN held' : held'[x] \in 0..MaxKeys
  BY DEF AgentTypes, Keep

LEMMA DropTypes ==
    ASSUME AgentTypes, NEW S, held' = Restrict(held, DOMAIN held \cap S)
    PROVE  DOMAIN held' \subseteq Sessions /\ \A x \in DOMAIN held' : held'[x] \in 0..MaxKeys
  BY DEF AgentTypes, Restrict

(* An agent's tool begins.                                                 *)
LEMMA ToolTypes == TypeOK /\ UsesTool => AgentTypes'
  <1> SUFFICES ASSUME SessionTypes, AgentTypes, UsesTool PROVE AgentTypes'
    BY TypeParts
  <1>1. ASSUME NEW tool \in Tools, NEW verb \in Verbs, NEW s \in Sessions \cup {NoSession},
               Begins(tool, verb, s)
        PROVE  AgentTypes'
    <2>1. KeyFor(s) \in 0..MaxKeys
      BY KeyForTypes
    <2>2. call' \in Calls
      BY <1>1, <2>1, AsksTypes DEF Begins, Checks
    <2> QED
      BY <1>1, <2>2 DEF Begins, AgentTypes
  <1>2. CASE os_attach_session
    <2>1. PICK s \in Opened, key \in 0..MaxKeys :
              /\ held' = Keep(s, key)
              /\ Asks("os_attach_session", "get", s, key, "none")
              /\ UNCHANGED <<sessionVars, known, late, historyVars>>
      BY <1>2 DEF os_attach_session
    <2>2. call' \in Calls
      BY <2>1, AsksTypes DEF Tools, Verbs, Checks, Opened
    <2> QED
      BY <2>1, <2>2, KeepTypes DEF Opened, AgentTypes
  <1> QED
    BY <1>1, <1>2 DEF UsesTool, os_open_session, os_list_sessions, os_exec, os_source,
       os_run_test, os_test_result, os_rollback, os_commit, os_close_session,
       Tools, Verbs, Work, Opened

(* An answer put into the request under way.                               *)
LEMMA RepliesTypes ==
    ASSUME NEW mine \in BOOLEAN, NEW answer \in Answers, mine => call \in Calls,
           call \in Calls \cup {Idle}, Replies(mine, answer)
    PROVE  call' \in Calls \cup {Idle}
  BY DEF Replies, Calls

(* A session leaves the table.                                             *)
LEMMA LeavesTypes ==
    ASSUME SessionTypes, NEW s, LeavesTable(s)
    PROVE  SessionTypes'
  BY DEF SessionTypes, LeavesTable, Work

LEMMA WaitsTypes ==
    ASSUME call \in Calls \cup {Idle}, NEW s, WaitsOn(s)
    PROVE  call \in Calls
  BY DEF WaitsOn, Idle, Calls

(* The daemon handles a request.                                           *)
LEMMA HandlesTypes ==
    ASSUME SessionTypes, AgentTypes, NEW r \in Requests, NEW mine \in BOOLEAN,
           mine => call \in Calls, r.verb \notin {"list", "history"} \/ mine,
           Handles(r, mine)
    PROVE  SessionTypes' /\ call' \in Calls \cup {Idle} /\ UNCHANGED <<held, known>>
  <1> USE DEF SessionTypes, AgentTypes
  <1>1. CASE Opens(r, mine)
    <2>1. CASE Replies(mine, "refused") /\ UNCHANGED <<state, owners, autoclose>>
      BY <1>1, <2>1, RepliesTypes DEF Opens, Answers, historyVars
    <2>2. ASSUME NEW s \in Sessions,
                 state' = [state EXCEPT ![s] = "ready"],
                 owners' = [owners EXCEPT ![s] = <<"agent">>],
                 autoclose' = [autoclose EXCEPT
                                  ![s] = IF r.tool = "os_run_test" THEN "yes" ELSE "no"],
                 call' = IF mine THEN [call EXCEPT !.at = "answered", !.got = "ok", !.req.of = s]
                                 ELSE call
          PROVE  SessionTypes' /\ call' \in Calls \cup {Idle}
      <3>1. <<"agent">> \in Seq({"human", "agent"})
        OBVIOUS
      <3>2. SessionTypes'
        BY <1>1, <2>2, <3>1 DEF Opens
      <3>3. ASSUME mine PROVE call' \in Calls
        <4>1. call \in Calls
          BY <3>3
        <4>2. call.req \in Requests /\ [call.req EXCEPT !.of = s] \in Requests
          BY <4>1 DEF Calls, Requests
        <4>3. call' = [call EXCEPT !.at = "answered", !.got = "ok",
                                   !.req = [call.req EXCEPT !.of = s]]
          BY <2>2, <3>3, <4>1 DEF Calls
        <4> QED
          BY <4>1, <4>2, <4>3 DEF Calls, Answers
      <3> QED
        BY <2>2, <3>2, <3>3
    <2> QED
      BY <1>1, <2>1, <2>2 DEF Opens
  <1>2. CASE Lists(r, mine)
    BY <1>2 DEF Lists, Calls, Answers, sessionVars
  <1>3. CASE Describes(r, mine)
    BY <1>3, RepliesTypes DEF Describes, Answers, KeyStatus, sessionVars
  <1>4. CASE Takes(r, mine)
    <2>1. CASE Refusal(r) # "none"
      BY <1>4, <2>1, RepliesTypes DEF Takes, Refusal, Answers
    <2>2. CASE Refusal(r) = "none"
      <3>1. call' \in Calls \cup {Idle}
        BY <1>4, <2>2 DEF Takes, Calls
      <3>2. state' \in [Sessions -> {"new", "ready", "busy", "dead", "gone"}]
            /\ doing' \in [Sessions -> Work \cup {"none"}]
        BY <1>4, <2>2 DEF Takes
      <3>3. /\ run' \in [Sessions -> {"none", "running", "overrun", "settled"}]
            /\ pending' \in [Sessions -> 0..MaxPending]
            /\ inherited' \in [Sessions -> 0..MaxPending]
        <4>1. 0 \in 0..MaxPending
          BY AgentAssumption
        <4>2. pending' = [pending EXCEPT ![r.of] = 0] \/ pending' = pending
          BY <1>4, <2>2 DEF Takes
        <4>3. inherited' = [inherited EXCEPT ![r.of] = 0] \/ inherited' = inherited
          BY <1>4, <2>2 DEF Takes
        <4>4. run' = [run EXCEPT ![r.of] = "running"] \/ run' = run
          BY <1>4, <2>2 DEF Takes
        <4> QED
          BY <4>1, <4>2, <4>3, <4>4
      <3> QED
        BY <1>4, <3>1, <3>2, <3>3 DEF Takes
    <2> QED
      BY <2>1, <2>2
  <1>5. CASE ReadsHistory(r, mine)
    BY <1>5 DEF ReadsHistory, Calls, Answers, sessionVars
  <1>6. CASE Closes(r, mine)
    <2>1. CASE LeavesTable(r.of) /\ WaitsOn(r.of) /\ Replies(TRUE, "gone")
      BY <1>6, <2>1, RepliesTypes, WaitsTypes, LeavesTypes DEF Closes, Answers
    <2>2. CASE LeavesTable(r.of) /\ Replies(mine, "ok")
      BY <1>6, <2>2, RepliesTypes, LeavesTypes DEF Closes, Answers
    <2>3. CASE UNCHANGED sessionVars /\ (Replies(mine, "refused") \/ Replies(mine, "gone"))
      BY <1>6, <2>3, RepliesTypes DEF Closes, Answers, sessionVars
    <2> QED
      BY <1>6, <2>1, <2>2, <2>3 DEF Closes
  <1> QED
    BY <1>1, <1>2, <1>3, <1>4, <1>5, <1>6 DEF Handles

LEMMA ArrivesTypes == TypeOK /\ HistoryTypes /\ Arrives => TypeOK'
  <1> SUFFICES ASSUME SessionTypes, AgentTypes, HistoryTypes, Arrives
               PROVE  SessionTypes' /\ AgentTypes'
    BY DEF TypeOK, SessionTypes, AgentTypes
  <1>1. CASE call.at = "sent" /\ Handles(call.req, TRUE) /\ UNCHANGED late
    <2>1. call \in Calls /\ call.req \in Requests
      BY <1>1 DEF AgentTypes, Calls, Idle
    <2> QED
      BY <1>1, <2>1, HandlesTypes DEF AgentTypes
  <1>2. ASSUME NEW r \in late, Handles(r, FALSE), late' = late \ {r}
        PROVE  SessionTypes' /\ AgentTypes'
    <2>1. r \in Requests /\ r.verb \notin {"list", "history"}
      BY <1>2, AgentAssumption DEF AgentTypes, HistoryTypes
    <2> QED
      BY <1>2, <2>1, HandlesTypes DEF AgentTypes
  <1> QED
    BY <1>1, <1>2 DEF Arrives

(* The tool hears an answer, or none.                                      *)
LEMMA HearsTypes ==
    ASSUME AgentTypes, Told, call \in Calls, NEW answer,
           answer \in {call.got, "none"}, answer = "ok" => call.at = "answered", Hears(answer)
    PROVE  DOMAIN held' \subseteq Sessions
           /\ (\A s \in DOMAIN held' : held'[s] \in 0..MaxKeys)
           /\ known' \subseteq Sessions \X (1..MaxKeys)
           /\ call' \in Calls \cup {Idle}
  <1> DEFINE r == call.req
  <1>0. /\ r \in Requests /\ r.of \in Sessions \cup {NoSession} /\ r.key \in 0..MaxKeys
        /\ r.tool \in Tools /\ call.shows \subseteq Sessions
    BY DEF Calls, Requests
  <1>1. CASE HearsOpen(r, answer)
    <2>1. CASE answer = "ok"
      <3>1. r.of \in Sessions
        BY <1>1, <2>1 DEF HearsOpen, Told, Idle, Calls
      <3>2. 1 \in 0..MaxKeys /\ 1 \in 1..MaxKeys
        BY AgentAssumption
      <3>3. held' = Keep(r.of, 1) /\ known' = known \cup {<<r.of, 1>>}
        BY <1>1, <2>1 DEF HearsOpen
      <3>4. call' \in Calls \cup {Idle}
        BY <1>1, <2>1, <3>1, <3>2, AsksTypes DEF HearsOpen, Done, Tools, Verbs, Work, Checks
      <3> QED
        BY <3>1, <3>2, <3>3, <3>4, KeepTypes DEF AgentTypes
    <2> QED
      BY <1>1, <2>1 DEF HearsOpen, Done, AgentTypes
  <1>2. CASE HearsList(r, answer)
    <2>1. CASE answer = "ok"
      BY <1>2, <2>1, DropTypes DEF HearsList, Done, AgentTypes
    <2> QED
      BY <1>2, <2>1 DEF HearsList, Done, AgentTypes
  <1>3. CASE HearsAttach(r, answer)
    <2>1. CASE held' = held
      BY <1>3, <2>1 DEF HearsAttach, Done, AgentTypes
    <2>2. CASE held' = Drop(r.of)
      BY <1>3, <2>2 DEF HearsAttach, Done, AgentTypes, Drop, Restrict
    <2> QED
      BY <1>3, <2>1, <2>2 DEF HearsAttach
  <1>4. CASE HearsCheck(r, answer)
    <2>1. KeyFor(r.of) \in 0..MaxKeys
      BY KeyForTypes
    <2> QED
      BY <1>0, <1>4, <2>1, AsksTypes DEF HearsCheck, Done, AgentTypes, Tools, Verbs, Work, Checks
  <1>5. CASE HearsHistory(r, answer)
    BY <1>0, <1>5, AsksTypes DEF HearsHistory, Done, AgentTypes, Verbs, Checks
  <1>6. CASE HearsRest(r, answer)
    BY <1>6 DEF HearsRest, Done, AgentTypes, Drop, Restrict
  <1> QED
    BY <1>1, <1>2, <1>3, <1>4, <1>5, <1>6 DEF Hears

LEMMA HearingTypes ==
    TypeOK /\ Told /\ (HearsAnswer \/ GivesUp) => TypeOK'
  <1> SUFFICES ASSUME SessionTypes, AgentTypes, Told, HearsAnswer \/ GivesUp
               PROVE  SessionTypes' /\ AgentTypes'
    BY DEF TypeOK, SessionTypes, AgentTypes
  <1>1. call \in Calls
    BY DEF AgentTypes, HearsAnswer, GivesUp, Idle
  <1>2. SessionTypes'
    BY DEF HearsAnswer, GivesUp, Hears, sessionVars, SessionTypes
  <1>3. late' \subseteq Requests
    BY <1>1 DEF HearsAnswer, GivesUp, AgentTypes, Calls
  <1>4. PICK answer \in {call.got, "none"} : Hears(answer) /\ (answer = "ok" => call.at = "answered")
    BY DEF HearsAnswer, GivesUp
  <1> QED
    BY <1>1, <1>2, <1>3, <1>4, HearsTypes DEF AgentTypes

(* The container, the table and the people.                                *)
LEMMA ContainerTypes ==
    ASSUME TypeOK, NEW s \in Sessions, Container(s) \/ IsClosed(s)
    PROVE  TypeOK'
  <1>1. SessionTypes /\ AgentTypes
    BY TypeParts
  <1> USE <1>1 DEF SessionTypes, AgentTypes
  <1>2. CASE Finishes(s)
    <2>1. SessionTypes'
      <3>1. doing[s] = "exec" /\ pending[s] < MaxPending => pending[s] + 1 \in 0..MaxPending
        BY AgentAssumption
      <3>2. pending' \in [Sessions -> 0..MaxPending] /\ inherited' \in [Sessions -> 0..MaxPending]
        <4>1. pending' \in [Sessions -> 0..MaxPending]
          BY <1>2, <3>1, AgentAssumption DEF Finishes, Books
        <4>2. inherited' \in [Sessions -> 0..MaxPending]
          BY <1>2, AgentAssumption DEF Finishes, Books
        <4> QED
          BY <4>1, <4>2
      <3> QED
        BY <1>2, <3>2 DEF Finishes, Books
    <2>2. call' \in Calls \cup {Idle}
      BY <1>2, RepliesTypes, WaitsTypes DEF Finishes, Answers
    <2> QED
      BY <1>2, <2>1, <2>2 DEF Finishes, TypeOK
  <1>3. CASE Overruns(s)
    BY <1>3, RepliesTypes, WaitsTypes DEF Overruns, Answers, TypeOK
  <1>4. CASE Dies(s)
    BY <1>4, RepliesTypes, WaitsTypes DEF Dies, Answers, TypeOK
  <1>5. CASE Leaves(s)
    BY <1>5, RepliesTypes, WaitsTypes, LeavesTypes DEF Leaves, Answers, TypeOK
  <1> QED
    BY <1>2, <1>3, <1>4, <1>5 DEF Container, Autocloses, IsClosed

LEMMA RestartTypes == TypeOK /\ DaemonRestarts => TypeOK'
  <1> SUFFICES ASSUME TypeOK, DaemonRestarts PROVE TypeOK'
    OBVIOUS
  <1>1. call' \in Calls \cup {Idle}
    <2>1. CASE call = Idle
      BY <2>1 DEF DaemonRestarts, Idle
    <2>2. CASE call \in Calls
      <3>1. call.at # "idle"
        BY <2>2 DEF Calls
      <3>2. call' = [call EXCEPT !.at = "answered", !.got = "none", !.shows = {}]
        BY <3>1 DEF DaemonRestarts
      <3> QED
        BY <2>2, <3>2 DEF Calls, Answers
    <2> QED
      BY <2>1, <2>2 DEF TypeOK
  <1>2. state' \in [Sessions -> {"new", "ready", "busy", "dead", "gone"}]
    BY DEF TypeOK, DaemonRestarts
  <1> QED
    BY <1>1, <1>2 DEF TypeOK, DaemonRestarts, Work

LEMMA PeopleTypes ==
    ASSUME TypeOK, NEW s \in Sessions, People(s)
    PROVE  TypeOK'
  <1>1. CASE PersonOpens(s)
    <2>1. <<"human">> \in Seq({"human", "agent"})
      OBVIOUS
    <2> QED
      BY <1>1, <2>1 DEF PersonOpens, TypeOK, agentVars
  <1>2. CASE PersonWorks(s)
    <2>1. pending' \in [Sessions -> 0..MaxPending]
      <3>1. 0 \in 0..MaxPending
        BY AgentAssumption
      <3>2. pending[s] < MaxPending => pending[s] + 1 \in 0..MaxPending
        BY AgentAssumption DEF TypeOK
      <3>3. CASE pending[s] < MaxPending /\ pending' = [pending EXCEPT ![s] = @ + 1]
        BY <3>2, <3>3 DEF TypeOK
      <3>4. CASE pending' = [pending EXCEPT ![s] = 0]
        BY <3>1, <3>4 DEF TypeOK
      <3> QED
        BY <1>2, <3>3, <3>4 DEF PersonWorks
    <2>2. inherited' \in [Sessions -> 0..MaxPending]
      <3>1. 0 \in 0..MaxPending
        BY AgentAssumption
      <3>2. inherited' = inherited \/ inherited' = [inherited EXCEPT ![s] = 0]
        BY <1>2 DEF PersonWorks
      <3> QED
        BY <3>1, <3>2 DEF TypeOK
    <2> QED
      BY <1>2, <2>1, <2>2 DEF PersonWorks, TypeOK, agentVars
  <1>3. CASE IsClosed(s)
    BY <1>3, ContainerTypes
  <1>4. ASSUME NEW who \in Askers(s), NEW kind \in {"human", "agent"}, SetOwner(s, who, kind)
        PROVE  TypeOK'
    <2>1. owners[s] \in Seq({"human", "agent"})
      BY DEF TypeOK
    <2>2. Append(owners[s], kind) \in Seq({"human", "agent"})
      BY <2>1
    <2>3. Len(owners[s]) + 1 \in 1..MaxKeys
      BY <1>4, <2>1, AgentAssumption DEF SetOwner
    <2>4. known' \subseteq Sessions \X (1..MaxKeys)
      BY <1>4, <2>3 DEF SetOwner, TypeOK
    <2>5. owners' \in [Sessions -> Seq({"human", "agent"})]
      BY <1>4, <2>2 DEF SetOwner, TypeOK
    <2>6. allow' \in [Sessions -> BOOLEAN] /\ inherited' \in [Sessions -> 0..MaxPending]
      BY <1>4 DEF SetOwner, TypeOK, StartsWithCommit
    <2> QED
      BY <1>4, <2>4, <2>5, <2>6 DEF SetOwner, TypeOK
  <1>5. ASSUME NEW who \in Askers(s), NEW allowed \in BOOLEAN, SetPolicy(s, who, allowed)
        PROVE  TypeOK'
    BY <1>5 DEF SetPolicy, TypeOK, agentVars
  <1> QED
    BY <1>1, <1>2, <1>3, <1>4, <1>5 DEF People

(* Requests that arrive late are those that may.                           *)
LEMMA NextHistoryTypes == TypeOK /\ HistoryTypes /\ Next => HistoryTypes'
  <1> SUFFICES ASSUME TypeOK, HistoryTypes, Next PROVE HistoryTypes'
    OBVIOUS
  <1> USE DEF HistoryTypes
  <1>1. CASE UsesTool
    BY <1>1 DEF UsesTool, Begins, os_open_session, os_list_sessions, os_exec, os_source,
       os_run_test, os_test_result, os_rollback, os_commit, os_close_session,
       os_attach_session, historyVars
  <1>2. CASE Arrives
    <2>1. late' \subseteq late
      BY <1>2 DEF Arrives
    <2>2. granted' = granted
      BY <1>2 DEF Arrives, Handles, Opens, Lists, Describes, Takes, ReadsHistory, Closes, historyVars
    <2> QED
      BY <2>1, <2>2
  <1>3. CASE HearsAnswer \/ GivesUp
    BY <1>3 DEF HearsAnswer, GivesUp, Hears
  <1>4. CASE AnswersHistory \/ DaemonRestarts
    BY <1>4 DEF AnswersHistory, DaemonRestarts, historyVars
  <1>5. ASSUME NEW s \in Sessions, People(s) PROVE HistoryTypes'
    BY <1>5 DEF People, PersonOpens, PersonWorks, IsClosed, Leaves, SetOwner, SetPolicy,
       historyVars, agentVars
  <1>6. ASSUME NEW s \in Sessions, Container(s) PROVE HistoryTypes'
    BY <1>6 DEF Container, Finishes, Overruns, Dies, Autocloses, Leaves, historyVars
  <1> QED
    BY <1>1, <1>2, <1>3, <1>4, <1>5, <1>6 DEF Next

LEMMA NextTypes == TypeOK /\ HistoryTypes /\ Told /\ [Next]_vars => TypeOK' /\ HistoryTypes'
  <1> SUFFICES ASSUME TypeOK, HistoryTypes, Told, [Next]_vars PROVE TypeOK' /\ HistoryTypes'
    OBVIOUS
  <1>1. CASE UsesTool
    <2>1. UNCHANGED sessionVars
      BY <1>1 DEF UsesTool, Begins, os_open_session, os_list_sessions, os_exec, os_source,
         os_run_test, os_test_result, os_rollback, os_commit, os_close_session, os_attach_session
    <2> QED
      BY <1>1, <2>1, ToolTypes, NextHistoryTypes DEF TypeOK, AgentTypes, sessionVars, Next
  <1>2. CASE AnswersHistory
    <2>1. call \in Calls /\ call.got \in Answers
      BY <1>2 DEF AnswersHistory, TypeOK, Calls, Idle
    <2>2. /\ RunShown(call.req.of, call.got) \in Answers
          /\ call.req.of \in Sessions
      BY <1>2, <2>1 DEF AnswersHistory, Calls, Answers, RunShown, Told, Idle
    <2>3. PICK shown \in SUBSET Sessions :
              call' = [call EXCEPT !.at = "answered", !.shows = shown,
                                   !.got = RunShown(call.req.of, call.got)]
      BY <1>2, <2>2 DEF AnswersHistory
    <2>4. call' \in Calls
      BY <2>1, <2>2, <2>3 DEF Calls
    <2> QED
      BY <1>2, <2>4, NextHistoryTypes DEF AnswersHistory, TypeOK, sessionVars, Next
  <1>3. CASE UNCHANGED vars
    BY <1>3 DEF vars, sessionVars, agentVars, historyVars, TypeOK, HistoryTypes
  <1> QED
    BY <1>1, <1>2, <1>3, ArrivesTypes, HearingTypes, RestartTypes, PeopleTypes,
       ContainerTypes, NextHistoryTypes DEF Next

-----------------------------------------------------------------------------
(* What a step that hands nothing over leaves true.                        *)

Rights == Unopened /\ OnlyPeopleGrant /\ AgentKeysAreAgents

(* No session opens, comes back to the table, changes hands or right.      *)
Settled ==
    /\ UNCHANGED <<owners, allow, granted, known>>
    /\ \A s \in Sessions : /\ state'[s] = "new" => state[s] = "new"
                           /\ Registered(s)' => Registered(s)

LEMMA SettledKeepsRights == Rights /\ Settled => Rights'
  BY DEF Rights, Settled, Unopened, OnlyPeopleGrant, AgentKeysAreAgents, Registered, Owner

(* A request asked, or one whose answer puts an end to its waiting.        *)
LEMMA AskedIsTold ==
    ASSUME NEW tool, NEW verb, NEW s, NEW key, NEW check, Asks(tool, verb, s, key, check),
           verb = "history" => s \in Sessions
    PROVE  Told'
  BY DEF Asks, Told

LEMMA WaiterIsTold ==
    ASSUME TypeOK, Told, NEW s, WaitsOn(s), NEW answer, Replies(TRUE, answer)
    PROVE  Told'
  <1>1. call \in Calls /\ call # Idle
    BY WaitsTypes DEF TypeOK, WaitsOn, Idle
  <1>2. call.req.verb \in Work
    BY <1>1 DEF Told, WaitsOn
  <1>3. call' = [call EXCEPT !.at = "answered", !.got = answer]
    BY DEF Replies
  <1> QED
    BY <1>1, <1>2, <1>3 DEF Told, Calls, Work

LEMMA ToldStands == Told /\ UNCHANGED <<call, owners>> => Told'
  BY DEF Told, Idle

LEMMA UntoldStays ==
    ASSUME Told, UNCHANGED call,
           \A s \in Sessions : 1 \in DOMAIN owners[s] /\ owners[s][1] = "agent"
                                   => 1 \in DOMAIN owners'[s] /\ owners'[s][1] = "agent"
    PROVE  Told'
  BY DEF Told

-----------------------------------------------------------------------------
(* One lemma for each kind of step.                                        *)

LEMMA ToolKeeps == IInv /\ UsesTool => Rights' /\ Told'
  <1> SUFFICES ASSUME IInv, UsesTool PROVE Rights' /\ Told'
    OBVIOUS
  <1>1. Settled
    BY DEF UsesTool, Begins, os_open_session, os_list_sessions, os_exec, os_source,
       os_run_test, os_test_result, os_rollback, os_commit, os_close_session,
       os_attach_session, sessionVars, historyVars, Settled, Registered
  <1>2. ASSUME NEW tool, NEW verb, NEW s, Begins(tool, verb, s),
               verb = "history" => s \in Sessions
        PROVE  Told'
    BY <1>2, AskedIsTold DEF Begins
  <1>3. ASSUME os_attach_session PROVE Told'
    <2>1. PICK s, key : Asks("os_attach_session", "get", s, key, "none")
      BY <1>3 DEF os_attach_session
    <2> QED
      BY <2>1, AskedIsTold
  <1>4. Told'
    BY <1>2, <1>3 DEF UsesTool, os_open_session, os_list_sessions, os_exec, os_source,
       os_run_test, os_test_result, os_rollback, os_commit, os_close_session, Opened
  <1> QED
    BY <1>1, <1>4, SettledKeepsRights DEF IInv, Rights

(* Only Opens gives a session an owner, and that owner is the agent whose  *)
(* request it was.                                                         *)
LEMMA OpensKeeps ==
    ASSUME IInv, NEW r, r.verb = "open", NEW mine \in BOOLEAN,
           mine => call \in Calls /\ call.req = r, Opens(r, mine)
    PROVE  Rights' /\ Told'
  <1>1. CASE Replies(mine, "refused") /\ UNCHANGED <<state, owners, autoclose>>
    <2>1. Settled
      BY <1>1 DEF Opens, historyVars, Settled, Registered
    <2>2. Told'
      <3>1. CASE mine
        <4>1. call' = [call EXCEPT !.at = "answered", !.got = "refused"]
          BY <1>1, <3>1 DEF Replies
        <4> QED
          BY <3>1, <4>1 DEF Told, Calls
      <3>2. CASE ~mine
        BY <1>1, <3>2, UntoldStays DEF Replies, IInv
      <3> QED
        BY <3>1, <3>2
    <2> QED
      BY <2>1, <2>2, SettledKeepsRights DEF IInv, Rights
  <1>2. ASSUME NEW s \in Sessions, state[s] = "new",
               state' = [state EXCEPT ![s] = "ready"],
               owners' = [owners EXCEPT ![s] = <<"agent">>],
               call' = IF mine THEN [call EXCEPT !.at = "answered", !.got = "ok", !.req.of = s]
                               ELSE call
        PROVE  Rights' /\ Told'
    <2>1. UNCHANGED <<allow, granted, known>>
      BY DEF Opens, historyVars
    <2>2. owners[s] = <<>> /\ ~allow[s]
      BY <1>2 DEF IInv, Unopened
    <2>3. /\ owners'[s] = <<"agent">> /\ state'[s] = "ready"
          /\ \A x \in Sessions \ {s} : owners'[x] = owners[x] /\ state'[x] = state[x]
      BY <1>2 DEF IInv, TypeOK
    <2>4. Unopened'
      BY <2>1, <2>3 DEF IInv, Unopened
    <2>5. OnlyPeopleGrant'
      BY <2>1, <2>2, <2>3 DEF IInv, OnlyPeopleGrant, Registered, Owner
    <2>6. AgentKeysAreAgents'
      BY <2>1, <2>2, <2>3 DEF IInv, AgentKeysAreAgents
    <2>7. Told'
      <3>1. CASE mine
        <4>1. call'.req.of = s /\ call'.req.verb = "open" /\ call'.at = "answered"
          BY <1>2, <3>1 DEF Calls, Requests
        <4> QED
          BY <2>3, <4>1 DEF Told
      <3>2. CASE ~mine
        BY <1>2, <2>2, <2>3, <3>2, UntoldStays DEF IInv
      <3> QED
        BY <3>1, <3>2
    <2> QED
      BY <2>4, <2>5, <2>6, <2>7 DEF Rights
  <1> QED
    BY <1>1, <1>2 DEF Opens

(* The other requests give no right and no owner.                          *)
LEMMA RefusalNone ==
    ASSUME IInv, NEW r, r.of \in Sessions, Refusal(r) = "none"
    PROVE  state[r.of] = "ready"
  <1>1. Owns(r.of, r.key) /\ state[r.of] \notin {"gone", "busy", "dead"}
    BY DEF Refusal
  <1>2. state[r.of] # "new"
    BY <1>1 DEF IInv, Unopened, Owns
  <1> QED
    BY <1>1, <1>2 DEF IInv, TypeOK

LEMMA RequestSettles ==
    ASSUME IInv, NEW r, NEW mine \in BOOLEAN,
           Lists(r, mine) \/ Describes(r, mine) \/ Takes(r, mine)
               \/ ReadsHistory(r, mine) \/ Closes(r, mine)
    PROVE  Settled
  <1>0. state \in [Sessions -> {"new", "ready", "busy", "dead", "gone"}]
    BY DEF IInv, TypeOK
  <1>1. CASE UNCHANGED sessionVars /\ UNCHANGED <<known, granted>>
    BY <1>1 DEF sessionVars, Settled, Registered
  <1>2. CASE Takes(r, mine)
    <2>1. CASE Refusal(r) # "none"
      BY <1>2, <2>1 DEF Takes, Settled, Registered
    <2>2. CASE Refusal(r) = "none"
      <3>1. state' = [state EXCEPT ![r.of] = "busy"] /\ UNCHANGED <<owners, allow, granted, known>>
        BY <1>2, <2>2 DEF Takes
      <3>2. r.of \in Sessions => Registered(r.of)
        BY <2>2, RefusalNone DEF Registered
      <3> QED
        BY <1>0, <3>1, <3>2 DEF Settled, Registered
    <2> QED
      BY <2>1, <2>2
  <1>3. CASE Closes(r, mine)
    <2>1. CASE LeavesTable(r.of)
      BY <1>0, <1>3, <2>1 DEF Closes, LeavesTable, Settled, Registered, historyVars
    <2> QED
      BY <1>1, <1>3, <2>1 DEF Closes, historyVars
  <1> QED
    BY <1>1, <1>2, <1>3 DEF Lists, Describes, ReadsHistory, historyVars

LEMMA RequestKeeps ==
    ASSUME IInv, NEW r, NEW mine \in BOOLEAN,
           mine => call \in Calls /\ call.req = r /\ call.at = "sent",
           r.verb \in {"list", "history"} => mine,
           Lists(r, mine) \/ Describes(r, mine) \/ Takes(r, mine)
               \/ ReadsHistory(r, mine) \/ Closes(r, mine)
    PROVE  Rights' /\ Told'
  <1>1. Settled
    BY RequestSettles
  <1>2. ASSUME NEW answer, Replies(mine, answer), r.verb # "open"
        PROVE  Told'
    <2>1. CASE mine
      <3>1. call' = [call EXCEPT !.at = "answered", !.got = answer]
        BY <1>2, <2>1 DEF Replies
      <3>2. call'.req = r /\ call'.at = "answered"
        BY <2>1, <3>1 DEF Calls
      <3>3. r.verb = "history" => r.of \in Sessions
        BY <2>1 DEF IInv, Told, Calls, Idle
      <3> QED
        BY <1>2, <3>2, <3>3 DEF Told
    <2>2. CASE ~mine
      BY <1>1, <1>2, <2>2, ToldStands DEF Replies, Settled, IInv
    <2> QED
      BY <2>1, <2>2
  <1>3. ASSUME Lists(r, mine) PROVE Told'
    <2>1. mine /\ r.verb = "list"
      BY <1>3 DEF Lists
    <2>2. PICK shown : call' = [call EXCEPT !.at = "answered", !.got = "ok", !.shows = shown]
      BY <1>3 DEF Lists
    <2>3. call'.req = r /\ call'.at = "answered"
      BY <2>1, <2>2 DEF Calls
    <2> QED
      BY <2>1, <2>3 DEF Told
  <1>4. ASSUME Describes(r, mine) PROVE Told'
    <2>1. PICK answer : Replies(mine, answer)
      BY <1>4 DEF Describes
    <2> QED
      BY <1>2, <1>4, <2>1 DEF Describes
  <1>5. ASSUME Takes(r, mine) PROVE Told'
    <2>0. r.verb \in Work
      BY <1>5 DEF Takes
    <2>1. CASE Refusal(r) # "none"
      <3>1. Replies(mine, Refusal(r))
        BY <1>5, <2>1 DEF Takes
      <3> QED
        BY <1>2, <2>0, <3>1 DEF Work
    <2>2. CASE Refusal(r) = "none" /\ mine
      <3>1. call' = [call EXCEPT !.at = "working"]
        BY <1>5, <2>2 DEF Takes
      <3>2. call'.req = r /\ call'.at = "working"
        BY <2>2, <3>1 DEF Calls
      <3> QED
        BY <2>0, <3>2 DEF Told, Work
    <2>3. CASE Refusal(r) = "none" /\ ~mine
      <3>1. call' = call
        BY <1>5, <2>3 DEF Takes
      <3> QED
        BY <1>1, <3>1, ToldStands DEF Settled, IInv
    <2> QED
      BY <2>1, <2>2, <2>3
  <1>6. ASSUME ReadsHistory(r, mine) PROVE Told'
    <2>1. mine /\ r.verb = "history"
      BY <1>6 DEF ReadsHistory
    <2>2. PICK answer : call' = [call EXCEPT !.at = "reading", !.got = answer]
      BY <1>6 DEF ReadsHistory
    <2>3. call'.req = r /\ call'.at = "reading"
      BY <2>1, <2>2 DEF Calls
    <2>4. r.of \in Sessions
      BY <2>1 DEF IInv, Told, Calls, Idle
    <2> QED
      BY <2>1, <2>3, <2>4 DEF Told
  <1>7. ASSUME Closes(r, mine) PROVE Told'
    <2>1. CASE WaitsOn(r.of) /\ Replies(TRUE, "gone")
      BY <2>1, WaiterIsTold DEF IInv
    <2>2. CASE Replies(mine, "ok") \/ Replies(mine, "refused") \/ Replies(mine, "gone")
      BY <1>2, <1>7, <2>2 DEF Closes
    <2> QED
      BY <1>7, <2>1, <2>2 DEF Closes
  <1> QED
    BY <1>1, <1>3, <1>4, <1>5, <1>6, <1>7, SettledKeepsRights DEF IInv, Rights

LEMMA ArrivesKeeps == IInv /\ Arrives => Rights' /\ Told'
  <1> SUFFICES ASSUME IInv, Arrives PROVE Rights' /\ Told'
    OBVIOUS
  <1>1. CASE call.at = "sent" /\ Handles(call.req, TRUE)
    <2>1. call \in Calls
      BY <1>1 DEF IInv, TypeOK, Idle
    <2> QED
      BY <1>1, <2>1, OpensKeeps, RequestKeeps DEF Handles, Opens
  <1>2. ASSUME NEW r \in late, Handles(r, FALSE) PROVE Rights' /\ Told'
    <2>1. r.verb \notin {"list", "history"}
      BY <1>2, AgentAssumption DEF IInv, HistoryTypes
    <2> QED
      BY <1>2, <2>1, OpensKeeps, RequestKeeps DEF Handles, Opens
  <1> QED
    BY <1>1, <1>2 DEF Arrives

(* What an agent learns is the key of a session opened for it.             *)
LEMMA HearsKeeps == IInv /\ (HearsAnswer \/ GivesUp) => Rights' /\ Told'
  <1> SUFFICES ASSUME IInv, HearsAnswer \/ GivesUp PROVE Rights' /\ Told'
    OBVIOUS
  <1>1. PICK answer \in {call.got, "none"} : Hears(answer) /\ (answer = "ok" => call.at = "answered")
    BY DEF HearsAnswer, GivesUp, IInv
  <1>2. call \in Calls /\ call # Idle
    BY DEF IInv, TypeOK, HearsAnswer, GivesUp, Idle, Calls
  <1>3. UNCHANGED <<state, owners, allow, granted>>
    BY <1>1 DEF Hears, sessionVars
  <1> DEFINE learnt == {<<call.req.of, 1>>}
  <1>4. known' = known \/ (/\ known' = known \cup learnt
                           /\ call.req.verb = "open" /\ answer = "ok")
    BY <1>1 DEF Hears, HearsOpen, HearsList, HearsAttach, HearsCheck, HearsHistory, HearsRest
  <1>5. AgentKeysAreAgents'
    <2>1. CASE known' = known
      BY <1>3, <2>1 DEF IInv, AgentKeysAreAgents
    <2>2. CASE known' = known \cup learnt /\ call.req.verb = "open" /\ answer = "ok"
      <3>1. /\ 1 \in DOMAIN owners[call.req.of]
            /\ owners[call.req.of][1] = "agent"
        BY <1>1, <1>2, <2>2 DEF IInv, Told
      <3> QED
        BY <1>3, <2>2, <3>1 DEF IInv, AgentKeysAreAgents
    <2> QED
      BY <1>4, <2>1, <2>2
  <1>6. Unopened' /\ OnlyPeopleGrant'
    BY <1>3 DEF IInv, Unopened, OnlyPeopleGrant, Registered, Owner
  <1>7. call.req.verb = "history" => call.req.of \in Sessions
    BY <1>2 DEF IInv, Told
  <1>8. ASSUME Done PROVE Told'
    BY <1>8 DEF Done, Told, Idle
  <1>9. Told'
    BY <1>1, <1>7, <1>8, AskedIsTold DEF Hears, HearsOpen, HearsList, HearsAttach, HearsCheck,
       HearsHistory, HearsRest
  <1> QED
    BY <1>5, <1>6, <1>9 DEF Rights

LEMMA ContainerKeeps ==
    ASSUME IInv, NEW s \in Sessions, Container(s) \/ IsClosed(s)
    PROVE  Rights' /\ Told'
  <1>1. Settled
    BY DEF IInv, TypeOK, Container, IsClosed, Finishes, Books, Overruns, Dies, Autocloses,
       Leaves, LeavesTable, historyVars, Settled, Registered
  <1>2. ASSUME UNCHANGED call PROVE Told'
    BY <1>1, <1>2, ToldStands DEF IInv, Settled
  <1>3. ASSUME NEW answer, WaitsOn(s), Replies(TRUE, answer) PROVE Told'
    BY <1>3, WaiterIsTold DEF IInv
  <1>4. Told'
    BY <1>2, <1>3 DEF Container, IsClosed, Finishes, Overruns, Dies, Autocloses, Leaves
  <1> QED
    BY <1>1, <1>4, SettledKeepsRights DEF IInv, Rights

LEMMA DaemonKeeps == IInv /\ (AnswersHistory \/ DaemonRestarts) => Rights' /\ Told'
  <1> SUFFICES ASSUME IInv, AnswersHistory \/ DaemonRestarts PROVE Rights' /\ Told'
    OBVIOUS
  <1>1. Settled
    BY DEF IInv, TypeOK, AnswersHistory, DaemonRestarts, sessionVars, historyVars,
       Settled, Registered
  <1>2. CASE AnswersHistory
    <2>1. call \in Calls /\ call.req.verb = "history" /\ call.req.of \in Sessions
      BY <1>2 DEF IInv, TypeOK, AnswersHistory, Told, Idle
    <2> QED
      BY <1>1, <1>2, <2>1, SettledKeepsRights DEF IInv, Rights, AnswersHistory, Told, Calls
  <1>3. CASE DaemonRestarts
    <2>1. CASE call = Idle
      BY <1>1, <1>3, <2>1, SettledKeepsRights DEF IInv, Rights, DaemonRestarts, Told, Idle
    <2>2. CASE call \in Calls
      <3>1. call' = [call EXCEPT !.at = "answered", !.got = "none", !.shows = {}]
        BY <1>3, <2>2 DEF DaemonRestarts, Calls
      <3>2. call # Idle
        BY <1>3, <2>2 DEF Calls, Idle
      <3> QED
        BY <1>1, <2>2, <3>1, <3>2, SettledKeepsRights DEF IInv, Rights, Told, Calls
    <2> QED
      BY <2>1, <2>2 DEF IInv, TypeOK
  <1> QED
    BY <1>2, <1>3

-----------------------------------------------------------------------------
(* Handing a session over, and granting the right.                         *)

(* The gate of both, for whoever is not a person: the key shown is one the *)
(* agent knows, and it was not issued to a human.                          *)
LEMMA AgentsAreNotHuman ==
    ASSUME AgentKeysAreAgents, NEW s \in Sessions, NEW who \in Askers(s), ~who.admin
    PROVE  ~HeldByHuman(s, who.key)
  <1>1. PICK k \in 1..MaxKeys : <<s, k>> \in known /\ who = [key |-> k, admin |-> FALSE]
    BY DEF Askers
  <1>2. owners[s][who.key] = "agent"
    BY <1>1 DEF AgentKeysAreAgents
  <1> QED
    BY <1>2 DEF HeldByHuman

LEMMA HandoverKeeps ==
    ASSUME IInv, NEW s \in Sessions, NEW who \in Askers(s), NEW kind \in {"human", "agent"},
           SetOwner(s, who, kind)
    PROVE  Rights' /\ Told'
  <1>1. owners[s] \in Seq({"human", "agent"})
    BY DEF IInv, TypeOK
  <1>2. /\ owners'[s] = Append(owners[s], kind)
        /\ allow'[s] = StartsWithCommit(s, kind)
        /\ \A x \in Sessions \ {s} :
               owners'[x] = owners[x] /\ allow'[x] = allow[x] /\ granted'[x] = granted[x]
        /\ state' = state
    BY DEF SetOwner, IInv, TypeOK, HistoryTypes
  <1>3. /\ Len(owners'[s]) = Len(owners[s]) + 1
        /\ owners'[s][Len(owners[s]) + 1] = kind
        /\ \A k \in DOMAIN owners[s] : k \in DOMAIN owners'[s] /\ owners'[s][k] = owners[s][k]
        /\ Len(owners[s]) + 1 \in DOMAIN owners'[s]
    BY <1>1, <1>2
  <1>4. Unopened'
    BY <1>2 DEF IInv, Unopened, SetOwner, Registered
  <1>5. OnlyPeopleGrant'
    BY <1>2, <1>3 DEF IInv, OnlyPeopleGrant, Registered, Owner, StartsWithCommit
  <1>6. AgentKeysAreAgents'
    <2>1. kind = "human" => who.admin
      BY AgentsAreNotHuman DEF SetOwner, MaySetOwner, IInv
    <2>2. known' = known \/ (known' = known \cup {<<s, Len(owners[s]) + 1>>} /\ kind = "agent")
      BY <2>1 DEF SetOwner
    <2>3. \A x \in Sessions : \A k \in DOMAIN owners[x] :
              k \in DOMAIN owners'[x] /\ owners'[x][k] = owners[x][k]
      BY <1>2, <1>3
    <2> QED
      BY <1>3, <2>2, <2>3 DEF IInv, AgentKeysAreAgents
  <1>7. Told'
    BY <1>2, <1>3, UntoldStays DEF SetOwner, IInv
  <1> QED
    BY <1>4, <1>5, <1>6, <1>7 DEF Rights

LEMMA GrantKeeps ==
    ASSUME IInv, NEW s \in Sessions, NEW who \in Askers(s), NEW allowed \in BOOLEAN,
           SetPolicy(s, who, allowed)
    PROVE  Rights' /\ Told'
  <1>1. allowed => who.admin
    BY AgentsAreNotHuman DEF SetPolicy, MaySetPolicy, IInv
  <1>2. /\ allow'[s] = allowed
        /\ \A x \in Sessions \ {s} : allow'[x] = allow[x] /\ granted'[x] = granted[x]
        /\ UNCHANGED <<state, owners, known, call>>
    BY DEF SetPolicy, IInv, TypeOK, HistoryTypes, agentVars
  <1>3. allowed => granted'[s]
    BY <1>1 DEF SetPolicy, IInv, HistoryTypes
  <1>4. Unopened' /\ OnlyPeopleGrant' /\ AgentKeysAreAgents'
    BY <1>2, <1>3 DEF IInv, Unopened, OnlyPeopleGrant, AgentKeysAreAgents, Registered, Owner,
       SetPolicy
  <1>5. Told'
    BY <1>2, UntoldStays DEF IInv
  <1> QED
    BY <1>4, <1>5 DEF Rights

LEMMA PeopleKeeps ==
    ASSUME IInv, NEW s \in Sessions, People(s)
    PROVE  Rights' /\ Told'
  <1>1. CASE PersonOpens(s)
    <2>1. owners[s] = <<>>
      BY <1>1 DEF PersonOpens, IInv, Unopened
    <2>2. /\ owners'[s] = <<"human">> /\ allow'[s] /\ state'[s] = "ready"
          /\ \A x \in Sessions \ {s} :
                 owners'[x] = owners[x] /\ allow'[x] = allow[x] /\ state'[x] = state[x]
          /\ UNCHANGED <<granted, known, call>>
      BY <1>1 DEF PersonOpens, IInv, TypeOK, agentVars, historyVars
    <2>3. Unopened' /\ OnlyPeopleGrant'
      BY <2>2 DEF IInv, Unopened, OnlyPeopleGrant, Registered, Owner
    <2>4. AgentKeysAreAgents'
      BY <2>1, <2>2 DEF IInv, AgentKeysAreAgents
    <2>5. Told'
      BY <2>1, <2>2, UntoldStays DEF IInv
    <2> QED
      BY <2>3, <2>4, <2>5 DEF Rights
  <1>2. CASE PersonWorks(s)
    <2>1. Settled
      BY <1>2 DEF PersonWorks, agentVars, historyVars, Settled, Registered
    <2> QED
      BY <1>2, <2>1, SettledKeepsRights, UntoldStays DEF IInv, Rights, PersonWorks, agentVars
  <1> QED
    BY <1>1, <1>2, ContainerKeeps, HandoverKeeps, GrantKeeps DEF People

-----------------------------------------------------------------------------
(* The invariant holds at the start.                                       *)
THEOREM InitIInv == Init => IInv
  BY InitTypes DEF Init, IInv, Unopened, Told, OnlyPeopleGrant, AgentKeysAreAgents, Registered

(* Every step keeps it.                                                    *)
THEOREM NextIInv == IInv /\ [Next]_vars => IInv'
  <1> SUFFICES ASSUME IInv, [Next]_vars PROVE IInv'
    OBVIOUS
  <1>1. TypeOK' /\ HistoryTypes'
    BY NextTypes DEF IInv
  <1>2. CASE UNCHANGED vars
    <2>1. Settled
      BY <1>2 DEF vars, sessionVars, agentVars, historyVars, Settled, Registered
    <2>2. Told' /\ Rights'
      BY <1>2, <2>1, SettledKeepsRights, UntoldStays
         DEF IInv, Rights, vars, sessionVars, agentVars
    <2> QED
      BY <1>1, <2>2 DEF IInv, Rights
  <1>3. CASE Next
    <2>1. Rights' /\ Told'
      BY <1>3, ToolKeeps, ArrivesKeeps, HearsKeeps, DaemonKeeps, PeopleKeeps, ContainerKeeps
         DEF Next
    <2> QED
      BY <1>1, <2>1 DEF IInv, Rights
  <1> QED
    BY <1>2, <1>3

(* The variables hold what the code puts in them.                          *)
THEOREM TypeCorrect == Spec => []TypeOK
  <1>1. IInv => TypeOK
    BY DEF IInv
  <1> QED
    BY <1>1, InitIInv, NextIInv, PTL DEF Spec

(* No key an agent holds or ever held grants it the right to commit: where *)
(* it may, a person said so since the session last changed hands           *)
(* (require_human_or_admin and transfer_owner, with held_by).              *)
THEOREM AgentsNeverGrant == Spec => []OnlyPeopleGrant
  <1>1. IInv => OnlyPeopleGrant
    BY DEF IInv
  <1> QED
    BY <1>1, InitIInv, NextIInv, PTL DEF Spec

(* Every key an agent comes to know was issued to an agent.                *)
THEOREM AgentsHoldAgentKeys == Spec => []AgentKeysAreAgents
  <1>1. IInv => AgentKeysAreAgents
    BY DEF IInv
  <1> QED
    BY <1>1, InitIInv, NextIInv, PTL DEF Spec

-----------------------------------------------------------------------------
(* What a tool was told, and what it then does or says of it.              *)

(* A history that says a session is gone says so of one that has left for  *)
(* good, and had no result when it was answered.                           *)
HistoryIsTrue ==
    call # Idle /\ call.req.verb = "history" =>
        /\ state[call.req.of] # "new"
        /\ call.got = "gone" => state[call.req.of] = "gone"
        /\ call.got = "gone" /\ call.at = "answered" => ~HasResult(call.req.of)

LostIsGone == \A s \in lost : s \in Sessions /\ state[s] = "gone" /\ ~HasResult(s)

LostInv == HistoryIsTrue /\ LostIsGone

(* A key that an agent holds was issued to it, or opens nothing.           *)
HeldIsKnown == \A s \in DOMAIN held : held[s] = 0 \/ <<s, held[s]>> \in known

(* Work inherited after a check was answered costs the checked request its *)
(* key.                                                                    *)
StillOwn(r) ==
    /\ r.of \in Sessions
    /\ r.key <= Len(owners[r.of])
    /\ inherited[r.of] = 0 \/ r.key < Len(owners[r.of])

Checking(r) == r.tool = "os_commit" /\ r.verb = "get"

Checked(r) == r.check = "answered" => r.verb = "commit" /\ StillOwn(r)

CheckInv ==
    /\ HeldIsKnown
    /\ call # Idle =>
          /\ Checking(call.req) =>
                /\ call.req.of \in Sessions
                /\ call.req.key = KeyFor(call.req.of)
                /\ call.at = "answered" /\ call.got = "ok" => StillOwn(call.req)
          /\ Checked(call.req)
    /\ \A r \in late : Checked(r)
    /\ CheckedCommitIsOwn

(* What any step leaves true of a session: one that is gone stays gone     *)
(* with the run it had, an opened one is never new again, nobody who owned *)
(* it is forgotten, and work becomes inherited only by a handover.         *)
Onward ==
    \A s \in Sessions :
        /\ state[s] = "gone" => state'[s] = "gone" /\ run'[s] = run[s]
        /\ state[s] # "new" => state'[s] # "new"
        /\ Len(owners'[s]) >= Len(owners[s])
        /\ inherited'[s] \in {0, inherited[s]} \/ Len(owners'[s]) > Len(owners[s])

LEMMA OwnersLength ==
    ASSUME IInv, NEW s \in Sessions
    PROVE  Len(owners[s]) \in Nat /\ DOMAIN owners[s] = 1..Len(owners[s])
  BY DEF IInv, TypeOK

LEMMA StandingIsOnward == IInv /\ UNCHANGED sessionVars => Onward
  <1> SUFFICES ASSUME IInv, UNCHANGED sessionVars PROVE Onward
    OBVIOUS
  <1>1. \A s \in Sessions : Len(owners[s]) \in Nat
    BY OwnersLength
  <1> QED
    BY <1>1 DEF Onward, sessionVars

(* A session opens: it had no owner.                                       *)
LEMMA OpeningIsOnward ==
    ASSUME IInv, NEW s \in Sessions, NEW kind, state[s] = "new",
           state' = [state EXCEPT ![s] = "ready"],
           owners' = [owners EXCEPT ![s] = <<kind>>],
           UNCHANGED <<inherited, run>>
    PROVE  Onward
  <1>1. owners[s] = <<>>
    BY DEF IInv, Unopened
  <1>2. /\ state'[s] = "ready" /\ owners'[s] = <<kind>>
        /\ \A x \in Sessions \ {s} : owners'[x] = owners[x] /\ state'[x] = state[x]
    BY DEF IInv, TypeOK
  <1>3. Len(owners'[s]) > Len(owners[s]) /\ Len(owners'[s]) >= Len(owners[s])
    BY <1>1, <1>2
  <1>4. \A x \in Sessions : Len(owners[x]) \in Nat
    BY OwnersLength
  <1> QED
    BY <1>2, <1>3, <1>4 DEF Onward

(* One session changes and keeps its owners.                               *)
LEMMA ChangeIsOnward ==
    ASSUME IInv, NEW s \in Sessions, state[s] \notin {"new", "gone"}, state'[s] # "new",
           \A x \in Sessions \ {s} : /\ state'[x] = state[x] /\ run'[x] = run[x]
                                     /\ inherited'[x] = inherited[x],
           inherited'[s] \in {0, inherited[s]},
           UNCHANGED owners
    PROVE  Onward
  <1>1. \A x \in Sessions : Len(owners[x]) \in Nat
    BY OwnersLength
  <1> QED
    BY <1>1 DEF Onward

LEMMA LeavingIsOnward ==
    ASSUME IInv, NEW s \in Sessions, Registered(s), LeavesTable(s)
    PROVE  Onward
  <1>1. state'[s] = "gone" /\ \A x \in Sessions \ {s} : state'[x] = state[x]
    BY DEF LeavesTable, IInv, TypeOK
  <1> QED
    BY <1>1, ChangeIsOnward DEF LeavesTable, Registered

LEMMA RequestIsOnward ==
    ASSUME IInv, NEW r \in Requests, NEW mine \in BOOLEAN, Handles(r, mine)
    PROVE  Onward
  <1>1. CASE Opens(r, mine)
    <2>1. CASE UNCHANGED <<state, owners, autoclose>>
      BY <1>1, <2>1, StandingIsOnward DEF Opens, sessionVars
    <2>2. ASSUME NEW s \in Sessions, state[s] = "new",
                 state' = [state EXCEPT ![s] = "ready"],
                 owners' = [owners EXCEPT ![s] = <<"agent">>]
          PROVE  Onward
      BY <1>1, <2>2, OpeningIsOnward DEF Opens
    <2> QED
      BY <1>1, <2>1, <2>2 DEF Opens
  <1>2. CASE UNCHANGED sessionVars
    BY <1>2, StandingIsOnward
  <1>3. CASE Takes(r, mine)
    <2>1. CASE Refusal(r) # "none"
      BY <1>2, <1>3, <2>1 DEF Takes, sessionVars
    <2>2. CASE Refusal(r) = "none" /\ r.of \in Sessions
      <3>1. state[r.of] = "ready"
        BY <2>2, RefusalNone
      <3>2. /\ state'[r.of] = "busy"
            /\ \A x \in Sessions \ {r.of} : state'[x] = state[x]
        BY <1>3, <2>2 DEF Takes, IInv, TypeOK
      <3>3. /\ inherited'[r.of] \in {0, inherited[r.of]}
            /\ \A x \in Sessions \ {r.of} : run'[x] = run[x] /\ inherited'[x] = inherited[x]
        BY <1>3, <2>2 DEF Takes, IInv, TypeOK
      <3>4. UNCHANGED owners
        BY <1>3 DEF Takes
      <3> QED
        BY <2>2, <3>1, <3>2, <3>3, <3>4, ChangeIsOnward
    <2>3. CASE Refusal(r) = "none" /\ r.of \notin Sessions
      <3>1. UNCHANGED owners /\ \A x \in Sessions : state'[x] = state[x]
        BY <1>3, <2>3 DEF Takes, IInv, TypeOK
      <3>2. \A x \in Sessions : run'[x] = run[x] /\ inherited'[x] = inherited[x]
        BY <1>3, <2>3 DEF Takes, IInv, TypeOK
      <3>3. \A x \in Sessions : Len(owners[x]) \in Nat
        BY OwnersLength
      <3> QED
        BY <3>1, <3>2, <3>3 DEF Onward
    <2> QED
      BY <2>1, <2>2, <2>3
  <1>4. CASE Closes(r, mine)
    <2>1. CASE LeavesTable(r.of) /\ Registered(r.of)
      <3>1. CASE r.of \in Sessions
        BY <2>1, <3>1, LeavingIsOnward
      <3>2. CASE r.of \notin Sessions
        <4>1. state' = state
          BY <2>1, <3>2 DEF LeavesTable, IInv, TypeOK
        <4>2. \A x \in Sessions : Len(owners[x]) \in Nat
          BY OwnersLength
        <4> QED
          BY <2>1, <4>1, <4>2 DEF LeavesTable, Onward
      <3> QED
        BY <3>1, <3>2
    <2> QED
      BY <1>2, <1>4, <2>1 DEF Closes, Registered
  <1> QED
    BY <1>1, <1>2, <1>3, <1>4 DEF Handles, Lists, Describes, ReadsHistory

LEMMA HandoverIsOnward ==
    ASSUME IInv, NEW s \in Sessions, NEW who, NEW kind \in {"human", "agent"},
           SetOwner(s, who, kind)
    PROVE  Onward
  <1>1. owners[s] \in Seq({"human", "agent"})
    BY DEF IInv, TypeOK
  <1>2. /\ owners'[s] = Append(owners[s], kind)
        /\ \A x \in Sessions \ {s} : owners'[x] = owners[x] /\ inherited'[x] = inherited[x]
        /\ UNCHANGED <<state, run>>
    BY DEF SetOwner, IInv, TypeOK
  <1>3. Len(owners'[s]) = Len(owners[s]) + 1
    BY <1>1, <1>2
  <1>4. \A x \in Sessions : Len(owners[x]) \in Nat
    BY OwnersLength
  <1>5. Len(owners'[s]) > Len(owners[s]) /\ Len(owners'[s]) >= Len(owners[s])
    BY <1>3, <1>4
  <1> QED
    BY <1>2, <1>4, <1>5 DEF Onward

LEMMA ContainerIsOnward ==
    ASSUME IInv, NEW s \in Sessions, Container(s) \/ IsClosed(s)
    PROVE  Onward
  <1>1. CASE Finishes(s)
    <2>1. /\ state[s] = "busy" /\ state'[s] = "ready"
          /\ \A x \in Sessions \ {s} : state'[x] = state[x]
      BY <1>1 DEF Finishes, Books, IInv, TypeOK
    <2>2. \A x \in Sessions \ {s} : run'[x] = run[x]
      BY <1>1 DEF Finishes, Books, IInv, TypeOK
    <2>3. /\ inherited'[s] \in {0, inherited[s]}
          /\ \A x \in Sessions \ {s} : inherited'[x] = inherited[x]
      BY <1>1 DEF Finishes, Books, IInv, TypeOK
    <2>4. UNCHANGED owners
      BY <1>1 DEF Finishes, Books
    <2> QED
      BY <2>1, <2>2, <2>3, <2>4, ChangeIsOnward
  <1>2. CASE Overruns(s)
    <2>1. /\ state[s] = "busy" /\ UNCHANGED <<state, owners, inherited>>
      BY <1>2 DEF Overruns
    <2>2. \A x \in Sessions \ {s} : run'[x] = run[x]
      BY <1>2 DEF Overruns, IInv, TypeOK
    <2> QED
      BY <2>1, <2>2, ChangeIsOnward
  <1>3. CASE Dies(s)
    <2>1. /\ state[s] \in {"ready", "busy"} /\ state'[s] = "dead"
          /\ \A x \in Sessions \ {s} : state'[x] = state[x]
          /\ UNCHANGED <<owners, inherited, run>>
      BY <1>3 DEF Dies, IInv, TypeOK
    <2> QED
      BY <2>1, ChangeIsOnward
  <1>4. CASE Leaves(s)
    BY <1>4, LeavingIsOnward DEF Leaves
  <1> QED
    BY <1>1, <1>2, <1>3, <1>4 DEF Container, Autocloses, IsClosed

LEMMA PeopleIsOnward ==
    ASSUME IInv, NEW s \in Sessions, People(s)
    PROVE  Onward
  <1>1. CASE PersonOpens(s)
    BY <1>1, OpeningIsOnward DEF PersonOpens
  <1>2. CASE PersonWorks(s)
    <2>1. /\ state[s] = "ready" /\ UNCHANGED <<state, owners, run>>
          /\ inherited'[s] \in {0, inherited[s]}
          /\ \A x \in Sessions \ {s} : inherited'[x] = inherited[x]
      BY <1>2 DEF PersonWorks, IInv, TypeOK
    <2> QED
      BY <2>1, ChangeIsOnward
  <1>3. ASSUME NEW who, NEW allowed, SetPolicy(s, who, allowed) PROVE Onward
    <2>1. UNCHANGED <<state, owners, inherited, run>>
      BY <1>3 DEF SetPolicy
    <2>2. \A x \in Sessions : Len(owners[x]) \in Nat
      BY OwnersLength
    <2> QED
      BY <2>1, <2>2 DEF Onward
  <1> QED
    BY <1>1, <1>2, <1>3, HandoverIsOnward, ContainerIsOnward DEF People

LEMMA NextIsOnward == IInv /\ [Next]_vars => Onward
  <1> SUFFICES ASSUME IInv, [Next]_vars PROVE Onward
    OBVIOUS
  <1>1. CASE UNCHANGED sessionVars
    BY <1>1, StandingIsOnward
  <1>2. CASE UsesTool
    BY <1>1, <1>2 DEF UsesTool, Begins, os_open_session, os_list_sessions, os_exec, os_source,
       os_run_test, os_test_result, os_rollback, os_commit, os_close_session, os_attach_session
  <1>3. CASE Arrives
    <2>1. ASSUME call.at = "sent", Handles(call.req, TRUE) PROVE Onward
      <3>1. call.req \in Requests
        BY <2>1 DEF IInv, TypeOK, Idle, Calls
      <3> QED
        BY <2>1, <3>1, RequestIsOnward
    <2>2. ASSUME NEW r \in late, Handles(r, FALSE) PROVE Onward
      <3>1. r \in Requests
        BY DEF IInv, TypeOK
      <3> QED
        BY <2>2, <3>1, RequestIsOnward
    <2> QED
      BY <1>3, <2>1, <2>2 DEF Arrives
  <1>4. CASE DaemonRestarts
    <2>1. \A s \in Sessions : Len(owners[s]) \in Nat
      BY OwnersLength
    <2> QED
      BY <1>4, <2>1 DEF DaemonRestarts, Onward, IInv, TypeOK, Registered
  <1> QED
    BY <1>1, <1>2, <1>3, <1>4, PeopleIsOnward, ContainerIsOnward
       DEF Next, HearsAnswer, GivesUp, Hears, AnswersHistory, vars

(* The request under way, one of:                                          *)
(* the tool is done, or its request stands as it was;                      *)
CallStands == call' \in {call, Idle}

(* it asks: a history only of a session that was opened, a check with the  *)
(* key it holds, and a checked commit only when the work is its own;       *)
CallAsks ==
    \E tool \in Tools, verb \in Verbs, s \in Sessions \cup {NoSession},
       key \in 0..MaxKeys, check \in Checks :
        /\ Asks(tool, verb, s, key, check)
        /\ verb = "history" => s \in Sessions /\ state'[s] # "new"
        /\ tool = "os_commit" /\ verb = "get" => s \in Sessions /\ key = KeyFor(s)'
        /\ check = "answered" => /\ verb = "commit" /\ s \in Sessions
                                 /\ key <= Len(owners'[s])
                                 /\ inherited'[s] = 0 \/ key < Len(owners'[s])

(* its request moves on, towards the answer that the daemon's state gives. *)
CallMovesOn ==
    /\ call \in Calls
    /\ call' \in Calls
    /\ call'.req.verb = call.req.verb
    /\ call'.req.tool = call.req.tool
    /\ call'.req.check = call.req.check
    /\ call.req.verb # "open" => call'.req = call.req
    /\ call.req.verb = "history" /\ call'.got = "gone" =>
           \/ call'.at # "answered" /\ ~Registered(call.req.of)
           \/ call.got = "gone" /\ ~HasResult(call.req.of)'
    /\ Checking(call.req) /\ call'.got = "ok" =>
           Registered(call.req.of) /\ inherited[call.req.of] = 0

CallSteps ==
    \/ CallStands /\ (call' = call => held' = held)
    \/ CallAsks
    \/ CallMovesOn /\ held' = held

LEMMA RepliesMovesOn ==
    ASSUME call \in Calls, NEW answer \in Answers, Replies(TRUE, answer),
           call.req.verb # "history", ~Checking(call.req) \/ answer # "ok"
    PROVE  CallMovesOn
  <1>1. call' = [call EXCEPT !.at = "answered", !.got = answer]
    BY DEF Replies
  <1> QED
    BY <1>1 DEF CallMovesOn, Calls

LEMMA WaiterMovesOn ==
    ASSUME IInv, NEW s, WaitsOn(s), NEW answer \in Answers, Replies(TRUE, answer)
    PROVE  CallMovesOn
  <1>1. call \in Calls /\ call # Idle
    BY WaitsTypes DEF IInv, TypeOK, WaitsOn, Idle
  <1>2. call.req.verb \in Work
    BY <1>1 DEF IInv, Told, WaitsOn
  <1> QED
    BY <1>1, <1>2, RepliesMovesOn DEF Work, Checking

LEMMA RequestMoves ==
    ASSUME IInv, NEW r \in Requests, NEW mine \in BOOLEAN,
           mine => call \in Calls /\ call.req = r /\ call.at = "sent",
           r.verb \in {"list", "history", "get"} => mine,
           CheckInv,
           Handles(r, mine)
    PROVE  CallSteps
  <1>0. held' = held
    BY DEF Handles, Opens, Lists, Describes, Takes, ReadsHistory, Closes
  <1>1. ASSUME NEW answer \in Answers, Replies(mine, answer),
               r.verb # "history", ~Checking(r) \/ answer # "ok"
        PROVE  CallSteps
    <2>1. CASE mine
      BY <1>0, <1>1, <2>1, RepliesMovesOn DEF CallSteps
    <2>2. CASE ~mine
      BY <1>0, <1>1, <2>2 DEF Replies, CallSteps, CallStands
    <2> QED
      BY <2>1, <2>2
  <1>2. CASE Opens(r, mine)
    <2>1. CASE Replies(mine, "refused")
      BY <1>1, <1>2, <2>1 DEF Opens, Checking, Answers
    <2>2. ASSUME NEW s \in Sessions, mine,
                 call' = [call EXCEPT !.at = "answered", !.got = "ok", !.req.of = s]
          PROVE  CallMovesOn
      <3>1. call.req.verb = "open"
        BY <1>2, <2>2 DEF Opens
      <3>2. call' = [call EXCEPT !.at = "answered", !.got = "ok",
                                 !.req = [call.req EXCEPT !.of = s]]
        BY <2>2 DEF Calls
      <3>3. call.req \in Requests /\ [call.req EXCEPT !.of = s] \in Requests
        BY <2>2 DEF Calls, Requests
      <3>4. call' \in Calls
        BY <2>2, <3>2, <3>3 DEF Calls, Answers
      <3>5. call'.req = [call.req EXCEPT !.of = s]
        BY <2>2, <3>2 DEF Calls
      <3> QED
        BY <2>2, <3>1, <3>3, <3>4, <3>5 DEF CallMovesOn, Checking, Requests
    <2> QED
      BY <1>0, <1>2, <2>1, <2>2 DEF Opens, CallSteps, CallStands
  <1>3. CASE Lists(r, mine)
    <2>1. mine /\ r.verb = "list"
      BY <1>3 DEF Lists
    <2>2. PICK shown \in SUBSET Sessions :
              call' = [call EXCEPT !.at = "answered", !.got = "ok", !.shows = shown]
      BY <1>3 DEF Lists
    <2> QED
      BY <1>0, <2>1, <2>2 DEF CallSteps, CallMovesOn, Calls, Answers, Checking
  <1>4. CASE Describes(r, mine)
    <2>0. mine /\ call \in Calls /\ call.req = r
      BY <1>4 DEF Describes
    <2>1. PICK answer \in Answers :
              /\ Replies(mine, answer)
              /\ Checking(r) /\ answer = "ok" => Registered(r.of) /\ ~(inherited[r.of] > 0)
      BY <1>4 DEF Describes, Checking, Answers, KeyStatus
    <2>2. call' = [call EXCEPT !.at = "answered", !.got = answer]
      BY <2>0, <2>1 DEF Replies
    <2>3. Checking(r) => r.of \in Sessions
      BY <2>0 DEF CheckInv, Calls, Idle
    <2>4. Checking(r) /\ answer = "ok" => Registered(r.of) /\ inherited[r.of] = 0
      BY <2>1, <2>3, AgentAssumption DEF IInv, TypeOK
    <2>5. r.verb = "get"
      BY <1>4 DEF Describes
    <2> QED
      BY <1>0, <2>0, <2>2, <2>4, <2>5 DEF CallSteps, CallMovesOn, Calls
  <1>5. CASE Takes(r, mine)
    <2>0. r.verb \in Work
      BY <1>5 DEF Takes
    <2>1. CASE Refusal(r) # "none"
      BY <1>1, <1>5, <2>0, <2>1 DEF Takes, Refusal, Answers, Work, Checking
    <2>2. CASE Refusal(r) = "none" /\ mine
      <3>1. call' = [call EXCEPT !.at = "working"]
        BY <1>5, <2>2 DEF Takes
      <3> QED
        BY <1>0, <2>0, <2>2, <3>1 DEF CallSteps, CallMovesOn, Calls, Work, Checking
    <2>3. CASE Refusal(r) = "none" /\ ~mine
      BY <1>0, <1>5, <2>3 DEF Takes, CallSteps, CallStands
    <2> QED
      BY <2>1, <2>2, <2>3
  <1>6. CASE ReadsHistory(r, mine)
    <2>1. mine /\ r.verb = "history"
      BY <1>6 DEF ReadsHistory
    <2>2. PICK found \in {"open", "gone"} :
              /\ call' = [call EXCEPT !.at = "reading", !.got = found]
              /\ found = "gone" => ~Registered(r.of)
      BY <1>6 DEF ReadsHistory
    <2> QED
      BY <1>0, <2>1, <2>2 DEF CallSteps, CallMovesOn, Calls, Answers, Checking
  <1>7. CASE Closes(r, mine)
    <2>0. r.verb = "close"
      BY <1>7 DEF Closes
    <2>1. CASE WaitsOn(r.of) /\ Replies(TRUE, "gone")
      BY <1>0, <2>1, WaiterMovesOn DEF CallSteps, Answers
    <2>2. CASE Replies(mine, "ok") \/ Replies(mine, "refused") \/ Replies(mine, "gone")
      BY <1>1, <2>0, <2>2 DEF Answers, Checking
    <2> QED
      BY <1>7, <2>1, <2>2 DEF Closes
  <1> QED
    BY <1>2, <1>3, <1>4, <1>5, <1>6, <1>7 DEF Handles

LEMMA ToolMoves == IInv /\ UsesTool => CallSteps
  <1> SUFFICES ASSUME IInv, UsesTool PROVE CallSteps
    OBVIOUS
  <1>1. ASSUME NEW tool \in Tools, NEW verb \in Verbs, NEW s \in Sessions \cup {NoSession},
               Begins(tool, verb, s),
               verb \in {"history", "get"} => s \in Opened
        PROVE  CallSteps
    <2>1. KeyFor(s) \in 0..MaxKeys /\ KeyFor(s)' = KeyFor(s)
      BY <1>1, KeyForTypes, TypeParts DEF IInv, Begins, KeyFor
    <2>2. /\ Asks(tool, verb, s, KeyFor(s), "none")
          /\ state' = state
      BY <1>1 DEF Begins, sessionVars
    <2>3. CallAsks
      BY <1>1, <2>1, <2>2 DEF CallAsks, Checks, Opened
    <2> QED
      BY <2>3 DEF CallSteps
  <1>2. CASE os_attach_session
    <2>1. PICK s \in Opened, key \in 0..MaxKeys : Asks("os_attach_session", "get", s, key, "none")
      BY <1>2 DEF os_attach_session
    <2>2. CallAsks
      BY <2>1 DEF CallAsks, Tools, Verbs, Checks, Opened
    <2> QED
      BY <2>2 DEF CallSteps
  <1> QED
    BY <1>1, <1>2 DEF UsesTool, os_open_session, os_list_sessions, os_exec, os_source,
       os_run_test, os_test_result, os_rollback, os_commit, os_close_session,
       Tools, Verbs, Work, Opened

LEMMA HearsMoves == IInv /\ LostInv /\ CheckInv /\ (HearsAnswer \/ GivesUp) => CallSteps
  <1> SUFFICES ASSUME IInv, LostInv, CheckInv, HearsAnswer \/ GivesUp PROVE CallSteps
    OBVIOUS
  <1> DEFINE r == call.req
  <1>1. PICK answer \in {call.got, "none"} :
            Hears(answer) /\ (answer = "ok" => call.at = "answered" /\ call.got = "ok")
    BY DEF HearsAnswer, GivesUp
  <1>2. call \in Calls /\ call # Idle
    BY DEF IInv, TypeOK, HearsAnswer, GivesUp, Idle, Calls
  <1>3. UNCHANGED <<state, owners, inherited>>
    BY <1>1 DEF Hears, sessionVars
  <1>4. /\ r.of \in Sessions \cup {NoSession} /\ r.key \in 0..MaxKeys /\ r.tool \in Tools
    BY <1>2 DEF Calls, Requests
  <1>5. ASSUME Done PROVE CallSteps
    BY <1>2, <1>5 DEF Done, CallSteps, CallStands
  <1>6. CASE HearsOpen(r, answer)
    <2>1. CASE answer = "ok" /\ Asks("os_run_test", "run", r.of, 1, "none")
      <3>1. 1 \in 0..MaxKeys
        BY AgentAssumption
      <3>2. CallAsks
        BY <1>4, <2>1, <3>1 DEF CallAsks, Tools, Verbs, Work, Checks
      <3> QED
        BY <3>2 DEF CallSteps
    <2> QED
      BY <1>5, <1>6, <2>1 DEF HearsOpen
  <1>7. CASE HearsCheck(r, answer)
    <2>1. Checking(r)
      BY <1>7 DEF HearsCheck, Checking
    <2>2. r.of \in Sessions /\ r.key = KeyFor(r.of)
      BY <1>2, <2>1 DEF CheckInv
    <2>3. answer = "ok" => StillOwn(r)
      BY <1>1, <1>2, <2>1 DEF CheckInv
    <2>4. ASSUME Asks("os_commit", "commit", r.of, KeyFor(r.of),
                      IF answer = "ok" THEN "answered" ELSE "unanswered")
          PROVE  CallAsks
      <3>1. CASE answer = "ok"
        BY <1>3, <1>4, <2>2, <2>3, <2>4, <3>1 DEF CallAsks, StillOwn, Tools, Verbs, Work, Checks
      <3>2. CASE answer # "ok"
        BY <1>4, <2>2, <2>4, <3>2 DEF CallAsks, Tools, Verbs, Work, Checks
      <3> QED
        BY <3>1, <3>2
    <2> QED
      BY <1>5, <1>7, <2>4 DEF HearsCheck, CallSteps
  <1>8. CASE HearsHistory(r, answer)
    <2>1. r.of \in Sessions /\ state[r.of] # "new" /\ r.verb = "history"
      BY <1>2, <1>8 DEF HearsHistory, IInv, Told, LostInv, HistoryIsTrue
    <2>2. ASSUME Asks(r.tool, "history", r.of, r.key, "none") PROVE CallAsks
      <3>1. r.tool = "os_commit" /\ "history" = "get" => FALSE
        OBVIOUS
      <3> QED
        BY <1>3, <1>4, <2>1, <2>2 DEF CallAsks, Verbs, Checks
    <2> QED
      BY <1>5, <1>8, <2>2 DEF HearsHistory, CallSteps
  <1> QED
    BY <1>1, <1>5, <1>6, <1>7, <1>8 DEF Hears, HearsList, HearsAttach, HearsRest

LEMMA NextMoves == IInv /\ LostInv /\ CheckInv /\ [Next]_vars => CallSteps
  <1> SUFFICES ASSUME IInv, LostInv, CheckInv, [Next]_vars PROVE CallSteps
    OBVIOUS
  <1>1. CASE UNCHANGED call /\ UNCHANGED held
    BY <1>1 DEF CallSteps, CallStands
  <1>2. ASSUME NEW s, WaitsOn(s), NEW answer \in Answers, Replies(TRUE, answer), UNCHANGED held
        PROVE  CallSteps
    BY <1>2, WaiterMovesOn DEF CallSteps
  <1>3. CASE Arrives
    <2>1. ASSUME call.at = "sent", Handles(call.req, TRUE) PROVE CallSteps
      <3>1. call \in Calls /\ call.req \in Requests
        BY <2>1 DEF IInv, TypeOK, Idle, Calls
      <3> QED
        BY <2>1, <3>1, RequestMoves
    <2>2. ASSUME NEW r \in late, Handles(r, FALSE) PROVE CallSteps
      <3>1. r \in Requests
        BY DEF IInv, TypeOK
      <3>2. r.verb \notin {"list", "history", "get"}
        BY AgentAssumption DEF IInv, HistoryTypes
      <3> QED
        BY <2>2, <3>1, <3>2, RequestMoves
    <2> QED
      BY <1>3, <2>1, <2>2 DEF Arrives
  <1>4. CASE AnswersHistory
    <2>1. call \in Calls /\ call.req.verb = "history"
      BY <1>4 DEF AnswersHistory, IInv, TypeOK, Told, Idle
    <2>2. PICK shown \in SUBSET Sessions :
              call' = [call EXCEPT !.at = "answered", !.got = RunShown(call.req.of, call.got),
                                   !.shows = shown]
      <3>1. call.req.of \in Sessions
        BY <1>4, <2>1 DEF IInv, Told, Idle, Calls, AnswersHistory
      <3> QED
        BY <1>4, <3>1 DEF AnswersHistory
    <2>3. RunShown(call.req.of, call.got) \in Answers
      BY <2>1 DEF RunShown, Calls, Answers
    <2>4. call' \in Calls /\ call'.req = call.req /\ call'.got = RunShown(call.req.of, call.got)
      BY <2>1, <2>2, <2>3 DEF Calls
    <2>5. run' = run /\ held' = held
      BY <1>4 DEF AnswersHistory, sessionVars
    <2>6. call'.got = "gone" => call.got = "gone" /\ ~HasResult(call.req.of)'
      BY <2>4, <2>5 DEF RunShown, HasResult
    <2> QED
      BY <2>1, <2>4, <2>5, <2>6 DEF CallSteps, CallMovesOn, Checking
  <1>5. CASE DaemonRestarts
    <2>1. CASE call.at = "idle"
      BY <1>1, <1>5, <2>1 DEF DaemonRestarts
    <2>2. CASE call.at # "idle"
      <3>1. call \in Calls
        BY <2>2 DEF IInv, TypeOK, Idle
      <3>2. call' = [call EXCEPT !.at = "answered", !.got = "none", !.shows = {}]
        BY <1>5, <2>2 DEF DaemonRestarts
      <3>3. held' = held
        BY <1>5 DEF DaemonRestarts
      <3> QED
        BY <3>1, <3>2, <3>3 DEF CallSteps, CallMovesOn, Calls, Answers
    <2> QED
      BY <2>1, <2>2
  <1>6. ASSUME NEW s \in Sessions, Container(s) \/ IsClosed(s) PROVE CallSteps
    BY <1>1, <1>2, <1>6 DEF Container, IsClosed, Finishes, Overruns, Dies, Autocloses, Leaves, Answers
  <1>7. ASSUME NEW s \in Sessions, People(s) PROVE CallSteps
    BY <1>1, <1>6, <1>7 DEF People, PersonOpens, PersonWorks, SetOwner, SetPolicy, agentVars
  <1>8. CASE UNCHANGED vars
    BY <1>1, <1>8 DEF vars, agentVars
  <1> QED
    BY <1>3, <1>4, <1>5, <1>6, <1>7, <1>8, ToolMoves, HearsMoves DEF Next

-----------------------------------------------------------------------------
(* A run said to be lost.                                                  *)

LEMMA NextLost ==
    ASSUME IInv, LostInv, Onward, CallSteps, [Next]_vars, IInv'
    PROVE  LostInv'
  <1> USE DEF LostInv
  <1>1. HistoryIsTrue'
    <2>1. CASE CallStands
      <3>1. CASE call' = Idle
        BY <3>1 DEF HistoryIsTrue
      <3>2. CASE call' = call /\ call # Idle /\ call.req.verb = "history"
        <4>1. call.req.of \in Sessions
          BY <3>2 DEF IInv, Told
        <4> QED
          BY <3>2, <4>1 DEF HistoryIsTrue, Onward, HasResult
      <3> QED
        BY <2>1, <3>1, <3>2 DEF CallStands, HistoryIsTrue
    <2>2. CASE CallAsks
      BY <2>2 DEF CallAsks, Asks, HistoryIsTrue
    <2>3. CASE CallMovesOn /\ call.req.verb = "history"
      <3>1. call # Idle
        BY <2>3 DEF CallMovesOn, Calls, Idle
      <3>2. call.req.of \in Sessions /\ state[call.req.of] # "new"
        BY <2>3, <3>1 DEF IInv, Told, HistoryIsTrue
      <3>3. call'.req = call.req /\ state'[call.req.of] # "new"
        BY <2>3, <3>2 DEF CallMovesOn, Onward
      <3>4. ASSUME call'.got = "gone" PROVE state'[call.req.of] = "gone"
        <4>1. CASE ~Registered(call.req.of)
          <5>1. state[call.req.of] = "gone"
            BY <3>2, <4>1 DEF Registered, IInv, TypeOK
          <5> QED
            BY <3>2, <5>1 DEF Onward
        <4>2. CASE call.got = "gone"
          BY <2>3, <3>1, <3>2, <4>2 DEF HistoryIsTrue, Onward
        <4> QED
          BY <2>3, <3>4, <4>1, <4>2 DEF CallMovesOn
      <3>5. ASSUME call'.got = "gone", call'.at = "answered" PROVE ~HasResult(call.req.of)'
        BY <2>3, <3>5 DEF CallMovesOn
      <3> QED
        BY <3>3, <3>4, <3>5 DEF HistoryIsTrue, HasResult
    <2>4. CASE CallMovesOn /\ call.req.verb # "history"
      BY <2>4 DEF CallMovesOn, HistoryIsTrue
    <2> QED
      BY <2>1, <2>2, <2>3, <2>4 DEF CallSteps
  <1>2. ASSUME NEW s \in Sessions, state[s] = "gone", ~HasResult(s)
        PROVE  state'[s] = "gone" /\ ~HasResult(s)'
    BY <1>2 DEF Onward, HasResult
  <1>3. \A s \in lost' : s \in Sessions /\ state[s] = "gone" /\ ~HasResult(s)
    <2>1. CASE lost' = lost
      BY <2>1 DEF LostIsGone
    <2>2. CASE HearsAnswer \/ GivesUp
      <3>1. PICK answer \in {call.got, "none"} :
                Hears(answer) /\ (answer = "gone" => call.at = "answered" /\ call.got = "gone")
        BY <2>2 DEF HearsAnswer, GivesUp
      <3>2. call # Idle
        BY <2>2 DEF HearsAnswer, GivesUp, Idle, IInv
      <3>3. \/ lost' = lost
            \/ /\ lost' = lost \cup {call.req.of}
               /\ call.req.verb = "history" /\ answer = "gone"
        BY <3>1 DEF Hears, HearsOpen, HearsList, HearsAttach, HearsCheck, HearsHistory, HearsRest
      <3>4. ASSUME call.req.verb = "history", answer = "gone"
            PROVE  /\ call.req.of \in Sessions /\ state[call.req.of] = "gone"
                   /\ ~HasResult(call.req.of)
        BY <3>1, <3>2, <3>4 DEF HistoryIsTrue, IInv, Told
      <3> QED
        BY <2>1, <3>3, <3>4 DEF LostIsGone
    <2>3. CASE Arrives
      BY <2>1, <2>3 DEF Arrives, Handles, Opens, Lists, Describes, Takes, ReadsHistory, Closes,
         historyVars
    <2>4. CASE UsesTool
      BY <2>1, <2>4 DEF UsesTool, Begins, os_open_session, os_list_sessions, os_exec, os_source,
         os_run_test, os_test_result, os_rollback, os_commit, os_close_session,
         os_attach_session, historyVars
    <2>5. ASSUME NEW s \in Sessions, People(s) \/ Container(s) PROVE lost' = lost
      BY <2>5 DEF People, PersonOpens, PersonWorks, SetOwner, SetPolicy, Container, Finishes,
         Overruns, Dies, Autocloses, IsClosed, Leaves, historyVars
    <2> QED
      BY <2>1, <2>2, <2>3, <2>4, <2>5 DEF Next, AnswersHistory, DaemonRestarts, vars, historyVars
  <1> QED
    BY <1>1, <1>2, <1>3 DEF LostIsGone

-----------------------------------------------------------------------------
(* A commit whose check was answered.                                      *)

LEMMA OwnStays ==
    ASSUME IInv, Onward, IInv'
    PROVE  \A r \in Requests : /\ StillOwn(r) => StillOwn(r)'
                               /\ Checked(r) => Checked(r)'
  <1>1. ASSUME NEW r \in Requests, StillOwn(r) PROVE StillOwn(r)'
    <2>1. r.of \in Sessions /\ r.key \in Nat
      BY <1>1, AgentAssumption DEF StillOwn, Requests
    <2>2. Len(owners[r.of]) \in Nat /\ Len(owners'[r.of]) \in Nat
      BY <2>1, OwnersLength DEF IInv, TypeOK
    <2>3. /\ Len(owners'[r.of]) >= Len(owners[r.of])
          /\ inherited'[r.of] \in {0, inherited[r.of]} \/ Len(owners'[r.of]) > Len(owners[r.of])
      BY <2>1 DEF Onward
    <2>4. r.key <= Len(owners'[r.of])
      BY <1>1, <2>1, <2>2, <2>3 DEF StillOwn
    <2>5. inherited'[r.of] = 0 \/ r.key < Len(owners'[r.of])
      BY <1>1, <2>1, <2>2, <2>3 DEF StillOwn
    <2> QED
      BY <2>1, <2>4, <2>5 DEF StillOwn
  <1> QED
    BY <1>1 DEF Checked

(* The key a tool shows was issued in that session, or opens nothing.      *)
LEMMA KeyWasIssued ==
    ASSUME IInv, HeldIsKnown, NEW s \in Sessions
    PROVE  KeyFor(s) <= Len(owners[s])
  <1>1. Len(owners[s]) \in Nat /\ DOMAIN owners[s] = 1..Len(owners[s])
    BY OwnersLength
  <1>2. CASE KeyFor(s) = 0
    BY <1>1, <1>2
  <1>3. CASE KeyFor(s) # 0
    <2>1. s \in DOMAIN held /\ KeyFor(s) = held[s] /\ <<s, held[s]>> \in known
      BY <1>3 DEF KeyFor, HeldIsKnown
    <2>2. held[s] \in 1..MaxKeys
      BY <2>1 DEF IInv, TypeOK
    <2>3. held[s] \in DOMAIN owners[s]
      BY <2>1, <2>2 DEF IInv, AgentKeysAreAgents
    <2> QED
      BY <1>1, <2>1, <2>3
  <1> QED
    BY <1>2, <1>3

LEMMA KeepsKnown ==
    ASSUME HeldIsKnown, known \subseteq known', NEW s, NEW key, held' = Keep(s, key),
           key = 0 \/ <<s, key>> \in known'
    PROVE  HeldIsKnown'
  BY DEF HeldIsKnown, Keep

LEMMA NextHeld ==
    ASSUME IInv, HeldIsKnown, [Next]_vars
    PROVE  HeldIsKnown'
  <1>1. CASE UNCHANGED held /\ known \subseteq known'
    BY <1>1 DEF HeldIsKnown
  <1>2. ASSUME NEW S, held' = Restrict(held, DOMAIN held \cap S), known \subseteq known'
        PROVE  HeldIsKnown'
    BY <1>2 DEF HeldIsKnown, Restrict
  <1>3. ASSUME NEW s, held' = Drop(s), known \subseteq known'
        PROVE  HeldIsKnown'
    BY <1>3 DEF HeldIsKnown, Drop, Restrict
  <1>4. CASE os_attach_session
    BY <1>4, KeepsKnown DEF os_attach_session
  <1>5. ASSUME NEW tool, NEW verb, NEW s, Begins(tool, verb, s) PROVE HeldIsKnown'
    BY <1>1, <1>5 DEF Begins
  <1>6. CASE UsesTool
    BY <1>4, <1>5, <1>6 DEF UsesTool, os_open_session, os_list_sessions, os_exec, os_source,
       os_run_test, os_test_result, os_rollback, os_commit, os_close_session
  <1>7. CASE Arrives
    BY <1>1, <1>7 DEF Arrives, Handles, Opens, Lists, Describes, Takes, ReadsHistory, Closes
  <1>8. CASE HearsAnswer \/ GivesUp
    <2>1. PICK answer : Hears(answer)
      BY <1>8 DEF HearsAnswer, GivesUp
    <2>2. CASE HearsOpen(call.req, answer)
      <3>1. CASE held' = Keep(call.req.of, 1) /\ known' = known \cup {<<call.req.of, 1>>}
        BY <3>1, KeepsKnown
      <3> QED
        BY <1>1, <2>2, <3>1 DEF HearsOpen
    <2>3. CASE HearsList(call.req, answer)
      BY <1>1, <1>2, <2>3 DEF HearsList
    <2>4. CASE HearsAttach(call.req, answer) \/ HearsRest(call.req, answer)
      BY <1>1, <1>3, <2>4 DEF HearsAttach, HearsRest
    <2>5. CASE HearsCheck(call.req, answer) \/ HearsHistory(call.req, answer)
      BY <1>1, <2>5 DEF HearsCheck, HearsHistory
    <2> QED
      BY <2>1, <2>2, <2>3, <2>4, <2>5 DEF Hears
  <1>9. ASSUME NEW s \in Sessions, People(s) \/ Container(s) PROVE HeldIsKnown'
    BY <1>1, <1>9 DEF People, PersonOpens, PersonWorks, SetOwner, SetPolicy, Container,
       Finishes, Overruns, Dies, Autocloses, IsClosed, Leaves, agentVars
  <1> QED
    BY <1>1, <1>6, <1>7, <1>8, <1>9 DEF Next, AnswersHistory, DaemonRestarts, vars, agentVars

(* A checked commit that the daemon takes finds the owner it was checked   *)
(* for, and nothing inherited.                                             *)
LEMMA NextBlind ==
    ASSUME IInv, CheckInv, [Next]_vars
    PROVE  CheckedCommitIsOwn'
  <1>1. CASE blind' = blind
    BY <1>1 DEF CheckInv, CheckedCommitIsOwn
  <1>2. ASSUME NEW r \in Requests, NEW mine, Checked(r), Takes(r, mine)
        PROVE  CheckedCommitIsOwn'
    <2>1. CASE blind' = blind \cup {r.check} /\ r.check = "answered" /\ Refusal(r) = "none"
      <3>1. r.of \in Sessions /\ StillOwn(r) /\ Owns(r.of, r.key) /\ inherited[r.of] = 0
        <4>1. StillOwn(r) /\ r.of \in Sessions
          BY <1>2, <2>1 DEF Checked, StillOwn
        <4>2. Owns(r.of, r.key)
          BY <2>1 DEF Refusal
        <4>3. Len(owners[r.of]) \in Nat
          BY <4>1, OwnersLength
        <4> QED
          BY <4>1, <4>2, <4>3 DEF Owns, StillOwn
      <3>2. ~(inherited[r.of] > 0)
        BY <3>1
      <3>3. blind' = blind
        BY <1>2, <2>1, <3>2 DEF Takes
      <3> QED
        BY <1>1, <3>3
    <2>2. blind' = blind \/ (blind' = blind \cup {r.check} /\ Refusal(r) = "none")
      BY <1>2 DEF Takes
    <2>3. CASE blind' = blind \cup {r.check} /\ r.check # "answered"
      BY <2>3 DEF CheckInv, CheckedCommitIsOwn
    <2> QED
      BY <1>1, <2>1, <2>2, <2>3
  <1>3. CASE Arrives
    <2>1. ASSUME NEW r \in Requests, NEW mine, Checked(r), Handles(r, mine)
          PROVE  CheckedCommitIsOwn'
      BY <1>1, <1>2, <2>1
         DEF Handles, Opens, Lists, Describes, ReadsHistory, Closes, historyVars
    <2>2. ASSUME call.at = "sent", Handles(call.req, TRUE) PROVE CheckedCommitIsOwn'
      <3>1. call \in Calls /\ call # Idle /\ call.req \in Requests
        BY <2>2 DEF IInv, TypeOK, Idle, Calls
      <3> QED
        BY <2>1, <2>2, <3>1 DEF CheckInv
    <2>3. ASSUME NEW r \in late, Handles(r, FALSE) PROVE CheckedCommitIsOwn'
      BY <2>1, <2>3 DEF CheckInv, IInv, TypeOK
    <2> QED
      BY <1>3, <2>2, <2>3 DEF Arrives
  <1>4. CASE UsesTool
    BY <1>1, <1>4 DEF UsesTool, Begins, os_open_session, os_list_sessions, os_exec, os_source,
       os_run_test, os_test_result, os_rollback, os_commit, os_close_session,
       os_attach_session, historyVars
  <1>5. ASSUME NEW s \in Sessions, People(s) \/ Container(s) PROVE blind' = blind
    BY <1>5 DEF People, PersonOpens, PersonWorks, SetOwner, SetPolicy, Container, Finishes,
       Overruns, Dies, Autocloses, IsClosed, Leaves, historyVars
  <1> QED
    BY <1>1, <1>3, <1>4, <1>5 DEF Next, AnswersHistory, DaemonRestarts, HearsAnswer, GivesUp,
       Hears, vars, historyVars

LEMMA NextCheck ==
    ASSUME IInv, CheckInv, Onward, CallSteps, [Next]_vars, IInv'
    PROVE  CheckInv'
  <1>1. HeldIsKnown' /\ CheckedCommitIsOwn'
    BY NextHeld, NextBlind DEF CheckInv
  <1>2. \A r \in Requests : (StillOwn(r) => StillOwn(r)') /\ (Checked(r) => Checked(r)')
    BY OwnStays
  <1>3. \A r \in late' : Checked(r)'
    <2>1. call # Idle => Checked(call.req)
      BY DEF CheckInv
    <2>2. \A r \in late' : r \in late \/ (call # Idle /\ r = call.req)
      <3>1. CASE late' \subseteq late
        BY <3>1
      <3>2. CASE GivesUp
        BY <3>2 DEF GivesUp, Idle
      <3>3. CASE UsesTool
        BY <3>1, <3>3 DEF UsesTool, Begins, os_open_session, os_list_sessions, os_exec,
           os_source, os_run_test, os_test_result, os_rollback, os_commit, os_close_session,
           os_attach_session
      <3>4. ASSUME NEW s \in Sessions, People(s) \/ Container(s) PROVE late' = late
        BY <3>4 DEF People, PersonOpens, PersonWorks, SetOwner, SetPolicy, Container, Finishes,
           Overruns, Dies, Autocloses, IsClosed, Leaves, agentVars
      <3> QED
        BY <3>1, <3>2, <3>3, <3>4
           DEF Next, Arrives, HearsAnswer, AnswersHistory, DaemonRestarts, vars, agentVars
    <2>3. \A r \in late' : r \in Requests
      BY DEF IInv, TypeOK
    <2> QED
      BY <1>2, <2>1, <2>2, <2>3 DEF CheckInv
  <1> DEFINE Good == /\ Checking(call.req) =>
                            /\ call.req.of \in Sessions
                            /\ call.req.key = KeyFor(call.req.of)
                            /\ call.at = "answered" /\ call.got = "ok" => StillOwn(call.req)
                     /\ Checked(call.req)
  <1>4. ASSUME call' # Idle PROVE Good'
    <2>1. CASE CallStands /\ (call' = call => held' = held)
      <3>1. call' = call /\ held' = held /\ call # Idle
        BY <1>4, <2>1 DEF CallStands
      <3>2. call.req \in Requests /\ call'.req = call.req
        BY <3>1 DEF IInv, TypeOK, Calls
      <3>3. Checked(call.req)'
        BY <1>2, <3>1, <3>2 DEF CheckInv, Checked, StillOwn
      <3>4. ASSUME Checking(call.req)'
            PROVE  /\ call'.req.of \in Sessions
                   /\ call'.req.key = KeyFor(call.req.of)'
        BY <3>1, <3>4 DEF CheckInv, Checking, KeyFor
      <3>5. ASSUME Checking(call.req)', call'.at = "answered", call'.got = "ok"
            PROVE  StillOwn(call.req)'
        BY <1>2, <3>1, <3>2, <3>5 DEF CheckInv, Checking, StillOwn
      <3> QED
        BY <3>3, <3>4, <3>5
    <2>2. CASE CallAsks
      <3>1. PICK tool \in Tools, verb \in Verbs, s \in Sessions \cup {NoSession},
                 key \in 0..MaxKeys, check \in Checks :
                /\ Asks(tool, verb, s, key, check)
                /\ tool = "os_commit" /\ verb = "get" => s \in Sessions /\ key = KeyFor(s)'
                /\ check = "answered" => /\ verb = "commit" /\ s \in Sessions
                                         /\ key <= Len(owners'[s])
                                         /\ inherited'[s] = 0 \/ key < Len(owners'[s])
        BY <2>2 DEF CallAsks
      <3>2. /\ call'.at = "sent"
            /\ call'.req.tool = tool /\ call'.req.verb = verb /\ call'.req.of = s
            /\ call'.req.key = key /\ call'.req.check = check
        BY <3>1 DEF Asks
      <3> QED
        BY <3>1, <3>2 DEF Checking, Checked, StillOwn, KeyFor
    <2>3. CASE CallMovesOn /\ held' = held
      <3>1. /\ call.req \in Requests /\ call # Idle
            /\ call'.req.verb = call.req.verb
            /\ call'.req.tool = call.req.tool
            /\ call'.req.check = call.req.check
        BY <2>3 DEF CallMovesOn, Calls, Idle
      <3>2. CASE call'.req = call.req
        <4>1. Checked(call.req)'
          BY <1>2, <3>1, <3>2 DEF CheckInv, Checked, StillOwn
        <4>2. ASSUME Checking(call.req)'
              PROVE  /\ call'.req.of \in Sessions
                     /\ call'.req.key = KeyFor(call.req.of)'
          BY <2>3, <3>1, <3>2, <4>2 DEF CheckInv, Checking, KeyFor
        <4>3. ASSUME Checking(call.req)', call'.got = "ok"
              PROVE  StillOwn(call.req)'
          <5>1. Checking(call.req)
            BY <3>1, <4>3 DEF Checking
          <5>2. call.req.of \in Sessions /\ call.req.key = KeyFor(call.req.of)
            BY <3>1, <5>1 DEF CheckInv
          <5>3. inherited[call.req.of] = 0
            BY <2>3, <4>3, <5>1 DEF CallMovesOn
          <5>4. StillOwn(call.req)
            BY <5>2, <5>3, KeyWasIssued DEF CheckInv, StillOwn
          <5> QED
            BY <1>2, <3>1, <3>2, <5>4 DEF StillOwn
        <4> QED
          BY <4>1, <4>2, <4>3
      <3>3. CASE call.req.verb = "open"
        <4>1. call.req.check # "answered"
          BY <3>1, <3>3 DEF CheckInv, Checked
        <4> QED
          BY <3>1, <3>3, <4>1 DEF Checking, Checked
      <3> QED
        BY <2>3, <3>2, <3>3 DEF CallMovesOn
    <2> QED
      BY <2>1, <2>2, <2>3 DEF CallSteps
  <1> QED
    BY <1>1, <1>3, <1>4 DEF CheckInv

-----------------------------------------------------------------------------
(* What is told and what is checked hold at the start, and every step      *)
(* keeps them.                                                             *)
THEOREM InitTellInv == Init => IInv /\ LostInv /\ CheckInv
  BY InitIInv DEF Init, LostInv, HistoryIsTrue, LostIsGone, CheckInv, HeldIsKnown,
     CheckedCommitIsOwn

(* Every step keeps them, together with the invariant they rest on.        *)
THEOREM NextTellInv == IInv /\ LostInv /\ CheckInv /\ [Next]_vars => (IInv /\ LostInv /\ CheckInv)'
  BY NextIInv, NextIsOnward, NextMoves, NextLost, NextCheck

(* A run os_test_result calls lost has no result and never gets one: the   *)
(* records are read after the table was asked, and nothing writes to the   *)
(* journal of a session that left the table (session_history,              *)
(* Registry.close).                                                        *)
THEOREM LostRunsAreLost == Spec => []LostIsLost
  <1>1. LostInv => LostIsLost
    BY DEF LostInv, LostIsGone, LostIsLost
  <1> QED
    BY <1>1, InitTellInv, NextTellInv, PTL DEF Spec

(* A commit os_commit asked about first, and was told that the work is the *)
(* agent's own, never writes inherited work: what becomes inherited does   *)
(* so by a handover, and a handover costs the request its key              *)
(* (transfer_owner, require_owner).                                        *)
THEOREM CheckedCommitsAreOwn == Spec => []CheckedCommitIsOwn
  <1>1. CheckInv => CheckedCommitIsOwn
    BY DEF CheckInv
  <1> QED
    BY <1>1, InitTellInv, NextTellInv, PTL DEF Spec
=============================================================================
