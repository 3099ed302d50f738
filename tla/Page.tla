-------------------------------- MODULE Page --------------------------------
(***************************************************************************)
(* The session tabs of the browser page (odoo_sheller/web/app.js) over the *)
(* registry: its socket on the table, one socket per tab, and its requests *)
(* for the list of sessions, whose answers may come late.                  *)
(*                                                                         *)
(* Everything the page does for one event is one action.  Its own openings *)
(* (the startup cards) and a person's clicks are left out.                 *)
(***************************************************************************)
EXTENDS Registry

CONSTANTS NoTab, Offline

ASSUME PageAssumption ==
    NoTab \notin Sockets /\ Offline \notin Sockets /\ NoTab # Offline

VARIABLES
    tab,      \* each tab's socket, Offline while it waits to reconnect
    shown,    \* the state each tab shows
    watching, \* the socket on the table, or Offline
    request,  \* GET /api/sessions, by what asked: a tab, or the page's start
    listing   \* the answer on its way: what each session was

pageVars == <<tab, shown, watching, request, listing>>
vars == <<registryVars, pageVars>>

LinesOf(ch) == {k \in Sockets : Channel(k) = ch}

TypeOK ==
    /\ state \in [Sessions -> States]
    /\ closing \in [Sessions -> BOOLEAN]
    /\ opening \in [Sessions -> Openings]
    /\ sessions \subseteq Sessions
    /\ closers \in [Sessions -> 0..(MaxClosers + 1)]
    /\ announced \in [Sessions -> BOOLEAN]
    /\ due \in [Sessions -> BOOLEAN]
    /\ restarts \in 0..MaxRestarts
    /\ place \in [Sockets -> Places]
    /\ listed \in [Sockets -> BOOLEAN]
    /\ \A k \in Sockets : queue[k] \in Seq(Events) /\ Len(queue[k]) <= Backlog
    /\ \A s \in Sessions : tab[s] \in LinesOf(s) \cup {NoTab, Offline}
    /\ shown \in [Sessions -> States \cup {"none"}]
    /\ watching \in LinesOf(Table) \cup {Offline}
    /\ request \in [Channels -> {"none", "asked", "answered"}]
    /\ listing \in [Channels -> [Sessions -> States \cup {"absent"}]]

Nothing == [s \in Sessions |-> "absent"]

-----------------------------------------------------------------------------
(* Tabs: attachSession, connectSocket and forgetSession.                   *)

FreeLines(ch) == {k \in LinesOf(ch) : place[k] = "free"}

Fresh(ch) == CHOOSE k \in FreeLines(ch) : TRUE

HasTab(s) == tab[s] # NoTab

(* Sockets are opened for some tabs and left by others.  The daemon finds  *)
(* out that a client left when it next sends it something.                 *)
Retab(opens, drops) ==
    /\ \A s \in opens : FreeLines(s) # {}
    /\ tab' = [s \in Sessions |-> IF s \in opens THEN Fresh(s)
                                  ELSE IF s \in drops THEN NoTab ELSE tab[s]]
    /\ place' = [k \in Sockets |->
                    IF \E s \in opens : k = Fresh(s) THEN "connecting"
                    ELSE IF \E s \in drops : k = tab[s]
                         THEN IF place[k] = "open" THEN "left" ELSE "free"
                    ELSE place[k]]

Show(changed, what) ==
    shown' = [s \in Sessions |-> IF s \in changed THEN what[s] ELSE shown[s]]

(* Bug: every announcement of a session opens a socket for it.             *)
AttachesAgain(s) == TRUE

Attaches(s) == ~HasTab(s)

-----------------------------------------------------------------------------
(* connectRegistrySocket, its messages.                                    *)

(* The tab is opened by session_opened and dropped by session_closed; a    *)
(* failed opening concerns startup cards only.                             *)
TableHears ==
    /\ watching # Offline
    /\ Hears(watching)
    /\ LET e == Heard(watching)
           s == e.of
       IN  CASE e.kind = "session_opened" /\ Attaches(s) ->
                    Retab({s}, {}) /\ shown' = [shown EXCEPT ![s] = e.shows]
             [] e.kind = "session_closed" /\ HasTab(s) ->
                    Retab({}, {s}) /\ shown' = [shown EXCEPT ![s] = "none"]
             [] e.kind = "state" /\ HasTab(s) ->
                    UNCHANGED <<tab, place>> /\ shown' = [shown EXCEPT ![s] = e.shows]
             [] OTHER -> UNCHANGED <<tab, place, shown>>
    /\ UNCHANGED <<watching, request, listing>>

(* connectSocket, its messages.                                            *)
TabHears(s) ==
    /\ tab[s] \in Sockets
    /\ Hears(tab[s])
    /\ LET e == Heard(tab[s]) IN
       shown' = [shown EXCEPT ![s] = IF e.kind = "state" THEN e.shows ELSE @]
    /\ UNCHANGED <<tab, place, watching, request, listing>>

(* The close events of both sockets: each waits 3 s to try again.          *)
SocketCloses(k) ==
    /\ place[k] = "closed"
    /\ Put(k, "free", FALSE, <<>>)
    /\ tab' = [s \in Sessions |-> IF tab[s] = k THEN Offline ELSE tab[s]]
    /\ watching' = IF watching = k THEN Offline ELSE watching
    /\ UNCHANGED <<shown, request, listing>>

(* The table's socket only connects again.                                 *)
TableReconnects ==
    /\ watching = Offline
    /\ FreeLines(Table) # {}
    /\ watching' = Fresh(Table)
    /\ Put(Fresh(Table), "connecting", FALSE, <<>>)
    /\ UNCHANGED <<tab, shown, request, listing>>

(* A tab's socket also asks what it missed (resyncSession).                *)
TabReconnects(s) ==
    /\ tab[s] = Offline
    /\ request[s] = "none"
    /\ Retab({s}, {})
    /\ request' = [request EXCEPT ![s] = "asked"]
    /\ UNCHANGED <<sessionVars, listed, queue, shown, watching, listing>>

-----------------------------------------------------------------------------
(* GET /api/sessions, and what its answer does.                            *)

Listed(r, s) == s \in sessions /\ r \in {s, Table}

Answer(r) ==
    /\ request[r] = "asked"
    /\ request' = [request EXCEPT ![r] = "answered"]
    /\ listing' = [listing EXCEPT ![r] =
                      [s \in Sessions |-> IF Listed(r, s) THEN state[s] ELSE "absent"]]
    /\ UNCHANGED <<registryVars, tab, shown, watching>>

Absent(r) == {s \in Sessions : listing[r][s] = "absent"}

(* Bug: a resync refreshes a tab and never drops one.                      *)
ForgetsNone(s) == FALSE

Forgets(s) == HasTab(s) /\ s \in Absent(s)

Done(r) ==
    /\ request[r] = "answered"
    /\ request' = [request EXCEPT ![r] = "none"]
    /\ listing' = [listing EXCEPT ![r] = Nothing]
    /\ UNCHANGED <<sessionVars, listed, queue, watching>>

(* resyncSession: the answer overwrites what the tab shows.                *)
Resynced(s) ==
    /\ Done(s)
    /\ IF Forgets(s)
       THEN Retab({}, {s}) /\ shown' = [shown EXCEPT ![s] = "none"]
       ELSE /\ UNCHANGED <<tab, place>>
            /\ Show(IF HasTab(s) THEN {s} \ Absent(s) ELSE {}, listing[s])

(* reattachSessions, at the page's start.                                  *)
Reattached ==
    LET live == Sessions \ Absent(Table)
        gone == {s \in Absent(Table) : HasTab(s)}
    IN  /\ Done(Table)
        /\ Retab({s \in live : Attaches(s)}, gone)
        /\ Show(live \cup gone, [s \in Sessions |-> IF s \in live THEN listing[Table][s]
                                                    ELSE "none"])

-----------------------------------------------------------------------------
(* Requests in flight are lost with the daemon, answers already sent are   *)
(* not.                                                                    *)
DaemonRestarts ==
    /\ Restart
    /\ request' = [r \in Channels |-> IF request[r] = "asked" THEN "none" ELSE request[r]]
    /\ UNCHANGED <<tab, shown, watching, listing>>

(* The page has just been loaded; the daemon may be as old as it likes, for*)
(* its sockets and requests may take as long as they like.                 *)
Init ==
    /\ RegistryInit
    /\ watching = <<Table, 1>>
    /\ place = [k \in Sockets |-> IF k = watching THEN "connecting" ELSE "free"]
    /\ tab = [s \in Sessions |-> NoTab]
    /\ shown = [s \in Sessions |-> "none"]
    /\ request = [r \in Channels |-> IF r = Table THEN "asked" ELSE "none"]
    /\ listing = [r \in Channels |-> Nothing]

SocketStep(k) == (Accept(k) \/ HangsUp(k) \/ SendFails(k)) /\ UNCHANGED pageVars

TabStep(s) == TabHears(s) \/ TabReconnects(s) \/ Resynced(s)

TableStep == TableHears \/ TableReconnects \/ Reattached

Next ==
    \/ \E s \in Sessions : SessionStep(s) /\ UNCHANGED pageVars
    \/ \E k \in Sockets : SocketStep(k) \/ SocketCloses(k)
    \/ \E s \in Sessions : TabStep(s)
    \/ TableStep
    \/ \E r \in Channels : Answer(r)
    \/ DaemonRestarts

Spec == Init /\ [][Next]_vars

(* Both event loops run what is ready: a close returns, an autoclose task  *)
(* begins, sockets carry what they have, a reconnect timer fires, a request*)
(* is answered.  Nothing is asked of sessions, of who opens and closes them*)
(* or of restarts.                                                         *)
Fairness ==
    /\ \A s \in Sessions : WF_vars(Loop(s) /\ UNCHANGED pageVars)
    /\ \A k \in Sockets : WF_vars(SocketStep(k) \/ SocketCloses(k))
    /\ \A s \in Sessions : /\ WF_vars(TabHears(s))
                           /\ WF_vars(TabReconnects(s))
                           /\ WF_vars(Resynced(s))
    /\ WF_vars(TableHears) /\ WF_vars(TableReconnects) /\ WF_vars(Reattached)
    /\ \A r \in Channels : WF_vars(Answer(r))

FairSpec == Spec /\ Fairness

-----------------------------------------------------------------------------
Life(s) == INSTANCE Lifecycle WITH state <- state[s], closing <- closing[s]

(* Whatever opens, closes, kills and restarts meet in the registry, each   *)
(* session in it keeps the lifecycle that module Session implements.       *)
KeepsLifecycles ==
    /\ \A s \in Sessions : Life(s)!Init
    /\ [][\A s \in Sessions :
             Life(s)!Next \/ UNCHANGED <<state[s], closing[s]>>]_<<state, closing>>

(* A session that left the table by a close or a restart has no socket left*)
(* in the registry: none would ever be told anything again.                *)
ClosedHasNoSockets ==
    \A k \in Sockets :
        listed[k] => Channel(k) \in sessions \cup {Table} \/ opening[Channel(k)] = "failed"

IsEnd(e, s) == e.of = s /\ e.kind \in {"session_closed", "session_failed"}

(* Whoever is still to hear that a session opened, when it is gone, hears  *)
(* of its end after that: no close overtakes the opening it races.         *)
OpeningIsToldBeforeEnd ==
    \A k \in Sockets : \A i \in DOMAIN queue[k] :
        LET e == queue[k][i] IN
        e.kind = "session_opened" /\ e.of \notin sessions =>
            \E j \in DOMAIN queue[k] : j > i /\ IsEnd(queue[k][j], e.of)

(* The page holds no socket but those of its tabs and its own: attaching a *)
(* session twice would leave two sockets on it.                            *)
OneSocketPerTab ==
    \A k \in Sockets :
        place[k] \in {"connecting", "open", "closed"} =>
            k = IF Channel(k) = Table THEN watching ELSE tab[Channel(k)]

Gone(s) == s \notin sessions /\ opening[s] \in {"done", "lost"}

(* The tab of a session that is gone leaves the screen, whichever of its   *)
(* close event, its sockets and stale lists came first or not at all.      *)
GoneTabLeaves == \A s \in Sessions : Gone(s) ~> tab[s] = NoTab

(* What is being closed, or has announced that it is done, leaves.         *)
EndingLeaves ==
    \A s \in Sessions : closers[s] > 0 \/ announced[s] ~> s \notin sessions

-----------------------------------------------------------------------------
(* What comments and documents say and the code does not do.               *)

(* No socket waits on a session that will never say anything again         *)
(* (Registry.close).                                                       *)
SocketsHaveSessions ==
    \A k \in Sockets : listed[k] => Channel(k) \in sessions \cup {Table}

(* A session that opens appears on the page without a reload.              *)
OpenSessionAppears ==
    \A s \in Sessions :
        s \in sessions /\ opening[s] = "done" ~> HasTab(s) \/ s \notin sessions

Settled(s) ==
    /\ tab[s] \in Sockets /\ watching \in Sockets
    /\ \A k \in {tab[s], watching} : place[k] = "open" /\ listed[k] /\ queue[k] = <<>>
    /\ \A r \in Channels : request[r] = "none"

(* The state badge follows the session (docs/ui-guide.md): with nothing    *)
(* left on the way, a tab shows the session's state.                       *)
BadgeFollowsSession == \A s \in Sessions : Settled(s) => shown[s] = state[s]
=============================================================================
