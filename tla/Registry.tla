------------------------------ MODULE Registry ------------------------------
(***************************************************************************)
(* The daemon's registry (odoo_sheller/registry.py): the table of sessions,*)
(* the closes under way in it, and the sockets that follow one session or  *)
(* the table itself, each behind a bounded queue.                          *)
(*                                                                         *)
(* A session is here what module Lifecycle says of it.  Everything between *)
(* two awaits of the loop is one action.                                   *)
(***************************************************************************)
EXTENDS Naturals, Sequences

CONSTANTS
    Sessions,     \* ids, in use or not yet
    Table,        \* the channel of /ws/sessions
    Lines,        \* how many sockets may follow one channel at once
    Backlog,      \* EVENT_BACKLOG
    MaxClosers,   \* closes and kills under way in one session
    MaxRestarts   \* restarts of the daemon

ASSUME RegistryAssumption ==
    /\ Table \notin Sessions
    /\ Lines \in Nat \ {0}
    /\ Backlog \in Nat \ {0}
    /\ MaxClosers \in Nat
    /\ MaxRestarts \in Nat

VARIABLES
    state,       \* Session._state
    closing,     \* Session._closing
    opening,     \* where Registry.open stands with the session
    sessions,    \* Registry.sessions
    closers,     \* calls of Registry.close under way
    announced,   \* Session._autoclose_announced
    due,         \* autoclose tasks not begun
    place,       \* what each socket is
    listed,      \* sockets in Registry.subscribers or Registry.watchers
    queue,       \* the events each socket has not sent on
    restarts

sessionVars == <<state, closing, opening, sessions, closers, announced, due, restarts>>
socketVars == <<place, listed, queue>>
registryVars == <<sessionVars, socketVars>>

States == {"starting", "ready", "busy", "closed", "dead"}
Ended(s) == state[s] \in {"closed", "dead"}
Openings == {"new", "waiting", "failing", "failed", "done", "lost"}

Channels == Sessions \cup {Table}
Sockets == Channels \X (1..Lines)
Channel(k) == k[1]

(* A socket still being opened, one whose client has left, and one whose   *)
(* client has yet to hear that the daemon closed it.                       *)
Places == {"free", "connecting", "open", "left", "closed"}

EventKinds == {"state", "autoclose", "session_starting", "session_failed",
               "session_opened", "session_closed", "hang_up"}
Events == [kind : EventKinds, of : Channels, shows : States \cup {"none"}]

(* describe() and the state event carry the state as the step leaves it.   *)
Event(kind, s) == [kind |-> kind, of |-> s, shows |-> state'[s]]
HangUp == [kind |-> "hang_up", of |-> Table, shows |-> "none"]

-----------------------------------------------------------------------------
(* _publish, _broadcast, _hang_up.                                         *)

(* Bug: events are put whatever the queue already holds.                   *)
NeverOverflows(k, events) == FALSE

Overflows(k, events) == listed[k] /\ Len(queue[k]) + Len(events) > Backlog

(* What a socket is sent, as a function of its channel; gone is the session*)
(* whose sockets are hung up on.  A socket that falls behind is dropped.   *)
Send(sent, gone) ==
    LET for(k) == sent[Channel(k)]
        hungUp(k) == listed[k] /\ (Channel(k) \in gone \/ Overflows(k, for(k)))
    IN  /\ queue' = [k \in Sockets |-> IF hungUp(k) THEN <<HangUp>>
                                       ELSE IF listed[k] THEN queue[k] \o for(k)
                                       ELSE queue[k]]
        /\ listed' = [k \in Sockets |-> listed[k] /\ ~hungUp(k)]
        /\ UNCHANGED place

(* A change of state reaches the session's sockets and the table's.        *)
Changes(s) == IF state'[s] = state[s] THEN <<>> ELSE <<Event("state", s)>>

Tell(s, private, public) ==
    Send([ch \in Channels |-> IF ch = s THEN Changes(s) \o private
                              ELSE IF ch = Table THEN Changes(s) \o public
                              ELSE <<>>], {})

(* Bug: a session that closes keeps its sockets.                           *)
TellEndToTableOnly(s) == Tell(s, <<>>, <<Event("session_closed", s)>>)

(* The end of Registry.close: its sockets are hung up on.                  *)
TellEnd(s) ==
    Send([ch \in Channels |-> IF ch = Table
                              THEN Changes(s) \o <<Event("session_closed", s)>>
                              ELSE <<>>], {s})

-----------------------------------------------------------------------------
(* Registry.open.                                                          *)

Register(s) ==
    /\ opening[s] = "new"
    /\ opening' = [opening EXCEPT ![s] = "waiting"]
    /\ sessions' = sessions \cup {s}
    /\ UNCHANGED <<state, closing, closers, announced, due, restarts>>
    /\ Tell(s, <<>>, <<Event("session_starting", s)>>)

(* Bug: a hello that came is enough to open, whatever came after it.       *)
OpensOnHello(s) == opening[s] = "waiting"

(* Session.start, woken by hello.                                          *)
MayOpen(s) == opening[s] = "waiting" /\ ~closing[s] /\ state[s] = "starting"

Opened(s) ==
    /\ MayOpen(s)
    /\ state' = [state EXCEPT ![s] = "ready"]
    /\ opening' = [opening EXCEPT ![s] = "done"]
    /\ UNCHANGED <<closing, sessions, closers, announced, due, restarts>>
    /\ Tell(s, <<>>, <<Event("session_opened", s)>>)

(* Its version is one the server may not have: only hello could say.       *)
Refused(s) ==
    /\ MayOpen(s)
    /\ state' = [state EXCEPT ![s] = "ready"]
    /\ opening' = [opening EXCEPT ![s] = "failing"]
    /\ closing' = [closing EXCEPT ![s] = TRUE]
    /\ UNCHANGED <<sessions, closers, announced, due, restarts>>
    /\ Tell(s, <<>>, <<>>)

(* The session was closed, killed or died while it started: it is killed.  *)
StartFails(s) ==
    /\ opening[s] = "waiting"
    /\ closing[s] \/ Ended(s)
    /\ opening' = [opening EXCEPT ![s] = "failing"]
    /\ closing' = [closing EXCEPT ![s] = TRUE]
    /\ UNCHANGED <<state, sessions, closers, announced, due, restarts, socketVars>>

(* Bug: a close overwrites how the session ended.                          *)
ClosedAnyway(s) == "closed"

EndedState(s) == IF Ended(s) THEN state[s] ELSE "closed"

(* The kill is over.  The entry goes; the session's sockets stay.          *)
OpenFails(s) ==
    /\ opening[s] = "failing"
    /\ opening' = [opening EXCEPT ![s] = "failed"]
    /\ state' = [state EXCEPT ![s] = EndedState(s)]
    /\ sessions' = sessions \ {s}
    /\ UNCHANGED <<closing, closers, announced, due, restarts>>
    /\ Tell(s, <<>>, <<Event("session_failed", s)>>)

-----------------------------------------------------------------------------
(* What a session does by itself, through its on_event callback.           *)

Works(s) ==
    /\ \/ state[s] = "ready" /\ state' = [state EXCEPT ![s] = "busy"]
       \/ state[s] = "busy" /\ ~closing[s] /\ state' = [state EXCEPT ![s] = "ready"]
    /\ UNCHANGED <<closing, opening, sessions, closers, announced, due, restarts>>
    /\ Tell(s, <<>>, <<>>)

(* A session opened for one run says once that it has done it.             *)
Announce(s) ==
    /\ opening[s] = "done"
    /\ ~announced[s]
    /\ announced' = [announced EXCEPT ![s] = TRUE]
    /\ due' = [due EXCEPT ![s] = TRUE]
    /\ Tell(s, <<Event("autoclose", s)>>, <<>>)

(* _die.  The loss of a closing session is its close.                      *)
Dies(s) ==
    /\ s \in sessions /\ ~closing[s] /\ ~Ended(s)
    /\ state' = [state EXCEPT ![s] = "dead"]
    /\ UNCHANGED <<closing, opening, sessions, closers, restarts>>
    /\ Announce(s) \/ (UNCHANGED <<announced, due>> /\ Tell(s, <<>>, <<>>))

RunSettles(s) ==
    /\ state[s] \in {"ready", "busy"}
    /\ UNCHANGED <<state, closing, opening, sessions, closers, restarts>>
    /\ Announce(s)

-----------------------------------------------------------------------------
(* Registry.close.                                                         *)

(* It leaves the table and says so, whoever else is closing it.            *)
Remove(s) ==
    /\ sessions' = sessions \ {s}
    /\ TellEnd(s)

(* A close waits for the process; a kill too, of a dead session as well.   *)
BeginClose(s) ==
    /\ closing' = [closing EXCEPT ![s] = TRUE]
    /\ closers' = [closers EXCEPT ![s] = @ + 1]
    /\ UNCHANGED <<state, opening, announced, sessions, restarts, socketVars>>

(* A close finds the session ended: it only has to leave the table.        *)
CloseEnded(s) ==
    /\ Ended(s)
    /\ UNCHANGED <<state, closing, opening, closers, announced, restarts>>
    /\ Remove(s)

(* DELETE /api/sessions/{id}, and each of the closes of a shut down.       *)
Close(s) ==
    /\ s \in sessions
    /\ \/ closers[s] < MaxClosers /\ BeginClose(s)
       \/ CloseEnded(s)
    /\ UNCHANGED due

EndClose(s) ==
    /\ closers[s] > 0
    /\ closers' = [closers EXCEPT ![s] = @ - 1]
    /\ state' = [state EXCEPT ![s] = EndedState(s)]
    /\ Remove(s)
    /\ UNCHANGED <<closing, opening, announced, due, restarts>>

(* Bug: a run's end closes only a session that is ready by then.           *)
ThereAndReady(s) == s \in sessions /\ state[s] = "ready"

StillThere(s) == s \in sessions

(* _autoclose: a task, begun some turns of the loop after the announcement.*)
AutocloseRuns(s) ==
    /\ due[s]
    /\ due' = [due EXCEPT ![s] = FALSE]
    /\ IF ~StillThere(s)
       THEN UNCHANGED <<state, closing, opening, closers, announced, sessions,
                        restarts, socketVars>>
       ELSE IF Ended(s) THEN CloseEnded(s) ELSE BeginClose(s)

-----------------------------------------------------------------------------
(* The sockets: /ws/sessions and /ws/sessions/{id}.                        *)

Put(k, p, l, q) ==
    /\ place' = [place EXCEPT ![k] = p]
    /\ listed' = [listed EXCEPT ![k] = l]
    /\ queue' = [queue EXCEPT ![k] = q]
    /\ UNCHANGED sessionVars

Subscribes(k) == Channel(k) \in sessions \cup {Table}

Accept(k) ==
    /\ place[k] = "connecting"
    /\ IF Subscribes(k) THEN Put(k, "open", TRUE, <<>>)
                        ELSE Put(k, "closed", FALSE, <<>>)

(* _forward takes from the queue and sends, here to a client that reads it *)
(* in the same step; what the client does with it settles place.           *)
Heard(k) == Head(queue[k])

Hears(k) ==
    /\ place[k] = "open"
    /\ queue[k] # <<>>
    /\ Heard(k) # HangUp
    /\ queue' = [queue EXCEPT ![k] = Tail(@)]
    /\ UNCHANGED <<sessionVars, listed>>

HangsUp(k) ==
    /\ place[k] = "open"
    /\ queue[k] # <<>>
    /\ Heard(k) = HangUp
    /\ Put(k, "closed", FALSE, <<>>)

(* A client that left is noticed when something is sent to it.             *)
SendFails(k) ==
    /\ place[k] = "left"
    /\ queue[k] # <<>>
    /\ Put(k, "free", FALSE, <<>>)

-----------------------------------------------------------------------------
(* The daemon ends and another starts: its sessions end with it, and every *)
(* socket and request is cut off.                                          *)
Restart ==
    /\ restarts < MaxRestarts
    /\ restarts' = restarts + 1
    /\ sessions' = {}
    /\ state' = [s \in Sessions |->
                    IF s \in sessions /\ ~Ended(s)
                    THEN IF closing[s] THEN "closed" ELSE "dead"
                    ELSE state[s]]
    /\ opening' = [s \in Sessions |-> IF opening[s] \in {"waiting", "failing"}
                                      THEN "lost" ELSE opening[s]]
    /\ closers' = [s \in Sessions |-> 0]
    /\ due' = [s \in Sessions |-> FALSE]
    /\ UNCHANGED <<closing, announced>>
    /\ place' = [k \in Sockets |-> IF place[k] \in {"free", "left"} THEN "free"
                                   ELSE "closed"]
    /\ listed' = [k \in Sockets |-> FALSE]
    /\ queue' = [k \in Sockets |-> <<>>]

RegistryInit ==
    /\ state = [s \in Sessions |-> "starting"]
    /\ closing = [s \in Sessions |-> FALSE]
    /\ opening = [s \in Sessions |-> "new"]
    /\ sessions = {}
    /\ closers = [s \in Sessions |-> 0]
    /\ announced = [s \in Sessions |-> FALSE]
    /\ due = [s \in Sessions |-> FALSE]
    /\ restarts = 0
    /\ listed = [k \in Sockets |-> FALSE]
    /\ queue = [k \in Sockets |-> <<>>]

(* What the daemon's loop does with a session by itself.                   *)
Loop(s) == StartFails(s) \/ OpenFails(s) \/ EndClose(s) \/ AutocloseRuns(s)

SessionStep(s) ==
    \/ Register(s) \/ Opened(s) \/ Refused(s)
    \/ Works(s) \/ Dies(s) \/ RunSettles(s) \/ Close(s)
    \/ Loop(s)
=============================================================================
