----------------------------- MODULE PageProofs -----------------------------
(***************************************************************************)
(* Sessions keep their lifecycles in the registry, sockets do not outlive  *)
(* a close, the page holds one socket per tab, and whoever listens hears   *)
(* of an opening before the end of what was opened: for any number of      *)
(* sessions, sockets and restarts, and any backlog.                        *)
(***************************************************************************)
EXTENDS Page, TLAPS

(* An event about a session, or the sentinel that hangs up.                *)
Notices == {e \in Events : e = HangUp \/ e.of \in Sessions}

Shapes ==
    /\ state \in [Sessions -> States]
    /\ closing \in [Sessions -> BOOLEAN]
    /\ opening \in [Sessions -> Openings]
    /\ sessions \subseteq Sessions
    /\ closers \in [Sessions -> Nat]
    /\ place \in [Sockets -> Places]
    /\ listed \in [Sockets -> BOOLEAN]
    /\ queue \in [Sockets -> Seq(Notices)]
    /\ tab \in [Sessions -> Sockets \cup {NoTab, Offline}]
    /\ watching \in Sockets \cup {Offline}

(* Whatever will end a session has said so.                                *)
EndersClose ==
    \A s \in Sessions : closers[s] > 0 \/ opening[s] = "failing" => closing[s]

Inv == Shapes /\ EndersClose /\ ClosedHasNoSockets /\ OneSocketPerTab

-----------------------------------------------------------------------------
(* Events only ever take sockets off the registry's lists.                 *)
LEMMA SendUnlists ==
    ASSUME listed \in [Sockets -> BOOLEAN], queue \in [Sockets -> Seq(Notices)],
           NEW sent \in [Channels -> Seq(Notices)], NEW gone, Send(sent, gone)
    PROVE  /\ listed' \in [Sockets -> BOOLEAN]
           /\ queue' \in [Sockets -> Seq(Notices)]
           /\ \A k \in Sockets : listed'[k] => listed[k] /\ Channel(k) \notin gone
           /\ UNCHANGED place
<1>1. HangUp \in Notices
  BY DEF HangUp, Notices, Events, EventKinds, Channels
<1>2. \A k \in Sockets : sent[Channel(k)] \in Seq(Notices)
  BY DEF Sockets, Channel
<1>3. \A k \in Sockets : queue[k] \o sent[Channel(k)] \in Seq(Notices)
  BY <1>2
<1>4. queue' \in [Sockets -> Seq(Notices)]
  BY <1>1, <1>3 DEF Send
<1> QED
  BY <1>4 DEF Send

(* What the socket part of Inv asks of a step of a session.                *)
SessionStepFits ==
    /\ listed' \in [Sockets -> BOOLEAN]
    /\ queue' \in [Sockets -> Seq(Notices)]
    /\ UNCHANGED place
    /\ \A k \in Sockets : listed'[k] =>
          /\ listed[k]
          /\ Channel(k) \in Sessions =>
                \/ Channel(k) \in sessions' \/ Channel(k) \notin sessions
                \/ opening'[Channel(k)] = "failed"
    /\ \A s \in Sessions : opening[s] = "failed" => opening'[s] = "failed"

(* A step of a session tells of that session.                              *)
LEMMA EventIsNotice ==
    ASSUME NEW s \in Sessions, state' \in [Sessions -> States], NEW kind \in EventKinds
    PROVE  Event(kind, s) \in Notices
BY DEF Event, Notices, Events, Channels, HangUp

LEMMA ChangesAreNotices ==
    ASSUME NEW s \in Sessions, state' \in [Sessions -> States]
    PROVE  Changes(s) \in Seq(Notices)
<1>1. Event("state", s) \in Notices
  BY EventIsNotice DEF EventKinds
<1> QED
  BY <1>1 DEF Changes

LEMMA ToldAreNotices ==
    ASSUME NEW s \in Sessions, state' \in [Sessions -> States]
    PROVE  /\ <<>> \in Seq(Notices)
           /\ \A kind \in {"session_starting", "session_opened", "session_failed",
                           "session_closed", "autoclose"} :
                 <<Event(kind, s)>> \in Seq(Notices)
BY EventIsNotice DEF EventKinds

LEMMA TellUnlists ==
    ASSUME listed \in [Sockets -> BOOLEAN], queue \in [Sockets -> Seq(Notices)],
           state' \in [Sessions -> States], NEW s \in Sessions,
           NEW private \in Seq(Notices), NEW public \in Seq(Notices),
           Tell(s, private, public)
    PROVE  /\ listed' \in [Sockets -> BOOLEAN]
           /\ queue' \in [Sockets -> Seq(Notices)]
           /\ \A k \in Sockets : listed'[k] => listed[k]
           /\ UNCHANGED place
<1>1. Changes(s) \o private \in Seq(Notices) /\ Changes(s) \o public \in Seq(Notices)
  BY ChangesAreNotices
<1> DEFINE sent == [ch \in Channels |-> IF ch = s THEN Changes(s) \o private
                                        ELSE IF ch = Table THEN Changes(s) \o public
                                        ELSE <<>>]
<1>2. sent \in [Channels -> Seq(Notices)]
  BY <1>1
<1>3. Send(sent, {})
  BY DEF Tell
<1> HIDE DEF sent
<1> QED
  BY <1>2, <1>3, SendUnlists

LEMMA RemoveUnlists ==
    ASSUME listed \in [Sockets -> BOOLEAN], queue \in [Sockets -> Seq(Notices)],
           state' \in [Sessions -> States], NEW s \in Sessions, Remove(s)
    PROVE  /\ listed' \in [Sockets -> BOOLEAN]
           /\ queue' \in [Sockets -> Seq(Notices)]
           /\ \A k \in Sockets : listed'[k] => listed[k] /\ Channel(k) # s
           /\ UNCHANGED place
           /\ sessions' = sessions \ {s}
<1>1. Changes(s) \o <<Event("session_closed", s)>> \in Seq(Notices)
  BY ChangesAreNotices, EventIsNotice DEF EventKinds
<1> DEFINE sent == [ch \in Channels |->
                      IF ch = Table
                      THEN Changes(s) \o <<Event("session_closed", s)>>
                      ELSE <<>>]
<1>2. sent \in [Channels -> Seq(Notices)]
  BY <1>1
<1>3. Send(sent, {s})
  BY DEF Remove, TellEnd
<1> HIDE DEF sent
<1> QED
  BY <1>2, <1>3, SendUnlists DEF Remove

(* What it leaves of the sessions themselves, and the lifecycle it keeps.  *)
SessionsFit ==
    /\ state' \in [Sessions -> States]
    /\ closing' \in [Sessions -> BOOLEAN]
    /\ opening' \in [Sessions -> Openings]
    /\ sessions' \subseteq Sessions
    /\ closers' \in [Sessions -> Nat]
    /\ EndersClose'
    /\ \A s \in Sessions : [Life(s)!Next]_<<state[s], closing[s]>>

LEMMA OpeningFits ==
    ASSUME Inv, NEW s \in Sessions, Register(s) \/ Opened(s) \/ Refused(s)
    PROVE  SessionsFit /\ SessionStepFits
<1> USE DEF Inv, Shapes, States, Openings
<1>1. /\ listed' \in [Sockets -> BOOLEAN]
      /\ queue' \in [Sockets -> Seq(Notices)]
      /\ \A k \in Sockets : listed'[k] => listed[k]
      /\ UNCHANGED place
  <2>1. state' \in [Sessions -> States]
    BY DEF Register, Opened, Refused
  <2> QED
    BY <2>1, ToldAreNotices, TellUnlists DEF Register, Opened, Refused
<1>2. SessionStepFits
  BY <1>1 DEF SessionStepFits, Register, Opened, Refused, MayOpen
<1>3. SessionsFit
  BY DEF SessionsFit, EndersClose, Register, Opened, Refused, MayOpen,
         Life!Next, Life!Open
<1> QED
  BY <1>2, <1>3

LEMMA WorkingFits ==
    ASSUME Inv, NEW s \in Sessions, Works(s) \/ Dies(s) \/ RunSettles(s)
    PROVE  SessionsFit /\ SessionStepFits
<1> USE DEF Inv, Shapes, States
<1>1. /\ listed' \in [Sockets -> BOOLEAN]
      /\ queue' \in [Sockets -> Seq(Notices)]
      /\ \A k \in Sockets : listed'[k] => listed[k]
      /\ UNCHANGED <<place, opening, sessions>>
  <2>1. state' \in [Sessions -> States]
    BY DEF Works, Dies, RunSettles
  <2>2. Tell(s, <<>>, <<>>) \/ Tell(s, <<Event("autoclose", s)>>, <<>>)
    BY DEF Works, Dies, RunSettles, Announce
  <2>3. UNCHANGED <<opening, sessions>>
    BY DEF Works, Dies, RunSettles
  <2> QED
    BY <2>1, <2>2, <2>3, ToldAreNotices, TellUnlists
<1>2. SessionStepFits
  BY <1>1 DEF SessionStepFits
<1>3. CASE Works(s)
  <2>1. UNCHANGED <<closing, opening, sessions, closers>>
    BY <1>3 DEF Works
  <2>2. \/ state[s] = "ready" /\ state' = [state EXCEPT ![s] = "busy"]
        \/ state[s] = "busy" /\ ~closing[s] /\ state' = [state EXCEPT ![s] = "ready"]
    BY <1>3 DEF Works
  <2>3. SessionsFit
    BY <2>1, <2>2 DEF SessionsFit, EndersClose, Life!Next, Life!Begin, Life!Finish
  <2> QED
    BY <1>2, <2>3
<1>4. CASE Dies(s)
  <2>1. /\ UNCHANGED <<closing, opening, sessions, closers>>
        /\ ~closing[s] /\ ~Ended(s) /\ state' = [state EXCEPT ![s] = "dead"]
    BY <1>4 DEF Dies
  <2>2. SessionsFit
    BY <2>1 DEF SessionsFit, EndersClose, Ended, Life!Next, Life!Die, Life!Ended
  <2> QED
    BY <1>2, <2>2
<1>5. CASE RunSettles(s)
  BY <1>2, <1>5 DEF RunSettles, SessionsFit, EndersClose
<1> QED
  BY <1>3, <1>4, <1>5

LEMMA ClosingFits ==
    ASSUME Inv, NEW s \in Sessions, Close(s) \/ Loop(s)
    PROVE  SessionsFit /\ SessionStepFits
<1> USE DEF Inv, Shapes, States
<1>1. CASE BeginClose(s)
  <2>1. SessionStepFits
    BY <1>1 DEF BeginClose, SessionStepFits, socketVars
  <2>2. SessionsFit
    <3>1. /\ UNCHANGED <<state, opening, sessions>>
          /\ closing' = [closing EXCEPT ![s] = TRUE]
          /\ closers' = [closers EXCEPT ![s] = @ + 1]
      BY <1>1 DEF BeginClose
    <3>2. closing' \in [Sessions -> BOOLEAN] /\ closers' \in [Sessions -> Nat]
      BY <3>1
    <3>3. EndersClose'
      BY <3>1 DEF EndersClose
    <3>4. \A r \in Sessions : [Life(r)!Next]_<<state[r], closing[r]>>
      BY <3>1 DEF Life!Next, Life!AskToEnd
    <3> QED
      BY <3>1, <3>2, <3>3, <3>4 DEF SessionsFit
  <2> QED
    BY <2>1, <2>2
<1>2. CASE CloseEnded(s)
  <2>1. SessionStepFits
    BY <1>2, RemoveUnlists DEF CloseEnded, SessionStepFits
  <2>2. SessionsFit
    BY <1>2, RemoveUnlists DEF CloseEnded, SessionsFit, EndersClose
  <2> QED
    BY <2>1, <2>2
<1>3. CASE EndClose(s)
  <2>1. SessionStepFits
    <3>1. state' \in [Sessions -> States]
      BY <1>3 DEF EndClose, EndedState
    <3> QED
      BY <1>3, <3>1, RemoveUnlists DEF EndClose, SessionStepFits
  <2>2. closing[s]
    BY <1>3 DEF EndClose, EndersClose
  <2>3. SessionsFit
    BY <1>3, <2>2, RemoveUnlists DEF EndClose, EndedState, Ended, SessionsFit,
       EndersClose, Life!Next, Life!Close, Life!Ended
  <2> QED
    BY <2>1, <2>3
<1>4. CASE StartFails(s)
  <2>1. SessionStepFits
    BY <1>4 DEF StartFails, SessionStepFits, socketVars
  <2>2. SessionsFit
    BY <1>4 DEF StartFails, SessionsFit, EndersClose, Openings, Life!Next, Life!AskToEnd
  <2> QED
    BY <2>1, <2>2
<1>5. CASE OpenFails(s)
  <2>1. SessionStepFits
    <3>1. state' \in [Sessions -> States]
      BY <1>5 DEF OpenFails, EndedState
    <3> QED
      BY <1>5, <3>1, ToldAreNotices, TellUnlists DEF OpenFails, SessionStepFits
  <2>2. closing[s]
    BY <1>5 DEF OpenFails, EndersClose
  <2>3. SessionsFit
    BY <1>5, <2>2 DEF OpenFails, EndedState, Ended, SessionsFit, EndersClose, Openings,
       Life!Next, Life!Close, Life!Ended
  <2> QED
    BY <2>1, <2>3
<1>6. CASE AutocloseRuns(s) /\ ~StillThere(s)
  BY <1>6 DEF AutocloseRuns, SessionsFit, SessionStepFits, EndersClose, socketVars
<1> QED
  BY <1>1, <1>2, <1>3, <1>4, <1>5, <1>6 DEF Close, Loop, AutocloseRuns

LEMMA SessionStepsFit ==
    ASSUME Inv, NEW s \in Sessions, SessionStep(s)
    PROVE  SessionsFit /\ SessionStepFits
BY OpeningFits, WorkingFits, ClosingFits DEF SessionStep

-----------------------------------------------------------------------------
(* The sockets and the page.                                               *)

(* A fresh socket is a free one of its own channel.                        *)
LEMMA FreshIsFree ==
    ASSUME NEW ch, FreeLines(ch) # {}
    PROVE  Fresh(ch) \in Sockets /\ Channel(Fresh(ch)) = ch /\ place[Fresh(ch)] = "free"
BY DEF Fresh, FreeLines, LinesOf

InUse == {"connecting", "open", "closed"}

LEMMA RetabKeepsOne ==
    ASSUME Inv, NEW opens \in SUBSET Sessions, NEW drops \in SUBSET Sessions,
           Retab(opens, drops), UNCHANGED watching,
           \A s \in opens : tab[s] \in {NoTab, Offline}
    PROVE  /\ tab' \in [Sessions -> Sockets \cup {NoTab, Offline}]
           /\ place' \in [Sockets -> Places]
           /\ OneSocketPerTab'
<1>1. \A s \in opens : /\ Fresh(s) \in Sockets /\ Channel(Fresh(s)) = s
                       /\ place[Fresh(s)] = "free"
  BY FreshIsFree DEF Retab
<1>2. tab' \in [Sessions -> Sockets \cup {NoTab, Offline}]
  BY <1>1 DEF Retab, Inv, Shapes
<1>3. place' \in [Sockets -> Places]
  BY DEF Retab, Inv, Shapes, Places
<1>4. ASSUME NEW k \in Sockets, place'[k] \in InUse
      PROVE  k = IF Channel(k) = Table THEN watching' ELSE tab'[Channel(k)]
  <2>1. Channel(k) \in Sessions \cup {Table}
    BY DEF Channel, Sockets, Channels
  <2>2. CASE \E s \in opens : k = Fresh(s)
    BY <1>1, <2>2, RegistryAssumption DEF Retab
  <2>3. CASE ~\E s \in opens : k = Fresh(s)
    <3>1. place[k] \in InUse /\ ~\E s \in drops : k = tab[s]
      BY <1>4, <2>3 DEF Retab, InUse
    <3>2. k = IF Channel(k) = Table THEN watching ELSE tab[Channel(k)]
      BY <3>1 DEF Inv, OneSocketPerTab, InUse
    <3> QED
      BY <2>1, <3>1, <3>2, PageAssumption DEF Retab
  <2> QED
    BY <2>2, <2>3
<1> QED
  BY <1>2, <1>3, <1>4 DEF OneSocketPerTab, InUse

LEMMA TablePlaces == Table \notin Sessions /\ \A k \in Sockets : Channel(k) \in Channels
BY RegistryAssumption DEF Channel, Sockets, Channels

(* A step of the page or of a socket that does not touch the sessions.     *)
SocketsFit ==
    /\ listed' \in [Sockets -> BOOLEAN]
    /\ queue' \in [Sockets -> Seq(Notices)]
    /\ place' \in [Sockets -> Places]
    /\ tab' \in [Sessions -> Sockets \cup {NoTab, Offline}]
    /\ watching' \in Sockets \cup {Offline}
    /\ ClosedHasNoSockets'
    /\ OneSocketPerTab'

LEMMA RetabFits ==
    ASSUME Inv, NEW opens \in SUBSET Sessions, NEW drops \in SUBSET Sessions,
           Retab(opens, drops), UNCHANGED <<watching, listed, sessions, opening>>,
           queue' \in [Sockets -> Seq(Notices)],
           \A s \in opens : tab[s] \in {NoTab, Offline}
    PROVE  SocketsFit
BY RetabKeepsOne DEF SocketsFit, Inv, Shapes, ClosedHasNoSockets

LEMMA SocketStepsFit ==
    ASSUME Inv, NEW k \in Sockets, SocketStep(k)
    PROVE  SocketsFit
<1> USE DEF Inv, Shapes, Places
<1>1. UNCHANGED <<tab, watching, sessions, opening>>
  BY DEF SocketStep, Accept, HangsUp, SendFails, Put, pageVars, sessionVars
<1>2. /\ listed' \in [Sockets -> BOOLEAN] /\ place' \in [Sockets -> Places]
      /\ queue' \in [Sockets -> Seq(Notices)]
      /\ \A j \in Sockets : j # k => UNCHANGED <<listed[j], place[j]>>
      /\ place[k] \in InUse \/ place'[k] = "free"
      /\ listed'[k] => Channel(k) \in sessions \cup {Table}
  <2>1. CASE Accept(k)
    <3>1. \/ Put(k, "open", TRUE, <<>>) /\ Channel(k) \in sessions \cup {Table}
          \/ Put(k, "closed", FALSE, <<>>)
      BY <2>1 DEF Accept, Subscribes
    <3>2. place[k] \in InUse
      BY <2>1 DEF Accept, InUse
    <3>3. CASE Put(k, "open", TRUE, <<>>) /\ Channel(k) \in sessions \cup {Table}
      BY <3>2, <3>3 DEF Put
    <3>4. CASE Put(k, "closed", FALSE, <<>>)
      BY <3>2, <3>4 DEF Put
    <3> QED
      BY <3>1, <3>3, <3>4
  <2>2. CASE HangsUp(k)
    BY <2>2 DEF HangsUp, Put, InUse
  <2>3. CASE SendFails(k)
    BY <2>3 DEF SendFails, Put
  <2> QED
    BY <2>1, <2>2, <2>3 DEF SocketStep
<1>3. ClosedHasNoSockets'
  BY <1>1, <1>2 DEF ClosedHasNoSockets
<1>4. OneSocketPerTab'
  BY <1>1, <1>2 DEF OneSocketPerTab, InUse
<1> QED
  BY <1>1, <1>2, <1>3, <1>4 DEF SocketsFit

LEMMA SocketClosesFits ==
    ASSUME Inv, NEW k \in Sockets, SocketCloses(k)
    PROVE  SocketsFit
<1> USE DEF Inv, Shapes, Places
<1>1. /\ UNCHANGED <<sessions, opening>>
      /\ place' = [place EXCEPT ![k] = "free"]
      /\ listed' = [listed EXCEPT ![k] = FALSE]
      /\ queue' = [queue EXCEPT ![k] = <<>>]
      /\ tab' = [s \in Sessions |-> IF tab[s] = k THEN Offline ELSE tab[s]]
      /\ watching' = IF watching = k THEN Offline ELSE watching
  BY DEF SocketCloses, Put, sessionVars
<1>2. ClosedHasNoSockets'
  BY <1>1 DEF ClosedHasNoSockets
<1>3. OneSocketPerTab'
  BY <1>1, TablePlaces DEF OneSocketPerTab, Channels
<1> QED
  BY <1>1, <1>2, <1>3 DEF SocketsFit

LEMMA TableReconnectsFits == ASSUME Inv, TableReconnects PROVE SocketsFit
<1> USE DEF Inv, Shapes, Places
<1> DEFINE k == Fresh(Table)
<1>1. k \in Sockets /\ Channel(k) = Table
  BY FreshIsFree DEF TableReconnects
<1>2. /\ UNCHANGED <<sessions, opening, tab>>
      /\ watching = Offline /\ watching' = k
      /\ place' = [place EXCEPT ![k] = "connecting"]
      /\ listed' = [listed EXCEPT ![k] = FALSE]
      /\ queue' = [queue EXCEPT ![k] = <<>>]
  BY DEF TableReconnects, Put, sessionVars
<1> HIDE DEF k
<1>3. ClosedHasNoSockets'
  BY <1>1, <1>2 DEF ClosedHasNoSockets
<1>4. OneSocketPerTab'
  BY <1>1, <1>2, PageAssumption DEF OneSocketPerTab
<1> QED
  BY <1>1, <1>2, <1>3, <1>4 DEF SocketsFit

LEMMA HearsTakesOne ==
    ASSUME queue \in [Sockets -> Seq(Notices)], NEW k \in Sockets, Hears(k)
    PROVE  /\ queue' \in [Sockets -> Seq(Notices)]
           /\ Heard(k).of \in Sessions
           /\ UNCHANGED <<listed, sessions, opening>>
BY DEF Hears, Heard, Notices, sessionVars

LEMMA PageFits ==
    ASSUME Inv, TableHears \/ Reattached \/ \E s \in Sessions : TabStep(s)
    PROVE  SocketsFit
<1> USE DEF Inv, Shapes
<1>1. CASE TableHears
  <2> DEFINE e == Heard(watching)
  <2>1. /\ UNCHANGED <<watching, listed, sessions, opening>> /\ e.of \in Sessions
        /\ queue' \in [Sockets -> Seq(Notices)]
    BY <1>1, HearsTakesOne DEF TableHears
  <2>2. \/ tab[e.of] = NoTab /\ Retab({e.of}, {})
        \/ Retab({}, {e.of})
        \/ UNCHANGED <<tab, place>>
    BY <1>1 DEF TableHears, Attaches, HasTab
  <2> HIDE DEF e
  <2>3. CASE UNCHANGED <<tab, place>>
    BY <2>1, <2>3 DEF SocketsFit, ClosedHasNoSockets, OneSocketPerTab
  <2>4. {} \in SUBSET Sessions /\ {e.of} \in SUBSET Sessions
    BY <2>1
  <2>5. CASE tab[e.of] = NoTab /\ Retab({e.of}, {})
    BY <2>1, <2>4, <2>5, RetabFits
  <2>6. CASE Retab({}, {e.of})
    BY <2>1, <2>4, <2>6, RetabFits
  <2> QED
    BY <2>2, <2>3, <2>5, <2>6
<1>2. CASE Reattached
  <2>1. UNCHANGED <<watching, listed, sessions, opening, queue>>
    BY <1>2 DEF Reattached, Done, sessionVars
  <2> DEFINE opens == {s \in Sessions \ Absent(Table) : Attaches(s)}
             drops == {s \in Absent(Table) : HasTab(s)}
  <2>2. Retab(opens, drops)
    BY <1>2 DEF Reattached
  <2>3. opens \in SUBSET Sessions /\ drops \in SUBSET Sessions
    BY DEF Absent
  <2>4. \A s \in opens : tab[s] = NoTab
    BY DEF Attaches, HasTab
  <2> HIDE DEF opens, drops
  <2> QED
    BY <2>1, <2>2, <2>3, <2>4, RetabFits
<1>3. ASSUME NEW s \in Sessions, TabStep(s) PROVE SocketsFit
  <2>1. /\ UNCHANGED <<watching, listed, sessions, opening>>
        /\ queue' \in [Sockets -> Seq(Notices)]
    BY <1>3, HearsTakesOne DEF TabStep, TabHears, TabReconnects, Resynced, Done, sessionVars
  <2>2. \/ tab[s] = Offline /\ Retab({s}, {})
        \/ Retab({}, {s})
        \/ UNCHANGED <<tab, place>>
    BY <1>3 DEF TabStep, TabHears, TabReconnects, Resynced
  <2>3. CASE UNCHANGED <<tab, place>>
    BY <2>1, <2>3 DEF SocketsFit, ClosedHasNoSockets, OneSocketPerTab
  <2>4. {} \in SUBSET Sessions /\ {s} \in SUBSET Sessions
    OBVIOUS
  <2>5. CASE tab[s] = Offline /\ Retab({s}, {})
    BY <2>1, <2>4, <2>5, RetabFits
  <2>6. CASE Retab({}, {s})
    BY <2>1, <2>4, <2>6, RetabFits
  <2> QED
    BY <2>2, <2>3, <2>5, <2>6
<1> QED
  BY <1>1, <1>2, <1>3

-----------------------------------------------------------------------------
(* Every step.                                                             *)

KeptLives ==
    \A s \in Sessions : Life(s)!Next \/ UNCHANGED <<state[s], closing[s]>>

LEMMA SessionStepKeeps ==
    ASSUME Inv, NEW s \in Sessions, SessionStep(s), UNCHANGED pageVars
    PROVE  Inv' /\ KeptLives
<1>1. SessionsFit /\ SessionStepFits
  BY SessionStepsFit
<1>2. Shapes'
  BY <1>1 DEF SessionsFit, SessionStepFits, pageVars, Inv, Shapes
<1>3. ClosedHasNoSockets'
  BY <1>1, TablePlaces DEF SessionsFit, SessionStepFits, Inv, Shapes, ClosedHasNoSockets, Channels
<1>4. OneSocketPerTab'
  BY <1>1 DEF SessionStepFits, pageVars, Inv, OneSocketPerTab
<1> QED
  BY <1>1, <1>2, <1>3, <1>4 DEF Inv, SessionsFit, KeptLives

(* A restart ends what is in the table and cuts every socket off.          *)
LEMMA RestartKeeps == ASSUME Inv, DaemonRestarts PROVE Inv' /\ KeptLives
<1> USE DEF Inv, Shapes
<1>1. UNCHANGED <<closing, tab, watching>> /\ sessions' = {}
  BY DEF DaemonRestarts, Restart
<1>2. Shapes'
  BY <1>1 DEF DaemonRestarts, Restart, States, Openings, Places
<1>3. EndersClose'
  BY DEF DaemonRestarts, Restart, EndersClose
<1>4. ClosedHasNoSockets'
  BY DEF DaemonRestarts, Restart, ClosedHasNoSockets
<1>5. OneSocketPerTab'
  BY <1>1 DEF DaemonRestarts, Restart, OneSocketPerTab, Places
<1>6. KeptLives
  BY <1>1 DEF DaemonRestarts, Restart, KeptLives, Ended, Life!Next, Life!Die, Life!Close,
     Life!Ended
<1> QED
  BY <1>2, <1>3, <1>4, <1>5, <1>6

LEMMA SessionsAlone ==
    ASSUME Inv, SocketsFit, UNCHANGED sessionVars PROVE Inv' /\ KeptLives
BY DEF Inv, Shapes, SocketsFit, sessionVars, EndersClose, KeptLives

LEMMA StepKeeps == ASSUME Inv, [Next]_vars PROVE Inv' /\ (KeptLives \/ UNCHANGED vars)
<1>1. ASSUME NEW s \in Sessions, SessionStep(s), UNCHANGED pageVars PROVE Inv' /\ KeptLives
  BY <1>1, SessionStepKeeps
<1>2. ASSUME NEW k \in Sockets, SocketStep(k) \/ SocketCloses(k) PROVE Inv' /\ KeptLives
  <2>1. SocketsFit
    BY <1>2, SocketStepsFit, SocketClosesFits
  <2>2. UNCHANGED sessionVars
    BY <1>2 DEF SocketStep, SocketCloses, Accept, HangsUp, SendFails, Put
  <2> QED
    BY <2>1, <2>2, SessionsAlone
<1>3. ASSUME (\E s \in Sessions : TabStep(s)) \/ TableStep PROVE Inv' /\ KeptLives
  <2>1. SocketsFit
    BY <1>3, PageFits, TableReconnectsFits DEF TableStep
  <2>2. UNCHANGED sessionVars
    BY <1>3 DEF TabStep, TableStep, TabHears, TableHears, Hears, TabReconnects, Resynced,
       Reattached, TableReconnects, Done, Put
  <2> QED
    BY <2>1, <2>2, SessionsAlone
<1>4. ASSUME NEW r \in Channels, Answer(r) PROVE Inv' /\ KeptLives
  BY <1>4 DEF Answer, registryVars, sessionVars, socketVars, Inv, Shapes, EndersClose,
     ClosedHasNoSockets, OneSocketPerTab, KeptLives
<1>5. CASE DaemonRestarts
  BY <1>5, RestartKeeps
<1>6. CASE UNCHANGED vars
  BY <1>6 DEF vars, pageVars, registryVars, sessionVars, socketVars, Inv, Shapes,
     EndersClose, ClosedHasNoSockets, OneSocketPerTab
<1> QED
  BY <1>1, <1>2, <1>3, <1>4, <1>5, <1>6 DEF Next

LEMMA InitFits == ASSUME Init PROVE Inv
<1> USE DEF Init, RegistryInit
<1>1. watching \in Sockets /\ Channel(watching) = Table
  BY RegistryAssumption DEF Sockets, Channels, Channel
<1>2. Shapes
  BY <1>1 DEF Shapes, States, Openings, Places
<1> QED
  BY <1>1, <1>2 DEF Inv, EndersClose, ClosedHasNoSockets, OneSocketPerTab

(* The invariant holds in every state.                                     *)
THEOREM InvHolds == Spec => []Inv
<1>1. Init => Inv
  BY InitFits
<1>2. Inv /\ [Next]_vars => Inv'
  BY StepKeeps
<1> QED
  BY <1>1, <1>2, PTL DEF Spec

(* Whatever closes, deaths and restarts meet, no socket that the daemon    *)
(* still feeds follows a session that a close took out of the table.       *)
THEOREM NoSocketOutlivesAClose == Spec => []ClosedHasNoSockets
<1>1. Inv => ClosedHasNoSockets
  BY DEF Inv
<1> QED
  BY <1>1, InvHolds, PTL

(* However events, lists and reconnects interleave, the page opens no      *)
(* second socket for a session or for the table.                           *)
THEOREM OneSocket == Spec => []OneSocketPerTab
<1>1. Inv => OneSocketPerTab
  BY DEF Inv
<1> QED
  BY <1>1, InvHolds, PTL

(* The registry's sessions live as module Lifecycle says, so what Session  *)
(* implements is what the page's model relies on.                          *)
THEOREM LifecyclesKept == Spec => KeepsLifecycles
<1>1. Init => \A s \in Sessions : Life(s)!Init
  <2> SUFFICES ASSUME Init, NEW s \in Sessions PROVE Life(s)!Init
    OBVIOUS
  <2> QED
    BY DEF Init, RegistryInit, Life!Init
<1>2. Inv /\ [Next]_vars =>
        [\A s \in Sessions :
            Life(s)!Next \/ UNCHANGED <<state[s], closing[s]>>]_<<state, closing>>
  BY StepKeeps DEF KeptLives, vars, registryVars, sessionVars
<1> QED
  BY <1>1, <1>2, InvHolds, PTL DEF Spec, KeepsLifecycles

-----------------------------------------------------------------------------
(* That nobody hears of an end before the opening it ends.                 *)

(* What starts is in the table until something ends it.                    *)
StartsInTable ==
    \A s \in Sessions : opening[s] = "waiting" /\ ~closing[s] /\ ~Ended(s) => s \in sessions

NoOpening(q) == \A i \in DOMAIN q : q[i].kind # "session_opened"

(* Openings wait only in front of sockets that follow the table and that   *)
(* will be told what comes next.                                           *)
OpeningsAreFollowed ==
    \A k \in Sockets : ~listed[k] \/ Channel(k) # Table => NoOpening(queue[k])

OrderInv == StartsInTable /\ OpeningsAreFollowed /\ OpeningIsToldBeforeEnd

(* Each opening in a queue of a session that is not in T has its end behind*)
(* it.                                                                     *)
Follows(q, T) ==
    \A i \in DOMAIN q :
        q[i].kind = "session_opened" /\ q[i].of \notin T =>
            \E j \in DOMAIN q : j > i /\ IsEnd(q[j], q[i].of)

LEMMA OrderIsFollowed ==
    OpeningIsToldBeforeEnd <=> \A k \in Sockets : Follows(queue[k], sessions)
BY DEF OpeningIsToldBeforeEnd, Follows

LEMMA SilentFollows ==
    ASSUME NEW q, NoOpening(q), NEW T PROVE Follows(q, T)
BY DEF NoOpening, Follows

LEMMA HangUpIsSilent == NoOpening(<<HangUp>>) /\ NoOpening(<<>>)
BY DEF NoOpening, HangUp

LEMMA TailFollows ==
    ASSUME NEW q \in Seq(Notices), q # <<>>, NEW T
    PROVE  /\ Follows(q, T) => Follows(Tail(q), T)
           /\ NoOpening(q) => NoOpening(Tail(q))
<1>1. /\ Len(q) \in Nat /\ DOMAIN q = 1..Len(q)
      /\ DOMAIN Tail(q) = 1..(Len(q) - 1)
      /\ \A i \in DOMAIN Tail(q) : i + 1 \in DOMAIN q /\ Tail(q)[i] = q[i + 1]
  OBVIOUS
<1>2. ASSUME Follows(q, T), NEW i \in DOMAIN Tail(q),
             Tail(q)[i].kind = "session_opened", Tail(q)[i].of \notin T
      PROVE  \E j \in DOMAIN Tail(q) : j > i /\ IsEnd(Tail(q)[j], Tail(q)[i].of)
  <2>1. PICK j \in DOMAIN q : j > i + 1 /\ IsEnd(q[j], q[i + 1].of)
    BY <1>1, <1>2 DEF Follows
  <2>2. j - 1 \in DOMAIN Tail(q) /\ j - 1 > i /\ (j - 1) + 1 = j /\ i \in Nat
    BY <1>1, <2>1
  <2>3. Tail(q)[j - 1] = q[j] /\ Tail(q)[i] = q[i + 1]
    BY <1>1, <2>2
  <2> QED
    BY <2>1, <2>2, <2>3
<1>3. Follows(q, T) => Follows(Tail(q), T)
  BY <1>2 DEF Follows
<1>4. NoOpening(q) => NoOpening(Tail(q))
  BY <1>1 DEF NoOpening
<1> QED
  BY <1>3, <1>4

(* Where what is told is put: behind what was.                             *)
LEMMA ConcatPlaces ==
    ASSUME NEW q \in Seq(Notices), NEW p \in Seq(Notices)
    PROVE  /\ Len(q) \in Nat /\ DOMAIN q = 1..Len(q)
           /\ \A i \in DOMAIN q : i \in DOMAIN (q \o p) /\ (q \o p)[i] = q[i]
           /\ \A j \in DOMAIN p : /\ Len(q) + j \in DOMAIN (q \o p)
                                  /\ (q \o p)[Len(q) + j] = p[j]
                                  /\ Len(q) + j > Len(q)
           /\ \A i \in DOMAIN (q \o p) : i \in DOMAIN q \/ \E j \in DOMAIN p : i = Len(q) + j
<1>1. /\ Len(q) \in Nat /\ DOMAIN q = 1..Len(q)
      /\ Len(p) \in Nat /\ DOMAIN p = 1..Len(p)
      /\ DOMAIN (q \o p) = 1..(Len(q) + Len(p))
  OBVIOUS
<1>2. \A i \in DOMAIN q : i \in DOMAIN (q \o p) /\ (q \o p)[i] = q[i]
  BY <1>1
<1>3. ASSUME NEW j \in DOMAIN p
      PROVE  /\ Len(q) + j \in DOMAIN (q \o p)
             /\ (q \o p)[Len(q) + j] = p[j]
             /\ Len(q) + j > Len(q)
  BY <1>1
<1>4. ASSUME NEW i \in DOMAIN (q \o p), i \notin DOMAIN q
      PROVE  \E j \in DOMAIN p : i = Len(q) + j
  <2>1. i - Len(q) \in DOMAIN p /\ i = Len(q) + (i - Len(q))
    BY <1>1, <1>4
  <2> QED
    BY <2>1
<1> QED
  BY <1>1, <1>2, <1>3, <1>4

LEMMA ConcatFollows ==
    ASSUME NEW q \in Seq(Notices), NEW p \in Seq(Notices), NEW T, NEW U,
           Follows(q, T),
           \A i \in DOMAIN p : p[i].kind = "session_opened" => p[i].of \in U,
           \A x \in T \ U : \E j \in DOMAIN p : IsEnd(p[j], x)
    PROVE  Follows(q \o p, U)
<1> DEFINE c == q \o p
<1>1. /\ Len(q) \in Nat /\ DOMAIN q = 1..Len(q)
      /\ \A i \in DOMAIN q : i \in DOMAIN c /\ c[i] = q[i]
      /\ \A j \in DOMAIN p : Len(q) + j \in DOMAIN c /\ c[Len(q) + j] = p[j]
                             /\ Len(q) + j > Len(q)
      /\ \A i \in DOMAIN c : i \in DOMAIN q \/ \E j \in DOMAIN p : i = Len(q) + j
  BY ConcatPlaces
<1> HIDE DEF c
<1>2. ASSUME NEW i \in DOMAIN c, c[i].kind = "session_opened", c[i].of \notin U
      PROVE  \E j \in DOMAIN c : j > i /\ IsEnd(c[j], c[i].of)
  <2>1. i \in DOMAIN q /\ c[i] = q[i]
    BY <1>1, <1>2
  <2>2. CASE q[i].of \in T
    <3>1. PICK j \in DOMAIN p : IsEnd(p[j], q[i].of)
      BY <1>2, <2>1, <2>2
    <3>2. Len(q) + j \in DOMAIN c /\ c[Len(q) + j] = p[j] /\ Len(q) + j > Len(q)
      BY <1>1
    <3>3. Len(q) + j > i
      BY <1>1, <2>1, <3>2, DOMAIN p = 1..Len(p), Len(p) \in Nat
    <3> QED
      BY <2>1, <3>1, <3>2, <3>3
  <2>3. CASE q[i].of \notin T
    <3>1. PICK j \in DOMAIN q : j > i /\ IsEnd(q[j], q[i].of)
      BY <1>2, <2>1, <2>3 DEF Follows
    <3> QED
      BY <1>1, <2>1, <3>1
  <2> QED
    BY <2>2, <2>3
<1> QED
  BY <1>2 DEF Follows, c

LEMMA ConcatSilent ==
    ASSUME NEW q \in Seq(Notices), NEW p \in Seq(Notices), NoOpening(q), NoOpening(p)
    PROVE  NoOpening(q \o p)
BY ConcatPlaces DEF NoOpening

(* What is told keeps the order if an end comes with each session that     *)
(* leaves and an opening only of one that is there.                        *)
LEMMA SendKeepsOrder ==
    ASSUME queue \in [Sockets -> Seq(Notices)], listed \in [Sockets -> BOOLEAN],
           OpeningsAreFollowed, OpeningIsToldBeforeEnd,
           NEW sent \in [Channels -> Seq(Notices)], NEW gone, Send(sent, gone),
           \A ch \in Channels \ {Table} : NoOpening(sent[ch]),
           \A i \in DOMAIN sent[Table] :
               sent[Table][i].kind = "session_opened" => sent[Table][i].of \in sessions',
           \A x \in sessions \ sessions' :
               \E j \in DOMAIN sent[Table] : IsEnd(sent[Table][j], x)
    PROVE  OpeningsAreFollowed' /\ OpeningIsToldBeforeEnd'
<1>1. ASSUME NEW k \in Sockets
      PROVE  /\ Channel(k) \in Channels
             /\ \/ ~listed'[k] /\ queue'[k] = <<HangUp>>
                \/ listed'[k] /\ listed[k] /\ queue'[k] = queue[k] \o sent[Channel(k)]
                \/ ~listed'[k] /\ ~listed[k] /\ queue'[k] = queue[k]
  BY DEF Send, Sockets, Channel
<1>2. ASSUME NEW k \in Sockets, ~listed'[k] \/ Channel(k) # Table
      PROVE  NoOpening(queue'[k])
  <2>1. CASE queue'[k] = <<HangUp>>
    BY <2>1, HangUpIsSilent
  <2>2. CASE listed'[k] /\ listed[k] /\ queue'[k] = queue[k] \o sent[Channel(k)]
    <3>1. NoOpening(queue[k]) /\ NoOpening(sent[Channel(k)])
      BY <1>1, <1>2, <2>2 DEF OpeningsAreFollowed
    <3>2. queue[k] \in Seq(Notices) /\ sent[Channel(k)] \in Seq(Notices)
      BY <1>1
    <3> QED
      BY <2>2, <3>1, <3>2, ConcatSilent
  <2>3. CASE ~listed[k] /\ queue'[k] = queue[k]
    BY <2>3 DEF OpeningsAreFollowed
  <2> QED
    BY <1>1, <2>1, <2>2, <2>3
<1>3. ASSUME NEW k \in Sockets PROVE Follows(queue'[k], sessions')
  <2>1. CASE ~listed'[k] \/ Channel(k) # Table
    BY <1>2, <2>1, SilentFollows
  <2>2. CASE listed'[k] /\ Channel(k) = Table
    <3>1. queue'[k] = queue[k] \o sent[Table]
      BY <1>1, <2>2
    <3>2. queue[k] \in Seq(Notices) /\ sent[Table] \in Seq(Notices)
      BY <1>1, <2>2
    <3>3. Follows(queue[k], sessions)
      BY OrderIsFollowed
    <3>4. Follows(queue[k] \o sent[Table], sessions')
      BY <3>2, <3>3, ConcatFollows
    <3> QED
      BY <3>1, <3>4
  <2> QED
    BY <2>1, <2>2
<1>4. OpeningsAreFollowed'
  BY <1>2 DEF OpeningsAreFollowed, NoOpening
<1>5. OpeningIsToldBeforeEnd'
  BY <1>3 DEF OpeningIsToldBeforeEnd, Follows
<1> QED
  BY <1>4, <1>5

(* What is told of a session: its change of state, then the event.         *)
LEMMA ChangesThen ==
    ASSUME NEW s \in Sessions, state' \in [Sessions -> States], NEW kind \in EventKinds
    PROVE  LET p == Changes(s) \o <<Event(kind, s)>> IN
           /\ p \in Seq(Notices)
           /\ \A i \in DOMAIN p : p[i] \in {Event("state", s), Event(kind, s)}
           /\ \E j \in DOMAIN p : p[j] = Event(kind, s)
<1>1. Event(kind, s) \in Notices /\ Event("state", s) \in Notices
  BY EventIsNotice DEF EventKinds
<1>2. CASE Changes(s) = <<>>
  <2> DEFINE p == Changes(s) \o <<Event(kind, s)>>
  <2>1. p \in Seq(Notices) /\ DOMAIN p = 1..1 /\ p[1] = Event(kind, s)
    BY <1>1, <1>2
  <2>2. 1 \in DOMAIN p
    BY <2>1
  <2>3. \A i \in DOMAIN p : i = 1
    BY <2>1
  <2> QED
    BY <2>1, <2>2, <2>3
<1>3. CASE Changes(s) = <<Event("state", s)>>
  <2> DEFINE p == Changes(s) \o <<Event(kind, s)>>
  <2>1. /\ p \in Seq(Notices) /\ DOMAIN p = 1..2
        /\ p[1] = Event("state", s) /\ p[2] = Event(kind, s)
    BY <1>1, <1>3
  <2>2. 2 \in DOMAIN p
    BY <2>1
  <2>3. \A i \in DOMAIN p : i = 1 \/ i = 2
    BY <2>1
  <2> QED
    BY <2>1, <2>2, <2>3
<1> QED
  BY <1>2, <1>3 DEF Changes

LEMMA ToldThen ==
    ASSUME NEW s \in Sessions, state' \in [Sessions -> States], NEW kind \in EventKinds
    PROVE  LET p == Changes(s) \o <<Event(kind, s)>> IN
           /\ p \in Seq(Notices)
           /\ \A i \in DOMAIN p : p[i].kind \in {"state", kind} /\ p[i].of = s
           /\ \E j \in DOMAIN p : p[j].kind = kind /\ p[j].of = s
<1> DEFINE p == Changes(s) \o <<Event(kind, s)>>
<1>1. /\ p \in Seq(Notices)
      /\ \A i \in DOMAIN p : p[i] \in {Event("state", s), Event(kind, s)}
      /\ \E j \in DOMAIN p : p[j] = Event(kind, s)
  BY ChangesThen
<1>2. /\ Event("state", s).kind = "state" /\ Event("state", s).of = s
      /\ Event(kind, s).kind = kind /\ Event(kind, s).of = s
  BY DEF Event
<1> HIDE DEF p
<1>3. \A i \in DOMAIN p : p[i].kind \in {"state", kind} /\ p[i].of = s
  BY <1>1, <1>2
<1>4. \E j \in DOMAIN p : p[j].kind = kind /\ p[j].of = s
  BY <1>1, <1>2
<1> QED
  BY <1>1, <1>3, <1>4 DEF p

LEMMA ChangesAlone ==
    ASSUME NEW s \in Sessions, state' \in [Sessions -> States]
    PROVE  LET p == Changes(s) \o <<>> IN
           /\ p \in Seq(Notices)
           /\ \A i \in DOMAIN p : p[i] = Event("state", s)
<1>1. Event("state", s) \in Notices
  BY EventIsNotice DEF EventKinds
<1>2. Changes(s) \o <<>> = Changes(s) /\ Changes(s) \in Seq(Notices)
  BY ChangesAreNotices
<1>3. \A i \in DOMAIN Changes(s) : Changes(s)[i] = Event("state", s)
  <2>1. CASE Changes(s) = <<>>
    BY <2>1
  <2>2. CASE Changes(s) = <<Event("state", s)>>
    BY <2>2
  <2> QED
    BY <2>1, <2>2 DEF Changes
<1> QED
  BY <1>2, <1>3

LEMMA TellKeepsOrder ==
    ASSUME queue \in [Sockets -> Seq(Notices)], listed \in [Sockets -> BOOLEAN],
           OpeningsAreFollowed, OpeningIsToldBeforeEnd, state' \in [Sessions -> States],
           NEW s \in Sessions,
           NEW private \in {<<>>, <<Event("autoclose", s)>>},
           NEW public, Tell(s, private, public),
           \/ public = <<>> /\ sessions \subseteq sessions'
           \/ public = <<Event("session_starting", s)>> /\ sessions \subseteq sessions'
           \/ public = <<Event("session_opened", s)>> /\ sessions' = sessions /\ s \in sessions
           \/ public = <<Event("session_failed", s)>> /\ sessions' = sessions \ {s}
    PROVE  OpeningsAreFollowed' /\ OpeningIsToldBeforeEnd'
<1> DEFINE own == Changes(s) \o private
           all == Changes(s) \o public
           sent == [ch \in Channels |-> IF ch = s THEN own
                                        ELSE IF ch = Table THEN all
                                        ELSE <<>>]
<1>1. own \in Seq(Notices) /\ NoOpening(own)
  <2>1. CASE private = <<>>
    BY <2>1, ChangesAlone DEF NoOpening, Event
  <2>2. CASE private = <<Event("autoclose", s)>>
    <3>1. "autoclose" \in EventKinds
      BY DEF EventKinds
    <3>2. own \in Seq(Notices) /\ \A i \in DOMAIN own : own[i].kind \in {"state", "autoclose"}
      BY <2>2, <3>1, ToldThen
    <3> QED
      BY <3>2 DEF NoOpening
  <2> QED
    BY <2>1, <2>2
<1>2. /\ all \in Seq(Notices)
      /\ \A i \in DOMAIN all : all[i].kind = "session_opened" => all[i].of \in sessions'
      /\ \A x \in sessions \ sessions' : \E j \in DOMAIN all : IsEnd(all[j], x)
  <2>1. CASE public = <<>> /\ sessions \subseteq sessions'
    BY <2>1, ChangesAlone DEF Event
  <2>2. CASE public = <<Event("session_starting", s)>> /\ sessions \subseteq sessions'
    <3>1. "session_starting" \in EventKinds
      BY DEF EventKinds
    <3> QED
      BY <2>2, <3>1, ToldThen
  <2>3. CASE public = <<Event("session_opened", s)>> /\ sessions' = sessions /\ s \in sessions
    <3>1. "session_opened" \in EventKinds
      BY DEF EventKinds
    <3> QED
      BY <2>3, <3>1, ToldThen
  <2>4. CASE public = <<Event("session_failed", s)>> /\ sessions' = sessions \ {s}
    <3> DEFINE told == Changes(s) \o <<Event("session_failed", s)>>
    <3>1. /\ told \in Seq(Notices)
          /\ \A i \in DOMAIN told : told[i].kind \in {"state", "session_failed"} /\ told[i].of = s
          /\ \E j \in DOMAIN told : told[j].kind = "session_failed" /\ told[j].of = s
      <4>1. "session_failed" \in EventKinds
        BY DEF EventKinds
      <4> QED
        BY <4>1, ToldThen
    <3>2. all = told
      BY <2>4
    <3>3. \A x \in sessions \ sessions' : x = s
      BY <2>4
    <3> HIDE DEF all, told
    <3>4. \A i \in DOMAIN all : all[i].kind # "session_opened"
      BY <3>1, <3>2
    <3>5. \E j \in DOMAIN all : IsEnd(all[j], s)
      BY <3>1, <3>2 DEF IsEnd
    <3> QED
      BY <3>1, <3>2, <3>3, <3>4, <3>5
  <2> QED
    BY <2>1, <2>2, <2>3, <2>4
<1> HIDE DEF own, all
<1>3. /\ sent \in [Channels -> Seq(Notices)]
      /\ sent[Table] = all
      /\ \A ch \in Channels \ {Table} : sent[ch] = own \/ sent[ch] = <<>>
  BY <1>1, <1>2, RegistryAssumption DEF Channels
<1>4. Send(sent, {})
  BY DEF Tell, own, all
<1> HIDE DEF sent
<1>5. \A ch \in Channels \ {Table} : NoOpening(sent[ch])
  BY <1>1, <1>3, HangUpIsSilent
<1>6. /\ \A i \in DOMAIN sent[Table] :
             sent[Table][i].kind = "session_opened" => sent[Table][i].of \in sessions'
      /\ \A x \in sessions \ sessions' :
             \E j \in DOMAIN sent[Table] : IsEnd(sent[Table][j], x)
  BY <1>2, <1>3
<1> QED
  BY <1>3, <1>4, <1>5, <1>6, SendKeepsOrder

LEMMA RemoveKeepsOrder ==
    ASSUME queue \in [Sockets -> Seq(Notices)], listed \in [Sockets -> BOOLEAN],
           OpeningsAreFollowed, OpeningIsToldBeforeEnd, state' \in [Sessions -> States],
           NEW s \in Sessions, Remove(s)
    PROVE  OpeningsAreFollowed' /\ OpeningIsToldBeforeEnd'
<1> DEFINE all == Changes(s) \o <<Event("session_closed", s)>>
           sent == [ch \in Channels |-> IF ch = Table THEN all ELSE <<>>]
<1>1. sessions' = sessions \ {s}
  BY DEF Remove
<1>2. /\ all \in Seq(Notices)
      /\ \A i \in DOMAIN all : all[i].kind # "session_opened"
      /\ \A x \in sessions \ sessions' : \E j \in DOMAIN all : IsEnd(all[j], x)
  <2>1. "session_closed" \in EventKinds
    BY DEF EventKinds
  <2>2. /\ all \in Seq(Notices)
        /\ \A i \in DOMAIN all : all[i].kind \in {"state", "session_closed"} /\ all[i].of = s
        /\ \E j \in DOMAIN all : all[j].kind = "session_closed" /\ all[j].of = s
    BY <2>1, ToldThen
  <2>3. \A x \in sessions \ sessions' : x = s
    BY <1>1
  <2> QED
    BY <2>2, <2>3 DEF IsEnd
<1>3. Send(sent, {s})
  BY DEF Remove, TellEnd
<1> HIDE DEF all
<1>4. /\ sent \in [Channels -> Seq(Notices)]
      /\ sent[Table] = all
      /\ \A ch \in Channels \ {Table} : sent[ch] = <<>>
  BY <1>2 DEF Channels
<1> HIDE DEF sent
<1>5. \A ch \in Channels \ {Table} : NoOpening(sent[ch])
  BY <1>4, HangUpIsSilent
<1>6. /\ \A i \in DOMAIN sent[Table] :
             sent[Table][i].kind = "session_opened" => sent[Table][i].of \in sessions'
      /\ \A x \in sessions \ sessions' :
             \E j \in DOMAIN sent[Table] : IsEnd(sent[Table][j], x)
  BY <1>2, <1>4
<1> QED
  BY <1>3, <1>4, <1>5, <1>6, SendKeepsOrder

LEMMA SocketsAloneKeepOrder ==
    ASSUME OpeningsAreFollowed, OpeningIsToldBeforeEnd, sessions \subseteq sessions',
           queue \in [Sockets -> Seq(Notices)],
           \A k \in Sockets :
               \/ queue'[k] = <<>>
               \/ /\ listed'[k] = listed[k]
                  /\ queue'[k] = queue[k] \/ (queue[k] # <<>> /\ queue'[k] = Tail(queue[k]))
    PROVE  OpeningsAreFollowed' /\ OpeningIsToldBeforeEnd'
<1>1. ASSUME NEW k \in Sockets
      PROVE  /\ ~listed'[k] \/ Channel(k) # Table => NoOpening(queue'[k])
             /\ Follows(queue'[k], sessions')
  <2>1. CASE queue'[k] = <<>>
    BY <2>1, HangUpIsSilent, SilentFollows
  <2>2. CASE listed'[k] = listed[k] /\ queue'[k] = queue[k]
    BY <2>2, OrderIsFollowed DEF OpeningsAreFollowed, Follows
  <2>3. CASE listed'[k] = listed[k] /\ queue[k] # <<>> /\ queue'[k] = Tail(queue[k])
    <3>1. queue[k] \in Seq(Notices) /\ Follows(queue[k], sessions)
      BY OrderIsFollowed
    <3>2. Follows(Tail(queue[k]), sessions)
      BY <2>3, <3>1, TailFollows
    <3>3. ~listed[k] \/ Channel(k) # Table => NoOpening(Tail(queue[k]))
      BY <2>3, <3>1, TailFollows DEF OpeningsAreFollowed
    <3> QED
      BY <2>3, <3>2, <3>3 DEF Follows
  <2> QED
    BY <2>1, <2>2, <2>3
<1>2. OpeningsAreFollowed'
  BY <1>1 DEF OpeningsAreFollowed, NoOpening
<1>3. OpeningIsToldBeforeEnd'
  BY <1>1 DEF OpeningIsToldBeforeEnd, Follows
<1> QED
  BY <1>2, <1>3

(* A step of a session.                                                    *)
LEMMA OpeningKeepsOrder ==
    ASSUME Inv, OrderInv, NEW s \in Sessions, Register(s) \/ Opened(s) \/ Refused(s)
    PROVE  OrderInv'
<1> USE DEF Inv, Shapes, OrderInv
<1>1. state' \in [Sessions -> States]
  BY DEF Register, Opened, Refused, States
<1>2. CASE Register(s)
  <2>1. sessions' = sessions \cup {s} /\ Tell(s, <<>>, <<Event("session_starting", s)>>)
    BY <1>2 DEF Register
  <2>2. OpeningsAreFollowed' /\ OpeningIsToldBeforeEnd'
    BY <1>1, <2>1, TellKeepsOrder
  <2>3. StartsInTable'
    BY <1>2 DEF Register, StartsInTable, Ended
  <2> QED
    BY <2>2, <2>3
<1>3. CASE Opened(s)
  <2>1. sessions' = sessions /\ Tell(s, <<>>, <<Event("session_opened", s)>>)
    BY <1>3 DEF Opened
  <2>2. s \in sessions
    BY <1>3 DEF Opened, MayOpen, StartsInTable, Ended
  <2>3. OpeningsAreFollowed' /\ OpeningIsToldBeforeEnd'
    BY <1>1, <2>1, <2>2, TellKeepsOrder
  <2>4. StartsInTable'
    BY <1>3 DEF Opened, StartsInTable, Ended, Openings
  <2> QED
    BY <2>3, <2>4
<1>4. CASE Refused(s)
  <2>1. sessions' = sessions /\ Tell(s, <<>>, <<>>)
    BY <1>4 DEF Refused
  <2>2. OpeningsAreFollowed' /\ OpeningIsToldBeforeEnd'
    BY <1>1, <2>1, TellKeepsOrder
  <2>3. StartsInTable'
    BY <1>4 DEF Refused, StartsInTable, Ended
  <2> QED
    BY <2>2, <2>3
<1> QED
  BY <1>2, <1>3, <1>4

LEMMA WorkingKeepsOrder ==
    ASSUME Inv, OrderInv, NEW s \in Sessions, Works(s) \/ Dies(s) \/ RunSettles(s)
    PROVE  OrderInv'
<1> USE DEF Inv, Shapes, OrderInv
<1>1. state' \in [Sessions -> States]
  BY DEF Works, Dies, RunSettles, States
<1>2. Tell(s, <<>>, <<>>) \/ Tell(s, <<Event("autoclose", s)>>, <<>>)
  BY DEF Works, Dies, RunSettles, Announce
<1>3. UNCHANGED <<sessions, opening, closing>>
  BY DEF Works, Dies, RunSettles
<1>4. OpeningsAreFollowed' /\ OpeningIsToldBeforeEnd'
  BY <1>1, <1>2, <1>3, TellKeepsOrder
<1>5. \A r \in Sessions : state[r] \in {"closed", "dead"} => state'[r] \in {"closed", "dead"}
  BY DEF Works, Dies, RunSettles
<1>6. StartsInTable'
  BY <1>3, <1>5 DEF StartsInTable, Ended
<1> QED
  BY <1>4, <1>6

LEMMA ClosingKeepsOrder ==
    ASSUME Inv, OrderInv, NEW s \in Sessions, Close(s) \/ Loop(s)
    PROVE  OrderInv'
<1> USE DEF Inv, Shapes, OrderInv
<1>1. ASSUME UNCHANGED <<sessions, socketVars>>
      PROVE  OpeningsAreFollowed' /\ OpeningIsToldBeforeEnd'
  BY <1>1 DEF socketVars, OpeningsAreFollowed, OpeningIsToldBeforeEnd
<1>2. CASE BeginClose(s)
  <2>1. StartsInTable'
    BY <1>2 DEF BeginClose, StartsInTable, Ended
  <2> QED
    BY <1>1, <1>2, <2>1 DEF BeginClose
<1>3. CASE CloseEnded(s)
  <2>1. OpeningsAreFollowed' /\ OpeningIsToldBeforeEnd'
    BY <1>3, RemoveKeepsOrder DEF CloseEnded
  <2>2. StartsInTable'
    BY <1>3 DEF CloseEnded, Remove, StartsInTable, Ended
  <2> QED
    BY <2>1, <2>2
<1>4. CASE EndClose(s)
  <2>1. state' \in [Sessions -> States]
    BY <1>4 DEF EndClose, EndedState, States
  <2>2. OpeningsAreFollowed' /\ OpeningIsToldBeforeEnd'
    BY <1>4, <2>1, RemoveKeepsOrder DEF EndClose
  <2>3. StartsInTable'
    BY <1>4 DEF EndClose, Remove, StartsInTable, Ended, EndersClose
  <2> QED
    BY <2>2, <2>3
<1>5. CASE StartFails(s)
  <2>1. StartsInTable'
    BY <1>5 DEF StartFails, StartsInTable, Ended
  <2> QED
    BY <1>1, <1>5, <2>1 DEF StartFails
<1>6. CASE OpenFails(s)
  <2>1. state' \in [Sessions -> States]
    BY <1>6 DEF OpenFails, EndedState, States
  <2>2. sessions' = sessions \ {s} /\ Tell(s, <<>>, <<Event("session_failed", s)>>)
    BY <1>6 DEF OpenFails
  <2>3. OpeningsAreFollowed' /\ OpeningIsToldBeforeEnd'
    BY <2>1, <2>2, TellKeepsOrder
  <2>4. StartsInTable'
    BY <1>6 DEF OpenFails, StartsInTable, Ended
  <2> QED
    BY <2>3, <2>4
<1>7. CASE AutocloseRuns(s) /\ ~StillThere(s)
  <2>1. StartsInTable'
    BY <1>7 DEF AutocloseRuns, StartsInTable, Ended
  <2> QED
    BY <1>1, <1>7, <2>1 DEF AutocloseRuns
<1> QED
  BY <1>2, <1>3, <1>4, <1>5, <1>6, <1>7 DEF Close, Loop, AutocloseRuns

(* A step of a socket or of the page takes from queues or empties them.    *)
LEMMA OtherStepKeepsOrder ==
    ASSUME Inv, OrderInv, UNCHANGED sessionVars,
           \A k \in Sockets :
               \/ queue'[k] = <<>>
               \/ /\ listed'[k] = listed[k]
                  /\ queue'[k] = queue[k] \/ (queue[k] # <<>> /\ queue'[k] = Tail(queue[k]))
    PROVE  OrderInv'
<1>1. OpeningsAreFollowed' /\ OpeningIsToldBeforeEnd'
  BY SocketsAloneKeepOrder DEF Inv, Shapes, OrderInv, sessionVars
<1>2. StartsInTable'
  BY DEF OrderInv, StartsInTable, Ended, sessionVars
<1> QED
  BY <1>1, <1>2 DEF OrderInv

LEMMA PutEmpties ==
    ASSUME Inv, OrderInv, NEW k \in Sockets, NEW p, NEW l, Put(k, p, l, <<>>)
    PROVE  OrderInv'
<1>1. \A j \in Sockets : queue'[j] = <<>> \/ (listed'[j] = listed[j] /\ queue'[j] = queue[j])
  BY DEF Put, Inv, Shapes
<1> QED
  BY <1>1, OtherStepKeepsOrder DEF Put

LEMMA HearsKeepsOrder ==
    ASSUME Inv, OrderInv, NEW k \in Sockets, Hears(k)
    PROVE  OrderInv'
<1>1. \A j \in Sockets :
          listed'[j] = listed[j] /\ (queue'[j] = queue[j]
                                     \/ (queue[j] # <<>> /\ queue'[j] = Tail(queue[j])))
  BY DEF Hears, Inv, Shapes
<1> QED
  BY <1>1, OtherStepKeepsOrder DEF Hears

LEMMA NextOrder == Inv /\ OrderInv /\ [Next]_vars => OrderInv'
<1> SUFFICES ASSUME Inv, OrderInv, [Next]_vars PROVE OrderInv'
  OBVIOUS
<1>1. ASSUME NEW s \in Sessions, SessionStep(s) PROVE OrderInv'
  BY <1>1, OpeningKeepsOrder, WorkingKeepsOrder, ClosingKeepsOrder DEF SessionStep
<1>2. ASSUME UNCHANGED <<sessionVars, listed, queue>> PROVE OrderInv'
  BY <1>2, OtherStepKeepsOrder
<1>3. ASSUME NEW k \in Sockets, SocketStep(k) \/ SocketCloses(k) PROVE OrderInv'
  BY <1>3, PutEmpties DEF SocketStep, SocketCloses, Accept, HangsUp, SendFails
<1>4. ASSUME NEW s \in Sessions, TabStep(s) PROVE OrderInv'
  <2>1. CASE TabHears(s)
    BY <2>1, HearsKeepsOrder DEF TabHears
  <2> QED
    BY <1>2, <1>4, <2>1 DEF TabStep, TabReconnects, Resynced, Done
<1>5. CASE TableStep
  <2>1. CASE TableHears
    BY <2>1, HearsKeepsOrder DEF TableHears, Inv, Shapes
  <2>2. CASE TableReconnects
    BY <2>2, FreshIsFree, PutEmpties DEF TableReconnects
  <2> QED
    BY <1>2, <1>5, <2>1, <2>2 DEF TableStep, Reattached, Done
<1>6. ASSUME NEW r \in Channels, Answer(r) PROVE OrderInv'
  BY <1>2, <1>6 DEF Answer, registryVars, socketVars
<1>7. CASE DaemonRestarts
  <2>1. \A k \in Sockets : queue'[k] = <<>>
    BY <1>7 DEF DaemonRestarts, Restart
  <2>2. OpeningsAreFollowed'
    BY <2>1, HangUpIsSilent DEF OpeningsAreFollowed, NoOpening
  <2>3. OpeningIsToldBeforeEnd'
    BY <2>1 DEF OpeningIsToldBeforeEnd
  <2>4. StartsInTable'
    BY <1>7 DEF DaemonRestarts, Restart, StartsInTable, Inv, Shapes
  <2> QED
    BY <2>2, <2>3, <2>4 DEF OrderInv
<1>8. CASE UNCHANGED vars
  BY <1>2, <1>8 DEF vars, registryVars, socketVars
<1> QED
  BY <1>1, <1>3, <1>4, <1>5, <1>6, <1>7, <1>8 DEF Next

(* Whatever of opening, closing, killing and dying meets in the registry,  *)
(* a page that is told a session opened is told of its end after that:     *)
(* Registry.open says it has opened before its next await, and every end   *)
(* is put behind what the queue holds (_publish).                          *)
THEOREM OpeningsComeFirst == Spec => []OpeningIsToldBeforeEnd
<1>1. Init => OrderInv
  BY HangUpIsSilent DEF Init, RegistryInit, OrderInv, StartsInTable, OpeningsAreFollowed,
     OpeningIsToldBeforeEnd, NoOpening
<1>2. Inv /\ OrderInv /\ [Next]_vars => OrderInv'
  BY NextOrder
<1>3. OrderInv => OpeningIsToldBeforeEnd
  BY DEF OrderInv
<1> QED
  BY <1>1, <1>2, <1>3, InvHolds, PTL DEF Spec

-----------------------------------------------------------------------------
(* The types, and the bounds of what may wait.                             *)

(* Every session is closed by calls of its own, one more if it was opened  *)
(* for a run: the announcement comes once.                                 *)
ClosersCounted ==
    \A s \in Sessions :
        /\ due[s] => announced[s]
        /\ closers[s] <= IF announced[s] /\ ~due[s] THEN MaxClosers + 1 ELSE MaxClosers

CountTypes ==
    /\ announced \in [Sessions -> BOOLEAN]
    /\ due \in [Sessions -> BOOLEAN]
    /\ restarts \in 0..MaxRestarts
    /\ ClosersCounted

(* No queue outgrows EVENT_BACKLOG.                                        *)
QueuesBounded == \A k \in Sockets : Len(queue[k]) <= Backlog

PageTypes ==
    /\ tab \in [Sessions -> Sockets \cup {NoTab, Offline}]
    /\ \A s \in Sessions : tab[s] \in LinesOf(s) \cup {NoTab, Offline}
    /\ shown \in [Sessions -> States \cup {"none"}]
    /\ watching \in LinesOf(Table) \cup {Offline}
    /\ request \in [Channels -> {"none", "asked", "answered"}]
    /\ listing \in [Channels -> [Sessions -> States \cup {"absent"}]]

LEMMA TypeParts == Inv /\ CountTypes /\ QueuesBounded /\ PageTypes => TypeOK
<1> SUFFICES ASSUME Inv, CountTypes, QueuesBounded, PageTypes PROVE TypeOK
  OBVIOUS
<1>1. closers \in [Sessions -> 0..(MaxClosers + 1)]
  <2> SUFFICES ASSUME NEW s \in Sessions PROVE closers[s] \in 0..(MaxClosers + 1)
    BY DEF Inv, Shapes
  <2>1. closers[s] \in Nat /\ (closers[s] <= MaxClosers + 1 \/ closers[s] <= MaxClosers)
    BY DEF Inv, Shapes, CountTypes, ClosersCounted
  <2> QED
    BY <2>1, RegistryAssumption
<1>2. \A k \in Sockets : queue[k] \in Seq(Events)
  <2> SUFFICES ASSUME NEW k \in Sockets PROVE queue[k] \in Seq(Events)
    OBVIOUS
  <2>1. queue[k] \in Seq(Notices) /\ Notices \subseteq Events
    BY DEF Inv, Shapes, Notices
  <2> QED
    BY <2>1
<1> QED
  BY <1>1, <1>2 DEF TypeOK, Inv, Shapes, CountTypes, QueuesBounded, PageTypes

LEMMA InitTypes == Init => CountTypes /\ QueuesBounded /\ PageTypes
<1> SUFFICES ASSUME Init PROVE CountTypes /\ QueuesBounded /\ PageTypes
  OBVIOUS
<1>1. CountTypes
  BY RegistryAssumption DEF Init, RegistryInit, CountTypes, ClosersCounted
<1>2. QueuesBounded
  BY RegistryAssumption DEF Init, RegistryInit, QueuesBounded
<1>3. PageTypes
  BY RegistryAssumption
     DEF Init, PageTypes, LinesOf, Sockets, Channels, Channel, Nothing
<1> QED
  BY <1>1, <1>2, <1>3

LEMMA CountsStand ==
    ASSUME CountTypes, UNCHANGED <<closers, announced, due, restarts>>
    PROVE  CountTypes'
BY DEF CountTypes, ClosersCounted

LEMMA NextCount == Inv /\ CountTypes /\ [Next]_vars => CountTypes'
<1> SUFFICES ASSUME Inv, CountTypes, [Next]_vars PROVE CountTypes'
  OBVIOUS
<1> USE RegistryAssumption DEF Inv, Shapes
<1>1. ASSUME NEW s \in Sessions, Announce(s), UNCHANGED <<closers, restarts>>
      PROVE  CountTypes'
  <2>1. /\ ~announced[s] /\ announced' = [announced EXCEPT ![s] = TRUE]
        /\ due' = [due EXCEPT ![s] = TRUE]
    BY <1>1 DEF Announce
  <2> QED
    BY <1>1, <2>1 DEF CountTypes, ClosersCounted
<1>2. ASSUME NEW s \in Sessions, Close(s) PROVE CountTypes'
  <2>1. CASE CloseEnded(s)
    BY <1>2, <2>1, CountsStand DEF Close, CloseEnded
  <2>2. CASE closers[s] < MaxClosers /\ BeginClose(s)
    <3>1. closers' = [closers EXCEPT ![s] = @ + 1] /\ UNCHANGED <<announced, due, restarts>>
      BY <1>2, <2>2 DEF Close, BeginClose
    <3>2. closers[s] + 1 <= MaxClosers /\ closers[s] + 1 <= MaxClosers + 1
      BY <2>2
    <3> QED
      BY <3>1, <3>2 DEF CountTypes, ClosersCounted
  <2> QED
    BY <1>2, <2>1, <2>2 DEF Close
<1>3. ASSUME NEW s \in Sessions, AutocloseRuns(s) PROVE CountTypes'
  <2>1. /\ due[s] /\ announced[s] /\ due' = [due EXCEPT ![s] = FALSE]
        /\ UNCHANGED <<announced, restarts>>
    BY <1>3 DEF AutocloseRuns, BeginClose, CloseEnded, CountTypes, ClosersCounted
  <2>2. closers' = closers \/ closers' = [closers EXCEPT ![s] = @ + 1]
    BY <1>3 DEF AutocloseRuns, BeginClose, CloseEnded
  <2>3. closers[s] <= MaxClosers
    BY <2>1 DEF CountTypes, ClosersCounted
  <2>4. closers[s] <= MaxClosers + 1 /\ closers[s] + 1 <= MaxClosers + 1
    BY <2>3
  <2> QED
    BY <2>1, <2>2, <2>4 DEF CountTypes, ClosersCounted
<1>4. ASSUME NEW s \in Sessions, EndClose(s) PROVE CountTypes'
  <2>1. /\ closers[s] > 0 /\ closers' = [closers EXCEPT ![s] = @ - 1]
        /\ UNCHANGED <<announced, due, restarts>>
    BY <1>4 DEF EndClose
  <2>2. \A m \in Nat : closers[s] <= m => closers[s] - 1 <= m
    OBVIOUS
  <2> QED
    BY <2>1, <2>2 DEF CountTypes, ClosersCounted
<1>5. ASSUME NEW s \in Sessions, SessionStep(s) PROVE CountTypes'
  BY <1>1, <1>2, <1>3, <1>4, <1>5, CountsStand
     DEF SessionStep, Register, Opened, Refused, Works, Dies, RunSettles, Loop, StartFails,
         OpenFails
<1>6. ASSUME UNCHANGED sessionVars PROVE CountTypes'
  BY <1>6, CountsStand DEF sessionVars
<1>7. CASE DaemonRestarts
  BY <1>7 DEF DaemonRestarts, Restart, CountTypes, ClosersCounted
<1> QED
  BY <1>5, <1>6, <1>7
     DEF Next, SocketStep, SocketCloses, Accept, HangsUp, SendFails, Put, TabStep, TabHears,
         TableStep, TableHears, Hears, TabReconnects, TableReconnects, Resynced, Reattached,
         Done, Answer, registryVars, vars

(* A socket that would fall behind its backlog is hung up on instead.      *)
LEMMA SendBounds ==
    ASSUME queue \in [Sockets -> Seq(Notices)], listed \in [Sockets -> BOOLEAN],
           QueuesBounded, NEW sent \in [Channels -> Seq(Notices)], NEW gone, Send(sent, gone)
    PROVE  QueuesBounded'
<1> SUFFICES ASSUME NEW k \in Sockets PROVE Len(queue'[k]) <= Backlog
  BY DEF QueuesBounded
<1>1. /\ queue[k] \in Seq(Notices) /\ sent[Channel(k)] \in Seq(Notices)
      /\ Len(queue[k]) <= Backlog
  BY DEF QueuesBounded, Sockets, Channel
<1>2. \/ queue'[k] = <<HangUp>>
      \/ queue'[k] = queue[k]
      \/ /\ queue'[k] = queue[k] \o sent[Channel(k)]
         /\ ~(Len(queue[k]) + Len(sent[Channel(k)]) > Backlog)
  BY DEF Send, Overflows
<1>3. CASE queue'[k] = <<HangUp>>
  BY <1>3, RegistryAssumption
<1>4. CASE /\ queue'[k] = queue[k] \o sent[Channel(k)]
           /\ ~(Len(queue[k]) + Len(sent[Channel(k)]) > Backlog)
  <2>1. Len(queue'[k]) = Len(queue[k]) + Len(sent[Channel(k)])
    BY <1>1, <1>4
  <2> QED
    BY <1>1, <1>4, <2>1, RegistryAssumption
<1> QED
  BY <1>1, <1>2, <1>3, <1>4

LEMMA TellBounds ==
    ASSUME queue \in [Sockets -> Seq(Notices)], listed \in [Sockets -> BOOLEAN],
           QueuesBounded, state' \in [Sessions -> States], NEW s \in Sessions,
           NEW private \in Seq(Notices), NEW public \in Seq(Notices),
           Tell(s, private, public)
    PROVE  QueuesBounded'
<1> DEFINE sent == [ch \in Channels |-> IF ch = s THEN Changes(s) \o private
                                        ELSE IF ch = Table THEN Changes(s) \o public
                                        ELSE <<>>]
<1>1. Changes(s) \o private \in Seq(Notices) /\ Changes(s) \o public \in Seq(Notices)
  BY ChangesAreNotices
<1>2. sent \in [Channels -> Seq(Notices)]
  BY <1>1
<1>3. Send(sent, {})
  BY DEF Tell
<1> HIDE DEF sent
<1> QED
  BY <1>2, <1>3, SendBounds

LEMMA RemoveBounds ==
    ASSUME queue \in [Sockets -> Seq(Notices)], listed \in [Sockets -> BOOLEAN],
           QueuesBounded, state' \in [Sessions -> States], NEW s \in Sessions, Remove(s)
    PROVE  QueuesBounded'
<1> DEFINE sent == [ch \in Channels |->
                      IF ch = Table
                      THEN Changes(s) \o <<Event("session_closed", s)>>
                      ELSE <<>>]
<1>1. Changes(s) \o <<Event("session_closed", s)>> \in Seq(Notices)
  BY ChangesAreNotices, EventIsNotice DEF EventKinds
<1>2. sent \in [Channels -> Seq(Notices)]
  BY <1>1
<1>3. Send(sent, {s})
  BY DEF Remove, TellEnd
<1> HIDE DEF sent
<1> QED
  BY <1>2, <1>3, SendBounds

LEMMA SessionBounds ==
    ASSUME Inv, QueuesBounded, NEW s \in Sessions, SessionStep(s)
    PROVE  QueuesBounded'
<1>1. state' \in [Sessions -> States]
  BY SessionStepsFit DEF SessionsFit
<1>2. ASSUME Remove(s) PROVE QueuesBounded'
  BY <1>1, <1>2, RemoveBounds DEF Inv, Shapes
<1>3. ASSUME NEW private \in Seq(Notices), NEW public \in Seq(Notices), Tell(s, private, public)
      PROVE  QueuesBounded'
  BY <1>1, <1>3, TellBounds DEF Inv, Shapes
<1>4. ASSUME UNCHANGED socketVars PROVE QueuesBounded'
  BY <1>4 DEF socketVars, QueuesBounded
<1>5. CASE Register(s) \/ Opened(s) \/ Refused(s)
  BY <1>1, <1>3, <1>5, ToldAreNotices DEF Register, Opened, Refused
<1>6. CASE Works(s) \/ Dies(s) \/ RunSettles(s)
  BY <1>1, <1>3, <1>6, ToldAreNotices DEF Works, Dies, RunSettles, Announce
<1>7. CASE Close(s) \/ Loop(s)
  <2>1. CASE OpenFails(s)
    BY <1>1, <1>3, <2>1, ToldAreNotices DEF OpenFails
  <2> QED
    BY <1>2, <1>4, <1>7, <2>1
       DEF Close, Loop, BeginClose, CloseEnded, EndClose, StartFails, AutocloseRuns
<1> QED
  BY <1>5, <1>6, <1>7 DEF SessionStep

LEMMA NextBounds == Inv /\ QueuesBounded /\ [Next]_vars => QueuesBounded'
<1> SUFFICES ASSUME Inv, QueuesBounded, [Next]_vars PROVE QueuesBounded'
  OBVIOUS
<1>1. ASSUME NEW k \in Sockets, NEW p, NEW l, Put(k, p, l, <<>>) PROVE QueuesBounded'
  BY <1>1, RegistryAssumption DEF Put, QueuesBounded, Inv, Shapes
<1>2. ASSUME NEW k \in Sockets, Hears(k) PROVE QueuesBounded'
  <2>1. queue[k] \in Seq(Notices) /\ queue[k] # <<>> /\ queue' = [queue EXCEPT ![k] = Tail(queue[k])]
    BY <1>2 DEF Hears, Inv, Shapes
  <2>2. Len(Tail(queue[k])) <= Backlog
    <3>1. Len(Tail(queue[k])) = Len(queue[k]) - 1 /\ Len(queue[k]) \in Nat
      BY <2>1
    <3> QED
      BY <3>1, RegistryAssumption DEF QueuesBounded
  <2> QED
    BY <2>1, <2>2 DEF QueuesBounded, Inv, Shapes
<1>3. ASSUME UNCHANGED queue PROVE QueuesBounded'
  BY <1>3 DEF QueuesBounded
<1>4. ASSUME NEW s \in Sessions, SessionStep(s) PROVE QueuesBounded'
  BY <1>4, SessionBounds
<1>5. ASSUME NEW k \in Sockets, SocketStep(k) \/ SocketCloses(k) PROVE QueuesBounded'
  BY <1>1, <1>5 DEF SocketStep, SocketCloses, Accept, HangsUp, SendFails
<1>6. ASSUME NEW s \in Sessions, TabStep(s) PROVE QueuesBounded'
  BY <1>2, <1>3, <1>6 DEF TabStep, TabHears, TabReconnects, Resynced, Done
<1>7. CASE TableStep
  <2>1. CASE TableHears
    BY <1>2, <2>1 DEF TableHears, Inv, Shapes
  <2>2. CASE TableReconnects
    BY <1>1, <2>2, FreshIsFree DEF TableReconnects
  <2> QED
    BY <1>3, <1>7, <2>1, <2>2 DEF TableStep, Reattached, Done
<1>8. CASE DaemonRestarts
  BY <1>8, RegistryAssumption DEF DaemonRestarts, Restart, QueuesBounded
<1> QED
  BY <1>3, <1>4, <1>5, <1>6, <1>7, <1>8
     DEF Next, Answer, registryVars, socketVars, vars

(* A tab is given a socket of its session only.                            *)
LEMMA RetabTypes ==
    ASSUME PageTypes, NEW opens, NEW drops, Retab(opens, drops)
    PROVE  /\ tab' \in [Sessions -> Sockets \cup {NoTab, Offline}]
           /\ \A s \in Sessions : tab'[s] \in LinesOf(s) \cup {NoTab, Offline}
<1>1. \A s \in opens : Fresh(s) \in LinesOf(s)
  BY FreshIsFree DEF Retab, LinesOf
<1>2. \A s : LinesOf(s) \subseteq Sockets
  BY DEF LinesOf
<1>3. \A s \in Sessions : tab'[s] \in LinesOf(s) \cup {NoTab, Offline}
  BY <1>1 DEF Retab, PageTypes
<1> QED
  BY <1>1, <1>2, <1>3 DEF Retab, PageTypes

LEMMA HeardTypes ==
    ASSUME Inv, NEW k \in Sockets, Hears(k)
    PROVE  Heard(k).of \in Sessions /\ Heard(k).shows \in States \cup {"none"}
<1>1. queue[k] \in Seq(Notices) /\ queue[k] # <<>> /\ Heard(k) # HangUp
  BY DEF Inv, Shapes, Hears
<1>2. Heard(k) \in Notices
  BY <1>1 DEF Heard
<1> QED
  BY <1>1, <1>2 DEF Notices, Events

LEMMA NextPage == Inv /\ PageTypes /\ [Next]_vars => PageTypes'
<1> SUFFICES ASSUME Inv, PageTypes, [Next]_vars PROVE PageTypes'
  OBVIOUS
<1>1. ASSUME UNCHANGED pageVars PROVE PageTypes'
  BY <1>1 DEF pageVars, PageTypes
<1>2. CASE TableHears
  <2>1. /\ Hears(watching) /\ watching \in Sockets
        /\ UNCHANGED <<watching, request, listing>>
    BY <1>2 DEF TableHears, Inv, Shapes
  <2> DEFINE e == Heard(watching)
  <2>2. e.of \in Sessions /\ e.shows \in States \cup {"none"}
    BY <2>1, HeardTypes
  <2>3. \/ shown' = shown
        \/ shown' = [shown EXCEPT ![e.of] = e.shows]
        \/ shown' = [shown EXCEPT ![e.of] = "none"]
    BY <1>2 DEF TableHears
  <2>4. UNCHANGED tab \/ \E opens, drops : Retab(opens, drops)
    BY <1>2 DEF TableHears
  <2> HIDE DEF e
  <2>5. shown' \in [Sessions -> States \cup {"none"}]
    BY <2>2, <2>3 DEF PageTypes
  <2> QED
    BY <2>1, <2>4, <2>5, RetabTypes DEF PageTypes
<1>3. ASSUME NEW s \in Sessions, TabHears(s) PROVE PageTypes'
  <2>1. Heard(tab[s]).shows \in States \cup {"none"}
    BY <1>3, HeardTypes DEF TabHears
  <2>2. shown' \in [Sessions -> States \cup {"none"}]
    BY <1>3, <2>1 DEF TabHears, PageTypes
  <2> QED
    BY <1>3, <2>2 DEF TabHears, PageTypes
<1>4. ASSUME NEW k \in Sockets, SocketCloses(k) PROVE PageTypes'
  BY <1>4 DEF SocketCloses, PageTypes
<1>5. CASE TableReconnects
  <2>1. Fresh(Table) \in LinesOf(Table)
    BY <1>5, FreshIsFree DEF TableReconnects, LinesOf
  <2> QED
    BY <1>5, <2>1 DEF TableReconnects, PageTypes
<1>6. ASSUME NEW s \in Sessions, TabReconnects(s) PROVE PageTypes'
  <2>1. request' \in [Channels -> {"none", "asked", "answered"}]
    BY <1>6 DEF TabReconnects, PageTypes
  <2> QED
    BY <1>6, <2>1, RetabTypes DEF TabReconnects, PageTypes
<1>7. ASSUME NEW r \in Channels, Done(r)
      PROVE  /\ request' \in [Channels -> {"none", "asked", "answered"}]
             /\ listing' \in [Channels -> [Sessions -> States \cup {"absent"}]]
             /\ UNCHANGED watching
  BY <1>7 DEF Done, Nothing, PageTypes
<1>8. ASSUME NEW r \in Channels, NEW s \in Sessions, s \notin Absent(r)
      PROVE  listing[r][s] \in States
  BY <1>8 DEF Absent, PageTypes
<1>9. ASSUME NEW s \in Sessions, Resynced(s) PROVE PageTypes'
  <2>1. s \in Channels
    BY DEF Channels
  <2>2. shown' \in [Sessions -> States \cup {"none"}]
    <3>1. CASE shown' = [shown EXCEPT ![s] = "none"]
      BY <3>1 DEF PageTypes
    <3>2. ASSUME NEW changed, changed \subseteq {s} \ Absent(s), Show(changed, listing[s])
          PROVE  shown' \in [Sessions -> States \cup {"none"}]
      <4>1. \A x \in changed : x = s /\ listing[s][x] \in States
        BY <1>8, <2>1, <3>2
      <4> QED
        BY <3>2, <4>1 DEF Show, PageTypes
    <3> QED
      BY <1>9, <3>1, <3>2 DEF Resynced
  <2> QED
    BY <1>7, <1>9, <2>1, <2>2, RetabTypes DEF Resynced, PageTypes
<1>10. CASE Reattached
  <2>1. Table \in Channels
    BY DEF Channels
  <2> DEFINE live == Sessions \ Absent(Table)
             gone == {s \in Absent(Table) : HasTab(s)}
             what == [s \in Sessions |-> IF s \in live THEN listing[Table][s] ELSE "none"]
  <2>2. Show(live \cup gone, what) /\ \E opens, drops : Retab(opens, drops)
    BY <1>10 DEF Reattached
  <2>3. \A s \in Sessions : what[s] \in States \cup {"none"}
    BY <1>8, <2>1
  <2> HIDE DEF what
  <2>4. shown' \in [Sessions -> States \cup {"none"}]
    BY <2>2, <2>3 DEF Show, PageTypes
  <2> QED
    BY <1>7, <1>10, <2>1, <2>2, <2>4, RetabTypes DEF Reattached, PageTypes
<1>11. ASSUME NEW r \in Channels, Answer(r) PROVE PageTypes'
  <2>1. \A s \in Sessions : state[s] \in States
    BY DEF Inv, Shapes
  <2>2. request' \in [Channels -> {"none", "asked", "answered"}]
    BY <1>11 DEF Answer, PageTypes
  <2>3. listing' \in [Channels -> [Sessions -> States \cup {"absent"}]]
    BY <1>11, <2>1 DEF Answer, PageTypes
  <2> QED
    BY <1>11, <2>2, <2>3 DEF Answer, PageTypes
<1>12. CASE DaemonRestarts
  BY <1>12 DEF DaemonRestarts, PageTypes
<1> QED
  BY <1>1, <1>2, <1>3, <1>4, <1>5, <1>6, <1>9, <1>10, <1>11, <1>12
     DEF Next, SocketStep, TabStep, TableStep, vars

(* The variables hold what the code puts in them; no socket is ever sent   *)
(* more than its backlog (EVENT_BACKLOG), and no session is being closed   *)
(* more often than it was asked to be, but for its own autoclose.          *)
THEOREM PageTypeCorrect == Spec => []TypeOK
<1>1. Init => CountTypes /\ QueuesBounded /\ PageTypes
  BY InitTypes
<1>2. Inv /\ CountTypes /\ QueuesBounded /\ PageTypes /\ [Next]_vars
          => (CountTypes /\ QueuesBounded /\ PageTypes)'
  BY NextCount, NextBounds, NextPage
<1>3. Inv /\ CountTypes /\ QueuesBounded /\ PageTypes => TypeOK
  BY TypeParts
<1> QED
  BY <1>1, <1>2, <1>3, InvHolds, PTL DEF Spec
=============================================================================
