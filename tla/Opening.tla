------------------------------ MODULE Opening -------------------------------
(***************************************************************************)
(* How a session comes to be: the gates of POST /api/sessions, then        *)
(* Registry.open up to the session it registers, while cards are edited,   *)
(* containers switched on and off and key files come and go.  Each await   *)
(* of a request (docker inspect, a probe, the spawn) is a step: what it    *)
(* read before one may be stale after it.                                  *)
(***************************************************************************)
EXTENDS Cards

CONSTANTS
    Openers,    \* requests to open a session
    BuildStage, \* BuildStage[b]: what the build says of itself, or NoStage
    Asks        \* bound: the requests made, out of AllAsks

(* What may be asked: where (a container by its name or its id, its        *)
(* odoo-bin known or not, or a card), for whom, with which allow_commit,   *)
(* and with what a human has: the admin key, or the daemon's own page.     *)
AllAsks ==
    [kind : {"container"}, place : Containers, byId : BOOLEAN, knowsBin : BOOLEAN,
     owner : {"human", "agent"}, allow : {"default", "yes", "no"},
     hand : {"none", "origin", "admin"}]
    \cup [kind : {"odoosh"}, place : Builds, owner : {"human", "agent"},
          allow : {"default", "yes", "no"}, hand : {"none", "origin", "admin"}]
    \cup [kind : {"ssh"}, place : Ids, owner : {"human", "agent"},
          allow : {"default", "yes", "no"}, hand : {"none", "origin", "admin"}]

ASSUME OpeningAssumption ==
    /\ BuildStage \in [Builds -> Stages \cup {"development", NoStage}]
    /\ Asks \subseteq AllAsks

VARIABLES
    ask,   \* each request's body and headers
    at,    \* the await it stands at, or how it ended
    read,  \* what it has read so far: its card, or docker's name
    sess,  \* the session it registered
    steady \* history: the card of the request has stood as it was read

openVars == <<ask, at, read, sess, steady>>
vars == <<cardVars, switchVars, openVars>>

NoSession == [kind |-> "none"]
Nothing == [kind |-> "none"]

Ends(o, how) == at' = [at EXCEPT ![o] = how]
Goes(o, phase) == at' = [at EXCEPT ![o] = phase]
World == <<cardVars, switchVars>>

-----------------------------------------------------------------------------
(* open_session, before Registry.open.                                     *)

(* A card is opened by a human, before it is even looked up.               *)
NotAHuman(a) == a.kind # "container" /\ a.hand = "none"

(* An agent that asks for the right at the door.                           *)
AsksForCommit(a) == a.allow = "yes" /\ a.owner = "agent" /\ a.hand # "admin"

(* The card and, for a server, the recipe that still parses.               *)
CardsFor(a) ==
    {e \in Members(odoosh) : cardFile = "ok" /\ a.kind = "odoosh" /\ e.build = a.place}
    \cup {e \in Members(ssh) : /\ cardFile = "ok" /\ a.kind = "ssh" /\ e.id = a.place
                             /\ Parses(e.recipe)}

(* Where Registry.open goes first: a card and its recipe are read before   *)
(* anything awaits; a container is probed for its odoo-bin unless known.   *)
Begins(o, a) ==
    \/ /\ a.kind = "container"
       /\ Goes(o, IF a.knowsBin THEN "naming" ELSE "probing")
       /\ UNCHANGED read
    \/ \E e \in CardsFor(a) : read' = [read EXCEPT ![o] = e] /\ Goes(o, "probing")
    \/ /\ a.kind # "container" /\ CardsFor(a) = {}
       /\ Ends(o, "refused")
       /\ UNCHANGED read

(* Bug: the answer at the door is carried through as a grant.              *)
LetTheSwitchDecideOnce(a) == a

(* The switch is the grant, asked again when the session is built: a True  *)
(* carried from the door would outlive a switch turned off meanwhile.      *)
LetTheSwitchDecide(a) == [a EXCEPT !.allow = "default"]

(* A right asked for at the door is asked of the switch, for a container,  *)
(* and refused for a card or when nothing at all is switched on.           *)
AsksAtDoor(o, a) ==
    /\ at[o] = "new"
    /\ ask' = [ask EXCEPT ![o] = a]
    /\ \/ NotAHuman(a) /\ Ends(o, "refused") /\ UNCHANGED read
       \/ ~NotAHuman(a) /\ ~AsksForCommit(a) /\ Begins(o, a)
       \/ /\ ~NotAHuman(a) /\ AsksForCommit(a)
          /\ Goes(o, IF a.kind = "container" /\ switched # {} /\ switchFile = "ok"
                     THEN "door" ELSE "refused")
          /\ UNCHANGED read
    /\ steady' = [steady EXCEPT ![o] = TRUE]
    /\ UNCHANGED <<World, sess>>

(* docker inspect: docker's own name, or on any failure what was given.    *)
NamedAs(a) == {a.place} \cup IF a.byId THEN {"id"} ELSE {}

(* agent_commit_allows, after it has the name.                             *)
AllowedAtDoor(o) ==
    /\ at[o] = "door"
    /\ \E name \in NamedAs(ask[o]) :
           IF IsOn(name)
           THEN /\ ask' = [ask EXCEPT ![o] = LetTheSwitchDecide(@)]
                /\ Begins(o, ask[o])
           ELSE Ends(o, "refused") /\ UNCHANGED <<ask, read>>
    /\ UNCHANGED <<World, sess, steady>>

-----------------------------------------------------------------------------
(* Registry.open.                                                          *)

(* Bug: a build goes by what it says, and by its card only when it is mute.*)
OdooshStageReported(declared, reported) ==
    IF reported # NoStage THEN reported ELSE declared

(* odoosh_stage: production if either says so.                             *)
OdooshStage(declared, reported) ==
    IF "production" \in {declared, reported} THEN "production"
    ELSE IF reported # NoStage THEN reported ELSE declared

StageOf(o) ==
    CASE ask[o].kind = "container" -> NoStage
      [] ask[o].kind = "odoosh"    -> OdooshStage(read[o].stage, BuildStage[read[o].build])
      [] ask[o].kind = "ssh"       -> read[o].stage

(* What a probe's answer allows: a container and a server must be ok and   *)
(* of a supported version; a build is only asked for its version.          *)
Usable(kind, answer) == answer.supported /\ (kind = "odoosh" \/ answer.ok)

Probed(o) ==
    /\ at[o] = "probing"
    /\ \E answer \in [ok : BOOLEAN, supported : BOOLEAN] :
           Goes(o, IF ~Usable(ask[o].kind, answer) THEN "refused"
                   ELSE IF ask[o].kind = "container" THEN "naming" ELSE "spawning")
    /\ UNCHANGED <<World, ask, read, sess, steady>>

(* _docker_name: the name a switch is matched against, kept for the sweep. *)
Named(o) ==
    /\ at[o] = "naming"
    /\ \E name \in NamedAs(ask[o]) :
           read' = [read EXCEPT ![o] = [kind |-> "container", name |-> name]]
    /\ Goes(o, "spawning")
    /\ UNCHANGED <<World, ask, sess, steady>>

SpawnFails(o) ==
    /\ at[o] = "spawning"
    /\ Ends(o, "refused")
    /\ UNCHANGED <<World, ask, read, sess, steady>>

IsContainer(o) == ask[o].kind = "container"
OptedOut(o) == ask[o].allow = "no"

SwitchCovers(o) ==
    /\ IsContainer(o) /\ ask[o].owner = "agent"
    /\ ~OptedOut(o)
    /\ IsOn(read[o].name)

NeedsNoGrant(o) == IsContainer(o) /\ ask[o].owner = "human"

(* Session.__init__, the right and where it came from.                     *)
StartsAllowed(o) ==
    /\ StageOf(o) # "production"
    /\ \/ ask[o].allow = "yes"
       \/ ask[o].allow = "default" /\ (NeedsNoGrant(o) \/ SwitchCovers(o))

GrantOf(o) ==
    IF ~StartsAllowed(o) \/ NeedsNoGrant(o) THEN "none"
    ELSE IF SwitchCovers(o) THEN "container" ELSE "session"

(* Built, named and put in the table in one step, with no await between.   *)
Registers(o) ==
    /\ at[o] = "spawning"
    /\ sess' = [sess EXCEPT ![o] =
           [kind |-> ask[o].kind, stage |-> StageOf(o), owner |-> ask[o].owner,
            name |-> IF IsContainer(o) THEN read[o].name ELSE NoName,
            out |-> OptedOut(o), allow |-> StartsAllowed(o), grant |-> GrantOf(o)]]
    /\ Ends(o, "open")
    /\ UNCHANGED <<World, ask, read, steady>>

-----------------------------------------------------------------------------
(* Registry.set_agent_commit over the sessions in the table: by docker's   *)
(* name, whatever a remote card is called.                                 *)
Swept(o, name) == sess[o] # NoSession /\ sess[o].kind = "container" /\ sess[o].name = name

(* Bug: a session that asked to go without is given the right all the same.*)
GainsOptedOut(s) == s.owner = "agent" /\ ~s.allow

Gains(s) == s.owner = "agent" /\ ~s.allow /\ ~s.out

SwitchOn(name) ==
    /\ TurnedOn(name)
    /\ sess' = [o \in Openers |->
           IF Swept(o, name) /\ Gains(sess[o])
           THEN [sess[o] EXCEPT !.allow = TRUE, !.grant = "container"] ELSE sess[o]]
    /\ UNCHANGED <<switchFile, cardVars, ask, at, read, steady>>

(* Off sweeps before it writes, and takes what a human granted too.        *)
SwitchOff(name) ==
    /\ sess' = [o \in Openers |->
           IF Swept(o, name) /\ sess[o].owner = "agent"
           THEN [sess[o] EXCEPT !.allow = FALSE, !.grant = "none"] ELSE sess[o]]
    /\ TurnedOff(name)
    /\ UNCHANGED <<switchFile, cardVars, ask, at, read, steady>>

StandsAs(o) == read[o] \in Members(odoosh) \cup Members(ssh)

Edit ==
    /\ CardStep
    /\ UNCHANGED <<ask, at, read, sess>>
    /\ steady' = [o \in Openers |-> steady[o] /\ StandsAs(o)']

Opens(o) ==
    \/ \E a \in Asks : AsksAtDoor(o, a)
    \/ AllowedAtDoor(o) \/ Probed(o) \/ Named(o) \/ SpawnFails(o) \/ Registers(o)

Init ==
    /\ CardsInit
    /\ ask = [o \in Openers |-> Nothing]
    /\ at = [o \in Openers |-> "new"]
    /\ read = [o \in Openers |-> Nothing]
    /\ sess = [o \in Openers |-> NoSession]
    /\ steady = [o \in Openers |-> FALSE]

Next ==
    \/ \E o \in Openers : Opens(o)
    \/ \E name \in Containers : SwitchOn(name) \/ SwitchOff(name)
    \/ Edit

Spec == Init /\ [][Next]_vars

-----------------------------------------------------------------------------
(* An agent's session that nobody with the admin key opened holds the right*)
(* only on a container that is switched on: not on a card, and not because *)
(* the switch was on when the request came to the door.                    *)
RightNeedsTheSwitch ==
    \A o \in Openers :
        /\ sess[o] # NoSession
        /\ sess[o].owner = "agent" /\ sess[o].allow
        /\ ask[o].hand # "admin"
        => sess[o].kind = "container" /\ sess[o].name \in switched

(* A session that asked to go without the right is not given it by a       *)
(* switch, neither the one that is on nor one turned on later.             *)
OptedOutStaysOut ==
    \A o \in Openers : sess[o] # NoSession /\ sess[o].out => ~sess[o].allow

(* While a build's card stands, what was opened on it is production when   *)
(* the card or the build says production, and starts without the right.    *)
StricterStageWins ==
    \A o \in Openers, e \in Members(odoosh) :
        /\ at[o] = "open" /\ steady[o]
        /\ ask[o].kind = "odoosh" /\ e.build = ask[o].place
        /\ "production" \in {e.stage, BuildStage[e.build]}
        => sess[o].stage = "production" /\ ~sess[o].allow
=============================================================================
