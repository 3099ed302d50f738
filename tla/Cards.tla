------------------------------- MODULE Cards --------------------------------
(***************************************************************************)
(* What a human wrote down: the cards of remote targets (targets.py, with  *)
(* the routes that change them) and the containers switched on for agents  *)
(* (agent_commit.py).  Two files, each read, changed and written whole     *)
(* without an await, so one operation is one action here.                  *)
(***************************************************************************)
EXTENDS Naturals, Sequences, FiniteSets

CONSTANTS
    Builds,     \* odoo.sh builds; a build is also the name of a card without one
    Names,      \* what a card may be called, the builds included
    Fold,       \* Fold[n]: the name without its case
    Ids,        \* the ids of ssh cards
    KeyOf,      \* KeyOf[r]: the key file a recipe names, NoKey for none
    Containers, \* local containers, by the name docker gives them
    MaxCards    \* bound: cards in the file

NoName == "unnamed"
NoStage == "undeclared"
NoKey == "no key"

Recipes == DOMAIN KeyOf
Keys == {KeyOf[r] : r \in Recipes} \ {NoKey}
Stages == {"production", "staging"}

ASSUME CardsAssumption ==
    /\ Builds \subseteq Names
    /\ NoName \notin Names
    /\ Fold \in [Names -> Names]
    /\ MaxCards \in Nat

VARIABLES
    odoosh,    \* the odoo.sh cards, newest first
    ssh,       \* the ssh cards, newest first
    cardFile,  \* whether targets.json can be used: ok, broken
    switched,  \* the containers in agent-commit.json
    switchFile,\* whether agent-commit.json can be used: ok, broken
    keyFiles   \* the key files on this machine

cardVars == <<odoosh, ssh, cardFile, keyFiles>>
switchVars == <<switched, switchFile>>

OdooshCards ==
    [build : Builds, name : Names \cup {NoName}, stage : Stages \cup {NoStage}]
SshCards == [id : Ids, name : Names, recipe : Recipes, stage : Stages]
Members(s) == {s[i] : i \in DOMAIN s}

(* What is left of a list without those that go, in its order.             *)
Without(s, gone) ==
    LET left == {i \in DOMAIN s : s[i] \notin gone}
        Place(i) == Cardinality({j \in left : j <= i})
    IN  [k \in 1..Cardinality(left) |-> s[CHOOSE i \in left : Place(i) = k]]

(* _build_name: the name it was given, or else its build.                  *)
BuildName(e) == IF e.name = NoName THEN e.build ELSE e.name

Taken(name, others) == \E other \in others : Fold[other] = Fold[name]

(* Bug: only names that were given are told apart.                         *)
FreeNameIfGiven(e, others) ==
    e.name # NoName => ~Taken(e.name, {BuildName(o) : o \in others})

(* A card without a name is called by its build, and must not be taken for *)
(* another either.                                                         *)
FreeName(e, others) == ~Taken(BuildName(e), {BuildName(o) : o \in others})

(* _checked_odoosh.  own is the build the card has now, for a change.      *)
Checks(e, own) ==
    /\ e.build \in own \/ own = {} \/ \A o \in Members(odoosh) : o.build # e.build
    /\ FreeName(e, {o \in Members(odoosh) : o.build \notin {e.build} \cup own})

(* parse_access asks this machine whether the key is there.                *)
Parses(recipe) == KeyOf[recipe] \in keyFiles \cup {NoKey}

(* _checked_ssh.                                                           *)
ChecksSsh(e) ==
    /\ ~Taken(e.name, {o.name : o \in {c \in Members(ssh) : c.id # e.id}})
    /\ Parses(e.recipe)

-----------------------------------------------------------------------------
(* write_json_atomically: the new file whole.  After a full disk or a crash*)
(* on the way it is the old one, and nothing happened.                     *)
Saves == UNCHANGED cardFile

(* The routes' writes: the admin key is given, and the file read first.    *)
Change(file) ==
    /\ cardFile = "ok"
    /\ file
    /\ Saves
    /\ UNCHANGED <<keyFiles, switchVars>>

Kept(build, name) ==
    IF name # NoName \/ \A o \in Members(odoosh) : o.build # build THEN name
    ELSE (CHOOSE o \in Members(odoosh) : o.build = build).name

(* The build's card moves first, or a new one does.                        *)
WithoutBuild(b) == Without(odoosh, {o \in Members(odoosh) : o.build = b})
Replaced(e) == <<e>> \o WithoutBuild(e.build)

(* POST /api/targets of a build: added, or the card already there updated; *)
(* a name it had is kept when none is sent.  A stage is always sent.       *)
AddOdoosh ==
    \E build \in Builds, name \in Names \cup {NoName}, stage \in Stages :
        LET e == [build |-> build, name |-> Kept(build, name), stage |-> stage] IN
        /\ Checks(e, {})
        /\ \/ Len(odoosh) + Len(ssh) < MaxCards
           \/ \E o \in Members(odoosh) : o.build = build
        /\ Change(odoosh' = Replaced(e) /\ UNCHANGED ssh)

(* PUT of a build's card: any of its fields, a name or stage taken away    *)
(* included.  It keeps its place; its id follows the build.                *)
UpdateOdoosh ==
    \E i \in DOMAIN odoosh, e \in OdooshCards :
        /\ Checks(e, {odoosh[i].build})
        /\ Change(odoosh' = [odoosh EXCEPT ![i] = e] /\ UNCHANGED ssh)

AddSsh ==
    \E e \in SshCards :
        /\ e.id \notin {o.id : o \in Members(ssh)}
        /\ ChecksSsh(e)
        /\ Len(odoosh) + Len(ssh) < MaxCards
        /\ Change(ssh' = <<e>> \o ssh /\ UNCHANGED odoosh)

UpdateSsh ==
    \E i \in DOMAIN ssh, e \in SshCards :
        /\ e.id = ssh[i].id
        /\ ChecksSsh(e)
        /\ Change(ssh' = [ssh EXCEPT ![i] = e] /\ UNCHANGED odoosh)

WithoutId(id) == Without(ssh, {o \in Members(ssh) : o.id = id})

Delete ==
    \/ \E b \in {o.build : o \in Members(odoosh)} :
           Change(odoosh' = WithoutBuild(b) /\ UNCHANGED ssh)
    \/ \E id \in {o.id : o \in Members(ssh)} :
           Change(ssh' = WithoutId(id) /\ UNCHANGED odoosh)

(* A hand edit gone wrong, and put right; a key file that comes and goes.  *)
HandEdit ==
    /\ \/ /\ cardFile' = IF cardFile = "ok" THEN "broken" ELSE "ok"
          /\ UNCHANGED <<keyFiles, switchFile>>
       \/ /\ switchFile' = IF switchFile = "ok" THEN "broken" ELSE "ok"
          /\ UNCHANGED <<keyFiles, cardFile>>
       \/ /\ \E k \in Keys : keyFiles' \in {keyFiles \ {k}, keyFiles \cup {k}}
          /\ UNCHANGED <<cardFile, switchFile>>
    /\ UNCHANGED <<odoosh, ssh, switched>>

CardStep == AddOdoosh \/ UpdateOdoosh \/ AddSsh \/ UpdateSsh \/ Delete \/ HandEdit

-----------------------------------------------------------------------------
(* AgentCommitStore.is_on, as the registry asks it: a file that cannot be  *)
(* read is nothing switched on.                                            *)
IsOn(name) == switchFile = "ok" /\ name \in switched

(* turn_on and turn_off, the write having failed or not.                   *)
TurnedOn(name) == switchFile = "ok" /\ switched' = switched \cup {name}
TurnedOff(name) ==
    switched' \in {switched} \cup IF switchFile = "ok" THEN {switched \ {name}} ELSE {}

CardsInit ==
    /\ odoosh \in {<<>>} \cup {<<e>> : e \in {c \in OdooshCards : c.stage = NoStage}}
    /\ ssh = <<>>
    /\ cardFile = "ok"
    /\ switched = {}
    /\ switchFile = "ok"
    /\ keyFiles = Keys

-----------------------------------------------------------------------------
(* A build has one card, an id names one ssh card, and no two cards of a   *)
(* kind can be taken for each other by name, whatever was added, renamed,  *)
(* left without a name or moved to another build.                          *)
NamesOneCard ==
    /\ \A i, j \in DOMAIN odoosh : i # j =>
           /\ odoosh[i].build # odoosh[j].build
           /\ Fold[BuildName(odoosh[i])] # Fold[BuildName(odoosh[j])]
    /\ \A i, j \in DOMAIN ssh : i # j =>
           /\ ssh[i].id # ssh[j].id
           /\ Fold[ssh[i].name] # Fold[ssh[j].name]

=============================================================================
