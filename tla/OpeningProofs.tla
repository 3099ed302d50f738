---------------------------- MODULE OpeningProofs ---------------------------
(***************************************************************************)
(* Where an agent's right to commit comes from when a session is opened,   *)
(* for any requests, containers, builds and cards: RightNeedsTheSwitch and *)
(* OptedOutStaysOut of Opening; that the cards stay apart, NamesOneCard of *)
(* Cards, whatever is done to them; and with both what stage a build is    *)
(* opened at, StricterStageWins of Opening.                                *)
(*                                                                         *)
(* The first two are not inductive: a request that passed the door is past *)
(* the answer it got there, so what counts is that it no longer asks for   *)
(* the right itself (PastTheDoor), and that a request with a session is    *)
(* over (SessionEnds), so that what it asked stays what the session was    *)
(* built from (BuiltAsAsked).                                              *)
(***************************************************************************)
EXTENDS Opening, FiniteSetTheorems, TLAPS

(* The parts of the types the argument needs.                              *)
Shapes ==
    /\ ask \in [Openers -> AllAsks \cup {Nothing}]
    /\ at \in [Openers -> {"new", "door", "probing", "naming", "spawning", "open", "refused"}]
    /\ DOMAIN sess = Openers

Fields == {"kind", "owner", "name", "out", "allow", "grant"}

(* A session is registered at the end of its request, from what it asked.  *)
SessionEnds == \A o \in Openers : sess[o] # NoSession => at[o] = "open"

BuiltAsAsked ==
    \A o \in Openers : sess[o] # NoSession =>
        Fields \subseteq DOMAIN sess[o] /\ ask[o] \in AllAsks

(* Once it goes on, a request asks for no right that is not a human's.     *)
Asking == {"door", "probing", "naming", "spawning"}
PastTheDoor ==
    \A o \in Openers : at[o] \in Asking =>
        /\ ask[o] \in AllAsks
        /\ at[o] # "door" => ~AsksForCommit(ask[o])

IInv == Shapes /\ SessionEnds /\ BuiltAsAsked /\ PastTheDoor
        /\ RightNeedsTheSwitch /\ OptedOutStaysOut

-----------------------------------------------------------------------------
(* Leaving the request to the switch leaves the rest of it as it was, and  *)
(* no right asked for.                                                     *)
LEMMA SwitchDecides ==
    ASSUME NEW a \in AllAsks
    PROVE  /\ LetTheSwitchDecide(a) \in AllAsks
           /\ ~AsksForCommit(LetTheSwitchDecide(a))
  BY DEF AllAsks, LetTheSwitchDecide, AsksForCommit

(* A step of one request that registers nothing.                           *)
LEMMA RequestKeeps ==
    ASSUME IInv, NEW o \in Openers, NEW how \in Asking \cup {"refused"}, NEW a \in AllAsks,
           at[o] # "open", at' = [at EXCEPT ![o] = how], ask' = [ask EXCEPT ![o] = a],
           how \in Asking \ {"door"} => ~AsksForCommit(a),
           UNCHANGED <<World, sess>>
    PROVE  IInv'
  <1>1. Shapes'
    BY DEF IInv, Shapes, Asking
  <1>2. sess[o] = NoSession
    BY DEF IInv, SessionEnds
  <1>3. /\ ask'[o] = a /\ at'[o] = how
        /\ \A x \in Openers \ {o} : ask'[x] = ask[x] /\ at'[x] = at[x]
        /\ sess' = sess /\ switched' = switched
    BY DEF IInv, Shapes, World, switchVars
  <1>4. SessionEnds' /\ BuiltAsAsked'
    BY <1>2, <1>3 DEF IInv, SessionEnds, BuiltAsAsked
  <1>5. PastTheDoor'
    BY <1>3 DEF IInv, PastTheDoor, Asking
  <1>6. RightNeedsTheSwitch' /\ OptedOutStaysOut'
    BY <1>2, <1>3 DEF IInv, RightNeedsTheSwitch, OptedOutStaysOut
  <1> QED
    BY <1>1, <1>4, <1>5, <1>6 DEF IInv

(* A step that leaves the requests alone and takes no right but by turning *)
(* a switch off.                                                           *)
LEMMA EditKeeps == IInv /\ Edit => IInv'
  <1> SUFFICES ASSUME IInv, Edit PROVE IInv'
    OBVIOUS
  <1>1. UNCHANGED <<ask, at, sess>>
    BY DEF Edit
  <1>2. UNCHANGED switched
    <2>1. CASE AddOdoosh \/ UpdateOdoosh
      BY <2>1 DEF AddOdoosh, UpdateOdoosh, Change, switchVars
    <2>2. CASE AddSsh \/ UpdateSsh
      BY <2>2 DEF AddSsh, UpdateSsh, Change, switchVars
    <2>3. CASE Delete \/ HandEdit
      BY <2>3 DEF Delete, HandEdit, Change, switchVars
    <2> QED
      BY <2>1, <2>2, <2>3 DEF Edit, CardStep
  <1> QED
    BY <1>1, <1>2 DEF IInv, Shapes, SessionEnds, BuiltAsAsked, PastTheDoor, RightNeedsTheSwitch,
       OptedOutStaysOut

(* Building the session: what gives the right is the admin key, or a       *)
(* switch that is on now.                                                  *)
LEMMA RegistersKeeps ==
    ASSUME IInv, NEW o \in Openers, Registers(o)
    PROVE  IInv'
  <1>1. ask[o] \in AllAsks /\ ~AsksForCommit(ask[o])
    BY DEF IInv, PastTheDoor, Registers, Asking
  <1>2. /\ sess'[o].kind = ask[o].kind
        /\ sess'[o].owner = ask[o].owner
        /\ sess'[o].name = (IF IsContainer(o) THEN read[o].name ELSE NoName)
        /\ sess'[o].out = OptedOut(o)
        /\ sess'[o].allow = StartsAllowed(o)
        /\ Fields \subseteq DOMAIN sess'[o]
    BY DEF Registers, IInv, Shapes, Fields
  <1>3. /\ \A x \in Openers \ {o} : sess'[x] = sess[x] /\ at'[x] = at[x]
        /\ at'[o] = "open" /\ ask' = ask /\ switched' = switched
    BY DEF Registers, Ends, World, switchVars, IInv, Shapes
  <1>4. Shapes'
    BY DEF Registers, Ends, IInv, Shapes
  <1>5. SessionEnds' /\ BuiltAsAsked' /\ PastTheDoor'
    BY <1>1, <1>2, <1>3 DEF IInv, SessionEnds, BuiltAsAsked, PastTheDoor, Asking
  <1>6. ask[o].owner = "agent" /\ StartsAllowed(o) /\ ask[o].hand # "admin" =>
            IsContainer(o) /\ read[o].name \in switched
    BY <1>1 DEF StartsAllowed, AsksForCommit, NeedsNoGrant, SwitchCovers, IsOn
  <1>7. OptedOut(o) => ~StartsAllowed(o)
    BY DEF OptedOut, StartsAllowed
  <1>8. RightNeedsTheSwitch'
    BY <1>2, <1>3, <1>6 DEF IInv, RightNeedsTheSwitch, IsContainer
  <1>9. OptedOutStaysOut'
    BY <1>2, <1>3, <1>7 DEF IInv, OptedOutStaysOut
  <1> QED
    BY <1>4, <1>5, <1>8, <1>9 DEF IInv

(* A step of a request, each await of it.                                  *)
LEMMA OpensKeeps ==
    ASSUME IInv, NEW o \in Openers, Opens(o)
    PROVE  IInv'
  <1>0. \A x \in Openers : ask \in [Openers -> AllAsks \cup {Nothing}]
    BY DEF IInv, Shapes
  <1>1. ASSUME NEW a \in Asks, AsksAtDoor(o, a) PROVE IInv'
    <2>1. a \in AllAsks
      BY OpeningAssumption
    <2>2. PICK how \in Asking \cup {"refused"} :
              /\ at' = [at EXCEPT ![o] = how]
              /\ how \in Asking \ {"door"} => ~AsksForCommit(a)
      BY <1>1 DEF AsksAtDoor, Begins, Ends, Goes, Asking
    <2> QED
      BY <1>1, <2>1, <2>2, RequestKeeps DEF AsksAtDoor
  <1>2. CASE AllowedAtDoor(o)
    <2>1. ask[o] \in AllAsks
      BY <1>2 DEF AllowedAtDoor, IInv, PastTheDoor, Asking
    <2> DEFINE b == LetTheSwitchDecide(ask[o])
    <2>2. b \in AllAsks /\ ~AsksForCommit(b)
      BY <2>1, SwitchDecides
    <2>3. CASE ask' = [ask EXCEPT ![o] = b] /\ Begins(o, ask[o])
      <3>1. PICK how \in Asking \cup {"refused"} : at' = [at EXCEPT ![o] = how]
        BY <2>3 DEF Begins, Ends, Goes, Asking
      <3> QED
        BY <1>2, <2>2, <2>3, <3>1, RequestKeeps DEF AllowedAtDoor
    <2>4. CASE Ends(o, "refused") /\ UNCHANGED ask
      <3>1. ask' = [ask EXCEPT ![o] = ask[o]]
        BY <2>4 DEF IInv, Shapes
      <3> QED
        BY <1>2, <2>1, <2>4, <3>1, RequestKeeps DEF AllowedAtDoor, Ends, Asking
    <2> QED
      BY <1>2, <2>3, <2>4 DEF AllowedAtDoor
  <1>3. CASE Probed(o) \/ Named(o) \/ SpawnFails(o)
    <2>1. /\ ask[o] \in AllAsks /\ ~AsksForCommit(ask[o]) /\ at[o] # "open"
      BY <1>3 DEF Probed, Named, SpawnFails, IInv, PastTheDoor, Asking
    <2>2. ask' = [ask EXCEPT ![o] = ask[o]]
      BY <1>3 DEF Probed, Named, SpawnFails, IInv, Shapes
    <2>3. PICK how \in Asking \cup {"refused"} : at' = [at EXCEPT ![o] = how]
      BY <1>3 DEF Probed, Named, SpawnFails, Goes, Ends, Asking
    <2>4. UNCHANGED <<World, sess>>
      BY <1>3 DEF Probed, Named, SpawnFails
    <2> QED
      BY <2>1, <2>2, <2>3, <2>4, RequestKeeps
  <1> QED
    BY <1>1, <1>2, <1>3, RegistersKeeps DEF Opens

-----------------------------------------------------------------------------
(* The switch.  What a sweep does to one session.                          *)
LEMMA SwitchKeeps ==
    ASSUME IInv, UNCHANGED <<ask, at>>, DOMAIN sess' = Openers,
           \A o \in Openers :
               \/ sess'[o] = sess[o]
               \/ sess[o] # NoSession /\ DOMAIN sess'[o] = DOMAIN sess[o],
           RightNeedsTheSwitch', OptedOutStaysOut'
    PROVE  IInv'
  <1>1. \A o \in Openers : sess[o] = NoSession => sess'[o] = NoSession
    OBVIOUS
  <1>2. \A o \in Openers : sess[o] # NoSession => Fields \subseteq DOMAIN sess'[o]
    BY DEF IInv, BuiltAsAsked
  <1> QED
    BY <1>1, <1>2 DEF IInv, Shapes, SessionEnds, BuiltAsAsked, PastTheDoor

LEMMA SwitchOnKeeps ==
    ASSUME IInv, NEW name \in Containers, SwitchOn(name)
    PROVE  IInv'
  <1>1. \A o \in Openers :
            \/ sess'[o] = sess[o]
            \/ /\ sess[o] # NoSession /\ sess[o].kind = "container" /\ sess[o].name = name
               /\ Gains(sess[o])
               /\ sess'[o] = [sess[o] EXCEPT !.allow = TRUE, !.grant = "container"]
    BY DEF SwitchOn, Swept
  <1>2. switched' = switched \cup {name} /\ ask' = ask /\ at' = at /\ DOMAIN sess' = Openers
    BY DEF SwitchOn, TurnedOn
  <1>3. ASSUME NEW o \in Openers, sess'[o] # sess[o]
        PROVE  /\ sess[o] # NoSession /\ sess'[o].kind = "container" /\ sess'[o].name = name
               /\ ~sess'[o].out
    <2>1. Fields \subseteq DOMAIN sess[o]
      BY <1>1, <1>3 DEF IInv, BuiltAsAsked
    <2> QED
      BY <1>1, <1>3, <2>1 DEF Fields, Gains
  <1>4. RightNeedsTheSwitch'
    BY <1>2, <1>3 DEF IInv, RightNeedsTheSwitch
  <1>5. OptedOutStaysOut'
    BY <1>3 DEF IInv, OptedOutStaysOut
  <1>6. \A o \in Openers :
            sess'[o] = sess[o] \/ (sess[o] # NoSession /\ DOMAIN sess'[o] = DOMAIN sess[o])
    BY <1>1
  <1> QED
    BY <1>2, <1>4, <1>5, <1>6, SwitchKeeps

LEMMA SwitchOffKeeps ==
    ASSUME IInv, NEW name \in Containers, SwitchOff(name)
    PROVE  IInv'
  <1>1. \A o \in Openers :
            \/ sess'[o] = sess[o] /\ ~(Swept(o, name) /\ sess[o].owner = "agent")
            \/ /\ sess[o] # NoSession
               /\ sess'[o] = [sess[o] EXCEPT !.allow = FALSE, !.grant = "none"]
    BY DEF SwitchOff, Swept
  <1>2. ask' = ask /\ at' = at /\ DOMAIN sess' = Openers
    BY DEF SwitchOff
  <1>3. switched \ {name} \subseteq switched'
    BY DEF SwitchOff, TurnedOff
  <1>4. ASSUME NEW o \in Openers
        PROVE  sess[o] # NoSession =>
                   \/ ~sess'[o].allow
                   \/ sess'[o] = sess[o] /\ ~(Swept(o, name) /\ sess[o].owner = "agent")
    <2>1. sess[o] # NoSession => Fields \subseteq DOMAIN sess[o]
      BY DEF IInv, BuiltAsAsked
    <2> QED
      BY <1>1, <2>1 DEF Fields
  <1>5. RightNeedsTheSwitch'
    <2>1. \A o \in Openers : sess'[o] # NoSession => sess[o] # NoSession
      BY <1>1
    <2> QED
      BY <1>2, <1>3, <1>4, <2>1 DEF IInv, RightNeedsTheSwitch, Swept
  <1>6. OptedOutStaysOut'
    BY <1>1, <1>4 DEF IInv, OptedOutStaysOut
  <1>7. \A o \in Openers :
            sess'[o] = sess[o] \/ (sess[o] # NoSession /\ DOMAIN sess'[o] = DOMAIN sess[o])
    BY <1>1
  <1> QED
    BY <1>2, <1>5, <1>6, <1>7, SwitchKeeps

-----------------------------------------------------------------------------
(* The invariant holds at the start.                                       *)
THEOREM InitIInv == Init => IInv
  BY DEF Init, IInv, Shapes, SessionEnds, BuiltAsAsked, PastTheDoor, RightNeedsTheSwitch,
     OptedOutStaysOut, Asking

(* Every step keeps it.                                                    *)
THEOREM NextIInv == IInv /\ [Next]_vars => IInv'
  <1> SUFFICES ASSUME IInv, [Next]_vars PROVE IInv'
    OBVIOUS
  <1>1. CASE UNCHANGED vars
    BY <1>1 DEF vars, openVars, switchVars, IInv, Shapes, SessionEnds, BuiltAsAsked, PastTheDoor,
       RightNeedsTheSwitch, OptedOutStaysOut
  <1> QED
    BY <1>1, OpensKeeps, SwitchOnKeeps, SwitchOffKeeps, EditKeeps DEF Next

(* However a request interleaves with the switch, an agent's session that  *)
(* nobody with the admin key opened holds the right only on a container    *)
(* that is switched on now (open_session, agent_commit_allows,             *)
(* Registry.set_agent_commit).                                             *)
THEOREM NoRightWithoutTheSwitch == Spec => []RightNeedsTheSwitch
  <1>1. IInv => RightNeedsTheSwitch
    BY DEF IInv
  <1> QED
    BY <1>1, InitIInv, NextIInv, PTL DEF Spec

(* A session that asked to go without the right is never given it by a     *)
(* container's switch.                                                     *)
THEOREM OptOutIsKept == Spec => []OptedOutStaysOut
  <1>1. IInv => OptedOutStaysOut
    BY DEF IInv
  <1> QED
    BY <1>1, InitIInv, NextIInv, PTL DEF Spec

-----------------------------------------------------------------------------
(* The cards.  Each place of the list r holds what a place of its own does *)
(* in s.                                                                   *)
TakenFrom(r, s) ==
    \E from \in [DOMAIN r -> DOMAIN s] :
        /\ \A k \in DOMAIN r : r[k] = s[from[k]]
        /\ \A k, l \in DOMAIN r : k # l => from[k] # from[l]

(* What is left of a list when some of it goes: the others, each from a    *)
(* place of its own.                                                       *)
LEMMA WithoutIsTheRest ==
    ASSUME NEW S, NEW s \in Seq(S), NEW gone
    PROVE  /\ Without(s, gone) \in Seq(S)
           /\ Members(Without(s, gone)) = Members(s) \ gone
           /\ TakenFrom(Without(s, gone), s)
  <1> DEFINE left == {i \in DOMAIN s : s[i] \notin gone}
             Upto(i) == {j \in left : j <= i}
             n == Cardinality(left)
             place == [i \in left |-> Cardinality(Upto(i))]
             from == [k \in 1..n |-> CHOOSE i \in left : Cardinality(Upto(i)) = k]
             rest == [k \in 1..n |-> s[from[k]]]
  <1>1. DOMAIN s = 1..Len(s) /\ Len(s) \in Nat /\ \A i \in DOMAIN s : s[i] \in S
    OBVIOUS
  <1>2. IsFiniteSet(left) /\ n \in Nat /\ \A i \in left : i \in Nat
    <2>1. IsFiniteSet(1..Len(s)) /\ left \subseteq 1..Len(s)
      BY <1>1, FS_Interval
    <2>2. IsFiniteSet(left)
      BY <2>1, FS_Subset
    <2> QED
      BY <1>1, <2>1, <2>2, FS_CardinalityType
  <1>3. \A i \in left : IsFiniteSet(Upto(i)) /\ Cardinality(Upto(i)) \in 1..n
    <2> SUFFICES ASSUME NEW i \in left
                 PROVE  IsFiniteSet(Upto(i)) /\ Cardinality(Upto(i)) \in 1..n
      OBVIOUS
    <2>1. Upto(i) \in SUBSET left /\ i \in Upto(i)
      BY <1>2
    <2> HIDE DEF left, Upto
    <2>2. IsFiniteSet(Upto(i)) /\ Cardinality(Upto(i)) <= n
      BY <1>2, <2>1, FS_Subset
    <2>3. Cardinality(Upto(i)) \in Nat /\ Cardinality(Upto(i)) # 0
      BY <2>1, <2>2, FS_CardinalityType, FS_EmptySet
    <2> QED
      BY <1>2, <2>2, <2>3
  <1>4. \A i, j \in left : i < j => Cardinality(Upto(i)) < Cardinality(Upto(j))
    <2> SUFFICES ASSUME NEW i \in left, NEW j \in left, i < j
                 PROVE  Cardinality(Upto(i)) < Cardinality(Upto(j))
      OBVIOUS
    <2>1. Upto(i) \in SUBSET Upto(j) /\ j \in Upto(j) /\ j \notin Upto(i)
      BY <1>2
    <2> HIDE DEF left, Upto
    <2>2. Cardinality(Upto(i)) <= Cardinality(Upto(j)) /\ Cardinality(Upto(i)) # Cardinality(Upto(j))
      BY <1>3, <2>1, FS_Subset
    <2> QED
      BY <1>3, <2>2
  <1>5. place \in Injection(left, 1..n)
    <2>1. ASSUME NEW i \in left, NEW j \in left, place[i] = place[j] PROVE i = j
      <3>1. Cardinality(Upto(i)) = Cardinality(Upto(j))
        BY <2>1
      <3> HIDE DEF left, Upto
      <3>2. Cardinality(Upto(i)) \in Nat /\ ~(i < j) /\ ~(j < i)
        BY <1>2, <1>3, <1>4, <3>1
      <3> QED
        BY <1>2, <3>2
    <2>2. place \in [left -> 1..n]
      BY <1>3
    <2> HIDE DEF left, place
    <2> QED
      BY <2>1, <2>2 DEF Injection, IsInjective
  <1>6. place \in Surjection(left, 1..n)
    <2> HIDE DEF left, place
    <2>1. IsFiniteSet(1..n) /\ Cardinality(1..n) = n
      BY <1>2, FS_Interval
    <2> QED
      BY <1>5, <2>1, FS_Injection
  <1>7. \A k \in 1..n : from[k] \in left /\ place[from[k]] = k
    BY <1>6 DEF Surjection
  <1>8. Without(s, gone) = rest
    BY DEF Without
  <1>9. \A i \in left : \E k \in 1..n : from[k] = i
    <2> HIDE DEF left, place, from
    <2> QED
      BY <1>5, <1>7 DEF Injection, IsInjective
  <1> QED
    <2>1. from \in [1..n -> DOMAIN s] /\ \A k, l \in 1..n : k # l => from[k] # from[l]
      BY <1>7
    <2>2. \A k \in 1..n : rest[k] = s[from[k]] /\ s[from[k]] \in S \ gone
      BY <1>1, <1>7
    <2> HIDE DEF from
    <2>3. rest \in [1..n -> S] /\ DOMAIN rest = 1..n
      BY <2>2
    <2>4. rest \in Seq(S)
      BY <1>2, <2>3
    <2>5. Members(rest) = Members(s) \ gone
      BY <1>9, <2>1, <2>2, <2>3 DEF Members
    <2> HIDE DEF rest
    <2>6. TakenFrom(rest, s)
      BY <2>1, <2>2, <2>3 DEF TakenFrom
    <2> QED
      BY <1>8, <2>4, <2>5, <2>6

-----------------------------------------------------------------------------
(* One card for a build and for a name.                                    *)
CardsInv == odoosh \in Seq(OdooshCards) /\ ssh \in Seq(SshCards) /\ NamesOneCard

(* No two places of a list hold the same build, or names one could mistake.*)
ApartOdoosh(s) ==
    \A i, j \in DOMAIN s : i # j =>
        /\ s[i].build # s[j].build
        /\ Fold[BuildName(s[i])] # Fold[BuildName(s[j])]

ApartSsh(s) ==
    \A i, j \in DOMAIN s : i # j =>
        s[i].id # s[j].id /\ Fold[s[i].name] # Fold[s[j].name]

(* Taking cards out leaves the others apart.                               *)
LEMMA FewerOdoosh ==
    ASSUME NEW s \in Seq(OdooshCards), ApartOdoosh(s), NEW gone
    PROVE  Without(s, gone) \in Seq(OdooshCards) /\ ApartOdoosh(Without(s, gone))
  <1> DEFINE rest == Without(s, gone)
  <1>1. TakenFrom(rest, s) /\ rest \in Seq(OdooshCards)
    BY WithoutIsTheRest
  <1> HIDE DEF rest
  <1> QED
    BY <1>1 DEF ApartOdoosh, TakenFrom, rest

LEMMA FewerSsh ==
    ASSUME NEW s \in Seq(SshCards), ApartSsh(s), NEW gone
    PROVE  Without(s, gone) \in Seq(SshCards) /\ ApartSsh(Without(s, gone))
  <1> DEFINE rest == Without(s, gone)
  <1>1. TakenFrom(rest, s) /\ rest \in Seq(SshCards)
    BY WithoutIsTheRest
  <1> HIDE DEF rest
  <1> QED
    BY <1>1 DEF ApartSsh, TakenFrom, rest

(* A card that goes first: it is told apart from each of the others.       *)
LEMMA FirstOdoosh ==
    ASSUME NEW s \in Seq(OdooshCards), ApartOdoosh(s), NEW e \in OdooshCards,
           \A o \in Members(s) : /\ o.build # e.build
                                 /\ Fold[BuildName(o)] # Fold[BuildName(e)]
    PROVE  <<e>> \o s \in Seq(OdooshCards) /\ ApartOdoosh(<<e>> \o s)
  <1> DEFINE t == <<e>> \o s
  <1>1. t \in Seq(OdooshCards) /\ Len(t) = Len(s) + 1 /\ Len(s) \in Nat
    OBVIOUS
  <1>2. t[1] = e /\ \A i \in 2..Len(t) : i - 1 \in DOMAIN s /\ t[i] = s[i - 1]
    OBVIOUS
  <1>3. \A i \in 2..Len(t) : t[i] \in Members(s)
    BY <1>2 DEF Members
  <1> HIDE DEF t
  <1>4. DOMAIN t = 1..Len(t)
    BY <1>1
  <1>5. ASSUME NEW i \in DOMAIN t, NEW j \in DOMAIN t, i # j
        PROVE  /\ t[i].build # t[j].build
               /\ Fold[BuildName(t[i])] # Fold[BuildName(t[j])]
    <2>1. CASE i = 1 \/ j = 1
      BY <1>1, <1>2, <1>3, <1>4, <1>5, <2>1
    <2>2. CASE i # 1 /\ j # 1
      <3>1. i - 1 \in DOMAIN s /\ j - 1 \in DOMAIN s /\ i - 1 # j - 1
        BY <1>1, <1>2, <1>4, <1>5, <2>2
      <3>2. t[i] = s[i - 1] /\ t[j] = s[j - 1]
        BY <1>1, <1>2, <1>4, <2>2
      <3> QED
        BY <3>1, <3>2 DEF ApartOdoosh
    <2> QED
      BY <2>1, <2>2
  <1> QED
    BY <1>1, <1>5 DEF ApartOdoosh, t

LEMMA FirstSsh ==
    ASSUME NEW s \in Seq(SshCards), ApartSsh(s), NEW e \in SshCards,
           \A o \in Members(s) : o.id # e.id /\ Fold[o.name] # Fold[e.name]
    PROVE  <<e>> \o s \in Seq(SshCards) /\ ApartSsh(<<e>> \o s)
  <1> DEFINE t == <<e>> \o s
  <1>1. t \in Seq(SshCards) /\ Len(t) = Len(s) + 1 /\ Len(s) \in Nat
    OBVIOUS
  <1>2. t[1] = e /\ \A i \in 2..Len(t) : i - 1 \in DOMAIN s /\ t[i] = s[i - 1]
    OBVIOUS
  <1>3. \A i \in 2..Len(t) : t[i] \in Members(s)
    BY <1>2 DEF Members
  <1> HIDE DEF t
  <1>4. DOMAIN t = 1..Len(t)
    BY <1>1
  <1>5. ASSUME NEW i \in DOMAIN t, NEW j \in DOMAIN t, i # j
        PROVE  t[i].id # t[j].id /\ Fold[t[i].name] # Fold[t[j].name]
    <2>1. CASE i = 1 \/ j = 1
      BY <1>1, <1>2, <1>3, <1>4, <1>5, <2>1
    <2>2. CASE i # 1 /\ j # 1
      <3>1. i - 1 \in DOMAIN s /\ j - 1 \in DOMAIN s /\ i - 1 # j - 1
        BY <1>1, <1>2, <1>4, <1>5, <2>2
      <3>2. t[i] = s[i - 1] /\ t[j] = s[j - 1]
        BY <1>1, <1>2, <1>4, <2>2
      <3> QED
        BY <3>1, <3>2 DEF ApartSsh
    <2> QED
      BY <2>1, <2>2
  <1> QED
    BY <1>1, <1>5 DEF ApartSsh, t

(* Each change of the cards.                                               *)
LEMMA AddOdooshApart ==
    ASSUME CardsInv, AddOdoosh
    PROVE  odoosh' \in Seq(OdooshCards) /\ ApartOdoosh(odoosh') /\ ssh' = ssh
  <1>1. PICK build \in Builds, name \in Names \cup {NoName}, stage \in Stages :
            LET e == [build |-> build, name |-> Kept(build, name), stage |-> stage]
            IN  Checks(e, {}) /\ odoosh' = Replaced(e) /\ ssh' = ssh
    BY DEF AddOdoosh, Change
  <1> DEFINE e == [build |-> build, name |-> Kept(build, name), stage |-> stage]
             rest == WithoutBuild(build)
  <1>2. Kept(build, name) \in Names \cup {NoName}
    <2>1. \A o \in Members(odoosh) : o \in OdooshCards
      BY DEF CardsInv, Members
    <2>2. \A o \in Members(odoosh) : o.name \in Names \cup {NoName}
      BY <2>1 DEF OdooshCards
    <2> QED
      BY <2>2 DEF Kept
  <1>3. e \in OdooshCards
    BY <1>2 DEF OdooshCards
  <1>4. /\ rest \in Seq(OdooshCards) /\ ApartOdoosh(rest)
        /\ Members(rest) = {o \in Members(odoosh) : o.build # build}
    <2>1. ApartOdoosh(odoosh) /\ odoosh \in Seq(OdooshCards)
      BY DEF CardsInv, NamesOneCard, ApartOdoosh
    <2>2. Members(rest) = Members(odoosh) \ {o \in Members(odoosh) : o.build = build}
      BY <2>1, WithoutIsTheRest DEF WithoutBuild
    <2> QED
      BY <2>1, <2>2, FewerOdoosh DEF WithoutBuild
  <1>5. \A o \in Members(rest) : o.build # e.build /\ Fold[BuildName(o)] # Fold[BuildName(e)]
    <2>1. FreeName(e, {o \in Members(odoosh) : o.build # build})
      BY <1>1 DEF Checks
    <2> QED
      BY <1>4, <2>1 DEF FreeName, Taken
  <1>6. odoosh' = <<e>> \o rest /\ ssh' = ssh
    BY <1>1 DEF Replaced
  <1> HIDE DEF e, rest
  <1> QED
    BY <1>3, <1>4, <1>5, <1>6, FirstOdoosh

LEMMA UpdateOdooshApart ==
    ASSUME CardsInv, UpdateOdoosh
    PROVE  odoosh' \in Seq(OdooshCards) /\ ApartOdoosh(odoosh') /\ ssh' = ssh
  <1>1. PICK i \in DOMAIN odoosh, e \in OdooshCards :
            /\ Checks(e, {odoosh[i].build})
            /\ odoosh' = [odoosh EXCEPT ![i] = e] /\ ssh' = ssh
    BY DEF UpdateOdoosh, Change
  <1>2. odoosh' \in Seq(OdooshCards) /\ DOMAIN odoosh' = DOMAIN odoosh
    BY <1>1 DEF CardsInv
  <1>3. odoosh'[i] = e /\ \A j \in DOMAIN odoosh \ {i} : odoosh'[j] = odoosh[j]
    BY <1>1 DEF CardsInv
  <1>4. ASSUME NEW j \in DOMAIN odoosh \ {i}
        PROVE  e.build # odoosh[j].build /\ Fold[BuildName(e)] # Fold[BuildName(odoosh[j])]
    <2>1. odoosh[j] \in Members(odoosh) /\ odoosh[j].build # odoosh[i].build
      BY DEF Members, CardsInv, NamesOneCard
    <2>2. e.build # odoosh[j].build
      BY <1>1, <2>1 DEF Checks
    <2>3. FreeName(e, {o \in Members(odoosh) : o.build \notin {e.build} \cup {odoosh[i].build}})
      BY <1>1 DEF Checks
    <2> QED
      BY <2>1, <2>2, <2>3 DEF FreeName, Taken
  <1>5. ApartOdoosh(odoosh)
    BY DEF CardsInv, NamesOneCard, ApartOdoosh
  <1> QED
    BY <1>1, <1>2, <1>3, <1>4, <1>5 DEF ApartOdoosh

LEMMA AddSshApart ==
    ASSUME CardsInv, AddSsh
    PROVE  ssh' \in Seq(SshCards) /\ ApartSsh(ssh') /\ odoosh' = odoosh
  <1>1. PICK e \in SshCards :
            /\ e.id \notin {o.id : o \in Members(ssh)}
            /\ ChecksSsh(e)
            /\ ssh' = <<e>> \o ssh /\ odoosh' = odoosh
    BY DEF AddSsh, Change
  <1>2. \A o \in Members(ssh) : o.id # e.id
    BY <1>1
  <1>3. \A o \in Members(ssh) : Fold[o.name] # Fold[e.name]
    BY <1>1, <1>2 DEF ChecksSsh, Taken
  <1>4. ApartSsh(ssh) /\ ssh \in Seq(SshCards)
    BY DEF CardsInv, NamesOneCard, ApartSsh
  <1> QED
    BY <1>1, <1>2, <1>3, <1>4, FirstSsh

LEMMA UpdateSshApart ==
    ASSUME CardsInv, UpdateSsh
    PROVE  ssh' \in Seq(SshCards) /\ ApartSsh(ssh') /\ odoosh' = odoosh
  <1>1. PICK i \in DOMAIN ssh, e \in SshCards :
            /\ e.id = ssh[i].id /\ ChecksSsh(e)
            /\ ssh' = [ssh EXCEPT ![i] = e] /\ odoosh' = odoosh
    BY DEF UpdateSsh, Change
  <1>2. ssh' \in Seq(SshCards) /\ DOMAIN ssh' = DOMAIN ssh
    BY <1>1 DEF CardsInv
  <1>3. ssh'[i] = e /\ \A j \in DOMAIN ssh \ {i} : ssh'[j] = ssh[j]
    BY <1>1 DEF CardsInv
  <1>4. ASSUME NEW j \in DOMAIN ssh \ {i}
        PROVE  e.id # ssh[j].id /\ Fold[e.name] # Fold[ssh[j].name]
    <2>1. ssh[j] \in Members(ssh) /\ ssh[j].id # e.id
      BY <1>1 DEF Members, CardsInv, NamesOneCard
    <2> QED
      BY <1>1, <2>1 DEF ChecksSsh, Taken
  <1>5. ApartSsh(ssh)
    BY DEF CardsInv, NamesOneCard, ApartSsh
  <1> QED
    BY <1>1, <1>2, <1>3, <1>4, <1>5 DEF ApartSsh

LEMMA DeleteApart ==
    ASSUME CardsInv, Delete
    PROVE  /\ odoosh' \in Seq(OdooshCards) /\ ApartOdoosh(odoosh')
           /\ ssh' \in Seq(SshCards) /\ ApartSsh(ssh')
  <1>1. /\ odoosh \in Seq(OdooshCards) /\ ApartOdoosh(odoosh)
        /\ ssh \in Seq(SshCards) /\ ApartSsh(ssh)
    BY DEF CardsInv, NamesOneCard, ApartOdoosh, ApartSsh
  <1>2. CASE \E gone : odoosh' = Without(odoosh, gone) /\ ssh' = ssh
    BY <1>1, <1>2, FewerOdoosh
  <1>3. CASE \E gone : ssh' = Without(ssh, gone) /\ odoosh' = odoosh
    BY <1>1, <1>3, FewerSsh
  <1> QED
    BY <1>2, <1>3 DEF Delete, Change, WithoutBuild, WithoutId

(* All of them together, and the start.                                    *)
LEMMA CardsKeep ==
    ASSUME CardsInv, CardStep
    PROVE  CardsInv'
  <1>1. ApartOdoosh(odoosh) /\ ApartSsh(ssh)
    BY DEF CardsInv, NamesOneCard, ApartOdoosh, ApartSsh
  <1>2. /\ odoosh' \in Seq(OdooshCards) /\ ApartOdoosh(odoosh')
        /\ ssh' \in Seq(SshCards) /\ ApartSsh(ssh')
    <2>1. CASE AddOdoosh \/ UpdateOdoosh
      BY <1>1, <2>1, AddOdooshApart, UpdateOdooshApart DEF CardsInv
    <2>2. CASE AddSsh \/ UpdateSsh
      BY <1>1, <2>2, AddSshApart, UpdateSshApart DEF CardsInv
    <2>3. CASE Delete
      BY <2>3, DeleteApart
    <2>4. CASE HandEdit
      BY <1>1, <2>4 DEF HandEdit, CardsInv
    <2> QED
      BY <2>1, <2>2, <2>3, <2>4 DEF CardStep
  <1> QED
    BY <1>2 DEF CardsInv, NamesOneCard, ApartOdoosh, ApartSsh

LEMMA InitCardsInv == Init => CardsInv
  <1> SUFFICES ASSUME Init PROVE CardsInv
    OBVIOUS
  <1>1. ssh = <<>> /\ (odoosh = <<>> \/ \E e \in OdooshCards : odoosh = <<e>>)
    BY DEF Init, CardsInit
  <1>2. odoosh \in Seq(OdooshCards) /\ ssh \in Seq(SshCards)
    <2>1. \A e \in OdooshCards : <<e>> \in Seq(OdooshCards)
      OBVIOUS
    <2>2. <<>> \in Seq(OdooshCards) /\ <<>> \in Seq(SshCards)
      OBVIOUS
    <2> QED
      BY <1>1, <2>1, <2>2
  <1>3. DOMAIN ssh = {} /\ \A i, j \in DOMAIN odoosh : i = j
    BY <1>1
  <1> QED
    BY <1>2, <1>3 DEF CardsInv, NamesOneCard

LEMMA NextCardsInv == CardsInv /\ [Next]_vars => CardsInv'
  <1> SUFFICES ASSUME CardsInv, [Next]_vars PROVE CardsInv'
    OBVIOUS
  <1>1. CASE UNCHANGED <<odoosh, ssh>>
    BY <1>1 DEF CardsInv, NamesOneCard
  <1>2. CASE CardStep
    BY <1>2, CardsKeep
  <1>3. ASSUME NEW o \in Openers, Opens(o) PROVE UNCHANGED <<odoosh, ssh>>
    BY <1>3 DEF Opens, AsksAtDoor, AllowedAtDoor, Probed, Named, SpawnFails, Registers, World,
       cardVars
  <1>4. ASSUME NEW name \in Containers, SwitchOn(name) \/ SwitchOff(name)
        PROVE  UNCHANGED <<odoosh, ssh>>
    BY <1>4 DEF SwitchOn, SwitchOff, cardVars
  <1>5. UNCHANGED vars => UNCHANGED <<odoosh, ssh>>
    BY DEF vars, cardVars
  <1> QED
    BY <1>1, <1>2, <1>3, <1>4, <1>5 DEF Next, Edit

(* Whatever was added, renamed, left without a name, moved to another      *)
(* build or deleted, a build has one card, an id names one server, and no  *)
(* two cards of a kind can be taken for each other (TargetStore).          *)
THEOREM OneCardPerName == Spec => []NamesOneCard
  <1>1. CardsInv => NamesOneCard
    BY DEF CardsInv
  <1> QED
    BY <1>1, InitCardsInv, NextCardsInv, PTL DEF Spec

-----------------------------------------------------------------------------
(* The stage of a build.  Only a container waits at the door or for a name, *)
(* so a build's card is read where its request begins; what was read is a card as cards *)
(* are, of the build that was asked for, and while it stands unchanged it  *)
(* is in the list; and the session was built from it.                      *)
NamedIsAContainer ==
    \A o \in Openers : at[o] \in {"door", "naming"} => ask[o].kind = "container"

Reading == {"probing", "naming", "spawning", "open"}
Asked(o) == at[o] \in Reading /\ ask[o].kind = "odoosh"

ReadIsTheCard ==
    \A o \in Openers : Asked(o) =>
        /\ read[o] \in OdooshCards
        /\ read[o].build = ask[o].place
        /\ steady[o] => read[o] \in Members(odoosh)

StageIsBuilt ==
    \A o \in Openers : Asked(o) /\ at[o] = "open" =>
        /\ sess[o] # NoSession
        /\ sess[o].kind = "odoosh"
        /\ sess[o].stage = OdooshStage(read[o].stage, BuildStage[read[o].build])
        /\ sess[o].stage = "production" => ~sess[o].allow

Whole == DOMAIN read = Openers /\ DOMAIN steady = Openers

StageInv == Whole /\ NamedIsAContainer /\ ReadIsTheCard /\ StageIsBuilt

(* A card of a build is no server's.                                       *)
LEMMA KindsApart == OdooshCards \cap SshCards = {}
  <1>1. \A e \in OdooshCards : DOMAIN e = {"build", "name", "stage"}
    BY DEF OdooshCards
  <1>2. \A e \in SshCards : DOMAIN e = {"id", "name", "recipe", "stage"}
    BY DEF SshCards
  <1> QED
    BY <1>1, <1>2

(* A request that has begun has read its card.                             *)
LEMMA BeginsReads ==
    ASSUME CardsInv, StageInv, NEW o \in Openers, NEW a \in AllAsks, Begins(o, a),
           DOMAIN at = Openers
    PROVE  /\ at'[o] \in {"probing", "naming", "refused"}
           /\ at' = [at EXCEPT ![o] = at'[o]]
           /\ DOMAIN read' = Openers
           /\ \A x \in Openers \ {o} : read'[x] = read[x]
           /\ at'[o] = "naming" => a.kind = "container"
           /\ a.kind = "odoosh" /\ at'[o] # "refused" =>
                  /\ read'[o] \in OdooshCards \cap Members(odoosh)
                  /\ read'[o].build = a.place
  <1>1. CASE a.kind = "container"
    BY <1>1 DEF Begins, Goes, Ends, StageInv, Whole
  <1>2. CASE a.kind # "container" /\ CardsFor(a) = {}
    BY <1>2 DEF Begins, Goes, Ends, StageInv, Whole
  <1>3. CASE a.kind # "container" /\ CardsFor(a) # {}
    <2>1. PICK e \in CardsFor(a) : read' = [read EXCEPT ![o] = e] /\ at' = [at EXCEPT ![o] = "probing"]
      BY <1>3 DEF Begins, Goes
    <2>2. a.kind = "odoosh" => e \in Members(odoosh) /\ e.build = a.place
      BY DEF CardsFor
    <2>3. Members(odoosh) \subseteq OdooshCards
      BY DEF CardsInv, Members
    <2> QED
      BY <1>3, <2>1, <2>2, <2>3 DEF StageInv, Whole
  <1> QED
    BY <1>1, <1>2, <1>3

(* What a step of one request must leave of it.                            *)
LEMMA OneRequestReads ==
    ASSUME StageInv, NEW o \in Openers,
           UNCHANGED <<odoosh, sess>>, DOMAIN read' = Openers, DOMAIN steady' = Openers,
           at'[o] # "open",
           \A x \in Openers \ {o} :
               /\ at'[x] = at[x] /\ ask'[x] = ask[x]
               /\ read'[x] = read[x] /\ steady'[x] = steady[x],
           at'[o] \in {"door", "naming"} => ask'[o].kind = "container",
           at'[o] \in Reading /\ ask'[o].kind = "odoosh" =>
               /\ read'[o] \in OdooshCards
               /\ read'[o].build = ask'[o].place
               /\ steady'[o] => read'[o] \in Members(odoosh)
    PROVE  StageInv'
  <1>1. NamedIsAContainer'
    BY DEF StageInv, NamedIsAContainer
  <1>2. ReadIsTheCard'
    BY DEF StageInv, ReadIsTheCard, Asked, Members
  <1>3. StageIsBuilt'
    BY DEF StageInv, StageIsBuilt, Asked
  <1> QED
    BY <1>1, <1>2, <1>3 DEF StageInv, Whole

(* The session is built from the card that was read, and never allowed to  *)
(* commit on production.                                                   *)
LEMMA RegistersReads ==
    ASSUME IInv, StageInv, NEW o \in Openers, Registers(o)
    PROVE  StageInv'
  <1>1. /\ at[o] = "spawning" /\ at'[o] = "open"
        /\ UNCHANGED <<odoosh, ask, read, steady>>
        /\ \A x \in Openers \ {o} : at'[x] = at[x] /\ sess'[x] = sess[x]
    BY DEF Registers, Ends, World, cardVars, IInv, Shapes
  <1>2. /\ sess'[o].kind = ask[o].kind
        /\ sess'[o].stage = StageOf(o)
        /\ sess'[o].allow = StartsAllowed(o)
    BY DEF Registers, IInv, Shapes
  <1>3. ask[o].kind = "odoosh" =>
            /\ sess'[o] # NoSession
            /\ sess'[o].stage = OdooshStage(read[o].stage, BuildStage[read[o].build])
            /\ sess'[o].stage = "production" => ~sess'[o].allow
    BY <1>2 DEF StageOf, StartsAllowed, NoSession
  <1>4. NamedIsAContainer'
    BY <1>1 DEF StageInv, NamedIsAContainer
  <1>5. ReadIsTheCard'
    BY <1>1 DEF StageInv, ReadIsTheCard, Asked, Reading, Members
  <1>6. StageIsBuilt'
    BY <1>1, <1>2, <1>3 DEF StageInv, StageIsBuilt, Asked
  <1> QED
    BY <1>1, <1>4, <1>5, <1>6 DEF StageInv, Whole

(* Each step of a request, on what it read and what was built from it.     *)
LEMMA OpensReads ==
    ASSUME IInv, CardsInv, StageInv, NEW o \in Openers, Opens(o)
    PROVE  StageInv'
  <1>0. DOMAIN at = Openers /\ DOMAIN ask = Openers
    BY DEF IInv, Shapes
  <1>1. ASSUME NEW a \in Asks, AsksAtDoor(o, a) PROVE StageInv'
    <2>1. a \in AllAsks
      BY OpeningAssumption
    <2>2. /\ ask'[o] = a /\ \A x \in Openers \ {o} : ask'[x] = ask[x]
          /\ UNCHANGED <<odoosh, sess>>
          /\ DOMAIN steady' = Openers
          /\ \A x \in Openers \ {o} : steady'[x] = steady[x]
      BY <1>0, <1>1 DEF AsksAtDoor, World, cardVars, StageInv, Whole
    <2>3. CASE Begins(o, a)
      <3>1. /\ at'[o] \in {"probing", "naming", "refused"}
            /\ at' = [at EXCEPT ![o] = at'[o]]
            /\ DOMAIN read' = Openers
            /\ \A x \in Openers \ {o} : read'[x] = read[x]
            /\ at'[o] = "naming" => a.kind = "container"
            /\ a.kind = "odoosh" /\ at'[o] # "refused" =>
                   /\ read'[o] \in OdooshCards \cap Members(odoosh)
                   /\ read'[o].build = a.place
        BY <1>0, <2>1, <2>3, BeginsReads
      <3>2. \A x \in Openers \ {o} : at'[x] = at[x]
        BY <1>0, <3>1
      <3> QED
        BY <2>2, <3>1, <3>2, OneRequestReads DEF Reading
    <2>4. CASE /\ UNCHANGED read
               /\ \/ Ends(o, "refused")
                  \/ Goes(o, "door") /\ a.kind = "container"
      <3>1. /\ at'[o] \notin Reading /\ (at'[o] \in {"door", "naming"} => a.kind = "container")
            /\ at'[o] # "open"
            /\ \A x \in Openers \ {o} : at'[x] = at[x]
        BY <1>0, <2>4 DEF Ends, Goes, Reading
      <3>2. DOMAIN read' = Openers /\ \A x \in Openers \ {o} : read'[x] = read[x]
        BY <2>4 DEF StageInv, Whole
      <3> QED
        BY <2>2, <3>1, <3>2, OneRequestReads
    <2> QED
      BY <1>1, <2>3, <2>4 DEF AsksAtDoor, Ends, Goes
  <1>2. CASE AllowedAtDoor(o)
    <2>1. ask[o] \in AllAsks /\ ask[o].kind = "container"
      BY <1>2 DEF AllowedAtDoor, IInv, PastTheDoor, Asking, StageInv, NamedIsAContainer
    <2>2. /\ ask'[o].kind = "container" /\ at'[o] \notin {"open", "door"}
          /\ \A x \in Openers \ {o} :
                 /\ at'[x] = at[x] /\ ask'[x] = ask[x]
                 /\ read'[x] = read[x] /\ steady'[x] = steady[x]
          /\ UNCHANGED <<odoosh, sess>> /\ DOMAIN read' = Openers /\ DOMAIN steady' = Openers
      <3>1. UNCHANGED <<odoosh, sess, steady>>
        BY <1>2 DEF AllowedAtDoor, World, cardVars
      <3>2. CASE ask' = [ask EXCEPT ![o] = LetTheSwitchDecide(@)] /\ Begins(o, ask[o])
        <4>1. LetTheSwitchDecide(ask[o]).kind = "container"
          BY <2>1 DEF LetTheSwitchDecide, AllAsks
        <4>2. ask'[o].kind = "container" /\ \A x \in Openers \ {o} : ask'[x] = ask[x]
          BY <1>0, <3>2, <4>1
        <4>3. /\ at'[o] \in {"probing", "naming", "refused"}
              /\ at' = [at EXCEPT ![o] = at'[o]]
              /\ DOMAIN read' = Openers
              /\ \A x \in Openers \ {o} : read'[x] = read[x]
          BY <1>0, <2>1, <3>2, BeginsReads
        <4> QED
          BY <1>0, <3>1, <4>2, <4>3 DEF StageInv, Whole
      <3>3. CASE Ends(o, "refused") /\ UNCHANGED <<ask, read>>
        BY <1>0, <2>1, <3>1, <3>3 DEF Ends, StageInv, Whole
      <3> QED
        BY <1>2, <3>2, <3>3 DEF AllowedAtDoor
    <2> QED
      BY <2>2, OneRequestReads
  <1>3. CASE Probed(o) \/ SpawnFails(o)
    <2>1. /\ at'[o] \in {"refused", "naming", "spawning"} /\ at[o] \in Reading
          /\ at'[o] = "naming" => ask[o].kind = "container"
          /\ \A x \in Openers \ {o} : at'[x] = at[x]
          /\ UNCHANGED <<odoosh, sess, ask, read, steady>>
      BY <1>0, <1>3 DEF Probed, SpawnFails, Goes, Ends, Reading, World, cardVars
    <2>2. Asked(o) => /\ read[o] \in OdooshCards /\ read[o].build = ask[o].place
                      /\ steady[o] => read[o] \in Members(odoosh)
      BY DEF StageInv, ReadIsTheCard
    <2> QED
      BY <2>1, <2>2, OneRequestReads DEF StageInv, Whole, Asked
  <1>4. CASE Named(o)
    <2>1. ask[o].kind = "container"
      BY <1>4 DEF Named, StageInv, NamedIsAContainer
    <2>2. /\ at'[o] = "spawning" /\ UNCHANGED <<odoosh, sess, ask, steady>>
          /\ DOMAIN read' = Openers /\ DOMAIN steady' = Openers
          /\ \A x \in Openers \ {o} : at'[x] = at[x] /\ read'[x] = read[x]
      BY <1>0, <1>4 DEF Named, Goes, World, cardVars, StageInv, Whole
    <2> QED
      BY <2>1, <2>2, OneRequestReads
  <1>5. CASE Registers(o)
    BY <1>5, RegistersReads
  <1> QED
    BY <1>1, <1>2, <1>3, <1>4, <1>5 DEF Opens

(* A switch gives and takes the right of containers only.                  *)
LEMMA SwitchesRead ==
    ASSUME StageInv, NEW name \in Containers, SwitchOn(name) \/ SwitchOff(name)
    PROVE  StageInv'
  <1>1. UNCHANGED <<odoosh, ask, at, read, steady>>
    BY DEF SwitchOn, SwitchOff, cardVars
  <1>2. \A o \in Openers :
            sess[o] # NoSession /\ sess[o].kind = "odoosh" => sess'[o] = sess[o]
    BY DEF SwitchOn, SwitchOff, Swept
  <1>3. ReadIsTheCard' /\ NamedIsAContainer'
    BY <1>1 DEF StageInv, ReadIsTheCard, NamedIsAContainer, Asked, Members
  <1>4. StageIsBuilt'
    BY <1>1, <1>2 DEF StageInv, StageIsBuilt, Asked
  <1> QED
    BY <1>1, <1>3, <1>4 DEF StageInv, Whole

(* A card that changed is not the one that was read.                       *)
LEMMA EditReads ==
    ASSUME StageInv, CardsInv', Edit
    PROVE  StageInv'
  <1>1. UNCHANGED <<ask, at, read, sess>>
    BY DEF Edit
  <1>2. ASSUME NEW o \in Openers, Asked(o), steady'[o] PROVE read'[o] \in Members(odoosh')
    <2>1. read'[o] \in Members(odoosh') \cup Members(ssh')
      BY <1>2 DEF Edit, StandsAs, Members
    <2>2. read'[o] \in OdooshCards
      BY <1>1, <1>2 DEF StageInv, ReadIsTheCard
    <2>3. Members(ssh') \subseteq SshCards
      BY DEF CardsInv, Members
    <2> QED
      BY <2>1, <2>2, <2>3, KindsApart
  <1>3. ReadIsTheCard'
    <2>1. ASSUME NEW o \in Openers, Asked(o)'
          PROVE  /\ (read[o] \in OdooshCards)'
                 /\ (read[o].build = ask[o].place)'
                 /\ (steady[o] => read[o] \in Members(odoosh))'
      <3>1. Asked(o)
        BY <1>1, <2>1 DEF Asked
      <3>2. read'[o] \in OdooshCards /\ read'[o].build = ask'[o].place
        BY <1>1, <3>1 DEF StageInv, ReadIsTheCard
      <3>3. steady'[o] => read'[o] \in Members(odoosh')
        BY <1>2, <3>1
      <3> QED
        BY <3>2, <3>3 DEF Members
    <2> QED
      BY <2>1 DEF ReadIsTheCard
  <1>4. NamedIsAContainer' /\ StageIsBuilt'
    BY <1>1 DEF StageInv, NamedIsAContainer, StageIsBuilt, Asked
  <1> QED
    BY <1>1, <1>3, <1>4 DEF Edit, StageInv, Whole

(* The stage of a build is inductive, given the cards are.                 *)
LEMMA InitStageInv == Init => StageInv
  BY DEF Init, StageInv, Whole, NamedIsAContainer, ReadIsTheCard, StageIsBuilt, Asked, Reading

LEMMA NextStageInv == IInv /\ CardsInv /\ CardsInv' /\ StageInv /\ [Next]_vars => StageInv'
  <1> SUFFICES ASSUME IInv, CardsInv, CardsInv', StageInv, [Next]_vars PROVE StageInv'
    OBVIOUS
  <1>1. CASE UNCHANGED vars
    BY <1>1 DEF vars, cardVars, openVars, StageInv, Whole, NamedIsAContainer, ReadIsTheCard,
       StageIsBuilt, Asked, Members
  <1> QED
    BY <1>1, OpensReads, SwitchesRead, EditReads DEF Next

(* While a build's card stands, what was opened on it is production when   *)
(* the card or the build itself says production, and holds no right        *)
(* (odoosh_stage, Registry.open, Session.__init__).                        *)
THEOREM TheStricterStage == Spec => []StricterStageWins
  <1>1. CardsInv /\ StageInv => StricterStageWins
    <2> SUFFICES ASSUME CardsInv, StageInv, NEW o \in Openers, NEW e \in Members(odoosh),
                        at[o] = "open", steady[o],
                        ask[o].kind = "odoosh", e.build = ask[o].place,
                        "production" \in {e.stage, BuildStage[e.build]}
                 PROVE  sess[o].stage = "production" /\ ~sess[o].allow
      BY DEF StricterStageWins
    <2>1. read[o] \in Members(odoosh) /\ read[o].build = e.build
      BY DEF StageInv, ReadIsTheCard, Asked, Reading
    <2>2. read[o] = e
      BY <2>1 DEF CardsInv, NamesOneCard, Members
    <2>3. /\ sess[o].stage = OdooshStage(e.stage, BuildStage[e.build])
          /\ sess[o].stage = "production" => ~sess[o].allow
      BY <2>2 DEF StageInv, StageIsBuilt, Asked, Reading
    <2> QED
      BY <2>3 DEF OdooshStage
  <1> QED
    BY <1>1, InitIInv, NextIInv, InitCardsInv, NextCardsInv, InitStageInv, NextStageInv, PTL DEF Spec
=============================================================================
