---------------------------- MODULE CommitPolicy ----------------------------
(***************************************************************************)
(* Who may commit in one session: its owners (Session.transfer_owner), the *)
(* right they hold (allow_commit, commit_grant, opted_out) and the switch  *)
(* of its container (agent_commit.py, Registry.set_agent_commit).          *)
(*                                                                         *)
(* The kinds of everyone who ever held a key are one sequence: the last is *)
(* the owner and holds write_key, the others are former_keys, and the      *)
(* sequence itself is _key_kinds.  An owner is its position in it.         *)
(***************************************************************************)
EXTENDS Naturals, Sequences

CONSTANTS
    Targets,   \* the kinds of target a session may be opened on
    MaxOwners  \* bound: keys issued in one session

TargetKinds == {"container", "remote", "production"}

ASSUME PolicyAssumption ==
    /\ Targets \subseteq TargetKinds
    /\ MaxOwners \in Nat \ {0}

VARIABLES
    target,    \* Session.target, by what the right depends on
    owners,    \* the kind of owner each key was issued to, oldest first
    allow,     \* Session.allow_commit
    grant,     \* Session.commit_grant, "none" for None
    optedOut,  \* Session.opted_out
    switch     \* the container's entry in agent-commit.json

policyVars == <<target, owners, allow, grant, optedOut, switch>>

OwnerKinds == {"human", "agent"}
Grants == {"none", "container", "session"}

(* Target.is_remote: anything but a local container.  Only a remote target *)
(* has a stage (Registry._docker_target sets none).                        *)
Remote == target # "container"
Production == target = "production"

Owner == owners[Len(owners)]

NeedsNoGrant(kind) == kind = "human" /\ ~Remote /\ ~Production

(* A handover resets opted_out before it asks, so what it asks with is a   *)
(* parameter.                                                              *)
SwitchCovers(kind, out) ==
    kind = "agent" /\ ~Remote /\ ~Production /\ ~out /\ switch

StartsWithCommit(kind, out) == NeedsNoGrant(kind) \/ SwitchCovers(kind, out)

(* May a commit even be attempted?  (CommitForbidden is a refusal too.)    *)
MayCommit ==
    /\ Production => Owner = "human"
    /\ (Owner = "human" /\ ~Remote) \/ allow

(* Bug: a confirmation is enough on production, whoever owns the session.  *)
SetAllowRefusesUnconfirmed(allowed, confirmed) ==
    allowed /\ Production /\ ~confirmed

SetAllowRefuses(allowed, confirmed) ==
    allowed /\ Production /\ (Owner # "human" \/ ~confirmed)

-----------------------------------------------------------------------------
(* Session.__init__: ask is the request's allow_commit, "default" for None.*)
PolicyInit ==
    \E kind \in OwnerKinds, ask \in {"default", "yes", "no"} :
        /\ target \in Targets
        /\ owners = <<kind>>
        /\ switch \in BOOLEAN
        /\ optedOut = (ask = "no")
        /\ allow = /\ ~Production
                   /\ IF ask = "default" THEN StartsWithCommit(kind, FALSE)
                                         ELSE ask = "yes"
        /\ grant = IF allow /\ ~NeedsNoGrant(kind)
                   THEN IF SwitchCovers(kind, optedOut) THEN "container"
                                                        ELSE "session"
                   ELSE "none"

TransferRights(kind) ==
    /\ Len(owners) < MaxOwners
    /\ owners' = Append(owners, kind)
    /\ optedOut' = FALSE
    /\ allow' = StartsWithCommit(kind, FALSE)
    /\ grant' = IF SwitchCovers(kind, FALSE) THEN "container" ELSE "none"
    /\ UNCHANGED <<target, switch>>

(* set_allow_commit behind POST /policy, which answers 409 to taking the   *)
(* right from a local human: it gates nothing there.                       *)
SetAllowCommit(allowed, confirmed) ==
    /\ allowed \/ Owner = "agent" \/ Remote
    /\ ~SetAllowRefuses(allowed, confirmed)
    /\ allow' = allowed
    /\ grant' = IF allowed /\ ~NeedsNoGrant(Owner) THEN "session" ELSE "none"
    /\ UNCHANGED <<target, owners, optedOut, switch>>

(* Session.apply_container_switch, with the switch's value already known.  *)
ApplySwitchOn ==
    IF ~allow /\ SwitchCovers(Owner, optedOut)'
    THEN allow' = TRUE /\ grant' = "container"
    ELSE UNCHANGED <<allow, grant>>

(* Bug: the right goes and its source stays.                               *)
ApplySwitchOffKeepsSource ==
    IF allow /\ Owner = "agent"
    THEN allow' = FALSE /\ UNCHANGED grant
    ELSE UNCHANGED <<allow, grant>>

ApplySwitchOff ==
    IF allow /\ Owner = "agent"
    THEN allow' = FALSE /\ grant' = "none"
    ELSE UNCHANGED <<allow, grant>>

(* Registry.set_agent_commit as this session sees it.  On writes the file  *)
(* and then sweeps; off sweeps first, and the file may refuse (stored is   *)
(* FALSE).  The sweep reaches a local session that has not ended (live).   *)
TurnOn(live) ==
    /\ switch' = TRUE
    /\ UNCHANGED <<target, owners, optedOut>>
    /\ IF live /\ ~Remote THEN ApplySwitchOn ELSE UNCHANGED <<allow, grant>>

(* Bug: sessions already open keep what the switch gave them.              *)
TurnOffWithoutSweep(live, stored) ==
    /\ switch' = IF stored THEN FALSE ELSE switch
    /\ UNCHANGED <<target, owners, optedOut, allow, grant>>

TurnOff(live, stored) ==
    /\ IF live /\ ~Remote THEN ApplySwitchOff ELSE UNCHANGED <<allow, grant>>
    /\ switch' = IF stored THEN FALSE ELSE switch
    /\ UNCHANGED <<target, owners, optedOut>>

(* _spend_production_grant: when a commit was attempted, or a rollback     *)
(* ended the transaction the grant was for.                                *)
SpendProductionGrant ==
    /\ IF Production /\ allow
       THEN allow' = FALSE /\ grant' = "none"
       ELSE UNCHANGED <<allow, grant>>
    /\ UNCHANGED <<target, owners, optedOut, switch>>

Boundary(kind) ==
    /\ kind = "commit" => MayCommit
    /\ SpendProductionGrant

-----------------------------------------------------------------------------
PolicyNext ==
    \/ \E kind \in OwnerKinds : TransferRights(kind)
    \/ \E allowed, confirmed \in BOOLEAN : SetAllowCommit(allowed, confirmed)
    \/ TurnOn(TRUE)
    \/ \E stored \in BOOLEAN : TurnOff(TRUE, stored)
    \/ \E kind \in {"commit", "rollback"} : Boundary(kind)

PolicySpec == PolicyInit /\ [][PolicyNext]_policyVars

-----------------------------------------------------------------------------
(* The types of the policy's state.                                        *)
PolicyTypeOK ==
    /\ target \in Targets
    /\ owners \in Seq(OwnerKinds)
    /\ Len(owners) \in 1..MaxOwners
    /\ allow \in BOOLEAN
    /\ grant \in Grants
    /\ optedOut \in BOOLEAN
    /\ switch \in BOOLEAN

(* On production the right is only ever a human's: no order of opening,    *)
(* granting, switching and handing over leaves an agent holding it.        *)
ProductionRightIsHuman == Production /\ allow => Owner = "human"

(* On a remote target nobody holds the right unless it was granted in this *)
(* session, to whoever owns it now: taking a session back does not bring   *)
(* the right home with it.                                                 *)
RemoteRightWasGranted == Remote /\ allow => grant = "session"

(* commit_grant tells clients where the right came from: it names a source *)
(* exactly when the right is held by someone who needs one.                *)
GrantNamesItsSource == (grant # "none") = (allow /\ ~NeedsNoGrant(Owner))

(* A right that came from the container's switch is gone once the switch   *)
(* is: it is not left behind by a handover, a grant or a failed write.     *)
ContainerGrantNeedsSwitch ==
    grant = "container" => switch /\ Owner = "agent" /\ ~Remote

(* Turning the switch off leaves no agent able to commit there, whatever   *)
(* gave it the right (apply_container_switch), and does so before the file *)
(* is written.                                                             *)
OffDisarmsAgents ==
    [][switch /\ ~switch' => ~(Owner' = "agent" /\ ~Remote /\ allow')]_policyVars
=============================================================================
