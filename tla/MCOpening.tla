------------------------------ MODULE MCOpening -----------------------------
(* Two builds that say different things of themselves, one server and one  *)
(* container; a recipe that names a key file and one that does not.        *)
EXTENDS Opening

TwoBuilds == {"b1", "b2"}
RecipeKeys == [plain |-> "no key", keyed |-> "k1"]
SameCase == [n \in TwoBuilds |-> n]
EachSays ==
    [b \in TwoBuilds |-> IF b = "b1" THEN "staging" ELSE "undeclared"]

(* By its id and to be probed first, or by a name whose odoo-bin is known. *)
Container(owner, allow, hand) ==
    {[kind |-> "container", place |-> "c1", byId |-> asked, knowsBin |-> ~asked,
      owner |-> owner, allow |-> allow, hand |-> hand] : asked \in BOOLEAN}
Card(kind, place, owner, allow, hand) ==
    [kind |-> kind, place |-> place, owner |-> owner, allow |-> allow, hand |-> hand]

SomeAsks ==
    UNION {Container("agent", allow, "none") : allow \in {"default", "yes", "no"}}
    \cup Container("human", "default", "origin") \cup Container("agent", "yes", "admin")
    \cup {Card("odoosh", b, "human", "yes", "origin") : b \in TwoBuilds}
    \cup {Card("odoosh", "b2", "agent", "default", "none"),
          Card("ssh", "s1", "agent", "yes", "origin"),
          Card("ssh", "s1", "agent", "yes", "admin"),
          Card("ssh", "s1", "human", "default", "admin")}
=============================================================================
