----------------------------- MODULE Lifecycle ------------------------------
(***************************************************************************)
(* What a session promises the registry and its watchers: it opens once,   *)
(* works one command at a time, and ends once, either closed because it was*)
(* asked to or dead because nobody asked.  Session implements it in full   *)
(* detail; Registry keeps one of these per session.                        *)
(***************************************************************************)

VARIABLES
    state,    \* what the session shows
    closing   \* whether it has begun to close

Init == state = "starting" /\ closing = FALSE

(* A session whose version is refused begins to close in the same breath.  *)
Open ==
    /\ ~closing /\ state = "starting"
    /\ state' = "ready"
    /\ closing' \in BOOLEAN

(* A closing session may still take the close frame itself.                *)
Begin == state = "ready" /\ state' = "busy" /\ UNCHANGED closing

Finish == ~closing /\ state = "busy" /\ state' = "ready" /\ UNCHANGED closing

AskToEnd == ~closing /\ closing' = TRUE /\ UNCHANGED state

Ended == state \in {"closed", "dead"}

(* A death nobody asked for; one in a closing session is its close.        *)
Die == ~closing /\ ~Ended /\ state' = "dead" /\ UNCHANGED closing

Close == closing /\ ~Ended /\ state' = "closed" /\ UNCHANGED closing

Next == Open \/ Begin \/ Finish \/ AskToEnd \/ Die \/ Close

Spec == Init /\ [][Next]_<<state, closing>>
=============================================================================
