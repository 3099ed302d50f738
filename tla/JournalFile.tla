---------------------------- MODULE JournalFile -----------------------------
(***************************************************************************)
(* One session's journal on disk (odoo_sheller/journal.py): the session    *)
(* appends to it from the loop, while threads list the journals through a  *)
(* cache (list_journals), it is read and paged, the daemon is killed and   *)
(* the file deleted.                                                       *)
(*                                                                         *)
(* The session is here what decides the records: one request at a time, a  *)
(* ceiling after which its answer comes late, a death or a close           *)
(* (Session.execute, run_test, _boundary, _request, _settle_abandoned).    *)
(***************************************************************************)
EXTENDS Transcript

CONSTANTS
    Plans,       \* bound: a session's requests, its records about no request,
                 \* and the listings at once
    Asked, Noted \* bound: of these kinds

ASSUME JournalAssumption ==
    /\ Plans \subseteq [requests : Nat, notes : Nat, listings : Nat]
    /\ Asked \subseteq Commands \cup Boundaries
    /\ Noted \subseteq {"owner_changed", "policy_changed", "interrupt", "stderr"}

VARIABLES
    lines,    \* the whole lines of the file
    half,     \* a last line without its end: none, being written, or left
    exists,
    writing,  \* records the session is about to append
    phase,    \* what the session does
    request,  \* its request under way
    owed,     \* requests given up whose interrupt is still being sent
    notes,
    plan,     \* which of Plans this is
    cache,    \* journal._LISTING
    lister,   \* the listings
    fate,     \* history: each command and what became of it
    commits,  \* history: commits that succeeded
    returned  \* history: writes that returned

fileVars == <<lines, half, exists>>
writerVars == <<writing, phase, request, owed, notes, plan>>
listVars == <<cache, lister>>
historyVars == <<fate, commits, returned>>
vars == <<fileVars, writerVars, listVars, historyVars>>

Threads == 1..plan.listings

NoRequest == [kind |-> "none", id |-> 0]
NoListing == [at |-> "idle", stamp |-> <<>>, entry |-> NoSummary]
NoCache == [stamp |-> <<>>, entry |-> NoSummary]

(* st_size: a file that only grows is told apart by its size.              *)
Stamp == <<Len(lines), half>>

-----------------------------------------------------------------------------
(* The session.                                                            *)

Appends(records) == writing' = records

Silent == writing = <<>>

Starts(kind) ==
    /\ phase = "idle" /\ Silent
    /\ request.id < plan.requests
    /\ request' = [kind |-> kind, id |-> request.id + 1]
    /\ phase' = "running"
    /\ IF kind \in Commands
       THEN /\ Appends(<<Rec(kind, request.id + 1, TRUE)>>)
            /\ fate' = Append(fate, Entry(kind, request.id + 1, Len(fate) + 1, "running"))
       ELSE UNCHANGED <<writing, fate>>
    /\ UNCHANGED <<fileVars, owed, notes, plan, listVars, commits, returned>>

Command(id, Becomes(_)) ==
    fate' = [i \in DOMAIN fate |-> IF fate[i].id = id THEN Becomes(fate[i]) ELSE fate[i]]

Settled(ok, late) ==
    /\ Command(request.id, LAMBDA c : [c EXCEPT !.status = IF ok THEN "done" ELSE "error",
                                                !.abandoned = late])
    /\ commits' = IF request.kind = "commit" /\ ok THEN commits + 1 ELSE commits

(* A boundary writes no result, only what it did.                          *)
Answers(ok) ==
    /\ phase = "running" /\ Silent
    /\ phase' = "idle"
    /\ Appends(<<Rec(IF request.kind \in Commands THEN "result" ELSE request.kind,
                     request.id, ok)>>)
    /\ Settled(ok, FALSE)
    /\ UNCHANGED <<fileVars, request, owed, notes, plan, listVars, returned>>

(* The ceiling.  It is booked only when the interrupt has been sent: the   *)
(* late answer may be first, and the next request begun.                   *)
Overruns ==
    /\ phase = "running" /\ Silent
    /\ phase' = "overdue"
    /\ owed' = owed \cup {request.id}
    /\ UNCHANGED <<fileVars, writing, request, notes, plan, listVars, historyVars>>

Interrupted(id) ==
    /\ id \in owed /\ Silent
    /\ owed' = owed \ {id}
    /\ Appends(<<Rec("timeout", id, TRUE)>>)
    /\ Command(id, LAMBDA c : [c EXCEPT !.timedOut = TRUE,
                                        !.status = IF c.abandoned THEN @ ELSE "error"])
    /\ UNCHANGED <<fileVars, phase, request, notes, plan, listVars, commits, returned>>

(* _settle_abandoned *)
Settles(ok) ==
    /\ phase = "overdue" /\ Silent
    /\ phase' = "idle"
    /\ LET late == Rec("abandoned_result", request.id, ok) IN
       Appends(IF request.kind \in Commands THEN <<late>>
               ELSE <<late, Rec(request.kind, request.id, ok)>>)
    /\ Settled(ok, TRUE)
    /\ UNCHANGED <<fileVars, request, owed, notes, plan, listVars, returned>>

Notes(kind) ==
    /\ phase \in {"idle", "running", "overdue"} /\ Silent
    /\ notes < plan.notes
    /\ notes' = notes + 1
    /\ Appends(<<Rec(kind, 0, TRUE)>>)
    /\ UNCHANGED <<fileVars, phase, request, owed, plan, listVars, historyVars>>

Ends(kind) ==
    /\ phase \in {"idle", "running", "overdue"} /\ Silent
    /\ phase' = "over"
    /\ Appends(<<Rec(kind, 0, TRUE)>>)
    /\ UNCHANGED <<fileVars, request, owed, notes, plan, listVars, historyVars>>

-----------------------------------------------------------------------------
(* Journal.write.  A long line reaches the file in more than one piece.    *)

WritesSome ==
    /\ writing # <<>> /\ half = "no"
    /\ half' = "mine"
    /\ UNCHANGED <<lines, exists, writerVars, listVars, historyVars>>

(* What was left of a line is in front of this one: neither is a record.   *)
Writes ==
    /\ writing # <<>>
    /\ lines' = Append(lines, IF half = "left" THEN Torn ELSE Head(writing))
    /\ half' = "no"
    /\ writing' = Tail(writing)
    /\ returned' = returned + 1
    /\ UNCHANGED <<exists, phase, request, owed, notes, plan, listVars, fate, commits>>

(* No room for the rest of the line: the write raises, and so does what    *)
(* the session was writing.  Bound: once.                                  *)
WriteFails ==
    /\ writing # <<>> /\ half = "mine" /\ ~Contains(lines, Torn)
    /\ half' = "left"
    /\ writing' = <<>>
    /\ UNCHANGED <<lines, exists, phase, request, owed, notes, plan, listVars, historyVars>>

(* The daemon is killed; another one starts with nothing cached.           *)
DaemonRestarts ==
    /\ phase # "killed"
    /\ phase' = "killed"
    /\ writing' = <<>>
    /\ owed' = {}
    /\ half' = IF half = "mine" THEN "left" ELSE half
    /\ cache' = NoCache
    /\ lister' = [t \in Threads |-> NoListing]
    /\ fate' = <<>> /\ commits' = 0
    /\ UNCHANGED <<lines, exists, request, notes, plan, returned>>

(* DELETE /api/journals/{id}, of a session that is not in the table.       *)
Deletes ==
    /\ exists
    /\ phase \in {"over", "killed"} /\ Silent /\ owed = {}
    /\ exists' = FALSE
    /\ lines' = <<>>
    /\ half' = "no"
    /\ cache' = NoCache
    /\ fate' = <<>> /\ commits' = 0 /\ returned' = 0
    /\ UNCHANGED <<writerVars, lister>>

-----------------------------------------------------------------------------
(* list_journals, in threads of its own.                                   *)

(* The glob and the stat: gone between the two is gone before.  A path     *)
(* that is not there any more is forgotten.                                *)
Lists(t) ==
    /\ lister[t].at = "idle"
    /\ IF exists
       THEN lister' = [lister EXCEPT ![t].at = "stamped", ![t].stamp = Stamp] /\ UNCHANGED cache
       ELSE cache' = NoCache /\ UNCHANGED lister
    /\ UNCHANGED <<fileVars, writerVars, historyVars>>

Cached(stamp) == cache # NoCache /\ cache.stamp = stamp

Looks(t) ==
    /\ lister[t].at = "stamped"
    /\ lister' = IF Cached(lister[t].stamp)
                 THEN [lister EXCEPT ![t].at = "answered", ![t].entry = cache.entry]
                 ELSE [lister EXCEPT ![t].at = "reading"]
    /\ UNCHANGED <<fileVars, writerVars, cache, historyVars>>

(* A file deleted meanwhile reads as an empty one.                         *)
Reads(t) ==
    /\ lister[t].at = "reading"
    /\ lister' = [lister EXCEPT ![t].at = "read", ![t].entry = Summary(lines)]
    /\ UNCHANGED <<fileVars, writerVars, cache, historyVars>>

(* Bug: the file is stat'ed after it was read.                             *)
StampKeptLate(t) == Stamp

StampKept(t) == lister[t].stamp

Stores(t) ==
    /\ lister[t].at = "read"
    /\ cache' = [stamp |-> StampKept(t), entry |-> lister[t].entry]
    /\ lister' = [lister EXCEPT ![t].at = "answered"]
    /\ UNCHANGED <<fileVars, writerVars, historyVars>>

IsAnswered(t) ==
    /\ lister[t].at = "answered"
    /\ lister' = [lister EXCEPT ![t] = NoListing]
    /\ UNCHANGED <<fileVars, writerVars, cache, historyVars>>

-----------------------------------------------------------------------------
Init ==
    /\ lines = <<>> /\ half = "no" /\ exists = TRUE
    /\ writing = <<Rec("session_open", 0, TRUE)>>
    /\ phase = "idle"
    /\ request = NoRequest
    /\ owed = {}
    /\ notes = 0
    /\ plan \in Plans
    /\ cache = NoCache
    /\ lister = [t \in Threads |-> NoListing]
    /\ fate = <<>> /\ commits = 0 /\ returned = 0

SessionStep ==
    \/ \E kind \in Asked : Starts(kind)
    \/ \E ok \in BOOLEAN : Answers(ok) \/ Settles(ok)
    \/ Overruns
    \/ \E id \in owed : Interrupted(id)
    \/ \E kind \in Noted : Notes(kind)
    \/ \E kind \in {"session_close", "session_died"} : Ends(kind)

Listing(t) == Lists(t) \/ Looks(t) \/ Reads(t) \/ Stores(t) \/ IsAnswered(t)

Next ==
    \/ SessionStep
    \/ WritesSome \/ Writes \/ WriteFails
    \/ DaemonRestarts \/ Deletes
    \/ \E t \in Threads : Listing(t)

Spec == Init /\ [][Next]_vars

-----------------------------------------------------------------------------
(* All that was to be written is in the file.                              *)
Written ==
    /\ exists /\ Silent /\ phase # "killed"
    /\ half # "left" /\ ~Contains(lines, Torn)

(* The history rebuilt from a journal says of every command what became of *)
(* it: running, its result, or that it timed out, the late result taking   *)
(* the place of the timeout, in the order they were asked; and it has one  *)
(* entry for every commit done.                                            *)
FeedIsTrue ==
    Written =>
        LET feed == Feed(lines)
            told == OfCommands(feed)
        IN
        /\ Cardinality(told) = Len(fate)
        /\ \A i \in told : feed[i] = fate[Cardinality({j \in told : j <= i})]
        /\ Cardinality({i \in DOMAIN feed : feed[i].kind = "commit"}) = commits

(* What a listing says of a journal is what the file said at one moment    *)
(* since it looked at it: a summary kept from before is used only while    *)
(* the file has not grown (list_journals).                                 *)
ListingIsFresh ==
    \A t \in Threads : lister[t].at = "answered" /\ exists =>
        \E now \in lister[t].stamp[1]..Len(lines) :
            lister[t].entry = Summary(SubSeq(lines, 1, now))

(* A reader that asks for the line after the last it got reaches the end   *)
(* of any export, however long a line is, and os_journal without a range   *)
(* shows the end of it; a page of more than one line fits.                 *)
PagesReachTheEnd ==
    LET sizes == [i \in DOMAIN lines |-> IF lines[i].kind = "result" THEN MaxJournal ELSE 1]
        total == Len(sizes)
        Fits(p) == p.first < p.last => Chars(sizes, p.first, p.last) <= MaxJournal
    IN
    /\ \A first \in 1..total :
        LET p == JournalPage(sizes, first, 0) IN p.first = first /\ p.last \in first..total /\ Fits(p)
    /\ LET p == JournalPage(sizes, 0, 0) IN total > 0 => p.first \in 1..total /\ p.last = total /\ Fits(p)

(* "A commit that failed wrote nothing" (session_meta): the Markdown       *)
(* transcript has a "Transaction commit" for every commit that was made.   *)
TranscriptShowsCommits ==
    Written => CountOf(Blocks(lines), LAMBDA b : b.is = "commit") = commits

(* "The rest of the file is still the record" (iter_records): what was     *)
(* written after a line that was cut in half is read.                      *)
RestOfFileIsRead == exists => Len(Records(lines)) = returned
=============================================================================
