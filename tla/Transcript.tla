----------------------------- MODULE Transcript -----------------------------
(***************************************************************************)
(* What is read out of a session's journal (odoo_sheller/journal.py): the  *)
(* summary of the list, the feed of the history, the Markdown export; and  *)
(* the pages os_journal hands out of an export (odoo_sheller/mcp.py).      *)
(*                                                                         *)
(* A record is its kind, the id of the request it is about (0 for none)    *)
(* and whether it carries no error.  A line that is not a record is Torn.  *)
(***************************************************************************)
EXTENDS Naturals, Sequences, SequencesExt, FiniteSetsExt

CONSTANT MaxJournal \* MAX_JOURNAL, the characters of one page

ASSUME TranscriptAssumption == MaxJournal \in Nat \ {0}

Commands == {"exec", "run_test"}
Boundaries == {"commit", "rollback"}
Kinds == Commands \cup Boundaries \cup
         {"session_open", "result", "abandoned_result", "timeout", "owner_changed",
          "policy_changed", "interrupt", "stderr", "session_close", "session_died"}

Torn == [kind |-> "torn", id |-> 0, ok |-> FALSE]

Rec(kind, id, ok) == [kind |-> kind, id |-> id, ok |-> ok]

(* iter_records: a broken line is passed over.                             *)
Records(lines) == SelectSeq(lines, LAMBDA line : line # Torn)

CountOf(lines, Is(_)) == Len(SelectSeq(lines, Is))

-----------------------------------------------------------------------------
(* session_meta, and _summarise over it.                                   *)

CommitsDone(records) ==
    \E i \in DOMAIN records : records[i].kind = "commit" /\ records[i].ok

EndKinds == {"session_close", "session_died"}

EndedAs(records) ==
    LET ends == SelectSeq(records, LAMBDA r : r.kind \in EndKinds)
    IN  IF ends = <<>> THEN "no" ELSE Last(ends).kind

Summary(lines) ==
    LET records == Records(lines) IN
    [lines |-> Len(records),
     commands |-> CountOf(records, LAMBDA r : r.kind \in Commands),
     committed |-> CommitsDone(records),
     ended |-> EndedAs(records)]

NoSummary == [lines |-> 0, commands |-> 0, committed |-> FALSE, ended |-> "no"]

-----------------------------------------------------------------------------
(* feed_from_records.  A result and a timeout find their command by its    *)
(* id; a request without a command (a commit) is in nobody's entry.        *)

OfCommands(entries) == {i \in DOMAIN entries : entries[i].kind \in Commands}

EntryOf(entries, id) ==
    Max({0} \cup {i \in OfCommands(entries) : entries[i].id = id})

Entry(kind, id, n, status) ==
    [kind |-> kind, id |-> id, n |-> n, status |-> status,
     abandoned |-> FALSE, timedOut |-> FALSE]

(* Bug: a timeout is the last word, whenever its record was read.          *)
TimedOutForGood(entry) == [entry EXCEPT !.timedOut = TRUE, !.status = "error"]

TimedOut(entry) ==
    [entry EXCEPT !.timedOut = TRUE, !.status = IF @ = "running" THEN "error" ELSE @]

FeedStep(entries, r) ==
    LET i == EntryOf(entries, r.id)
        n == 1 + Cardinality(OfCommands(entries))
    IN
    IF r.kind \in Commands
    THEN Append(entries, Entry(r.kind, r.id, n, "running"))
    ELSE IF r.kind \in {"result", "abandoned_result"} /\ i # 0
    THEN [entries EXCEPT ![i].status = IF r.ok THEN "done" ELSE "error",
                         ![i].abandoned = @ \/ r.kind = "abandoned_result"]
    ELSE IF r.kind = "timeout" /\ i # 0
    THEN [entries EXCEPT ![i] = TimedOut(@)]
    ELSE IF (r.kind \in Boundaries /\ r.ok) \/ r.kind \in {"owner_changed", "policy_changed"}
    THEN Append(entries, Entry(r.kind, 0, 0, "done"))
    ELSE entries

(* Line after line; a broken one is of no kind, and says nothing.          *)
Feed(lines) ==
    LET feed[n \in 0..Len(lines)] ==
            IF n = 0 THEN <<>> ELSE FeedStep(feed[n - 1], lines[n])
    IN  feed[Len(lines)]

-----------------------------------------------------------------------------
(* to_markdown, by the blocks it writes and the command each names.  A run *)
(* of log lines is one block, where it happened.                           *)

Ordinal(blocks, id) ==
    LET named == {i \in DOMAIN blocks : blocks[i].is \in Commands /\ blocks[i].id = id}
    IN  IF named = {} THEN id ELSE blocks[Max(named)].n

Block(is, id, n) == [is |-> is, id |-> id, n |-> n]

BlockStep(blocks, r) ==
    IF r.kind = "session_open" \/ (r.kind = "stderr" /\ blocks # <<>> /\ Last(blocks).is = "stderr")
    THEN blocks
    ELSE IF r.kind \in Commands
    THEN Append(blocks, Block(r.kind, r.id, 1 + CountOf(blocks, LAMBDA b : b.is \in Commands)))
    ELSE IF r.kind = "abandoned_result"
    THEN blocks \o <<Block("late", r.id, Ordinal(blocks, r.id)), Block("result", r.id, 0)>>
    ELSE IF r.kind = "timeout"
    THEN Append(blocks, Block("timeout", r.id, Ordinal(blocks, r.id)))
    ELSE Append(blocks, Block(r.kind, r.id, 0))

Blocks(lines) == FoldLeft(BlockStep, <<>>, Records(lines))

-----------------------------------------------------------------------------
(* _journal_page over the lengths of the lines of an export.  First and    *)
(* last are 0 where the call leaves them out.                              *)

Chars(sizes, from, to) == MapThenSumSet(LAMBDA i : sizes[i] + 1, from..to)

(* The end of the text: as many lines as fit, and one at least.            *)
TailPage(sizes) ==
    LET total == Len(sizes)
        start == Min({n \in 0..total : Chars(sizes, n + 1, total) <= MaxJournal})
    IN  [first |-> Min({start + 1, Max({total, 1})}), last |-> total]

(* Bug: a line longer than a page stops the reader.                        *)
StopThatFits(sizes, start, wanted) ==
    Max({start} \cup {n \in start..wanted : Chars(sizes, start + 1, n) <= MaxJournal})

Stop(sizes, start, wanted) ==
    Max({start} \cup {n \in start..wanted : n = start + 1 \/ Chars(sizes, start + 1, n) <= MaxJournal})

RangePage(sizes, first, last) ==
    LET start == IF first = 0 THEN 0 ELSE first - 1
        wanted == IF last = 0 THEN Len(sizes) ELSE Min({last, Len(sizes)})
    IN  [first |-> start + 1, last |-> Stop(sizes, start, wanted)]

JournalPage(sizes, first, last) ==
    IF first = 0 /\ last = 0 THEN TailPage(sizes) ELSE RangePage(sizes, first, last)
=============================================================================
