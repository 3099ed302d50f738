---------------------------- MODULE JournalProofs ---------------------------
(***************************************************************************)
(* What is read back from a journal, for any session: the listings, the    *)
(* pages of an export and the history, ListingIsFresh, PagesReachTheEnd    *)
(* and FeedIsTrue of JournalFile.                                          *)
(*                                                                         *)
(* The first is about a summary only as a whole: whatever a summary is of  *)
(* the lines it read, what the cache keeps is of a file at least as long   *)
(* as its stamp says, and while there is a file it only grows.             *)
(*                                                                         *)
(* The history is a fold over the records.  FeedGoesOn says what one       *)
(* record more makes of it; FeedInv, with the requests under way and the   *)
(* answers they are owed, is what each record finds it to be.              *)
(***************************************************************************)
EXTENDS JournalFile, WellFoundedInduction, FiniteSetTheorems, TLAPS

(* The types the argument needs.                                           *)
LineKinds == Kinds \cup {"none", "torn"}
Lines == [kind : LineKinds, id : Nat, ok : BOOLEAN]

FileTypes ==
    /\ lines \in Seq(Lines)
    /\ exists \in BOOLEAN
    /\ writing \in Seq(Lines)
    /\ request \in [kind : LineKinds, id : Nat]
    /\ owed \subseteq Nat

ListerTypes ==
    /\ DOMAIN lister = Threads
    /\ \A t \in Threads : DOMAIN lister[t] = {"at", "stamp", "entry"}

(* A summary of the file as it stood once it had size lines.               *)
SaidSince(entry, size) ==
    \E now \in size..Len(lines) : entry = Summary(SubSeq(lines, 1, now))

(* A listing goes by what it saw of the file, and so does the cache.       *)
ListersAreFresh ==
    \A t \in Threads : exists =>
        /\ lister[t].at \in {"stamped", "reading"} => lister[t].stamp[1] \in 0..Len(lines)
        /\ lister[t].at \in {"read", "answered"} =>
               /\ lister[t].stamp[1] \in 0..Len(lines)
               /\ SaidSince(lister[t].entry, lister[t].stamp[1])

CacheIsFresh ==
    exists /\ cache # NoCache =>
        /\ cache.stamp[1] \in 0..Len(lines)
        /\ SaidSince(cache.entry, cache.stamp[1])

ListInv == FileTypes /\ ListerTypes /\ ListersAreFresh /\ CacheIsFresh

-----------------------------------------------------------------------------
(* The file.  While it is there it only grows.                             *)
FileGrows ==
    exists' =>
        /\ exists
        /\ Len(lines) <= Len(lines')
        /\ \A m \in 0..Len(lines) : SubSeq(lines', 1, m) = SubSeq(lines, 1, m)

LEMMA FileStands == UNCHANGED <<lines, exists>> => FileGrows
  <1> SUFFICES ASSUME UNCHANGED <<lines, exists>> PROVE FileGrows
    OBVIOUS
  <1> QED
    BY DEF FileGrows

(* What was said of the file since it had a size still is, of more lines.  *)
LEMMA SaidStays ==
    ASSUME lines \in Seq(Lines), lines' \in Seq(Lines), FileGrows, exists', NEW entry,
           NEW size \in 0..Len(lines), SaidSince(entry, size)
    PROVE  /\ size \in 0..Len(lines')
           /\ \E now \in size..Len(lines') : entry = Summary(SubSeq(lines', 1, now))
  <1>1. PICK now \in size..Len(lines) : entry = Summary(SubSeq(lines, 1, now))
    BY DEF SaidSince
  <1>2. Len(lines) \in Nat /\ Len(lines') \in Nat /\ Len(lines) <= Len(lines')
    BY DEF FileGrows
  <1>3. SubSeq(lines', 1, now) = SubSeq(lines, 1, now)
    BY <1>2 DEF FileGrows
  <1>4. now \in size..Len(lines') /\ size \in 0..Len(lines')
    BY <1>2
  <1>5. entry = Summary(SubSeq(lines', 1, now))
    BY <1>1, <1>3
  <1> QED
    BY <1>4, <1>5

LEMMA RecordIsALine ==
    ASSUME NEW kind \in LineKinds, NEW id \in Nat, NEW ok \in BOOLEAN
    PROVE  Rec(kind, id, ok) \in Lines /\ <<Rec(kind, id, ok)>> \in Seq(Lines)
  BY DEF Rec, Lines

(* A step of the session leaves the file alone.                            *)
LEMMA SessionWrites ==
    ASSUME FileTypes, SessionStep
    PROVE  FileTypes' /\ UNCHANGED <<lines, exists, cache, lister, plan>>
  <1> USE DEF FileTypes, Appends, fileVars, listVars
  <1>1. Commands \cup Boundaries \cup {"result", "timeout", "abandoned_result"} \subseteq LineKinds
        /\ Noted \cup {"session_close", "session_died"} \subseteq LineKinds /\ Asked \subseteq LineKinds
    BY JournalAssumption DEF Kinds, LineKinds, Commands, Boundaries
  <1>2. ASSUME NEW kind \in Asked, Starts(kind) PROVE FileTypes' /\ UNCHANGED <<lines, exists, cache, lister, plan>>
    <2>1. request.id + 1 \in Nat /\ kind \in LineKinds
      BY <1>1
    <2>2. writing' \in Seq(Lines)
      BY <1>2, <2>1, RecordIsALine DEF Starts
    <2> QED
      BY <1>2, <2>1, <2>2 DEF Starts
  <1>3. ASSUME NEW ok \in BOOLEAN, Answers(ok) PROVE FileTypes' /\ UNCHANGED <<lines, exists, cache, lister, plan>>
    <2>1. (IF request.kind \in Commands THEN "result" ELSE request.kind) \in LineKinds /\ request.id \in Nat
      BY <1>1
    <2>2. writing' \in Seq(Lines)
      BY <1>3, <2>1, RecordIsALine DEF Answers
    <2> QED
      BY <1>3, <2>2 DEF Answers
  <1>4. ASSUME NEW ok \in BOOLEAN, Settles(ok) PROVE FileTypes' /\ UNCHANGED <<lines, exists, cache, lister, plan>>
    <2> DEFINE late == Rec("abandoned_result", request.id, ok)
               done == Rec(request.kind, request.id, ok)
    <2>1. late \in Lines /\ done \in Lines
      BY <1>1, RecordIsALine
    <2>2. writing' = <<late>> \/ writing' = <<late, done>>
      BY <1>4 DEF Settles
    <2> HIDE DEF late, done
    <2>3. <<late>> \in Seq(Lines) /\ <<late, done>> \in Seq(Lines)
      BY <2>1
    <2>4. writing' \in Seq(Lines)
      BY <2>2, <2>3
    <2> QED
      BY <1>4, <2>4 DEF Settles
  <1>5. CASE Overruns
    BY <1>5 DEF Overruns
  <1>6. ASSUME NEW id \in owed, Interrupted(id) PROVE FileTypes' /\ UNCHANGED <<lines, exists, cache, lister, plan>>
    <2>1. writing' \in Seq(Lines)
      BY <1>1, <1>6, RecordIsALine DEF Interrupted
    <2> QED
      BY <1>6, <2>1 DEF Interrupted
  <1>7. ASSUME NEW kind \in LineKinds, Notes(kind) \/ Ends(kind)
        PROVE  FileTypes' /\ UNCHANGED <<lines, exists, cache, lister, plan>>
    <2>1. writing' \in Seq(Lines)
      BY <1>7, RecordIsALine DEF Notes, Ends
    <2> QED
      BY <1>7, <2>1 DEF Notes, Ends
  <1> QED
    BY <1>1, <1>2, <1>3, <1>4, <1>5, <1>6, <1>7 DEF SessionStep

(* A write adds a line to the end, whatever it is.                         *)
LEMMA WritesAdd ==
    ASSUME FileTypes, Writes
    PROVE  FileTypes' /\ FileGrows /\ UNCHANGED <<cache, lister, plan>>
  <1>1. PICK line \in Lines : lines' = Append(lines, line)
    <2>1. Torn \in Lines
      BY DEF Torn, Lines, LineKinds
    <2>2. Head(writing) \in Lines
      BY DEF Writes, FileTypes
    <2> QED
      BY <2>1, <2>2 DEF Writes
  <1>2. writing' \in Seq(Lines)
    BY DEF Writes, FileTypes
  <1>3. lines' \in Seq(Lines) /\ Len(lines) <= Len(lines')
    BY <1>1 DEF FileTypes
  <1>4. \A m \in 0..Len(lines) : SubSeq(lines', 1, m) = SubSeq(lines, 1, m)
    BY <1>1 DEF FileTypes
  <1>5. UNCHANGED <<exists, request, owed, cache, lister, plan>>
    BY DEF Writes, listVars
  <1> QED
    BY <1>2, <1>3, <1>4, <1>5 DEF FileTypes, FileGrows

(* Every step: the types of the file, and that it grows.                   *)
LEMMA FileMoves ==
    ASSUME FileTypes, [Next]_vars
    PROVE  FileTypes' /\ FileGrows /\ plan' = plan
  <1>1. CASE SessionStep
    BY <1>1, SessionWrites, FileStands
  <1>2. CASE Writes
    BY <1>2, WritesAdd
  <1>3. CASE WritesSome \/ WriteFails \/ DaemonRestarts
    <2>1. UNCHANGED <<lines, exists, request, plan>> /\ writing' \in {writing, <<>>} /\ owed' \in {owed, {}}
      BY <1>3 DEF WritesSome, WriteFails, DaemonRestarts, writerVars
    <2>2. <<>> \in Seq(Lines)
      OBVIOUS
    <2> QED
      BY <2>1, <2>2, FileStands DEF FileTypes
  <1>4. CASE Deletes
    <2>1. lines' = <<>> /\ exists' = FALSE /\ UNCHANGED <<writing, request, owed, plan>>
      BY <1>4 DEF Deletes, writerVars
    <2>2. <<>> \in Seq(Lines)
      OBVIOUS
    <2> QED
      BY <2>1, <2>2 DEF FileTypes, FileGrows
  <1>5. ASSUME NEW t \in Threads, Listing(t) PROVE FileTypes' /\ FileGrows /\ plan' = plan
    <2>1. UNCHANGED <<lines, exists, writing, request, owed, plan>>
      BY <1>5 DEF Listing, Lists, Looks, Reads, Stores, IsAnswered, fileVars, writerVars
    <2> QED
      BY <2>1, FileStands DEF FileTypes
  <1>6. CASE UNCHANGED vars
    BY <1>6, FileStands DEF vars, fileVars, writerVars, FileTypes
  <1> QED
    BY <1>1, <1>2, <1>3, <1>4, <1>5, <1>6 DEF Next

-----------------------------------------------------------------------------
(* The listings.  A step that is no listing's leaves them and the cache as *)
(* they were, or forgets both, or forgets the cache with the file.         *)
LEMMA OthersList ==
    ASSUME FileTypes, SessionStep \/ WritesSome \/ Writes \/ WriteFails \/ DaemonRestarts \/ Deletes
           \/ UNCHANGED vars
    PROVE  \/ UNCHANGED <<cache, lister>>
           \/ cache' = NoCache /\ lister' = [t \in Threads |-> NoListing]
           \/ cache' = NoCache /\ lister' = lister /\ ~exists'
  <1>1. CASE SessionStep
    BY <1>1, SessionWrites
  <1>2. CASE Writes \/ WritesSome \/ WriteFails \/ UNCHANGED vars
    BY <1>2 DEF Writes, WritesSome, WriteFails, vars, listVars
  <1>3. CASE DaemonRestarts
    BY <1>3 DEF DaemonRestarts
  <1>4. CASE Deletes
    BY <1>4 DEF Deletes
  <1> QED
    BY <1>1, <1>2, <1>3, <1>4

(* Listings that stand stay fresh while the file grows.                    *)
LEMMA ListersStay ==
    ASSUME ListInv, FileTypes', FileGrows, plan' = plan, NEW t \in Threads, lister'[t] = lister[t],
           exists'
    PROVE  /\ lister'[t].at \in {"stamped", "reading"} => lister'[t].stamp[1] \in 0..Len(lines')
           /\ lister'[t].at \in {"read", "answered"} =>
                  /\ lister'[t].stamp[1] \in 0..Len(lines')
                  /\ \E now \in lister'[t].stamp[1]..Len(lines') :
                         lister'[t].entry = Summary(SubSeq(lines', 1, now))
  <1>1. exists /\ Len(lines) <= Len(lines') /\ Len(lines) \in Nat /\ Len(lines') \in Nat
    BY DEF FileGrows, ListInv, FileTypes
  <1>2. CASE lister[t].at \in {"stamped", "reading"}
    <2>1. lister[t].stamp[1] \in 0..Len(lines)
      BY <1>1, <1>2 DEF ListInv, ListersAreFresh
    <2> QED
      BY <1>1, <1>2, <2>1
  <1>3. CASE lister[t].at \in {"read", "answered"}
    <2>1. lister[t].stamp[1] \in 0..Len(lines) /\ SaidSince(lister[t].entry, lister[t].stamp[1])
      BY <1>1, <1>3 DEF ListInv, ListersAreFresh
    <2>2. lines \in Seq(Lines) /\ lines' \in Seq(Lines)
      BY DEF ListInv, FileTypes
    <2> QED
      BY <1>3, <2>1, <2>2, SaidStays
  <1> QED
    BY <1>2, <1>3

LEMMA CacheStays ==
    ASSUME ListInv, FileTypes', FileGrows, cache' = cache
    PROVE  CacheIsFresh'
  <1> SUFFICES ASSUME exists', cache # NoCache
               PROVE  /\ cache.stamp[1] \in 0..Len(lines')
                      /\ \E now \in cache.stamp[1]..Len(lines') :
                             cache.entry = Summary(SubSeq(lines', 1, now))
    BY DEF CacheIsFresh, SaidSince
  <1>1. cache.stamp[1] \in 0..Len(lines) /\ SaidSince(cache.entry, cache.stamp[1])
    BY DEF ListInv, CacheIsFresh, FileGrows
  <1>2. lines \in Seq(Lines) /\ lines' \in Seq(Lines)
    BY DEF ListInv, FileTypes
  <1> QED
    BY <1>1, <1>2, SaidStays

(* One thread's step.                                                      *)
LEMMA ListingKeeps ==
    ASSUME ListInv, FileTypes', FileGrows, plan' = plan, NEW t \in Threads, Listing(t)
    PROVE  ListInv'
  <1>1. /\ UNCHANGED <<lines, half, exists>> /\ Len(lines) \in Nat /\ lines \in Seq(Lines)
        /\ Threads' = Threads
    BY DEF Listing, Lists, Looks, Reads, Stores, IsAnswered, fileVars, ListInv, FileTypes, Threads
  <1>2. /\ DOMAIN lister = Threads /\ \A u \in Threads : DOMAIN lister[u] = {"at", "stamp", "entry"}
    BY DEF ListInv, ListerTypes
  <1>3. /\ DOMAIN lister' = Threads /\ DOMAIN lister'[t] = {"at", "stamp", "entry"}
        /\ \A u \in Threads \ {t} : lister'[u] = lister[u]
    BY <1>2 DEF Listing, Lists, Looks, Reads, Stores, IsAnswered, NoListing
  <1>4. ListerTypes'
    BY <1>1, <1>2, <1>3 DEF ListerTypes
  <1> DEFINE Fresh == /\ lister'[t].at \in {"stamped", "reading"} => lister'[t].stamp[1] \in 0..Len(lines)
                      /\ lister'[t].at \in {"read", "answered"} =>
                             /\ lister'[t].stamp[1] \in 0..Len(lines)
                             /\ SaidSince(lister'[t].entry, lister'[t].stamp[1])
             FreshCache == cache' # NoCache => /\ cache'.stamp[1] \in 0..Len(lines)
                                               /\ SaidSince(cache'.entry, cache'.stamp[1])
  <1>5. ASSUME exists PROVE Fresh /\ FreshCache
    <2>1. /\ lister[t].at \in {"stamped", "reading"} => lister[t].stamp[1] \in 0..Len(lines)
          /\ lister[t].at \in {"read", "answered"} =>
                 /\ lister[t].stamp[1] \in 0..Len(lines)
                 /\ SaidSince(lister[t].entry, lister[t].stamp[1])
      BY <1>5 DEF ListInv, ListersAreFresh
    <2>2. cache # NoCache => cache.stamp[1] \in 0..Len(lines) /\ SaidSince(cache.entry, cache.stamp[1])
      BY <1>5 DEF ListInv, CacheIsFresh
    <2>3. CASE Lists(t)
      <3>1. lister' = [lister EXCEPT ![t].at = "stamped", ![t].stamp = Stamp] /\ cache' = cache
        BY <1>5, <2>3 DEF Lists
      <3>2. lister'[t].at = "stamped" /\ lister'[t].stamp[1] = Len(lines)
        BY <1>2, <3>1 DEF Stamp
      <3> QED
        BY <1>1, <2>2, <3>1, <3>2
    <2>4. CASE Looks(t)
      <3>1. lister[t].at = "stamped" /\ cache' = cache
        BY <2>4 DEF Looks
      <3>2. CASE Cached(lister[t].stamp)
        <4>1. lister' = [lister EXCEPT ![t].at = "answered", ![t].entry = cache.entry]
          BY <2>4, <3>2 DEF Looks
        <4>2. /\ lister'[t].at = "answered" /\ lister'[t].entry = cache.entry
              /\ lister'[t].stamp = lister[t].stamp
          BY <1>2, <4>1
        <4> QED
          BY <2>2, <3>1, <3>2, <4>2 DEF Cached
      <3>3. CASE ~Cached(lister[t].stamp)
        <4>1. lister' = [lister EXCEPT ![t].at = "reading"]
          BY <2>4, <3>3 DEF Looks
        <4>2. lister'[t].at = "reading" /\ lister'[t].stamp = lister[t].stamp
          BY <1>2, <4>1
        <4> QED
          BY <2>1, <2>2, <3>1, <4>2
      <3> QED
        BY <3>2, <3>3
    <2>5. CASE Reads(t)
      <3>1. /\ lister[t].at = "reading" /\ cache' = cache
            /\ lister'[t].at = "read" /\ lister'[t].entry = Summary(lines)
            /\ lister'[t].stamp = lister[t].stamp
        BY <1>2, <2>5 DEF Reads
      <3>2. SubSeq(lines, 1, Len(lines)) = lines
        BY <1>1
      <3>3. SaidSince(lister'[t].entry, lister'[t].stamp[1])
        <4>1. lister[t].stamp[1] \in 0..Len(lines)
          BY <2>1, <3>1
        <4>2. Len(lines) \in lister'[t].stamp[1]..Len(lines)
          BY <1>1, <3>1, <4>1
        <4>3. lister'[t].entry = Summary(SubSeq(lines, 1, Len(lines)))
          BY <3>1, <3>2
        <4> QED
          BY <4>2, <4>3 DEF SaidSince
      <3> QED
        BY <2>1, <2>2, <3>1, <3>3
    <2>6. CASE Stores(t)
      <3>1. /\ lister[t].at = "read" /\ lister'[t].at = "answered"
            /\ lister'[t].stamp = lister[t].stamp /\ lister'[t].entry = lister[t].entry
            /\ cache'.stamp = lister[t].stamp /\ cache'.entry = lister[t].entry
        BY <1>2, <2>6 DEF Stores, StampKept
      <3> QED
        BY <2>1, <3>1
    <2>7. CASE IsAnswered(t)
      <3>1. lister'[t].at = "idle" /\ cache' = cache
        BY <1>2, <2>7 DEF IsAnswered, NoListing
      <3> QED
        BY <2>2, <3>1
    <2> QED
      BY <2>3, <2>4, <2>5, <2>6, <2>7 DEF Listing
  <1>6. ListersAreFresh'
    <2> SUFFICES ASSUME NEW u \in Threads, exists'
                 PROVE  /\ lister'[u].at \in {"stamped", "reading"} => lister'[u].stamp[1] \in 0..Len(lines')
                        /\ lister'[u].at \in {"read", "answered"} =>
                               /\ lister'[u].stamp[1] \in 0..Len(lines')
                               /\ \E now \in lister'[u].stamp[1]..Len(lines') :
                                      lister'[u].entry = Summary(SubSeq(lines', 1, now))
      BY <1>1 DEF ListersAreFresh, SaidSince
    <2>1. CASE u = t
      BY <1>1, <1>5, <2>1 DEF SaidSince
    <2>2. CASE u # t
      BY <1>3, <2>2, ListersStay
    <2> QED
      BY <2>1, <2>2
  <1>7. CacheIsFresh'
    BY <1>1, <1>5 DEF CacheIsFresh, SaidSince
  <1> QED
    BY <1>4, <1>6, <1>7 DEF ListInv

LEMMA InitListInv == Init => ListInv
  <1> SUFFICES ASSUME Init PROVE ListInv
    OBVIOUS
  <1>1. FileTypes
    <2>1. "session_open" \in LineKinds /\ "none" \in LineKinds
      BY DEF LineKinds, Kinds
    <2>2. writing \in Seq(Lines)
      BY <2>1, RecordIsALine DEF Init
    <2>3. lines \in Seq(Lines)
      BY DEF Init
    <2> QED
      BY <2>1, <2>2, <2>3 DEF Init, FileTypes, NoRequest
  <1>2. ListerTypes /\ ListersAreFresh /\ CacheIsFresh
    BY DEF Init, ListerTypes, ListersAreFresh, CacheIsFresh, NoListing
  <1> QED
    BY <1>1, <1>2 DEF ListInv

LEMMA NextListInv == ListInv /\ [Next]_vars => ListInv'
  <1> SUFFICES ASSUME ListInv, [Next]_vars PROVE ListInv'
    OBVIOUS
  <1>1. FileTypes' /\ FileGrows /\ plan' = plan /\ Threads' = Threads
    <2>1. FileTypes' /\ FileGrows /\ plan' = plan
      BY FileMoves DEF ListInv
    <2> QED
      BY <2>1 DEF Threads
  <1>2. ASSUME NEW t \in Threads, Listing(t) PROVE ListInv'
    BY <1>1, <1>2, ListingKeeps
  <1>3. CASE UNCHANGED <<cache, lister>>
    <2>1. ListerTypes'
      BY <1>1, <1>3 DEF ListInv, ListerTypes
    <2>2. ListersAreFresh'
      BY <1>1, <1>3, ListersStay DEF ListersAreFresh, SaidSince
    <2> QED
      BY <1>1, <1>3, <2>1, <2>2, CacheStays DEF ListInv
  <1>4. CASE cache' = NoCache /\ lister' = [t \in Threads |-> NoListing]
    BY <1>1, <1>4 DEF ListInv, ListerTypes, ListersAreFresh, CacheIsFresh, NoListing
  <1>5. CASE cache' = NoCache /\ lister' = lister /\ ~exists'
    BY <1>1, <1>5 DEF ListInv, ListerTypes, ListersAreFresh, CacheIsFresh
  <1>6. \/ \E t \in Threads : Listing(t)
        \/ SessionStep \/ WritesSome \/ Writes \/ WriteFails \/ DaemonRestarts \/ Deletes \/ UNCHANGED vars
    BY DEF Next
  <1> QED
    BY <1>2, <1>3, <1>4, <1>5, <1>6, OthersList DEF ListInv

(* Whatever the session writes and however listings meet, a listing says   *)
(* what the file said at one moment since it looked at it: the stamp is    *)
(* taken before the file is read, and the cache keeps both (list_journals).*)
THEOREM ListingsAreFresh == Spec => []ListingIsFresh
  <1>1. ListInv => ListingIsFresh
    BY DEF ListInv, ListersAreFresh, ListingIsFresh, SaidSince
  <1> QED
    BY <1>1, InitListInv, NextListInv, PTL DEF Spec

-----------------------------------------------------------------------------
(* Pages.  A set of numbers has a least, and below a bound a greatest.     *)
LEMMA LeastOf ==
    ASSUME NEW T \in SUBSET Nat, T # {}
    PROVE  \E x \in T : \A y \in T : x <= y
  <1> DEFINE R == OpToRel(<, Nat)
  <1>1. IsWellFoundedOn(R, Nat)
    BY NatLessThanWellFounded
  <1>2. \A a, b \in Nat : a < b => <<a, b>> \in R
    BY DEF OpToRel
  <1> HIDE DEF R
  <1>3. PICK x \in T : \A y \in T : ~(<<y, x>> \in R)
    BY <1>1, WFMin
  <1>4. ASSUME NEW y \in T PROVE x <= y
    <2>1. x \in Nat /\ y \in Nat
      OBVIOUS
    <2>2. ~(y < x)
      BY <1>2, <1>3, <2>1
    <2> QED
      BY <2>1, <2>2
  <1> QED
    BY <1>4

LEMMA MinOf ==
    ASSUME NEW T \in SUBSET Nat, T # {}
    PROVE  Min(T) \in T /\ \A y \in T : Min(T) <= y
  <1>1. \E x \in T : \A y \in T : x =< y
    BY LeastOf
  <1> QED
    BY <1>1 DEF Min

LEMMA MaxOf ==
    ASSUME NEW T \in SUBSET Nat, T # {}, NEW top \in Nat, \A y \in T : y <= top
    PROVE  Max(T) \in T /\ \A y \in T : y <= Max(T)
  <1> DEFINE below == {top - y : y \in T}
  <1>1. below \in SUBSET Nat /\ below # {}
    <2>1. \A y \in T : y \in Nat /\ top - y \in Nat
      OBVIOUS
    <2> QED
      BY <2>1
  <1> HIDE DEF below
  <1>2. PICK d \in below : \A y \in below : d <= y
    BY <1>1, LeastOf
  <1>3. PICK x \in T : d = top - x
    BY <1>2 DEF below
  <1>4. ASSUME NEW y \in T PROVE x >= y
    <2>1. top - y \in below
      BY DEF below
    <2>2. top - x <= top - y
      BY <1>2, <1>3, <2>1
    <2> QED
      BY <2>2
  <1>5. \E m \in T : \A y \in T : m >= y
    BY <1>4
  <1>6. Max(T) \in T /\ \A y \in T : Max(T) >= y
    BY <1>5 DEF Max
  <1> QED
    BY <1>6

(* No lines weigh nothing.                                                 *)
LEMMA NothingWeighs ==
    ASSUME NEW sizes, NEW n \in Nat
    PROVE  Chars(sizes, n + 1, n) = 0
  <1>1. (n + 1)..n = {}
    OBVIOUS
  <1>2. MapThenSumSet(LAMBDA i : sizes[i] + 1, {}) = 0
    BY DEF MapThenSumSet, MapThenFoldSet
  <1> QED
    BY <1>1, <1>2 DEF Chars

(* A page asked for from a line on begins there, has it, and if it has     *)
(* more than that line it fits.                                            *)
LEMMA RangeGoesOn ==
    ASSUME NEW sizes, Len(sizes) \in Nat, NEW first \in 1..Len(sizes)
    PROVE  LET p == JournalPage(sizes, first, 0) IN
           /\ p.first = first
           /\ p.last \in first..Len(sizes)
           /\ p.first < p.last => Chars(sizes, p.first, p.last) <= MaxJournal
  <1> DEFINE start == first - 1
             total == Len(sizes)
             stops == {start} \cup {n \in start..total :
                          n = start + 1 \/ Chars(sizes, start + 1, n) <= MaxJournal}
             p == JournalPage(sizes, first, 0)
  <1>1. first \in Nat /\ first # 0 /\ start \in Nat /\ start + 1 = first
    OBVIOUS
  <1>2. p = [first |-> start + 1, last |-> Max(stops)]
    BY <1>1 DEF JournalPage, RangePage, Stop
  <1>3. stops \in SUBSET Nat /\ first \in stops /\ \A n \in stops : n <= total
    BY <1>1
  <1> HIDE DEF p
  <1>4. Max(stops) \in stops /\ \A n \in stops : n <= Max(stops)
    <2> HIDE DEF stops
    <2> QED
      BY <1>3, MaxOf
  <1>5. p.first = first /\ p.last = Max(stops)
    BY <1>1, <1>2
  <1>6. Max(stops) \in first..total
    <2> HIDE DEF stops
    <2>1. Max(stops) \in Nat /\ first <= Max(stops) /\ Max(stops) <= total
      BY <1>3, <1>4
    <2> QED
      BY <1>1, <2>1
  <1>7. first < Max(stops) => Chars(sizes, first, Max(stops)) <= MaxJournal
    <2> DEFINE m == Max(stops)
    <2> SUFFICES ASSUME first < m PROVE Chars(sizes, first, m) <= MaxJournal
      OBVIOUS
    <2>1. m \in stops /\ m # start /\ m # start + 1
      BY <1>1, <1>4, <1>6
    <2> HIDE DEF m
    <2>2. Chars(sizes, start + 1, m) <= MaxJournal
      BY <2>1
    <2> QED
      BY <1>1, <2>2
  <1> QED
    BY <1>5, <1>6, <1>7 DEF p

(* The page of the end ends there, and if it has more than a line it fits. *)
LEMMA TailIsTheEnd ==
    ASSUME NEW sizes, Len(sizes) \in Nat, Len(sizes) > 0
    PROVE  LET p == JournalPage(sizes, 0, 0) IN
           /\ p.first \in 1..Len(sizes)
           /\ p.last = Len(sizes)
           /\ p.first < p.last => Chars(sizes, p.first, p.last) <= MaxJournal
  <1> DEFINE total == Len(sizes)
             fits == {n \in 0..total : Chars(sizes, n + 1, total) <= MaxJournal}
             start == Min(fits)
             first == Min({start + 1, Max({total, 1})})
             p == JournalPage(sizes, 0, 0)
  <1>1. p = [first |-> first, last |-> total]
    BY DEF JournalPage, TailPage
  <1>2. total \in fits
    BY NothingWeighs, TranscriptAssumption
  <1>3. fits \in SUBSET Nat
    OBVIOUS
  <1>4. start \in fits
    <2> HIDE DEF fits
    <2> QED
      BY <1>2, <1>3, MinOf
  <1>5. start \in 0..total /\ Chars(sizes, start + 1, total) <= MaxJournal
    BY <1>4
  <1> HIDE DEF start, p
  <1>6. Max({total, 1}) = total
    <2>1. {total, 1} \in SUBSET Nat /\ \A y \in {total, 1} : y <= total
      OBVIOUS
    <2>2. Max({total, 1}) \in {total, 1} /\ \A y \in {total, 1} : y <= Max({total, 1})
      BY <2>1, MaxOf
    <2> QED
      BY <2>2
  <1>7. first \in {start + 1, total} /\ first <= start + 1 /\ first <= total
    <2>1. {start + 1, total} \in SUBSET Nat
      BY <1>5
    <2>2. Min({start + 1, total}) \in {start + 1, total}
          /\ \A y \in {start + 1, total} : Min({start + 1, total}) <= y
      BY <2>1, MinOf
    <2> QED
      BY <1>6, <2>2
  <1> HIDE DEF first
  <1>8. first \in 1..total
    BY <1>5, <1>7
  <1>9. first < total => first = start + 1
    BY <1>7
  <1> QED
    BY <1>1, <1>5, <1>8, <1>9 DEF p

(* Asking for the line after the last it got, a reader reaches the end of  *)
(* any export, however long its lines; without a range it is shown the end *)
(* (_journal_page).                                                        *)
THEOREM ReadersReachTheEnd == Spec => []PagesReachTheEnd
  <1>1. ListInv => PagesReachTheEnd
    <2> SUFFICES ASSUME ListInv PROVE PagesReachTheEnd
      OBVIOUS
    <2> DEFINE sizes == [i \in DOMAIN lines |-> IF lines[i].kind = "result" THEN MaxJournal ELSE 1]
    <2>1. Len(lines) \in Nat /\ DOMAIN lines = 1..Len(lines)
      BY DEF ListInv, FileTypes
    <2>2. Len(sizes) = Len(lines)
      BY <2>1, TranscriptAssumption
    <2> HIDE DEF sizes
    <2>3. Len(sizes) \in Nat
      BY <2>1, <2>2
    <2> QED
      BY <2>3, RangeGoesOn, TailIsTheEnd DEF PagesReachTheEnd, sizes
  <1> QED
    BY <1>1, InitListInv, NextListInv, PTL DEF Spec

-----------------------------------------------------------------------------
(* The history rebuilt: Feed, line after line.                             *)
Statuses == {"running", "done", "error"}
CommandEntries ==
    [kind : Commands, id : Nat, n : Nat, status : Statuses, abandoned : BOOLEAN, timedOut : BOOLEAN]
OtherEntries ==
    [kind : Boundaries \cup {"owner_changed", "policy_changed"}, id : Nat, n : Nat,
     status : Statuses, abandoned : BOOLEAN, timedOut : BOOLEAN]

UpTo(entries, i) == {j \in OfCommands(entries) : j <= i}
CommitsIn(entries) == {i \in DOMAIN entries : entries[i].kind = "commit"}

(* Its commands are those asked, in their order, as they ended; and it has *)
(* an entry for every commit made.                                         *)
Tells(entries, told, made) ==
    /\ entries \in Seq(CommandEntries \cup OtherEntries)
    /\ Cardinality(OfCommands(entries)) = Len(told)
    /\ \A i \in OfCommands(entries) : entries[i] = told[Cardinality(UpTo(entries, i))]
    /\ Cardinality(CommitsIn(entries)) = made

(* What became of the commands, by the ids of their requests: the one      *)
(* under way has its answer ahead of it, and one whose timeout is still to *)
(* be booked has none but the late one.                                    *)
FateTypes ==
    /\ fate \in Seq(CommandEntries)
    /\ commits \in Nat
    /\ request.kind \in Commands \cup Boundaries \cup {"none"}
    /\ owed \subseteq 1..request.id

FateIsOfRequests ==
    /\ \A k \in DOMAIN fate : fate[k].id \in 1..request.id
    /\ \A j, k \in DOMAIN fate : fate[j].id = fate[k].id => j = k

UnderWay ==
    phase \in {"running", "overdue"} =>
        /\ request.kind # "none" /\ request.id # 0
        /\ phase = "running" => request.id \notin owed
        /\ \A k \in DOMAIN fate : fate[k].id = request.id =>
               /\ request.kind \in Commands
               /\ ~fate[k].abandoned
               /\ phase = "running" => fate[k].status = "running"

OwedAnswers ==
    \A k \in DOMAIN fate : fate[k].id \in owed =>
        (fate[k].abandoned <=> fate[k].status # "running")

(* The file is whole: nothing was lost on the way to it.                   *)
Sound == exists /\ phase # "killed" /\ half # "left" /\ ~Contains(lines, Torn)

FeedTells == Sound => Tells(Feed(lines \o writing), fate, commits)

FeedInv == FileTypes /\ FateTypes /\ FateIsOfRequests /\ UnderWay /\ OwedAnswers /\ FeedTells

(* The fold unfolded: what the first n lines come to, for every n.         *)
FeedOf(g, s) ==
    g = [n \in 0..Len(s) |-> IF n = 0 THEN <<>> ELSE FeedStep(g[n - 1], s[n])]

(* There is such a function: a length without one would have a least, and  *)
(* the one before it goes on by a step.                                    *)
LEMMA FeedsExist ==
    ASSUME NEW s, Len(s) \in Nat
    PROVE  \E g : FeedOf(g, s)
  <1> DEFINE UpToLine(g, m) ==
                 g = [n \in 0..m |-> IF n = 0 THEN <<>> ELSE FeedStep(g[n - 1], s[n])]
             bad == {m \in 0..Len(s) : \A g : ~UpToLine(g, m)}
  <1>1. bad = {}
    <2> SUFFICES ASSUME bad # {} PROVE FALSE
      OBVIOUS
    <2>1. PICK m \in bad : \A k \in bad : m <= k
      <3>1. bad \in SUBSET Nat
        OBVIOUS
      <3> HIDE DEF bad
      <3> QED
        BY <3>1, LeastOf
    <2>2. CASE m = 0
      <3>1. UpToLine([n \in 0..0 |-> <<>>], 0)
        OBVIOUS
      <3> QED
        BY <2>2, <3>1
    <2>3. CASE m # 0
      <3>1. m - 1 \in 0..Len(s) /\ m - 1 \notin bad /\ m \in Nat
        BY <2>1, <2>3
      <3>2. PICK g : UpToLine(g, m - 1)
        BY <3>1
      <3> DEFINE h == [n \in 0..m |-> IF n < m THEN g[n] ELSE FeedStep(g[m - 1], s[m])]
      <3>3. g[0] = <<>> /\ \A n \in 1..(m - 1) : g[n] = FeedStep(g[n - 1], s[n])
        BY <2>3, <3>1, <3>2
      <3>4. ASSUME NEW n \in 0..m
            PROVE  h[n] = IF n = 0 THEN <<>> ELSE FeedStep(h[n - 1], s[n])
        <4>1. CASE n = 0
          BY <2>3, <3>1, <3>3, <4>1
        <4>2. CASE n # 0
          <5>1. n - 1 \in 0..m /\ n - 1 < m
            BY <3>1, <4>2
          <5>2. h[n - 1] = g[n - 1]
            BY <5>1
          <5>3. h[n] = FeedStep(g[n - 1], s[n])
            BY <3>1, <3>3, <4>2
          <5> QED
            BY <4>2, <5>2, <5>3
        <4> QED
          BY <4>1, <4>2
      <3>5. h = [n \in 0..m |-> h[n]]
        OBVIOUS
      <3> HIDE DEF h
      <3>6. UpToLine(h, m)
        BY <3>4, <3>5
      <3> QED
        BY <3>6
    <2> QED
      BY <2>2, <2>3
  <1>2. Len(s) \in 0..Len(s)
    OBVIOUS
  <1>3. \E g : UpToLine(g, Len(s))
    BY <1>1, <1>2
  <1> QED
    BY <1>3 DEF FeedOf

LEMMA FeedIsItsFold ==
    ASSUME NEW s, Len(s) \in Nat
    PROVE  \E g : FeedOf(g, s) /\ Feed(s) = g[Len(s)]
  <1>1. \E g : FeedOf(g, s)
    BY FeedsExist
  <1>2. FeedOf(CHOOSE g : FeedOf(g, s), s)
    BY <1>1, Zenon
  <1>3. Feed(s) = (CHOOSE g : FeedOf(g, s))[Len(s)]
    BY DEF Feed, FeedOf
  <1> QED
    BY <1>2, <1>3

(* No lines, no history; and one line more is one step more.               *)
LEMMA FeedOfNone == Feed(<<>>) = <<>>
  <1>1. PICK g : FeedOf(g, <<>>) /\ Feed(<<>>) = g[Len(<<>>)]
    BY FeedIsItsFold
  <1>2. Len(<<>>) = 0 /\ 0 \in 0..0
    OBVIOUS
  <1> QED
    BY <1>1, <1>2 DEF FeedOf

LEMMA FeedGoesOn ==
    ASSUME NEW s \in Seq(Lines), NEW r \in Lines
    PROVE  Feed(Append(s, r)) = FeedStep(Feed(s), r)
  <1> DEFINE t == Append(s, r)
             m == Len(s)
  <1>1. /\ m \in Nat /\ Len(t) = m + 1 /\ t[m + 1] = r
        /\ \A n \in 1..m : t[n] = s[n]
    OBVIOUS
  <1> HIDE DEF t, m
  <1>2. PICK g : FeedOf(g, s) /\ Feed(s) = g[m]
    BY <1>1, FeedIsItsFold DEF m
  <1>3. PICK h : FeedOf(h, t) /\ Feed(t) = h[m + 1]
    BY <1>1, FeedIsItsFold
  <1>4. /\ g[0] = <<>> /\ h[0] = <<>>
        /\ \A n \in 1..m : g[n] = FeedStep(g[n - 1], s[n])
        /\ \A n \in 1..(m + 1) : h[n] = FeedStep(h[n - 1], t[n])
    <2>1. g = [n \in 0..m |-> IF n = 0 THEN <<>> ELSE FeedStep(g[n - 1], s[n])]
      BY <1>2 DEF FeedOf, m
    <2>2. h = [n \in 0..(m + 1) |-> IF n = 0 THEN <<>> ELSE FeedStep(h[n - 1], t[n])]
      BY <1>1, <1>3 DEF FeedOf
    <2>3. g[0] = <<>> /\ h[0] = <<>>
      BY <1>1, <2>1, <2>2
    <2>4. ASSUME NEW n \in 1..m PROVE g[n] = FeedStep(g[n - 1], s[n])
      <3>1. n \in 0..m /\ n # 0
        BY <1>1
      <3> QED
        BY <2>1, <3>1
    <2>5. ASSUME NEW n \in 1..(m + 1) PROVE h[n] = FeedStep(h[n - 1], t[n])
      <3>1. n \in 0..(m + 1) /\ n # 0
        BY <1>1
      <3> QED
        BY <2>2, <3>1
    <2> QED
      BY <2>3, <2>4, <2>5
  <1>5. g[m] = h[m]
    <2> DEFINE bad == {n \in 0..m : g[n] # h[n]}
    <2> SUFFICES ASSUME bad # {} PROVE FALSE
      BY <1>1
    <2>1. PICK n \in bad : \A k \in bad : n <= k
      <3>1. bad \in SUBSET Nat
        OBVIOUS
      <3> HIDE DEF bad
      <3> QED
        BY <3>1, LeastOf
    <2>2. n \in 1..m /\ n - 1 \in 0..m /\ n - 1 \notin bad
      BY <1>1, <1>4, <2>1
    <2>3. g[n - 1] = h[n - 1] /\ n \in 1..(m + 1) /\ t[n] = s[n]
      BY <1>1, <2>2
    <2>4. g[n] = h[n]
      BY <1>4, <2>2, <2>3
    <2> QED
      BY <2>1, <2>4
  <1>6. m + 1 \in 1..(m + 1) /\ (m + 1) - 1 = m
    BY <1>1
  <1> QED
    BY <1>1, <1>2, <1>3, <1>4, <1>5, <1>6 DEF t

(* Where the commands are in a history: as many as there are, in order.    *)
Entries == CommandEntries \cup OtherEntries

LEMMA EntriesAreTwoKinds ==
    /\ \A e \in CommandEntries : e.kind \in Commands /\ e.kind # "commit"
    /\ \A e \in OtherEntries : e.kind \notin Commands
  BY DEF CommandEntries, OtherEntries, Commands, Boundaries

LEMMA CommandsInOrder ==
    ASSUME NEW entries \in Seq(Entries)
    PROVE  /\ IsFiniteSet(OfCommands(entries)) /\ Cardinality(OfCommands(entries)) \in Nat
           /\ IsFiniteSet(CommitsIn(entries)) /\ Cardinality(CommitsIn(entries)) \in Nat
           /\ \A i \in OfCommands(entries) :
                  Cardinality(UpTo(entries, i)) \in 1..Cardinality(OfCommands(entries))
           /\ \A i, j \in OfCommands(entries) :
                  i # j => Cardinality(UpTo(entries, i)) # Cardinality(UpTo(entries, j))
  <1> DEFINE told == OfCommands(entries)
             commit == CommitsIn(entries)
  <1>1. DOMAIN entries = 1..Len(entries) /\ Len(entries) \in Nat /\ IsFiniteSet(1..Len(entries))
    <2>1. DOMAIN entries = 1..Len(entries) /\ Len(entries) \in Nat
      OBVIOUS
    <2>2. IsFiniteSet(1..Len(entries))
      BY <2>1, FS_Interval
    <2> QED
      BY <2>1, <2>2
  <1>2. told \in SUBSET (1..Len(entries)) /\ commit \in SUBSET (1..Len(entries))
    BY <1>1 DEF OfCommands, CommitsIn
  <1>3. IsFiniteSet(told) /\ IsFiniteSet(commit)
    BY <1>1, <1>2, FS_Subset
  <1>4. Cardinality(told) \in Nat /\ Cardinality(commit) \in Nat
    BY <1>3, FS_CardinalityType
  <1>5. ASSUME NEW i \in told
        PROVE  /\ UpTo(entries, i) \in SUBSET told /\ i \in UpTo(entries, i)
               /\ IsFiniteSet(UpTo(entries, i))
               /\ Cardinality(UpTo(entries, i)) \in 1..Cardinality(told)
    <2>1. UpTo(entries, i) \in SUBSET told /\ i \in UpTo(entries, i)
      BY <1>1, <1>2 DEF UpTo
    <2>2. IsFiniteSet(UpTo(entries, i)) /\ Cardinality(UpTo(entries, i)) <= Cardinality(told)
      BY <1>3, <2>1, FS_Subset
    <2>3. Cardinality(UpTo(entries, i)) \in Nat /\ Cardinality(UpTo(entries, i)) # 0
      BY <2>1, <2>2, FS_CardinalityType, FS_EmptySet
    <2> QED
      BY <1>4, <2>1, <2>2, <2>3
  <1>6. ASSUME NEW i \in told, NEW j \in told, i < j
        PROVE  Cardinality(UpTo(entries, i)) # Cardinality(UpTo(entries, j))
    <2>1. UpTo(entries, i) \in SUBSET UpTo(entries, j)
      BY <1>2, <1>6 DEF UpTo, OfCommands
    <2>2. j \in UpTo(entries, j) /\ j \notin UpTo(entries, i)
      BY <1>2, <1>6 DEF UpTo
    <2>3. IsFiniteSet(UpTo(entries, j))
      BY <1>5
    <2> QED
      BY <2>1, <2>2, <2>3, FS_Subset
  <1>7. ASSUME NEW i \in told, NEW j \in told, i # j
        PROVE  Cardinality(UpTo(entries, i)) # Cardinality(UpTo(entries, j))
    <2>1. i < j \/ j < i
      BY <1>2, <1>7
    <2> QED
      BY <1>6, <2>1
  <1> QED
    BY <1>3, <1>4, <1>5, <1>7

(* A command is appended to both.                                          *)
LEMMA CommandIsTold ==
    ASSUME NEW entries, NEW told \in Seq(CommandEntries), NEW made, Tells(entries, told, made),
           NEW c \in CommandEntries
    PROVE  Tells(Append(entries, c), Append(told, c), made)
  <1> DEFINE after == Append(entries, c)
             then == Append(told, c)
             m == Len(entries)
  <1>1. entries \in Seq(Entries) /\ m \in Nat /\ Len(told) \in Nat
    BY DEF Tells, Entries
  <1>2. /\ after \in Seq(Entries) /\ DOMAIN after = 1..(m + 1) /\ after[m + 1] = c
        /\ \A i \in 1..m : after[i] = entries[i]
        /\ DOMAIN entries = 1..m
    BY <1>1 DEF Entries
  <1>3. Len(then) = Len(told) + 1 /\ then[Len(told) + 1] = c
        /\ \A k \in 1..Len(told) : then[k] = told[k]
    OBVIOUS
  <1> HIDE DEF after, then, m
  <1>4. c.kind \in Commands /\ c.kind # "commit"
    BY EntriesAreTwoKinds
  <1>5. OfCommands(after) = OfCommands(entries) \cup {m + 1} /\ m + 1 \notin OfCommands(entries)
        /\ \A i \in OfCommands(entries) : i \in 1..m
    BY <1>1, <1>2, <1>4 DEF OfCommands
  <1>6. CommitsIn(after) = CommitsIn(entries)
    BY <1>1, <1>2, <1>4 DEF CommitsIn
  <1>7. Cardinality(OfCommands(after)) = Len(told) + 1
    BY <1>1, <1>5, CommandsInOrder, FS_AddElement DEF Tells
  <1>8. ASSUME NEW i \in OfCommands(entries) PROVE after[i] = then[Cardinality(UpTo(after, i))]
    <2>1. UpTo(after, i) = UpTo(entries, i)
      BY <1>1, <1>5 DEF UpTo
    <2>2. Cardinality(UpTo(entries, i)) \in 1..Len(told)
      BY <1>1, CommandsInOrder DEF Tells
    <2>3. entries[i] = told[Cardinality(UpTo(entries, i))]
      BY DEF Tells
    <2> QED
      BY <1>2, <1>3, <1>5, <2>1, <2>2, <2>3
  <1>9. UpTo(after, m + 1) = OfCommands(after)
    BY <1>1, <1>5 DEF UpTo
  <1> QED
    BY <1>2, <1>3, <1>5, <1>6, <1>7, <1>8, <1>9 DEF Tells, Entries, after, then

(* Something else is appended to the history alone.                        *)
LEMMA OtherIsTold ==
    ASSUME NEW entries, NEW told \in Seq(CommandEntries), NEW made \in Nat,
           Tells(entries, told, made), NEW o \in OtherEntries
    PROVE  Tells(Append(entries, o), told, IF o.kind = "commit" THEN made + 1 ELSE made)
  <1> DEFINE after == Append(entries, o)
             m == Len(entries)
  <1>1. entries \in Seq(Entries) /\ m \in Nat /\ Len(told) \in Nat
    BY DEF Tells, Entries
  <1>2. /\ after \in Seq(Entries) /\ DOMAIN after = 1..(m + 1) /\ after[m + 1] = o
        /\ \A i \in 1..m : after[i] = entries[i]
        /\ DOMAIN entries = 1..m
    BY <1>1 DEF Entries
  <1> HIDE DEF after, m
  <1>3. o.kind \notin Commands
    BY EntriesAreTwoKinds
  <1>4. OfCommands(after) = OfCommands(entries) /\ \A i \in OfCommands(entries) : i \in 1..m
    BY <1>1, <1>2, <1>3 DEF OfCommands
  <1>5. Cardinality(CommitsIn(after)) = IF o.kind = "commit" THEN made + 1 ELSE made
    <2>1. Cardinality(CommitsIn(entries)) = made /\ IsFiniteSet(CommitsIn(entries))
      BY <1>1, CommandsInOrder DEF Tells
    <2>2. CASE o.kind = "commit"
      <3>1. CommitsIn(after) = CommitsIn(entries) \cup {m + 1} /\ m + 1 \notin CommitsIn(entries)
        BY <1>1, <1>2, <2>2 DEF CommitsIn
      <3> QED
        BY <2>1, <2>2, <3>1, FS_AddElement
    <2>3. CASE o.kind # "commit"
      <3>1. CommitsIn(after) = CommitsIn(entries)
        BY <1>1, <1>2, <2>3 DEF CommitsIn
      <3> QED
        BY <2>1, <2>3, <3>1
    <2> QED
      BY <2>2, <2>3
  <1>6. ASSUME NEW i \in OfCommands(after) PROVE after[i] = told[Cardinality(UpTo(after, i))]
    <2>1. UpTo(after, i) = UpTo(entries, i)
      BY <1>4 DEF UpTo
    <2> QED
      BY <1>2, <1>4, <2>1 DEF Tells
  <1> QED
    BY <1>2, <1>4, <1>5, <1>6 DEF Tells, Entries, after

(* The entry of a request is that of the one command with its id.          *)
LEMMA EntryIsFound ==
    ASSUME NEW entries, NEW told \in Seq(CommandEntries), NEW made, Tells(entries, told, made),
           \A j, k \in DOMAIN told : told[j].id = told[k].id => j = k, NEW id
    PROVE  LET at == EntryOf(entries, id) IN
           /\ \A i \in OfCommands(entries) \ {at} : entries[i].id # id
           /\ at # 0 => at \in OfCommands(entries) /\ entries[at].id = id
  <1> DEFINE withId == {i \in OfCommands(entries) : entries[i].id = id}
             at == EntryOf(entries, id)
  <1>1. entries \in Seq(Entries) /\ Len(entries) \in Nat /\ DOMAIN entries = 1..Len(entries)
    BY DEF Tells, Entries
  <1>2. withId \in SUBSET Nat /\ \A i \in withId : i <= Len(entries) /\ i # 0
    BY <1>1 DEF OfCommands
  <1>3. at = Max({0} \cup withId)
    BY DEF EntryOf
  <1> HIDE DEF withId, at
  <1>4. at \in {0} \cup withId /\ \A i \in {0} \cup withId : i <= at
    <2> DEFINE T == {0} \cup withId
    <2>1. T \in SUBSET Nat /\ T # {} /\ \A i \in T : i <= Len(entries)
      BY <1>1, <1>2
    <2> HIDE DEF T
    <2>2. Max(T) \in T /\ \A i \in T : i <= Max(T)
      BY <1>1, <2>1, MaxOf
    <2> QED
      BY <1>3, <2>2 DEF T
  <1>5. ASSUME NEW i \in OfCommands(entries), i # at, entries[i].id = id PROVE FALSE
    <2>1. i \in withId
      BY <1>5 DEF withId
    <2>2. at # 0
      BY <1>2, <1>4, <2>1
    <2>3. at \in OfCommands(entries) /\ entries[at].id = id
      BY <1>4, <2>2 DEF withId
    <2>4. /\ Cardinality(UpTo(entries, i)) \in DOMAIN told
          /\ Cardinality(UpTo(entries, at)) \in DOMAIN told
          /\ Cardinality(UpTo(entries, i)) # Cardinality(UpTo(entries, at))
      BY <1>1, <1>5, <2>3, CommandsInOrder DEF Tells
    <2>5. entries[i] = told[Cardinality(UpTo(entries, i))]
          /\ entries[at] = told[Cardinality(UpTo(entries, at))]
      BY <2>3 DEF Tells
    <2> QED
      BY <1>5, <2>3, <2>4, <2>5
  <1> QED
    BY <1>4, <1>5 DEF withId, at

(* What becomes of one command becomes of its entry.                       *)
LEMMA ChangeIsTold ==
    ASSUME NEW entries, NEW told \in Seq(CommandEntries), NEW made, Tells(entries, told, made),
           \A j, k \in DOMAIN told : told[j].id = told[k].id => j = k,
           NEW id, NEW then \in Seq(CommandEntries), Len(then) = Len(told),
           \A k \in DOMAIN told : told[k].id # id => then[k] = told[k],
           NEW after,
           after = IF EntryOf(entries, id) = 0 THEN entries
                   ELSE [entries EXCEPT ![EntryOf(entries, id)] =
                            then[Cardinality(UpTo(entries, EntryOf(entries, id)))]]
    PROVE  Tells(after, then, made)
  <1> DEFINE at == EntryOf(entries, id)
             Rank(i) == Cardinality(UpTo(entries, i))
  <1>1. entries \in Seq(Entries) /\ Len(entries) \in Nat /\ DOMAIN entries = 1..Len(entries)
    BY DEF Tells, Entries
  <1>2. \A i \in OfCommands(entries) \ {at} : entries[i].id # id
    BY EntryIsFound
  <1>3. at # 0 => at \in OfCommands(entries) /\ entries[at].id = id
    BY EntryIsFound
  <1>4. \A i \in OfCommands(entries) : Rank(i) \in DOMAIN told /\ Rank(i) \in DOMAIN then
    BY <1>1, CommandsInOrder DEF Tells
  <1>5. after = IF at = 0 THEN entries ELSE [entries EXCEPT ![at] = then[Rank(at)]]
    OBVIOUS
  <1> HIDE DEF at
  <1>6. \A i \in OfCommands(entries) \ {at} : entries[i] = then[Rank(i)]
    BY <1>2, <1>4 DEF Tells
  <1>7. at # 0 => then[Rank(at)] \in CommandEntries
    BY <1>3, <1>4
  <1>8. after \in Seq(Entries) /\ DOMAIN after = DOMAIN entries
    <2>1. CASE at = 0
      BY <1>1, <1>5, <2>1
    <2>2. CASE at # 0
      <3> DEFINE c == then[Rank(at)]
      <3>1. at \in 1..Len(entries) /\ c \in Entries
        BY <1>1, <1>3, <1>7, <2>2 DEF OfCommands, Entries
      <3>2. after = [entries EXCEPT ![at] = c]
        BY <1>5, <2>2
      <3> HIDE DEF c
      <3>3. entries \in [1..Len(entries) -> Entries]
        BY <1>1
      <3>4. after \in [1..Len(entries) -> Entries]
        BY <3>1, <3>2, <3>3
      <3> QED
        BY <1>1, <3>4
    <2> QED
      BY <2>1, <2>2
  <1>9. \A i \in DOMAIN entries : after[i] = IF i = at THEN then[Rank(at)] ELSE entries[i]
    BY <1>1, <1>5
  <1>10. /\ OfCommands(after) = OfCommands(entries)
         /\ CommitsIn(after) = CommitsIn(entries)
    <2>1. ASSUME NEW i \in DOMAIN entries
          PROVE  /\ after[i].kind \in Commands <=> entries[i].kind \in Commands
                 /\ after[i].kind = "commit" <=> entries[i].kind = "commit"
      <3>1. CASE i = at
        <4>1. at # 0 /\ entries[at].kind \in Commands /\ after[i] \in CommandEntries
          BY <1>1, <1>3, <1>7, <1>9, <3>1 DEF OfCommands
        <4>2. "commit" \notin Commands
          BY DEF Commands
        <4> QED
          BY <3>1, <4>1, <4>2, EntriesAreTwoKinds
      <3>2. CASE i # at
        BY <1>9, <3>2
      <3> QED
        BY <3>1, <3>2
    <2> QED
      BY <1>8, <2>1 DEF OfCommands, CommitsIn
  <1>11. ASSUME NEW i \in OfCommands(entries)
         PROVE  after[i] = then[Cardinality(UpTo(after, i))]
    <2>1. UpTo(after, i) = UpTo(entries, i)
      BY <1>10 DEF UpTo
    <2>2. i \in DOMAIN entries
      BY DEF OfCommands
    <2> QED
      BY <1>6, <1>9, <2>1, <2>2
  <1> QED
    BY <1>8, <1>10, <1>11 DEF Tells, Entries

-----------------------------------------------------------------------------
(* What each record says: a command, its result, its timeout, the rest.    *)
LEMMA CommandIsRead ==
    ASSUME NEW entries, NEW told \in Seq(CommandEntries), NEW made, Tells(entries, told, made),
           NEW kind \in Commands, NEW id \in Nat
    PROVE  LET c == Entry(kind, id, Len(told) + 1, "running") IN
           c \in CommandEntries /\ Tells(FeedStep(entries, Rec(kind, id, TRUE)), Append(told, c), made)
  <1> DEFINE c == Entry(kind, id, Len(told) + 1, "running")
  <1>1. c \in CommandEntries
    BY DEF Entry, CommandEntries, Statuses
  <1>2. Cardinality(OfCommands(entries)) = Len(told) /\ 1 + Len(told) = Len(told) + 1
    BY DEF Tells
  <1>3. FeedStep(entries, Rec(kind, id, TRUE)) = Append(entries, c)
    BY <1>2 DEF FeedStep, Rec
  <1> HIDE DEF c
  <1> QED
    BY <1>1, <1>3, CommandIsTold DEF c

(* What was told of a command's entry.                                     *)
LEMMA EntryIsOfItsRank ==
    ASSUME NEW entries, NEW told \in Seq(CommandEntries), NEW made, Tells(entries, told, made),
           NEW i \in OfCommands(entries)
    PROVE  /\ Cardinality(UpTo(entries, i)) \in DOMAIN told
           /\ entries[i] = told[Cardinality(UpTo(entries, i))]
           /\ entries[i] \in CommandEntries
  <1>1. entries \in Seq(Entries) /\ Cardinality(OfCommands(entries)) = Len(told)
    BY DEF Tells, Entries
  <1>2. Cardinality(UpTo(entries, i)) \in 1..Len(told)
    BY <1>1, CommandsInOrder
  <1>3. entries[i] = told[Cardinality(UpTo(entries, i))]
    BY DEF Tells
  <1> QED
    BY <1>2, <1>3

LEMMA ResultIsRead ==
    ASSUME NEW entries, NEW told \in Seq(CommandEntries), NEW made, Tells(entries, told, made),
           \A j, k \in DOMAIN told : told[j].id = told[k].id => j = k,
           NEW id, NEW ok \in BOOLEAN, NEW late \in BOOLEAN,
           \A k \in DOMAIN told : told[k].id = id => ~told[k].abandoned,
           NEW then \in Seq(CommandEntries), Len(then) = Len(told),
           \A k \in DOMAIN told :
               then[k] = IF told[k].id = id
                         THEN [told[k] EXCEPT !.status = IF ok THEN "done" ELSE "error",
                                              !.abandoned = late]
                         ELSE told[k]
    PROVE  Tells(FeedStep(entries, Rec(IF late THEN "abandoned_result" ELSE "result", id, ok)),
                 then, made)
  <1> DEFINE kind == IF late THEN "abandoned_result" ELSE "result"
             r == Rec(kind, id, ok)
             at == EntryOf(entries, id)
             rank == Cardinality(UpTo(entries, at))
             status == IF ok THEN "done" ELSE "error"
  <1>1. /\ r.kind = kind /\ r.id = id /\ r.ok = ok
        /\ r.kind \notin Commands /\ r.kind \in {"result", "abandoned_result"} /\ r.kind # "timeout"
        /\ r.kind \notin Boundaries \cup {"owner_changed", "policy_changed"}
        /\ (r.kind = "abandoned_result") = late
    BY DEF Rec, Commands, Boundaries
  <1> HIDE DEF r
  <1>0. \A k \in DOMAIN told : told[k].id # id => then[k] = told[k]
    OBVIOUS
  <1>2. CASE at = 0
    <2>1. FeedStep(entries, r) = entries
      BY <1>1, <1>2 DEF FeedStep
    <2> QED
      BY <1>0, <1>2, <2>1, ChangeIsTold DEF r
  <1>3. CASE at # 0
    <2>1. FeedStep(entries, r) = [entries EXCEPT ![at].status = status, ![at].abandoned = @ \/ late]
      BY <1>1, <1>3 DEF FeedStep
    <2>2. at \in OfCommands(entries) /\ entries[at].id = id
      BY <1>3, EntryIsFound
    <2>3. entries \in Seq(Entries) /\ at \in DOMAIN entries
      BY <2>2 DEF Tells, Entries, OfCommands
    <2>4. rank \in DOMAIN told /\ entries[at] = told[rank] /\ told[rank] \in CommandEntries
      <3>1. \A i \in OfCommands(entries) :
                /\ Cardinality(UpTo(entries, i)) \in DOMAIN told
                /\ entries[i] = told[Cardinality(UpTo(entries, i))]
                /\ entries[i] \in CommandEntries
        BY EntryIsOfItsRank, Zenon
      <3> QED
        BY <2>2, <3>1, Zenon
    <2> HIDE DEF at, rank
    <2>5. told[rank].id = id /\ told[rank].abandoned = FALSE /\ told[rank] \in CommandEntries
      <3>1. told[rank].abandoned \in BOOLEAN
        BY <2>4 DEF CommandEntries
      <3> QED
        BY <2>2, <2>4, <3>1
    <2>6. then[rank] = [told[rank] EXCEPT !.status = status, !.abandoned = late]
      BY <2>4, <2>5
    <2>7. [entries[at] EXCEPT !.status = status, !.abandoned = @ \/ late] = then[rank]
      <3>1. (entries[at].abandoned \/ late) = late
        BY <2>4, <2>5
      <3> QED
        BY <2>4, <2>5, <2>6, <3>1 DEF CommandEntries
    <2>8. FeedStep(entries, r) = [entries EXCEPT ![at] = then[rank]]
      <3> HIDE DEF status
      <3>1. FeedStep(entries, r) = [entries EXCEPT ![at] = [entries[at] EXCEPT !.status = status, !.abandoned = @ \/ late]]
        BY <2>1, <2>3
      <3> QED
        BY <2>7, <3>1
    <2> DEFINE after == FeedStep(entries, r)
    <2>9. after = IF EntryOf(entries, id) = 0 THEN entries
                  ELSE [entries EXCEPT ![EntryOf(entries, id)] =
                            then[Cardinality(UpTo(entries, EntryOf(entries, id)))]]
      BY <1>3, <2>8 DEF at, rank
    <2> HIDE DEF after
    <2>10. Tells(after, then, made)
      BY <1>0, <2>9, ChangeIsTold
    <2> QED
      BY <2>10 DEF after, r
  <1> QED
    BY <1>2, <1>3

LEMMA TimeoutIsRead ==
    ASSUME NEW entries, NEW told \in Seq(CommandEntries), NEW made, Tells(entries, told, made),
           \A j, k \in DOMAIN told : told[j].id = told[k].id => j = k,
           NEW id,
           \A k \in DOMAIN told :
               told[k].id = id => (told[k].abandoned <=> told[k].status # "running"),
           NEW then \in Seq(CommandEntries), Len(then) = Len(told),
           \A k \in DOMAIN told :
               then[k] = IF told[k].id = id
                         THEN [told[k] EXCEPT !.timedOut = TRUE,
                                              !.status = IF told[k].abandoned THEN @ ELSE "error"]
                         ELSE told[k]
    PROVE  Tells(FeedStep(entries, Rec("timeout", id, TRUE)), then, made)
  <1> DEFINE r == Rec("timeout", id, TRUE)
             at == EntryOf(entries, id)
             rank == Cardinality(UpTo(entries, at))
  <1>1. /\ r.kind = "timeout" /\ r.id = id
        /\ r.kind \notin Commands /\ r.kind \notin {"result", "abandoned_result"}
        /\ r.kind \notin Boundaries \cup {"owner_changed", "policy_changed"}
    BY DEF Rec, Commands, Boundaries
  <1> HIDE DEF r
  <1>0. \A k \in DOMAIN told : told[k].id # id => then[k] = told[k]
    OBVIOUS
  <1>2. CASE at = 0
    <2>1. FeedStep(entries, r) = entries
      BY <1>1, <1>2 DEF FeedStep
    <2> QED
      BY <1>0, <1>2, <2>1, ChangeIsTold DEF r
  <1>3. CASE at # 0
    <2>1. FeedStep(entries, r) = [entries EXCEPT ![at] = TimedOut(@)]
      BY <1>1, <1>3 DEF FeedStep
    <2>2. at \in OfCommands(entries) /\ entries[at].id = id
      BY <1>3, EntryIsFound
    <2>3. entries \in Seq(Entries) /\ at \in DOMAIN entries
      BY <2>2 DEF Tells, Entries, OfCommands
    <2>4. rank \in DOMAIN told /\ entries[at] = told[rank] /\ told[rank] \in CommandEntries
      <3>1. \A i \in OfCommands(entries) :
                /\ Cardinality(UpTo(entries, i)) \in DOMAIN told
                /\ entries[i] = told[Cardinality(UpTo(entries, i))]
                /\ entries[i] \in CommandEntries
        BY EntryIsOfItsRank, Zenon
      <3> QED
        BY <2>2, <3>1, Zenon
    <2> HIDE DEF at, rank
    <2>5. /\ told[rank].id = id /\ told[rank] \in CommandEntries
          /\ told[rank].abandoned <=> told[rank].status # "running"
      BY <2>2, <2>4
    <2>6. TimedOut(told[rank]) = then[rank]
      <3>1. then[rank] = [told[rank] EXCEPT !.timedOut = TRUE,
                             !.status = IF told[rank].abandoned THEN @ ELSE "error"]
        BY <2>4, <2>5
      <3>2. CASE told[rank].abandoned
        BY <2>5, <3>1, <3>2 DEF TimedOut, CommandEntries
      <3>3. CASE ~told[rank].abandoned
        BY <2>5, <3>1, <3>3 DEF TimedOut, CommandEntries
      <3> QED
        BY <3>2, <3>3
    <2>7. FeedStep(entries, r) = [entries EXCEPT ![at] = then[rank]]
      BY <2>1, <2>3, <2>4, <2>6
    <2> DEFINE after == FeedStep(entries, r)
    <2>9. after = IF EntryOf(entries, id) = 0 THEN entries
                  ELSE [entries EXCEPT ![EntryOf(entries, id)] =
                            then[Cardinality(UpTo(entries, EntryOf(entries, id)))]]
      BY <1>3, <2>7 DEF at, rank
    <2> HIDE DEF after
    <2>10. Tells(after, then, made)
      BY <1>0, <2>9, ChangeIsTold
    <2> QED
      BY <2>10 DEF after, r
  <1> QED
    BY <1>2, <1>3

LEMMA RestIsRead ==
    ASSUME NEW entries, NEW told \in Seq(CommandEntries), NEW made \in Nat,
           Tells(entries, told, made),
           NEW kind, kind \notin Commands \cup {"result", "abandoned_result", "timeout"},
           NEW id, NEW ok \in BOOLEAN
    PROVE  Tells(FeedStep(entries, Rec(kind, id, ok)), told,
                 IF kind = "commit" /\ ok THEN made + 1 ELSE made)
  <1> DEFINE r == Rec(kind, id, ok)
             o == Entry(kind, 0, 0, "done")
             shown == (kind \in Boundaries /\ ok) \/ kind \in {"owner_changed", "policy_changed"}
  <1>1. r.kind = kind /\ r.ok = ok
    BY DEF Rec
  <1>2. FeedStep(entries, r) = IF shown THEN Append(entries, o) ELSE entries
    BY <1>1 DEF FeedStep
  <1>3. CASE shown
    <2>1. o \in OtherEntries /\ o.kind = kind
      BY <1>3 DEF Entry, OtherEntries, Statuses
    <2>2. kind = "commit" => ok
      BY <1>3
    <2> HIDE DEF o, r
    <2>3. Tells(Append(entries, o), told, IF o.kind = "commit" THEN made + 1 ELSE made)
      BY <2>1, OtherIsTold
    <2>4. (o.kind = "commit") <=> (kind = "commit" /\ ok)
      BY <2>1, <2>2
    <2> QED
      BY <1>2, <1>3, <2>3, <2>4 DEF r
  <1>4. CASE ~shown
    <2>1. ~(kind = "commit" /\ ok)
      BY <1>4 DEF Boundaries
    <2> QED
      BY <1>2, <1>4, <2>1
  <1> QED
    BY <1>3, <1>4

-----------------------------------------------------------------------------
(* The session's steps: what became of the commands, and what is about to  *)
(* be written of it.                                                       *)
FateInv == FateTypes /\ FateIsOfRequests /\ UnderWay /\ OwedAnswers

LEMMA SameLength ==
    ASSUME NEW S, NEW s \in Seq(S), NEW t, t = [i \in DOMAIN s |-> t[i]],
           \A i \in DOMAIN s : t[i] \in S
    PROVE  t \in Seq(S) /\ Len(t) = Len(s) /\ DOMAIN t = DOMAIN s
  <1>1. DOMAIN s = 1..Len(s) /\ Len(s) \in Nat
    OBVIOUS
  <1>2. t \in [1..Len(s) -> S]
    BY <1>1
  <1> QED
    BY <1>1, <1>2

LEMMA SilentTells ==
    ASSUME FileTypes, FeedTells, Sound, Silent
    PROVE  Tells(Feed(lines), fate, commits)
  <1>1. lines \o writing = lines
    BY DEF FileTypes, Silent
  <1> QED
    BY <1>1 DEF FeedTells

LEMMA OneIsSaid ==
    ASSUME FileTypes, NEW r \in Lines
    PROVE  Feed(lines \o <<r>>) = FeedStep(Feed(lines), r)
  <1>1. lines \o <<r>> = Append(lines, r) /\ lines \in Seq(Lines)
    BY DEF FileTypes
  <1> QED
    BY <1>1, FeedGoesOn

LEMMA TwoAreSaid ==
    ASSUME FileTypes, NEW r \in Lines, NEW q \in Lines
    PROVE  Feed(lines \o <<r, q>>) = FeedStep(FeedStep(Feed(lines), r), q)
  <1>1. lines \o <<r, q>> = Append(Append(lines, r), q) /\ lines \in Seq(Lines)
    BY DEF FileTypes
  <1>2. Append(lines, r) \in Seq(Lines)
    BY <1>1
  <1> QED
    BY <1>1, <1>2, FeedGoesOn

LEMMA StartsTell ==
    ASSUME FeedInv, NEW kind \in Asked, Starts(kind)
    PROVE  FateInv' /\ FeedTells'
  <1> DEFINE id == request.id + 1
             c == Entry(kind, id, Len(fate) + 1, "running")
  <1>1. /\ kind \in Commands \cup Boundaries /\ kind # "none" /\ kind \in LineKinds
        /\ request.id \in Nat /\ id \in Nat /\ fate \in Seq(CommandEntries) /\ commits \in Nat
    BY JournalAssumption DEF FeedInv, FileTypes, FateTypes, Commands, Boundaries, LineKinds, Kinds
  <1>2. /\ request' = [kind |-> kind, id |-> id] /\ phase' = "running" /\ phase = "idle" /\ Silent
        /\ UNCHANGED <<lines, half, exists, owed, commits>>
    BY DEF Starts, fileVars
  <1>3. request'.kind = kind /\ request'.id = id
    BY <1>2
  <1>4. /\ owed \subseteq 1..request.id /\ id \notin owed
        /\ \A k \in DOMAIN fate : fate[k].id \in 1..request.id
        /\ \A j, k \in DOMAIN fate : fate[j].id = fate[k].id => j = k
        /\ OwedAnswers
    BY <1>1 DEF FeedInv, FateTypes, FateIsOfRequests
  <1>5. CASE kind \in Commands
    <2>1. writing' = <<Rec(kind, id, TRUE)>> /\ fate' = Append(fate, c)
      BY <1>5 DEF Starts, Appends
    <2>2. c \in CommandEntries /\ c.id = id /\ ~c.abandoned /\ c.status = "running"
      BY <1>1, <1>5 DEF Entry, CommandEntries, Statuses
    <2> HIDE DEF c, id
    <2>3. /\ DOMAIN fate = 1..Len(fate) /\ DOMAIN fate' = 1..(Len(fate) + 1) /\ Len(fate) \in Nat
          /\ fate'[Len(fate) + 1] = c /\ \A k \in DOMAIN fate : fate'[k] = fate[k]
          /\ fate' \in Seq(CommandEntries)
      BY <1>1, <2>1, <2>2
    <2>4. /\ \A k \in DOMAIN fate' : k = Len(fate) + 1 \/ k \in DOMAIN fate
          /\ \A k \in DOMAIN fate : fate[k].id # id
      BY <1>1, <1>4, <2>3 DEF id
    <2>5. FateTypes'
      BY <1>1, <1>2, <1>3, <1>4, <2>3 DEF FateTypes, id
    <2>6. FateIsOfRequests'
      <3>1. \A k \in DOMAIN fate' : fate'[k].id \in 1..request'.id
        BY <1>1, <1>3, <1>4, <2>2, <2>3, <2>4 DEF id
      <3>2. \A j, k \in DOMAIN fate' : fate'[j].id = fate'[k].id => j = k
        BY <1>4, <2>2, <2>3, <2>4
      <3> QED
        BY <3>1, <3>2 DEF FateIsOfRequests
    <2>7. UnderWay'
      <3>1. \A k \in DOMAIN fate' : fate'[k].id = id => fate'[k] = c
        BY <2>3, <2>4
      <3>2. /\ request'.id \notin owed' /\ request'.kind \in Commands /\ request'.kind # "none"
            /\ request'.id # 0
        BY <1>1, <1>2, <1>3, <1>4, <1>5 DEF id
      <3> QED
        BY <1>3, <2>2, <3>1, <3>2 DEF UnderWay
    <2>8. OwedAnswers'
      BY <1>2, <1>4, <2>2, <2>3, <2>4 DEF OwedAnswers
    <2>9. FeedTells'
      <3> SUFFICES ASSUME Sound' PROVE Tells(Feed(lines' \o writing'), fate', commits')
        BY DEF FeedTells
      <3>1. Sound
        BY <1>2 DEF Sound
      <3>2. Tells(Feed(lines), fate, commits)
        BY <1>2, <3>1, SilentTells DEF FeedInv
      <3>3. Rec(kind, id, TRUE) \in Lines
        BY <1>1, RecordIsALine DEF id
      <3>4. Feed(lines' \o writing') = FeedStep(Feed(lines), Rec(kind, id, TRUE))
        BY <1>2, <2>1, <3>3, OneIsSaid DEF FeedInv
      <3>5. id \in Nat
        BY <1>1 DEF id
      <3>6. Tells(FeedStep(Feed(lines), Rec(kind, id, TRUE)), Append(fate, c), commits)
        BY <1>1, <1>5, <3>2, <3>5, CommandIsRead DEF c
      <3> QED
        BY <1>2, <2>1, <3>4, <3>6
    <2> QED
      BY <2>5, <2>6, <2>7, <2>8, <2>9 DEF FateInv
  <1>6. CASE kind \notin Commands
    <2>1. UNCHANGED <<writing, fate>>
      BY <1>6 DEF Starts
    <2>2. id # 0 /\ \A k \in DOMAIN fate : fate[k].id # id /\ fate[k].id \in 1..id
      BY <1>1, <1>4
    <2> HIDE DEF id
    <2>3. FateTypes'
      BY <1>1, <1>2, <1>3, <1>4, <2>1 DEF FateTypes, id
    <2>4. FateIsOfRequests' /\ OwedAnswers'
      BY <1>2, <1>3, <1>4, <2>1, <2>2 DEF FateIsOfRequests, OwedAnswers
    <2>5. UnderWay'
      BY <1>1, <1>2, <1>3, <1>4, <2>1, <2>2 DEF UnderWay
    <2>6. FeedTells'
      BY <1>2, <2>1 DEF FeedInv, FeedTells, Sound
    <2> QED
      BY <2>3, <2>4, <2>5, <2>6 DEF FateInv
  <1> QED
    BY <1>5, <1>6

(* A result, in time or late: of the command under way, or of a boundary   *)
(* that has no entry.                                                      *)
LEMMA FateIsSettled ==
    ASSUME FeedInv, phase \in {"running", "overdue"}, NEW ok \in BOOLEAN, NEW late \in BOOLEAN,
           phase = "overdue" => late, Settled(ok, late), phase' = "idle", UNCHANGED <<request, owed>>,
           request.id \in owed => late
    PROVE  /\ FateInv'
           /\ fate' \in Seq(CommandEntries) /\ Len(fate') = Len(fate)
           /\ \A k \in DOMAIN fate :
                  fate'[k] = IF fate[k].id = request.id
                             THEN [fate[k] EXCEPT !.status = IF ok THEN "done" ELSE "error",
                                                  !.abandoned = late]
                             ELSE fate[k]
           /\ request.kind \notin Commands => fate' = fate
  <1> DEFINE Becomes(e) == [e EXCEPT !.status = IF ok THEN "done" ELSE "error", !.abandoned = late]
  <1>1. /\ fate \in Seq(CommandEntries) /\ commits \in Nat
        /\ request.kind \in Commands \cup Boundaries \cup {"none"} /\ owed \subseteq 1..request.id
        /\ \A k \in DOMAIN fate : fate[k].id \in 1..request.id
        /\ \A j, k \in DOMAIN fate : fate[j].id = fate[k].id => j = k
        /\ OwedAnswers
    BY DEF FeedInv, FateTypes, FateIsOfRequests
  <1>2. /\ fate' = [k \in DOMAIN fate |-> IF fate[k].id = request.id THEN Becomes(fate[k]) ELSE fate[k]]
        /\ commits' \in {commits, commits + 1}
    BY DEF Settled, Command
  <1>3. \A e \in CommandEntries : /\ Becomes(e) \in CommandEntries /\ Becomes(e).id = e.id
                                  /\ Becomes(e).abandoned = late /\ Becomes(e).status # "running"
    BY DEF CommandEntries, Statuses
  <1>4. \A k \in DOMAIN fate : fate[k] \in CommandEntries
    BY <1>1
  <1> HIDE DEF Becomes
  <1>5. \A k \in DOMAIN fate : /\ fate'[k] = IF fate[k].id = request.id THEN Becomes(fate[k]) ELSE fate[k]
                               /\ fate'[k] \in CommandEntries /\ fate'[k].id = fate[k].id
    BY <1>2, <1>3, <1>4
  <1>6. fate' \in Seq(CommandEntries) /\ Len(fate') = Len(fate) /\ DOMAIN fate' = DOMAIN fate
    <2>1. fate' = [k \in DOMAIN fate |-> fate'[k]]
      BY <1>2
    <2> QED
      BY <1>1, <1>5, <2>1, SameLength
  <1>7. FateTypes' /\ FateIsOfRequests' /\ UnderWay'
    BY <1>1, <1>2, <1>5, <1>6 DEF FateTypes, FateIsOfRequests, UnderWay
  <1>8. OwedAnswers'
    <2> SUFFICES ASSUME NEW k \in DOMAIN fate, fate[k].id \in owed
                 PROVE  fate'[k].abandoned <=> fate'[k].status # "running"
      BY <1>5, <1>6 DEF OwedAnswers
    <2>1. CASE fate[k].id = request.id
      BY <1>3, <1>4, <1>5, <2>1
    <2>2. CASE fate[k].id # request.id
      BY <1>1, <1>5, <2>2 DEF OwedAnswers
    <2> QED
      BY <2>1, <2>2
  <1>9. request.kind \notin Commands => fate' = fate
    <2> SUFFICES ASSUME request.kind \notin Commands PROVE fate' = fate
      OBVIOUS
    <2>1. \A k \in DOMAIN fate : fate[k].id # request.id
      BY DEF FeedInv, UnderWay
    <2>2. fate' = [k \in DOMAIN fate |-> fate[k]]
      BY <1>2, <2>1
    <2> QED
      BY <1>1, <2>2
  <1> QED
    BY <1>5, <1>6, <1>7, <1>8, <1>9 DEF FateInv, Becomes

LEMMA AnswersTell ==
    ASSUME FeedInv, NEW ok \in BOOLEAN, Answers(ok)
    PROVE  FateInv' /\ FeedTells'
  <1> DEFINE kind == IF request.kind \in Commands THEN "result" ELSE request.kind
             r == Rec(kind, request.id, ok)
  <1>1. /\ phase = "running" /\ phase' = "idle" /\ Silent /\ writing' = <<r>>
        /\ UNCHANGED <<lines, half, exists, request, owed>>
        /\ Settled(ok, FALSE)
    BY DEF Answers, Appends, fileVars
  <1>2. /\ request.kind \in Commands \cup Boundaries /\ request.id \in Nat /\ request.id \notin owed
        /\ \A k \in DOMAIN fate : fate[k].id = request.id => ~fate[k].abandoned
        /\ \A j, k \in DOMAIN fate : fate[j].id = fate[k].id => j = k
        /\ fate \in Seq(CommandEntries) /\ commits \in Nat
    BY <1>1 DEF FeedInv, FileTypes, FateTypes, FateIsOfRequests, UnderWay
  <1>3. r \in Lines
    BY <1>2, RecordIsALine DEF LineKinds, Kinds, Commands, Boundaries
  <1>4. /\ FateInv'
        /\ fate' \in Seq(CommandEntries) /\ Len(fate') = Len(fate)
        /\ \A k \in DOMAIN fate :
               fate'[k] = IF fate[k].id = request.id
                          THEN [fate[k] EXCEPT !.status = IF ok THEN "done" ELSE "error",
                                               !.abandoned = FALSE]
                          ELSE fate[k]
        /\ request.kind \notin Commands => fate' = fate
    BY <1>1, <1>2, FateIsSettled
  <1>5. commits' = IF request.kind = "commit" /\ ok THEN commits + 1 ELSE commits
    BY <1>1 DEF Settled
  <1> SUFFICES ASSUME Sound' PROVE Tells(Feed(lines' \o writing'), fate', commits')
    BY <1>4 DEF FeedTells
  <1>6. Tells(Feed(lines), fate, commits)
    BY <1>1, SilentTells DEF FeedInv, Sound
  <1>7. Feed(lines' \o writing') = FeedStep(Feed(lines), r)
    <2> HIDE DEF r
    <2> QED
      BY <1>1, <1>3, OneIsSaid DEF FeedInv
  <1>8. CASE request.kind \in Commands
    <2>1. Tells(FeedStep(Feed(lines), Rec(IF FALSE THEN "abandoned_result" ELSE "result", request.id, ok)),
                fate', commits)
      BY <1>2, <1>4, <1>6, ResultIsRead
    <2>2. commits' = commits
      BY <1>5, <1>8 DEF Commands
    <2> QED
      BY <1>7, <1>8, <2>1, <2>2
  <1>9. CASE request.kind \notin Commands
    <2>1. kind = request.kind /\ kind \notin Commands \cup {"result", "abandoned_result", "timeout"}
      BY <1>2, <1>9 DEF Boundaries
    <2>2. Tells(FeedStep(Feed(lines), Rec(kind, request.id, ok)), fate,
                IF kind = "commit" /\ ok THEN commits + 1 ELSE commits)
      <3> HIDE DEF kind
      <3> QED
        BY <1>2, <1>6, <2>1, RestIsRead
    <2> QED
      BY <1>4, <1>5, <1>7, <1>9, <2>1, <2>2
  <1> QED
    BY <1>8, <1>9

LEMMA SettlesTell ==
    ASSUME FeedInv, NEW ok \in BOOLEAN, Settles(ok)
    PROVE  FateInv' /\ FeedTells'
  <1> DEFINE late == Rec("abandoned_result", request.id, ok)
             done == Rec(request.kind, request.id, ok)
  <1>1. /\ phase = "overdue" /\ phase' = "idle" /\ Silent
        /\ writing' = IF request.kind \in Commands THEN <<late>> ELSE <<late, done>>
        /\ UNCHANGED <<lines, half, exists, request, owed>>
        /\ Settled(ok, TRUE)
    BY DEF Settles, Appends, fileVars
  <1>2. /\ request.kind \in Commands \cup Boundaries /\ request.id \in Nat
        /\ \A k \in DOMAIN fate : fate[k].id = request.id => ~fate[k].abandoned
        /\ \A j, k \in DOMAIN fate : fate[j].id = fate[k].id => j = k
        /\ fate \in Seq(CommandEntries) /\ commits \in Nat
    BY <1>1 DEF FeedInv, FileTypes, FateTypes, FateIsOfRequests, UnderWay
  <1>3. late \in Lines /\ done \in Lines
    BY <1>2, RecordIsALine DEF LineKinds, Kinds, Commands, Boundaries
  <1>4. /\ FateInv'
        /\ fate' \in Seq(CommandEntries) /\ Len(fate') = Len(fate)
        /\ \A k \in DOMAIN fate :
               fate'[k] = IF fate[k].id = request.id
                          THEN [fate[k] EXCEPT !.status = IF ok THEN "done" ELSE "error",
                                               !.abandoned = TRUE]
                          ELSE fate[k]
        /\ request.kind \notin Commands => fate' = fate
    BY <1>1, <1>2, FateIsSettled
  <1>5. commits' = IF request.kind = "commit" /\ ok THEN commits + 1 ELSE commits
    BY <1>1 DEF Settled
  <1> SUFFICES ASSUME Sound' PROVE Tells(Feed(lines' \o writing'), fate', commits')
    BY <1>4 DEF FeedTells
  <1>6. Tells(Feed(lines), fate, commits)
    BY <1>1, SilentTells DEF FeedInv, Sound
  <1>7. Tells(FeedStep(Feed(lines), Rec(IF TRUE THEN "abandoned_result" ELSE "result", request.id, ok)),
              fate', commits)
    BY <1>2, <1>4, <1>6, ResultIsRead
  <1>8. Tells(FeedStep(Feed(lines), late), fate', commits)
    BY <1>7
  <1> HIDE DEF late
  <1>9. CASE request.kind \in Commands
    <2>1. commits' = commits
      BY <1>5, <1>9 DEF Commands
    <2>2. Feed(lines' \o writing') = FeedStep(Feed(lines), late)
      BY <1>1, <1>3, <1>9, OneIsSaid DEF FeedInv
    <2> QED
      BY <1>8, <2>1, <2>2
  <1>10. CASE request.kind \notin Commands
    <2>1. request.kind \notin Commands \cup {"result", "abandoned_result", "timeout"}
      BY <1>2, <1>10 DEF Boundaries
    <2>2. Tells(FeedStep(FeedStep(Feed(lines), late), done), fate',
                IF request.kind = "commit" /\ ok THEN commits + 1 ELSE commits)
      BY <1>2, <1>4, <1>8, <2>1, RestIsRead
    <2> HIDE DEF done
    <2>3. Feed(lines' \o writing') = FeedStep(FeedStep(Feed(lines), late), done)
      BY <1>1, <1>3, <1>10, TwoAreSaid DEF FeedInv
    <2> QED
      BY <1>5, <2>2, <2>3
  <1> QED
    BY <1>9, <1>10

LEMMA OverrunsTell ==
    ASSUME FeedInv, Overruns
    PROVE  FateInv' /\ FeedTells'
  <1>1. /\ phase = "running" /\ phase' = "overdue" /\ owed' = owed \cup {request.id}
        /\ UNCHANGED <<lines, half, exists, writing, request, fate, commits>>
    BY DEF Overruns, fileVars, historyVars
  <1>2. \A k \in DOMAIN fate : fate[k].id = request.id =>
            request.kind \in Commands /\ ~fate[k].abandoned /\ fate[k].status = "running"
    BY <1>1 DEF FeedInv, UnderWay
  <1>3. request.kind # "none" /\ request.id \in Nat
    BY <1>1 DEF FeedInv, UnderWay, FileTypes
  <1>4. FateTypes'
    <2>1. request.id \in 1..request.id \/ request.id = 0
      BY <1>3
    <2>2. request.id # 0
      BY <1>1 DEF FeedInv, FateTypes, UnderWay
    <2> QED
      BY <1>1, <2>1, <2>2 DEF FeedInv, FateTypes
  <1>5. FateIsOfRequests' /\ UnderWay'
    BY <1>1, <1>2, <1>3 DEF FeedInv, FateIsOfRequests, UnderWay
  <1>6. OwedAnswers'
    BY <1>1, <1>2 DEF FeedInv, OwedAnswers
  <1>7. FeedTells'
    BY <1>1 DEF FeedInv, FeedTells, Sound
  <1> QED
    BY <1>4, <1>5, <1>6, <1>7 DEF FateInv

LEMMA InterruptedTells ==
    ASSUME FeedInv, NEW id \in owed, Interrupted(id)
    PROVE  FateInv' /\ FeedTells'
  <1> DEFINE Becomes(e) == [e EXCEPT !.timedOut = TRUE,
                                     !.status = IF e.abandoned THEN @ ELSE "error"]
             r == Rec("timeout", id, TRUE)
  <1>1. /\ owed' = owed \ {id} /\ Silent /\ writing' = <<r>>
        /\ fate' = [k \in DOMAIN fate |-> IF fate[k].id = id THEN Becomes(fate[k]) ELSE fate[k]]
        /\ UNCHANGED <<lines, half, exists, phase, request, commits>>
    BY DEF Interrupted, Appends, Command, fileVars
  <1>2. /\ fate \in Seq(CommandEntries) /\ commits \in Nat /\ id \in 1..request.id /\ id \in Nat
        /\ request.id \in Nat
        /\ \A j, k \in DOMAIN fate : fate[j].id = fate[k].id => j = k
        /\ \A k \in DOMAIN fate :
               fate[k].id = id => (fate[k].abandoned <=> fate[k].status # "running")
    BY DEF FeedInv, FileTypes, FateTypes, FateIsOfRequests, OwedAnswers
  <1>3. \A e \in CommandEntries : /\ Becomes(e) \in CommandEntries /\ Becomes(e).id = e.id
                                  /\ Becomes(e).abandoned = e.abandoned
    BY DEF CommandEntries, Statuses
  <1>4. \A k \in DOMAIN fate : fate[k] \in CommandEntries
    BY <1>2
  <1> HIDE DEF Becomes
  <1>5. \A k \in DOMAIN fate : /\ fate'[k] = IF fate[k].id = id THEN Becomes(fate[k]) ELSE fate[k]
                               /\ fate'[k] \in CommandEntries /\ fate'[k].id = fate[k].id
                               /\ fate'[k].abandoned = fate[k].abandoned
    BY <1>1, <1>3, <1>4
  <1>6. fate' \in Seq(CommandEntries) /\ Len(fate') = Len(fate) /\ DOMAIN fate' = DOMAIN fate
    <2>1. fate' = [k \in DOMAIN fate |-> fate'[k]]
      BY <1>1
    <2> QED
      BY <1>2, <1>5, <2>1, SameLength
  <1>7. FateTypes' /\ FateIsOfRequests'
    BY <1>1, <1>2, <1>5, <1>6 DEF FeedInv, FateTypes, FateIsOfRequests
  <1>8. UnderWay'
    <2>1. \A k \in DOMAIN fate : fate[k].id # id => fate'[k] = fate[k]
      BY <1>5
    <2>2. phase = "running" => request.id # id
      BY DEF FeedInv, UnderWay
    <2> QED
      BY <1>1, <1>5, <1>6, <2>1, <2>2 DEF FeedInv, UnderWay
  <1>9. OwedAnswers'
    BY <1>1, <1>5, <1>6 DEF FeedInv, OwedAnswers
  <1>10. FeedTells'
    <2> SUFFICES ASSUME Sound' PROVE Tells(Feed(lines' \o writing'), fate', commits')
      BY DEF FeedTells
    <2>1. Tells(Feed(lines), fate, commits)
      BY <1>1, SilentTells DEF FeedInv, Sound
    <2>2. r \in Lines
      BY <1>2, RecordIsALine DEF LineKinds, Kinds
    <2>3. \A k \in DOMAIN fate :
              fate'[k] = IF fate[k].id = id
                         THEN [fate[k] EXCEPT !.timedOut = TRUE,
                                              !.status = IF fate[k].abandoned THEN @ ELSE "error"]
                         ELSE fate[k]
      BY <1>5 DEF Becomes
    <2>4. Tells(FeedStep(Feed(lines), Rec("timeout", id, TRUE)), fate', commits)
      BY <1>2, <1>6, <2>1, <2>3, TimeoutIsRead
    <2> HIDE DEF r
    <2>5. Feed(lines' \o writing') = FeedStep(Feed(lines), r)
      BY <1>1, <2>2, OneIsSaid DEF FeedInv
    <2> QED
      BY <1>1, <2>4, <2>5 DEF r
  <1> QED
    BY <1>7, <1>8, <1>9, <1>10 DEF FateInv

(* A record of no request: a note, or the end.                             *)
LEMMA RestTells ==
    ASSUME FeedInv,
           NEW kind \in {"owner_changed", "policy_changed", "interrupt", "stderr",
                         "session_close", "session_died"},
           Notes(kind) \/ Ends(kind)
    PROVE  FateInv' /\ FeedTells'
  <1> DEFINE r == Rec(kind, 0, TRUE)
  <1>1. /\ Silent /\ writing' = <<r>> /\ phase \in {"idle", "running", "overdue"}
        /\ phase' \in {phase, "over"}
        /\ UNCHANGED <<lines, half, exists, request, owed, fate, commits>>
    BY DEF Notes, Ends, Appends, fileVars, historyVars
  <1>2. FateInv'
    BY <1>1 DEF FeedInv, FateInv, FateTypes, FateIsOfRequests, UnderWay, OwedAnswers
  <1>3. FeedTells'
    <2> SUFFICES ASSUME Sound' PROVE Tells(Feed(lines' \o writing'), fate', commits')
      BY DEF FeedTells
    <2>1. Tells(Feed(lines), fate, commits)
      BY <1>1, SilentTells DEF FeedInv, Sound
    <2>2. r \in Lines
      BY RecordIsALine DEF LineKinds, Kinds
    <2>3. kind \notin Commands \cup {"result", "abandoned_result", "timeout"} /\ kind # "commit"
      BY DEF Commands
    <2>4. Tells(FeedStep(Feed(lines), Rec(kind, 0, TRUE)), fate,
                IF kind = "commit" /\ TRUE THEN commits + 1 ELSE commits)
      BY <2>1, <2>3, RestIsRead DEF FeedInv, FateTypes
    <2>5. Tells(FeedStep(Feed(lines), r), fate, commits)
      BY <2>3, <2>4
    <2> HIDE DEF r
    <2>6. Feed(lines' \o writing') = FeedStep(Feed(lines), r)
      BY <1>1, <2>2, OneIsSaid DEF FeedInv
    <2> QED
      BY <1>1, <2>5, <2>6
  <1> QED
    BY <1>2, <1>3

-----------------------------------------------------------------------------
(* The file's steps leave the commands alone: a write moves a record, and  *)
(* whatever is lost, is lost for good.                                     *)
LEMMA WritesTell ==
    ASSUME FeedInv, Writes
    PROVE  FateInv' /\ FeedTells'
  <1>1. /\ writing # <<>> /\ lines' = Append(lines, IF half = "left" THEN Torn ELSE Head(writing))
        /\ half' = "no" /\ writing' = Tail(writing)
        /\ UNCHANGED <<exists, phase, request, owed, fate, commits>>
    BY DEF Writes
  <1>2. FateInv'
    BY <1>1 DEF FeedInv, FateInv, FateTypes, FateIsOfRequests, UnderWay, OwedAnswers
  <1>3. FeedTells'
    <2> SUFFICES ASSUME Sound' PROVE Tells(Feed(lines' \o writing'), fate', commits')
      BY DEF FeedTells
    <2>1. lines \in Seq(Lines) /\ writing \in Seq(Lines) /\ Head(writing) \in Lines
      BY <1>1 DEF FeedInv, FileTypes
    <2>2. CASE half = "left"
      <3>1. lines' = Append(lines, Torn) /\ ~Contains(lines', Torn)
        BY <1>1, <2>2 DEF Sound
      <3>2. Contains(lines', Torn)
        <4>1. Len(lines') = Len(lines) + 1 /\ lines'[Len(lines) + 1] = Torn /\ Len(lines) \in Nat
          BY <2>1, <3>1
        <4> QED
          BY <4>1 DEF Contains
      <3> QED
        BY <3>1, <3>2
    <2>3. CASE half # "left"
      <3>1. lines' = Append(lines, Head(writing))
        BY <1>1, <2>3
      <3>2. lines' \o writing' = lines \o writing
        BY <1>1, <2>1, <3>1
      <3>3. \A i \in 1..Len(lines) : i \in 1..Len(lines') /\ lines'[i] = lines[i]
        BY <2>1, <3>1
      <3>4. ~Contains(lines, Torn)
        BY <3>3 DEF Sound, Contains
      <3>5. Sound
        BY <1>1, <2>3, <3>4 DEF Sound
      <3> QED
        BY <1>1, <3>2, <3>5 DEF FeedInv, FeedTells
    <2> QED
      BY <2>2, <2>3
  <1> QED
    BY <1>2, <1>3

LEMMA RestOfFileTells ==
    ASSUME FeedInv,
           \/ WritesSome \/ WriteFails \/ DaemonRestarts \/ Deletes \/ UNCHANGED vars
           \/ \E t \in Threads : Listing(t)
    PROVE  FateInv' /\ FeedTells'
  <1>1. CASE WritesSome \/ UNCHANGED vars \/ \E t \in Threads : Listing(t)
    <2>1. /\ UNCHANGED <<lines, exists, writing, phase, request, owed, fate, commits>>
          /\ half' # "left" => half # "left"
      BY <1>1 DEF WritesSome, Listing, Lists, Looks, Reads, Stores, IsAnswered, vars, fileVars,
                  writerVars, historyVars
    <2>2. FateInv'
      BY <2>1 DEF FeedInv, FateInv, FateTypes, FateIsOfRequests, UnderWay, OwedAnswers
    <2> QED
      BY <2>1, <2>2 DEF FeedInv, FeedTells, Sound
  <1>2. CASE WriteFails
    <2>1. UNCHANGED <<phase, request, owed, fate, commits>> /\ half' = "left"
      BY <1>2 DEF WriteFails, historyVars
    <2> QED
      BY <2>1 DEF FeedInv, FateInv, FateTypes, FateIsOfRequests, UnderWay, OwedAnswers, FeedTells, Sound
  <1>3. CASE DaemonRestarts \/ Deletes
    <2>1. /\ fate' = <<>> /\ commits' = 0 /\ request' = request /\ owed' \in {owed, {}}
          /\ phase' \notin {"running", "overdue"}
          /\ phase' = "killed" \/ exists' = FALSE
      BY <1>3 DEF DaemonRestarts, Deletes, writerVars
    <2>2. <<>> \in Seq(CommandEntries) /\ DOMAIN <<>> = {}
      OBVIOUS
    <2> QED
      BY <2>1, <2>2 DEF FeedInv, FateInv, FateTypes, FateIsOfRequests, UnderWay, OwedAnswers,
                        FeedTells, Sound
  <1> QED
    BY <1>1, <1>2, <1>3

LEMMA InitFeedInv == Init => FeedInv
  <1> SUFFICES ASSUME Init PROVE FeedInv
    OBVIOUS
  <1> DEFINE r == Rec("session_open", 0, TRUE)
  <1>1. FileTypes
    BY InitListInv DEF ListInv
  <1>2. /\ lines = <<>> /\ writing = <<r>> /\ fate = <<>> /\ commits = 0 /\ owed = {}
        /\ phase = "idle" /\ request.kind = "none"
    BY DEF Init, NoRequest
  <1>3. FateTypes /\ FateIsOfRequests /\ UnderWay /\ OwedAnswers
    BY <1>2 DEF FateTypes, FateIsOfRequests, UnderWay, OwedAnswers
  <1>4. Tells(<<>>, <<>>, 0)
    <2>1. OfCommands(<<>>) = {} /\ CommitsIn(<<>>) = {}
      BY DEF OfCommands, CommitsIn
    <2>2. Cardinality(OfCommands(<<>>)) = 0 /\ Cardinality(CommitsIn(<<>>)) = 0
      BY <2>1, FS_EmptySet, Zenon
    <2>3. <<>> \in Seq(CommandEntries \cup OtherEntries) /\ Len(<<>>) = 0
      OBVIOUS
    <2> QED
      BY <2>1, <2>2, <2>3 DEF Tells
  <1>5. Tells(FeedStep(<<>>, r), <<>>, 0)
    <2>1. "session_open" \notin Commands \cup {"result", "abandoned_result", "timeout"}
      BY DEF Commands
    <2>2. <<>> \in Seq(CommandEntries) /\ 0 \in Nat
      OBVIOUS
    <2>3. Tells(FeedStep(<<>>, r), <<>>, IF "session_open" = "commit" /\ TRUE THEN 0 + 1 ELSE 0)
      BY <1>4, <2>1, <2>2, RestIsRead
    <2> QED
      BY <2>3
  <1>6. r \in Lines
    BY RecordIsALine DEF LineKinds, Kinds
  <1> HIDE DEF r
  <1>7. Feed(lines \o writing) = FeedStep(<<>>, r)
    BY <1>1, <1>2, <1>6, OneIsSaid, FeedOfNone
  <1> QED
    BY <1>1, <1>2, <1>3, <1>5, <1>7 DEF FeedInv, FeedTells

LEMMA NextFeedInv == FeedInv /\ [Next]_vars => FeedInv'
  <1> SUFFICES ASSUME FeedInv, [Next]_vars PROVE FeedInv'
    OBVIOUS
  <1>1. FileTypes'
    BY FileMoves DEF FeedInv
  <1>2. FateInv' /\ FeedTells'
    <2>1. CASE SessionStep
      <3>1. Noted \cup {"session_close", "session_died"} \subseteq
                {"owner_changed", "policy_changed", "interrupt", "stderr", "session_close", "session_died"}
        BY JournalAssumption
      <3> QED
        BY <2>1, <3>1, StartsTell, AnswersTell, SettlesTell, OverrunsTell, InterruptedTells, RestTells
           DEF SessionStep
    <2>2. CASE Writes
      BY <2>2, WritesTell
    <2>3. CASE \/ WritesSome \/ WriteFails \/ DaemonRestarts \/ Deletes \/ UNCHANGED vars
               \/ \E t \in Threads : Listing(t)
      BY <2>3, RestOfFileTells
    <2> QED
      BY <2>1, <2>2, <2>3 DEF Next
  <1> QED
    BY <1>1, <1>2 DEF FeedInv, FateInv

(* However a session's answers, timeouts and late results meet, and        *)
(* whenever the file is read, the history rebuilt from it has every        *)
(* command in the order they were asked, as each ended, and every commit   *)
(* (feed_from_records), unless something was lost on the way to the file.  *)
THEOREM TheFeedIsTrue == Spec => []FeedIsTrue
  <1>1. FeedInv => FeedIsTrue
    <2> SUFFICES ASSUME FeedInv, Written PROVE FeedIsTrue
      BY DEF FeedIsTrue
    <2>1. Sound /\ Silent
      BY DEF Written, Sound
    <2>2. Tells(Feed(lines), fate, commits)
      BY <2>1, SilentTells DEF FeedInv
    <2> QED
      BY <2>2 DEF FeedIsTrue, Tells, UpTo, CommitsIn
  <1> QED
    BY <1>1, InitFeedInv, NextFeedInv, PTL DEF Spec
=============================================================================
