----------------------------- MODULE RecipeProofs ---------------------------
(***************************************************************************)
(* The two lines of a card: ShellIsFound, AllThatWasSaid and ReadsBack of  *)
(* Recipe, for lines of any length of any tokens.                          *)
(*                                                                         *)
(* The launch line: a script that Odoo would be told shell after is        *)
(* followed by a shell that counts, so there is a first one that does, and *)
(* nothing before the script can stand in its way but a shell of its own.  *)
(*                                                                         *)
(* The access line is a fold over its tokens.  CollectedGoesOn says what   *)
(* one token more makes of it; IsRead, what the parse holds against what   *)
(* stands in the line, is kept by each token typed.  What ssh is given is  *)
(* parsed a piece at a time with the same lemma.                           *)
(***************************************************************************)
EXTENDS Recipe, WellFoundedInduction, FiniteSetTheorems, SequenceTheorems, TLAPS

(* What is typed, and no more of a token than that it is one.              *)
Typed == AccessTokens \cup LaunchTokens

LineTyped == line \in Seq(Typed)

LEMMA LineIsTyped == Spec => []LineTyped
  <1>1. Init => LineTyped
    BY DEF Init, LineTyped
  <1>2. LineTyped /\ [Next]_vars => LineTyped'
    <2>1. ASSUME LineTyped, Next PROVE LineTyped'
      <3>1. PICK t \in Typed : line' = Append(line, t)
        BY <2>1 DEF Next, Types, Typed
      <3> QED
        BY <2>1, <3>1 DEF LineTyped
    <2> QED
      BY <2>1 DEF vars, LineTyped
  <1> QED
    BY <1>1, <1>2, PTL DEF Spec

(* A set of numbers that holds one has a least one.                        *)
LEMMA LeastOf ==
    ASSUME NEW T \in SUBSET Nat, T # {}
    PROVE  \E x \in T : \A y \in T : x <= y
  <1> DEFINE R == OpToRel(<, Nat)
  <1>1. IsWellFoundedOn(R, Nat)
    BY NatLessThanWellFounded
  <1>2. \A a, b \in Nat : a < b => <<a, b>> \in R
    BY DEF OpToRel
  <1> HIDE DEF R
  <1>3. PICK x \in T : \A y \in T : ~(<<y, x>> \in R)
    BY <1>1, WFMin
  <1>4. ASSUME NEW y \in T PROVE x <= y
    <2>1. x \in Nat /\ y \in Nat
      OBVIOUS
    <2>2. ~(y < x)
      BY <1>2, <1>3, <2>1
    <2> QED
      BY <2>1, <2>2
  <1> QED
    BY <1>4

LEMMA MinOf ==
    ASSUME NEW T \in SUBSET Nat, T # {}
    PROVE  Min(T) \in T /\ \A y \in T : Min(T) <= y
  <1>1. \E x \in T : \A y \in T : x <= y
    BY LeastOf
  <1> QED
    BY <1>1 DEF Min

-----------------------------------------------------------------------------
(* A shell that counts.                                                    *)
Counts(tokens, i) == IsShell(tokens, i) /\ Follows(tokens, i)

(* Of the shells that count the first is the only one found.               *)
LEMMA FirstShell ==
    ASSUME NEW tokens \in Seq(Typed), NEW s \in 2..Len(tokens), Counts(tokens, s)
    PROVE  \E f \in 2..s : ShellAt(tokens) = {f} /\ Counts(tokens, f)
  <1> DEFINE T == {i \in 2..Len(tokens) : Counts(tokens, i)}
  <1>1. Len(tokens) \in Nat /\ T \in SUBSET Nat /\ s \in T
    OBVIOUS
  <1>2. PICK f \in T : \A y \in T : f <= y
    BY <1>1, LeastOf
  <1>3. f \in 2..s /\ Counts(tokens, f)
    BY <1>1, <1>2
  <1>4. \A i : i \in ShellAt(tokens) <=> i \in T /\ \A j \in 2..(i - 1) : ~Counts(tokens, j)
    BY DEF ShellAt, Counts
  <1>5. \A j \in 2..(f - 1) : ~Counts(tokens, j)
    <2> SUFFICES ASSUME NEW j \in 2..(f - 1), Counts(tokens, j) PROVE FALSE
      OBVIOUS
    <2>1. j \in T
      BY <1>1, <1>3
    <2> QED
      BY <1>2, <1>3, <2>1
  <1>6. ASSUME NEW i \in ShellAt(tokens) PROVE i = f
    <2>1. i \in T /\ f <= i
      BY <1>2, <1>4
    <2>2. ~(f < i)
      BY <1>3, <1>4, <2>1
    <2> QED
      BY <1>3, <2>1, <2>2
  <1>7. f \in ShellAt(tokens)
    BY <1>2, <1>4, <1>5
  <1> QED
    BY <1>3, <1>6, <1>7

(* After a script, or after its addons path, a shell counts.               *)
LEMMA TakenShellCounts ==
    ASSUME line \in Seq(Typed), NEW m \in DOMAIN line, OdooTakesShell(m)
    PROVE  \E s \in {m + 1, m + 2} :
               /\ s \in 2..Len(line)
               /\ Counts(line, s)
               /\ \A j \in (m + 1)..(s - 1) : ~IsShell(line, j)
               /\ (IF IsAddonsPath(line[s - 1]) THEN line[s - 2] ELSE line[s - 1]) = line[m]
  <1>1. Len(line) \in Nat /\ m \in 1..Len(line)
    OBVIOUS
  <1>2. ~IsOption(line[m]) /\ ~IsAddonsPath(line[m])
    BY DEF OdooTakesShell, IsWord, IsOption, IsAddonsPath, None
  <1>3. CASE m + 1 <= Len(line) /\ IsShell(line, m + 1)
    <2>1. (m + 1) - 1 = m /\ m + 1 \in 2..Len(line) /\ (m + 1)..((m + 1) - 1) = {}
      BY <1>1, <1>3
    <2>2. Counts(line, m + 1)
      BY <1>2, <1>3, <2>1 DEF Counts, Follows
    <2> QED
      BY <1>2, <2>1, <2>2
  <1>4. CASE m + 2 <= Len(line) /\ IsAddonsPath(line[m + 1]) /\ IsShell(line, m + 2)
    <2>1. /\ (m + 2) - 1 = m + 1 /\ (m + 2) - 2 = m /\ m + 2 >= 3
          /\ m + 2 \in 2..Len(line) /\ (m + 1)..((m + 2) - 1) = {m + 1}
      BY <1>1, <1>4
    <2>2. Counts(line, m + 2)
      BY <1>2, <1>4, <2>1 DEF Counts, Follows
    <2>3. ~IsShell(line, m + 1)
      <3>1. Word("shell").opt = "none"
        BY DEF Word, Token, None
      <3> QED
        BY <1>4, <3>1 DEF IsShell, IsAddonsPath
    <2> QED
      BY <1>4, <2>1, <2>2, <2>3
  <1> QED
    BY <1>3, <1>4 DEF OdooTakesShell

(* A line whose shell Odoo would take is accepted, and Odoo's version is   *)
(* read from the script that is told so, whatever options, values and      *)
(* other words stand before it (_find_shell, _parse_launch).               *)
THEOREM TheShellIsFound == Spec => []ShellIsFound
  <1>1. LineTyped => ShellIsFound
    <2> DEFINE where == {i \in DOMAIN line : OdooTakesShell(i)}
               m == Min(where)
    <2> SUFFICES ASSUME line \in Seq(Typed), field = "launch", line # <<>>,
                        ~IsOption(line[1]), line[1].w # "shell", where # {}
                 PROVE  /\ AcceptsLaunch(line)
                        /\ (\A j \in 1..m : ~IsShell(line, j)) => OdooBin(line) = line[m]
      BY DEF ShellIsFound, LineTyped
    <2>1. where \in SUBSET Nat
      OBVIOUS
    <2>2. m \in where
      BY <2>1, MinOf
    <2>3. m \in DOMAIN line /\ OdooTakesShell(m) /\ m \in Nat
      BY <2>1, <2>2
    <2> HIDE DEF m, where
    <2>4. PICK s \in {m + 1, m + 2} :
            /\ s \in 2..Len(line)
            /\ Counts(line, s)
            /\ \A j \in (m + 1)..(s - 1) : ~IsShell(line, j)
            /\ (IF IsAddonsPath(line[s - 1]) THEN line[s - 2] ELSE line[s - 1]) = line[m]
      BY <2>3, TakenShellCounts
    <2>5. PICK f \in 2..s : ShellAt(line) = {f} /\ Counts(line, f)
      BY <2>4, FirstShell
    <2>6. AcceptsLaunch(line)
      BY <2>5 DEF AcceptsLaunch
    <2>7. ASSUME \A j \in 1..m : ~IsShell(line, j) PROVE OdooBin(line) = line[m]
      <3>1. IsShell(line, f)
        BY <2>5 DEF Counts
      <3>2. f = s
        BY <2>3, <2>4, <2>5, <2>7, <3>1
      <3>3. (CHOOSE j \in ShellAt(line) : TRUE) = s
        BY <2>5, <3>2
      <3> QED
        BY <2>4, <3>3 DEF OdooBin
    <2> QED
      BY <2>6, <2>7
  <1> QED
    BY <1>1, LineIsTyped, PTL

-----------------------------------------------------------------------------
(* The access line.  Its parse unfolded, a token at a time.                *)

CollectedBy(g, s) ==
    g = [n \in 0..Len(s) |-> IF n = 0 THEN Start ELSE Takes(g[n - 1], s[n])]

(* There is such a function: a length without one would have a least, and  *)
(* the one before it goes on by a token.                                   *)
LEMMA ParsesExist ==
    ASSUME NEW s, Len(s) \in Nat
    PROVE  \E g : CollectedBy(g, s)
  <1> DEFINE UpTo(g, m) == g = [n \in 0..m |-> IF n = 0 THEN Start ELSE Takes(g[n - 1], s[n])]
             bad == {m \in 0..Len(s) : \A g : ~UpTo(g, m)}
  <1>1. bad = {}
    <2> SUFFICES ASSUME bad # {} PROVE FALSE
      OBVIOUS
    <2>1. PICK m \in bad : \A k \in bad : m <= k
      <3>1. bad \in SUBSET Nat
        OBVIOUS
      <3> HIDE DEF bad
      <3> QED
        BY <3>1, LeastOf
    <2>2. CASE m = 0
      <3>1. UpTo([n \in 0..0 |-> Start], 0)
        OBVIOUS
      <3> QED
        BY <2>2, <3>1
    <2>3. CASE m # 0
      <3>1. m - 1 \in 0..Len(s) /\ m - 1 \notin bad /\ m \in Nat
        BY <2>1, <2>3
      <3>2. PICK g : UpTo(g, m - 1)
        BY <3>1
      <3> DEFINE h == [n \in 0..m |-> IF n < m THEN g[n] ELSE Takes(g[m - 1], s[m])]
      <3>3. g[0] = Start /\ \A n \in 1..(m - 1) : g[n] = Takes(g[n - 1], s[n])
        BY <2>3, <3>1, <3>2
      <3>4. ASSUME NEW n \in 0..m
            PROVE  h[n] = IF n = 0 THEN Start ELSE Takes(h[n - 1], s[n])
        <4>1. CASE n = 0
          BY <2>3, <3>1, <3>3, <4>1
        <4>2. CASE n # 0
          <5>1. n - 1 \in 0..m /\ n - 1 < m
            BY <3>1, <4>2
          <5>2. h[n - 1] = g[n - 1]
            BY <5>1
          <5>3. h[n] = Takes(g[n - 1], s[n])
            BY <3>1, <3>3, <4>2
          <5> QED
            BY <4>2, <5>2, <5>3
        <4> QED
          BY <4>1, <4>2
      <3>5. h = [n \in 0..m |-> h[n]]
        OBVIOUS
      <3> HIDE DEF h
      <3>6. UpTo(h, m)
        BY <3>4, <3>5
      <3> QED
        BY <3>6
    <2> QED
      BY <2>2, <2>3
  <1>2. Len(s) \in 0..Len(s)
    OBVIOUS
  <1>3. \E g : UpTo(g, Len(s))
    BY <1>1, <1>2
  <1> QED
    BY <1>3 DEF CollectedBy

LEMMA CollectedIsItsParse ==
    ASSUME NEW s, Len(s) \in Nat
    PROVE  \E g : /\ Collected(s) = g[Len(s)]
                  /\ g[0] = Start
                  /\ \A n \in 1..Len(s) : g[n] = Takes(g[n - 1], s[n])
  <1> DEFINE g == CHOOSE h : CollectedBy(h, s)
  <1>1. \E h : CollectedBy(h, s)
    BY ParsesExist
  <1>2. CollectedBy(g, s)
    BY <1>1, Zenon
  <1>3. Collected(s) = g[Len(s)]
    BY DEF Collected, CollectedBy
  <1> HIDE DEF g
  <1>4. g = [n \in 0..Len(s) |-> IF n = 0 THEN Start ELSE Takes(g[n - 1], s[n])]
    BY <1>2 DEF CollectedBy
  <1>5. g[0] = Start
    BY <1>4
  <1>6. ASSUME NEW n \in 1..Len(s) PROVE g[n] = Takes(g[n - 1], s[n])
    <2>1. n \in 0..Len(s) /\ n # 0
      OBVIOUS
    <2> QED
      BY <1>4, <2>1
  <1> QED
    BY <1>3, <1>5, <1>6

LEMMA NothingCollected == Collected(<<>>) = Start
  <1>1. Len(<<>>) = 0 /\ Len(<<>>) \in Nat
    OBVIOUS
  <1> QED
    BY <1>1, CollectedIsItsParse

LEMMA CollectedGoesOn ==
    ASSUME NEW S, NEW s \in Seq(S), NEW t \in S
    PROVE  Collected(Append(s, t)) = Takes(Collected(s), t)
  <1> DEFINE r == Append(s, t)
             m == Len(s)
  <1>1. /\ m \in Nat /\ Len(r) = m + 1 /\ r[m + 1] = t
        /\ \A n \in 1..m : r[n] = s[n]
    OBVIOUS
  <1>2. PICK g : /\ Collected(s) = g[m] /\ g[0] = Start
                 /\ \A n \in 1..m : g[n] = Takes(g[n - 1], s[n])
    BY <1>1, CollectedIsItsParse
  <1> HIDE DEF r, m
  <1>3. PICK h : /\ Collected(r) = h[Len(r)] /\ h[0] = Start
                 /\ \A n \in 1..Len(r) : h[n] = Takes(h[n - 1], r[n])
    <2>1. Len(r) \in Nat
      BY <1>1
    <2> QED
      BY <2>1, CollectedIsItsParse
  <1>4. g[m] = h[m]
    <2> DEFINE bad == {n \in 0..m : g[n] # h[n]}
    <2> SUFFICES ASSUME bad # {} PROVE FALSE
      BY <1>1
    <2>1. PICK n \in bad : \A k \in bad : n <= k
      <3>1. bad \in SUBSET Nat
        OBVIOUS
      <3> HIDE DEF bad
      <3> QED
        BY <3>1, LeastOf
    <2>2. n \in 1..m /\ n - 1 \in 0..m /\ n - 1 \notin bad
      BY <1>1, <1>2, <1>3, <2>1
    <2>3. g[n - 1] = h[n - 1] /\ n \in 1..Len(r) /\ r[n] = s[n]
      BY <1>1, <2>2
    <2>4. g[n] = h[n]
      BY <1>2, <1>3, <2>2, <2>3
    <2> QED
      BY <2>1, <2>4
  <1>5. m + 1 \in 1..Len(r) /\ (m + 1) - 1 = m
    BY <1>1
  <1> QED
    BY <1>1, <1>2, <1>3, <1>4, <1>5 DEF r

-----------------------------------------------------------------------------
(* What a parse holds, as far as it was not refused: an option is waited   *)
(* for at one side of sudo or the other, and what belongs after sudo is    *)
(* said after it.                                                          *)
Dests ==
    AccessTokens \cup {Flag(None)}
    \cup {Word(h) : h \in Hosts} \cup {At(u, h) : u \in Users, h \in Hosts}

Parses ==
    [bad : BOOLEAN, want : TakesValue \cup {"u", None}, users : Seq(Users), ports : Seq(Ports),
     keys : Seq(KeyPaths), jump : Jumps \cup {None}, timeout : Seconds \cup {None},
     identities : {"yes", "no", None}, dest : Dests, sudo : BOOLEAN,
     runAs : Users \cup {None}, quiet : BOOLEAN, home : BOOLEAN]

SudoIsApart(acc) ==
    /\ acc.sudo => acc.want \in {"u", None}
    /\ ~acc.sudo => acc.want # "u" /\ acc.runAs = None /\ ~acc.home /\ ~acc.quiet

LEMMA StartIsAParse == Start \in Parses /\ SudoIsApart(Start) /\ Start.dest = Flag(None)
  <1>1. <<>> \in Seq(Users) /\ <<>> \in Seq(Ports) /\ <<>> \in Seq(KeyPaths)
    OBVIOUS
  <1>2. Flag(None) \in Dests
    BY DEF Dests
  <1> DEFINE e == <<>>
             d == Flag(None)
  <1> HIDE DEF e, d
  <1>3. Start = [bad |-> FALSE, want |-> None, users |-> e, ports |-> e, keys |-> e, jump |-> None,
                 timeout |-> None, identities |-> None, dest |-> d, sudo |-> FALSE,
                 runAs |-> None, quiet |-> FALSE, home |-> FALSE]
    BY DEF Start, e, d
  <1>4. e \in Seq(Users) /\ e \in Seq(Ports) /\ e \in Seq(KeyPaths) /\ d \in Dests
    BY <1>1, <1>2 DEF e, d
  <1>5. Start \in Parses
    BY <1>3, <1>4 DEF Parses
  <1>6. SudoIsApart(Start) /\ Start.dest = d
    BY <1>3 DEF SudoIsApart, None
  <1> QED
    BY <1>5, <1>6 DEF d

(* A value is taken as its key says, or the line refused.                  *)
LEMMA NamedTakes ==
    ASSUME NEW acc \in Parses, NEW key, NEW v, ~Named(acc, key, v).bad
    PROVE  LET new == Named(acc, key, v) IN
           /\ new \in Parses /\ ~acc.bad
           /\ new.want = acc.want /\ new.dest = acc.dest /\ new.sudo = acc.sudo
           /\ new.runAs = acc.runAs /\ new.quiet = acc.quiet /\ new.home = acc.home
           /\ new.users = IF key = "user" THEN Append(acc.users, v) ELSE acc.users
           /\ new.ports = IF key = "port" THEN Append(acc.ports, v) ELSE acc.ports
           /\ new.keys = IF key = "identityfile" THEN Append(acc.keys, v) ELSE acc.keys
           /\ new.jump = IF key = "proxyjump" THEN v ELSE acc.jump
           /\ key = "proxyjump" => v \in Jumps
           /\ new.timeout = IF key = "connecttimeout" THEN v ELSE acc.timeout
           /\ new.identities = IF key = "identitiesonly" THEN v ELSE acc.identities
  <1>1. ASSUME NEW x \in Parses PROVE Refuse(x).bad
    BY <1>1 DEF Refuse, Parses
  <1>2. CASE key = "port"
    <2> DEFINE more == Append(acc.ports, v)
    <2>1. v \in Ports /\ Named(acc, key, v) = [acc EXCEPT !.ports = more]
      BY <1>1, <1>2 DEF Named, If
    <2>2. more \in Seq(Ports)
      BY <2>1 DEF Parses
    <2>3. more = Append(acc.ports, v)
      OBVIOUS
    <2> HIDE DEF more
    <2> QED
      BY <1>2, <2>1, <2>2, <2>3 DEF Parses
  <1>3. CASE key = "user"
    <2> DEFINE more == Append(acc.users, v)
    <2>1. v \in Users /\ Named(acc, key, v) = [acc EXCEPT !.users = more]
      BY <1>1, <1>3 DEF Named, If
    <2>2. more \in Seq(Users)
      BY <2>1 DEF Parses
    <2>3. more = Append(acc.users, v)
      OBVIOUS
    <2> HIDE DEF more
    <2> QED
      BY <1>3, <2>1, <2>2, <2>3 DEF Parses
  <1>4. CASE key = "identityfile"
    <2> DEFINE more == Append(acc.keys, v)
    <2>1. v \in KeyPaths /\ Named(acc, key, v) = [acc EXCEPT !.keys = more]
      BY <1>1, <1>4 DEF Named, If
    <2>2. more \in Seq(KeyPaths)
      BY <2>1 DEF Parses
    <2>3. more = Append(acc.keys, v)
      OBVIOUS
    <2> HIDE DEF more
    <2> QED
      BY <1>4, <2>1, <2>2, <2>3 DEF Parses
  <1>5. CASE key = "proxyjump"
    <2>1. v \in Jumps /\ Named(acc, key, v) = [acc EXCEPT !.jump = v]
      BY <1>1, <1>5 DEF Named, If
    <2> QED
      BY <1>5, <2>1 DEF Parses
  <1>6. CASE key = "connecttimeout"
    <2>1. v \in Seconds /\ Named(acc, key, v) = [acc EXCEPT !.timeout = v]
      BY <1>1, <1>6 DEF Named, If
    <2> QED
      BY <1>6, <2>1 DEF Parses
  <1>7. CASE key = "identitiesonly"
    <2>1. v \in {"yes", "no"} /\ Named(acc, key, v) = [acc EXCEPT !.identities = v]
      BY <1>1, <1>7 DEF Named, If
    <2> QED
      BY <1>7, <2>1 DEF Parses
  <1>8. CASE key = "batchmode"
    <2>1. Named(acc, key, v) = acc
      BY <1>1, <1>8 DEF Named, If
    <2> QED
      BY <1>8, <2>1 DEF Parses
  <1>9. CASE key \notin {"port", "user", "identityfile", "proxyjump", "connecttimeout",
                         "identitiesonly", "batchmode"}
    <2>1. Named(acc, key, v) = Refuse(acc)
      BY <1>9 DEF Named
    <2> QED
      BY <1>1, <2>1
  <1> QED
    BY <1>2, <1>3, <1>4, <1>5, <1>6, <1>7, <1>8, <1>9

(* The value of an option is taken for what the option, or the key of a    *)
(* -o, is for.                                                             *)
KeyOf(opt, t) == IF opt = "o" THEN t.key ELSE LongFor[opt]

LEMMA RefusedIsBad == \A acc \in Parses : Refuse(acc).bad
  BY DEF Refuse, Parses

LEMMA ValuedTakes ==
    ASSUME NEW acc \in Parses, NEW opt \in TakesValue, NEW t, ~Valued(acc, opt, t).bad
    PROVE  /\ Valued(acc, opt, t) = Named(acc, KeyOf(opt, t), Whole(t))
           /\ opt = "o" => t.opt # None
           /\ opt # "o" => t.opt # Pair
  BY RefusedIsBad DEF Valued, If, KeyOf

(* After sudo nothing is said of who, where and how.                       *)
SameSaid(new, acc) ==
    /\ new.users = acc.users /\ new.ports = acc.ports /\ new.keys = acc.keys
    /\ new.jump = acc.jump /\ new.timeout = acc.timeout /\ new.identities = acc.identities
    /\ new.dest = acc.dest

LEMMA SudoTakes ==
    ASSUME NEW acc \in Parses, acc.sudo, ~acc.bad, acc.want \in {"u", None}, NEW t,
           ~Takes(acc, t).bad
    PROVE  LET new == Takes(acc, t) IN
           new \in Parses /\ new.sudo /\ SudoIsApart(new) /\ SameSaid(new, acc)
  <1> DEFINE new == Takes(acc, t)
  <1>1. CASE acc.want = "u"
    <2>1. new = Wanted(acc, t) /\ "u" # None
      BY <1>1 DEF Takes, None
    <2>2. t.w \in Users /\ new = [[acc EXCEPT !.want = None] EXCEPT !.runAs = t.w]
      BY <1>1, <2>1, RefusedIsBad DEF Wanted, If, IsWord
    <2> QED
      BY <2>2 DEF Parses, SudoIsApart, SameSaid
  <1>2. CASE acc.want = None
    <2>1. new = SudoFlag(acc, t)
      BY <1>2, RefusedIsBad DEF Takes, Sudo
    <2>2. CASE t = Flag("u")
      <3>1. new = [acc EXCEPT !.want = "u"]
        BY <2>1, <2>2 DEF SudoFlag
      <3> QED
        BY <3>1 DEF Parses, SudoIsApart, SameSaid
    <2>3. CASE t # Flag("u") /\ t.opt = "u"
      <3>1. t.w \in Users /\ new = [acc EXCEPT !.runAs = t.w]
        BY <2>1, <2>3, RefusedIsBad DEF SudoFlag, If
      <3> QED
        BY <1>2, <3>1 DEF Parses, SudoIsApart, SameSaid
    <2>4. CASE t # Flag("u") /\ t.opt # "u"
      <3> DEFINE quiet == acc.quiet \/ "n" \in {t.opt, t.w}
                 home == acc.home \/ "H" \in {t.opt, t.w}
      <3>1. new = [acc EXCEPT !.quiet = quiet, !.home = home]
        BY <2>1, <2>4, RefusedIsBad DEF SudoFlag, If
      <3>2. quiet \in BOOLEAN /\ home \in BOOLEAN
        BY DEF Parses
      <3> HIDE DEF quiet, home
      <3> QED
        BY <1>2, <3>1, <3>2 DEF Parses, SudoIsApart, SameSaid
    <2> QED
      BY <2>2, <2>3, <2>4
  <1> QED
    BY <1>1, <1>2

(* What a token that is not refused does before sudo.                      *)
LEMMA TakesBeforeSudo ==
    ASSUME NEW acc \in Parses, ~acc.sudo, ~acc.bad, SudoIsApart(acc), NEW t, ~Takes(acc, t).bad
    PROVE  LET new == Takes(acc, t) IN
           \/ /\ acc.want \in TakesValue /\ ~IsOption(t)
              /\ new = Valued([acc EXCEPT !.want = None], acc.want, t)
           \/ /\ acc.want = None /\ t = Flag("T") /\ new = acc
           \/ /\ acc.want = None /\ t.opt \in TakesValue /\ t = Flag(t.opt)
              /\ new = [acc EXCEPT !.want = t.opt]
           \/ /\ acc.want = None /\ t.opt \in TakesValue /\ t # Flag(t.opt)
              /\ new = Valued(acc, t.opt, t)
           \/ /\ acc.want = None /\ ~IsOption(t) /\ acc.dest = Flag(None)
              /\ new = [acc EXCEPT !.dest = t]
           \/ /\ acc.want = None /\ acc.dest # Flag(None) /\ t = Word("sudo")
              /\ new = [acc EXCEPT !.sudo = TRUE]
  <1> DEFINE new == Takes(acc, t)
  <1>1. CASE acc.want # None
    <2>1. acc.want \in TakesValue
      BY <1>1 DEF Parses, SudoIsApart
    <2>2. new = Wanted(acc, t)
      BY <1>1 DEF Takes
    <2>3. acc.want # "u"
      BY DEF SudoIsApart
    <2>4. ~IsOption(t) /\ new = Valued([acc EXCEPT !.want = None], acc.want, t)
      BY <2>2, <2>3, RefusedIsBad DEF Wanted
    <2> QED
      BY <2>1, <2>4
  <1>2. CASE acc.want = None /\ IsOption(t)
    <2>1. new = Option(acc, t)
      BY <1>2 DEF Takes
    <2> QED
      BY <1>2, <2>1, RefusedIsBad DEF Option
  <1>3. CASE acc.want = None /\ ~IsOption(t)
    <2>1. new = IF acc.dest = Flag(None) THEN [acc EXCEPT !.dest = t]
                ELSE If(t = Word("sudo"), acc, [acc EXCEPT !.sudo = TRUE])
      BY <1>3 DEF Takes
    <2> QED
      BY <1>3, <2>1, RefusedIsBad DEF If
  <1> QED
    BY <1>1, <1>2, <1>3

-----------------------------------------------------------------------------
(* What a line says, one token longer: what it said, and what the last     *)
(* token says if it is before sudo.                                        *)
Longs == {"user", "port", "identityfile", "proxyjump"}

LEMMA LongsHaveShorts ==
    /\ "o" \notin DOMAIN LongFor
    /\ \A long \in Longs : ShortFor(long) \subseteq TakesValue /\ "o" \notin ShortFor(long)
                           /\ long # ""
    /\ \A o \in DOMAIN LongFor, long \in Longs : o \in ShortFor(long) <=> LongFor[o] = long
    /\ \A o \in TakesValue : o \notin {None, Pair, "T"}
  BY DEF LongFor, ShortFor, Longs, TakesValue, None, Pair

LEMMA OneTokenMore ==
    ASSUME NEW S, NEW s \in Seq(S), NEW t \in S
    PROVE  LET r == Append(s, t)
               n == Len(s)
           IN
           /\ r \in Seq(S) /\ DOMAIN r = 1..(n + 1) /\ DOMAIN s = 1..n /\ n \in Nat
           /\ \A j \in 1..n : r[j] = s[j]
           /\ r[n + 1] = t
           /\ \A j \in 1..n : \A opts : Follow(r, j, opts) = Follow(s, j, opts)
           /\ \A j \in 1..n : Plain(r, j) = Plain(s, j)
           /\ \A j \in 1..n : Before(r, j) = Before(s, j)
           /\ \A j \in 1..n : \A long : Says(r, j, long) = Says(s, j, long)
  <1> DEFINE r == Append(s, t)
             n == Len(s)
  <1>1. /\ r \in Seq(S) /\ DOMAIN r = 1..(n + 1) /\ DOMAIN s = 1..n /\ n \in Nat
        /\ r[n + 1] = t /\ \A j \in 1..n : r[j] = s[j]
    OBVIOUS
  <1> HIDE DEF r, n
  <1>2. ASSUME NEW j \in 1..n, NEW opts PROVE Follow(r, j, opts) = Follow(s, j, opts)
    <2>1. j > 1 => r[j - 1] = s[j - 1]
      BY <1>1
    <2> QED
      BY <2>1 DEF Follow
  <1>3. \A j \in 1..n : Plain(r, j) = Plain(s, j)
    BY <1>1, <1>2 DEF Plain
  <1>4. ASSUME NEW j \in 1..n PROVE Before(r, j) = Before(s, j)
    <2>1. \A k \in 1..j : k \in 1..n
      BY <1>1
    <2> QED
      BY <1>3, <2>1 DEF Before
  <1>5. \A j \in 1..n : \A long : Says(r, j, long) = Says(s, j, long)
    BY <1>1, <1>2 DEF Says
  <1> QED
    BY <1>1, <1>2, <1>3, <1>4, <1>5 DEF r, n

LEMMA SaidMore ==
    ASSUME NEW S, NEW s \in Seq(S), NEW t \in S, NEW long
    PROVE  LET r == Append(s, t)
               n == Len(s)
           IN  SaidAs(r, long) = SaidAs(s, long) \cup
                   (IF Before(r, n + 1) /\ Says(r, n + 1, long) THEN {Whole(t)} ELSE {})
  <1> DEFINE r == Append(s, t)
             n == Len(s)
             Heard(u, j) == Before(u, j) /\ Says(u, j, long)
  <1>1. /\ DOMAIN r = 1..(n + 1) /\ DOMAIN s = 1..n /\ n \in Nat /\ r[n + 1] = t
        /\ \A j \in 1..n : r[j] = s[j] /\ Heard(r, j) = Heard(s, j)
    BY OneTokenMore
  <1>2. SaidAs(r, long) = {Whole(r[i]) : i \in {j \in 1..(n + 1) : Heard(r, j)}}
    BY <1>1 DEF SaidAs
  <1>3. SaidAs(s, long) = {Whole(s[i]) : i \in {j \in 1..n : Heard(s, j)}}
    BY <1>1 DEF SaidAs
  <1> HIDE DEF r, n, Heard
  <1>4. ASSUME NEW x PROVE x \in SaidAs(r, long) <=>
            x \in SaidAs(s, long) \/ (Heard(r, n + 1) /\ x = Whole(t))
    BY <1>1, <1>2, <1>3
  <1> QED
    BY <1>4 DEF r, n, Heard

-----------------------------------------------------------------------------
(* What a parse holds is what the line says.                               *)
Heard(tokens, acc) ==
    /\ ToSet(acc.users) = SaidAs(tokens, "user")
    /\ ToSet(acc.ports) = SaidAs(tokens, "port")
    /\ ToSet(acc.keys) = SaidAs(tokens, "identityfile")
    /\ acc.jump \in SaidAs(tokens, "proxyjump") \cup {None}
    /\ acc.jump = None <=> SaidAs(tokens, "proxyjump") = {}

(* Where it is in the line: the first plain word is the destination, the   *)
(* second is sudo, and an option that wants a value is the last token.     *)
Stands(tokens, acc) ==
    /\ acc.dest = Flag(None) =>
           ~acc.sudo /\ \A j \in DOMAIN tokens : ~Plain(tokens, j)
    /\ acc.dest # Flag(None) =>
           \E p \in DOMAIN tokens :
               /\ tokens[p] = acc.dest /\ Plain(tokens, p) /\ Before(tokens, p)
               /\ ~acc.sudo => \A j \in DOMAIN tokens : Plain(tokens, j) => j = p
    /\ acc.sudo => ~Before(tokens, Len(tokens))
    /\ ~acc.sudo => IF acc.want = None THEN ~Follow(tokens, Len(tokens) + 1, TakesValue)
                    ELSE Len(tokens) > 0 /\ tokens[Len(tokens)] = Flag(acc.want)

IsRead(tokens, acc) ==
    /\ acc \in Parses /\ SudoIsApart(acc)
    /\ acc.dest.opt = None => Heard(tokens, acc) /\ Stands(tokens, acc)

LEMMA ToSetOfOneMore ==
    ASSUME NEW S, NEW s \in Seq(S), NEW x \in S
    PROVE  ToSet(Append(s, x)) = ToSet(s) \cup {x}
  <1> DEFINE r == Append(s, x)
             n == Len(s)
  <1>1. /\ DOMAIN r = 1..(n + 1) /\ DOMAIN s = 1..n /\ n \in Nat
        /\ r[n + 1] = x /\ \A j \in 1..n : r[j] = s[j]
    OBVIOUS
  <1> HIDE DEF r, n
  <1>2. ASSUME NEW y PROVE (\E j \in 1..(n + 1) : r[j] = y) <=> (\E j \in 1..n : s[j] = y) \/ y = x
    <2>1. \A j \in 1..(n + 1) : j \in 1..n \/ j = n + 1
      BY <1>1
    <2>2. n + 1 \in 1..(n + 1) /\ \A j \in 1..n : j \in 1..(n + 1)
      BY <1>1
    <2> QED
      BY <1>1, <2>1, <2>2
  <1> QED
    BY <1>1, <1>2 DEF ToSet, r

(* A token that says nothing of who and where, or says it after sudo.      *)
LEMMA NothingHeard ==
    ASSUME NEW S, NEW s \in Seq(S), NEW t \in S, NEW acc, NEW new, Heard(s, acc),
           new.users = acc.users, new.ports = acc.ports, new.keys = acc.keys, new.jump = acc.jump,
           Before(Append(s, t), Len(s) + 1) =>
               \A long \in Longs : ~Says(Append(s, t), Len(s) + 1, long)
    PROVE  Heard(Append(s, t), new)
  <1>1. ASSUME NEW long \in Longs PROVE SaidAs(Append(s, t), long) = SaidAs(s, long)
    <2> DEFINE r == Append(s, t)
    <2>1. SaidAs(r, long) = SaidAs(s, long) \cup
              (IF Before(r, Len(s) + 1) /\ Says(r, Len(s) + 1, long) THEN {Whole(t)} ELSE {})
      BY SaidMore
    <2>2. ~(Before(r, Len(s) + 1) /\ Says(r, Len(s) + 1, long))
      OBVIOUS
    <2> HIDE DEF r
    <2> QED
      BY <2>1, <2>2 DEF r
  <1> QED
    BY <1>1 DEF Heard, Longs

(* A value.                                                                *)
LEMMA ValueHeard ==
    ASSUME NEW S, NEW s \in Seq(S), NEW t \in S, NEW acc \in Parses, NEW key,
           Heard(s, acc), ~Named(acc, key, Whole(t)).bad,
           Before(Append(s, t), Len(s) + 1),
           \A long \in Longs : Says(Append(s, t), Len(s) + 1, long) <=> key = long
    PROVE  Heard(Append(s, t), Named(acc, key, Whole(t)))
  <1> DEFINE v == Whole(t)
             new == Named(acc, key, v)
             r == Append(s, t)
  <1>1. \A long \in Longs :
            SaidAs(r, long) = SaidAs(s, long) \cup (IF key = long THEN {v} ELSE {})
    <2> SUFFICES ASSUME NEW long \in Longs
                 PROVE  SaidAs(r, long) = SaidAs(s, long) \cup (IF key = long THEN {v} ELSE {})
      OBVIOUS
    <2>1. SaidAs(r, long) = SaidAs(s, long) \cup
              (IF Before(r, Len(s) + 1) /\ Says(r, Len(s) + 1, long) THEN {v} ELSE {})
      BY SaidMore
    <2>2. Before(r, Len(s) + 1) /\ (Says(r, Len(s) + 1, long) <=> key = long)
      OBVIOUS
    <2> QED
      BY <2>1, <2>2
  <1> HIDE DEF r, v
  <1>2. /\ new.users = IF key = "user" THEN Append(acc.users, v) ELSE acc.users
        /\ new.ports = IF key = "port" THEN Append(acc.ports, v) ELSE acc.ports
        /\ new.keys = IF key = "identityfile" THEN Append(acc.keys, v) ELSE acc.keys
        /\ new.jump = IF key = "proxyjump" THEN v ELSE acc.jump
        /\ key = "proxyjump" => v \in Jumps
        /\ new \in Parses
    BY NamedTakes DEF v
  <1> HIDE DEF new
  <1>3. \A long \in Longs :
            SaidAs(r, long) = IF key = long THEN SaidAs(s, long) \cup {v} ELSE SaidAs(s, long)
    BY <1>1
  <1>4. ToSet(new.users) = SaidAs(r, "user")
    <2>1. CASE key = "user"
      <3>1. v \in Users /\ acc.users \in Seq(Users)
        <4>1. new.users = Append(acc.users, v) /\ new.users \in Seq(Users) /\ acc.users \in Seq(Users)
          BY <1>2, <2>1 DEF Parses
        <4>2. new.users[Len(acc.users) + 1] = v /\ Len(acc.users) + 1 \in 1..Len(new.users)
          BY <4>1
        <4> QED
          BY <4>1, <4>2
      <3>2. ToSet(Append(acc.users, v)) = ToSet(acc.users) \cup {v}
        BY <3>1, ToSetOfOneMore
      <3> QED
        BY <1>2, <1>3, <2>1, <3>2 DEF Heard, Longs
    <2>2. CASE key # "user"
      BY <1>2, <1>3, <2>2 DEF Heard, Longs
    <2> QED
      BY <2>1, <2>2
  <1>5. ToSet(new.ports) = SaidAs(r, "port")
    <2>1. CASE key = "port"
      <3>1. v \in Ports /\ acc.ports \in Seq(Ports)
        <4>1. new.ports = Append(acc.ports, v) /\ new.ports \in Seq(Ports) /\ acc.ports \in Seq(Ports)
          BY <1>2, <2>1 DEF Parses
        <4>2. new.ports[Len(acc.ports) + 1] = v /\ Len(acc.ports) + 1 \in 1..Len(new.ports)
          BY <4>1
        <4> QED
          BY <4>1, <4>2
      <3>2. ToSet(Append(acc.ports, v)) = ToSet(acc.ports) \cup {v}
        BY <3>1, ToSetOfOneMore
      <3> QED
        BY <1>2, <1>3, <2>1, <3>2 DEF Heard, Longs
    <2>2. CASE key # "port"
      BY <1>2, <1>3, <2>2 DEF Heard, Longs
    <2> QED
      BY <2>1, <2>2
  <1>6. ToSet(new.keys) = SaidAs(r, "identityfile")
    <2>1. CASE key = "identityfile"
      <3>1. v \in KeyPaths /\ acc.keys \in Seq(KeyPaths)
        <4>1. /\ new.keys = Append(acc.keys, v) /\ new.keys \in Seq(KeyPaths)
              /\ acc.keys \in Seq(KeyPaths)
          BY <1>2, <2>1 DEF Parses
        <4>2. new.keys[Len(acc.keys) + 1] = v /\ Len(acc.keys) + 1 \in 1..Len(new.keys)
          BY <4>1
        <4> QED
          BY <4>1, <4>2
      <3>2. ToSet(Append(acc.keys, v)) = ToSet(acc.keys) \cup {v}
        BY <3>1, ToSetOfOneMore
      <3> QED
        BY <1>2, <1>3, <2>1, <3>2 DEF Heard, Longs
    <2>2. CASE key # "identityfile"
      BY <1>2, <1>3, <2>2 DEF Heard, Longs
    <2> QED
      BY <2>1, <2>2
  <1>7. /\ new.jump \in SaidAs(r, "proxyjump") \cup {None}
        /\ new.jump = None <=> SaidAs(r, "proxyjump") = {}
    <2>1. CASE key = "proxyjump"
      BY <1>2, <1>3, <2>1, RecipeAssumption DEF Longs
    <2>2. CASE key # "proxyjump"
      BY <1>2, <1>3, <2>2 DEF Heard, Longs
    <2> QED
      BY <2>1, <2>2
  <1> QED
    BY <1>4, <1>5, <1>6, <1>7 DEF Heard, r, new, v

(* The next token.  Of the plain words before it there are none, or one    *)
(* that is the destination, or two.                                        *)
LEMMA NextPlain ==
    ASSUME NEW S, NEW s \in Seq(S), NEW t \in S, NEW acc, Stands(s, acc)
    PROVE  LET r == Append(s, t)
               n == Len(s)
           IN
           /\ acc.sudo => ~Before(r, n + 1)
           /\ ~acc.sudo /\ (~Plain(r, n + 1) \/ acc.dest = Flag(None)) => Before(r, n + 1)
           /\ acc.dest # Flag(None) /\ Plain(r, n + 1) => ~Before(r, n + 1)
  <1> DEFINE r == Append(s, t)
             n == Len(s)
  <1>1. /\ DOMAIN r = 1..(n + 1) /\ DOMAIN s = 1..n /\ n \in Nat
        /\ \A j \in 1..n : Plain(r, j) = Plain(s, j)
        /\ \A j \in 1..n : Before(r, j) = Before(s, j)
    BY OneTokenMore
  <1> HIDE DEF r, n
  <1>2. \A j \in 1..(n + 1) : j \in 1..n \/ j = n + 1
    BY <1>1
  <1>3. ASSUME acc.sudo PROVE ~Before(r, n + 1)
    <2>1. ~Before(s, n)
      BY <1>3 DEF Stands, n
    <2>2. PICK j \in 1..n, k \in 1..n : Plain(s, j) /\ Plain(s, k) /\ j # k
      BY <2>1 DEF Before
    <2>3. j \in 1..(n + 1) /\ k \in 1..(n + 1) /\ Plain(r, j) /\ Plain(r, k)
      BY <1>1, <2>2
    <2> QED
      BY <2>2, <2>3 DEF Before
  <1>4. ASSUME ~acc.sudo, ~Plain(r, n + 1) \/ acc.dest = Flag(None) PROVE Before(r, n + 1)
    <2>1. CASE acc.dest = Flag(None)
      <3>1. \A j \in 1..n : ~Plain(r, j)
        BY <1>1, <2>1 DEF Stands
      <3> QED
        BY <1>2, <3>1 DEF Before
    <2>2. CASE acc.dest # Flag(None)
      <3>1. PICK p \in 1..n : \A j \in 1..n : Plain(r, j) => j = p
        BY <1>1, <1>4, <2>2 DEF Stands
      <3> QED
        BY <1>2, <1>4, <2>2, <3>1 DEF Before
    <2> QED
      BY <2>1, <2>2
  <1>5. ASSUME acc.dest # Flag(None), Plain(r, n + 1) PROVE ~Before(r, n + 1)
    <2>1. PICK p \in 1..n : Plain(r, p)
      BY <1>1, <1>5 DEF Stands
    <2>2. p \in 1..(n + 1) /\ n + 1 \in 1..(n + 1) /\ p # n + 1
      BY <1>1
    <2> QED
      BY <1>5, <2>1, <2>2 DEF Before
  <1> QED
    BY <1>3, <1>4, <1>5 DEF r, n

(* A value has its place: it is no plain word, and nothing waits for it.   *)
LEMMA ValueStands ==
    ASSUME NEW S, NEW s \in Seq(S), NEW t \in S, NEW acc, NEW new, Stands(s, acc),
           ~acc.sudo, ~new.sudo, new.want = None, new.dest = acc.dest,
           ~Plain(Append(s, t), Len(s) + 1), \A o \in TakesValue : t # Flag(o)
    PROVE  Stands(Append(s, t), new)
  <1> DEFINE r == Append(s, t)
             n == Len(s)
  <1>1. /\ DOMAIN r = 1..(n + 1) /\ DOMAIN s = 1..n /\ n \in Nat /\ r[n + 1] = t
        /\ Len(r) = n + 1
        /\ \A j \in 1..n : r[j] = s[j]
        /\ \A j \in 1..n : Plain(r, j) = Plain(s, j)
        /\ \A j \in 1..n : Before(r, j) = Before(s, j)
    BY OneTokenMore
  <1>2. ~Plain(r, n + 1)
    OBVIOUS
  <1> HIDE DEF r, n
  <1>3. \A j \in 1..(n + 1) : j \in 1..n \/ j = n + 1
    BY <1>1
  <1>4. ~Follow(r, (n + 1) + 1, TakesValue)
    BY <1>1 DEF Follow
  <1>5. acc.dest = Flag(None) => \A j \in 1..(n + 1) : ~Plain(r, j)
    BY <1>1, <1>2, <1>3 DEF Stands
  <1>6. ASSUME acc.dest # Flag(None)
        PROVE  \E p \in 1..(n + 1) :
                   /\ r[p] = acc.dest /\ Plain(r, p) /\ Before(r, p)
                   /\ \A j \in 1..(n + 1) : Plain(r, j) => j = p
    <2>1. PICK p \in 1..n : /\ s[p] = acc.dest /\ Plain(s, p) /\ Before(s, p)
                            /\ \A j \in 1..n : Plain(s, j) => j = p
      BY <1>1, <1>6 DEF Stands
    <2>2. p \in 1..(n + 1) /\ r[p] = acc.dest /\ Plain(r, p) /\ Before(r, p)
      BY <1>1, <2>1
    <2> QED
      BY <1>1, <1>2, <1>3, <2>1, <2>2
  <1>7. Len(r) = n + 1 /\ DOMAIN r = 1..(n + 1)
    BY <1>1
  <1> QED
    BY <1>4, <1>5, <1>6, <1>7 DEF Stands, r

LEMMA ValueIsTaken ==
    ASSUME NEW acc \in Parses, acc.want = None, ~acc.sudo, SudoIsApart(acc),
           NEW opt \in TakesValue, NEW t, ~Valued(acc, opt, t).bad
    PROVE  LET new == Valued(acc, opt, t) IN
           /\ new = Named(acc, KeyOf(opt, t), Whole(t))
           /\ opt = "o" => t.opt # None
           /\ opt # "o" => t.opt # Pair
           /\ new \in Parses /\ SudoIsApart(new) /\ ~new.sudo /\ new.want = None /\ new.dest = acc.dest
  <1>1. /\ Valued(acc, opt, t) = Named(acc, KeyOf(opt, t), Whole(t))
        /\ opt = "o" => t.opt # None
        /\ opt # "o" => t.opt # Pair
    BY ValuedTakes
  <1>2. ~Named(acc, KeyOf(opt, t), Whole(t)).bad
    BY <1>1
  <1> DEFINE new == Named(acc, KeyOf(opt, t), Whole(t))
  <1>3. /\ new \in Parses /\ new.want = acc.want /\ new.dest = acc.dest /\ new.sudo = acc.sudo
        /\ new.runAs = acc.runAs /\ new.quiet = acc.quiet /\ new.home = acc.home
    BY <1>2, NamedTakes
  <1> HIDE DEF new
  <1>4. SudoIsApart(new)
    BY <1>3 DEF SudoIsApart
  <1> QED
    BY <1>1, <1>3, <1>4 DEF new

(* What the next token says, whatever the parse makes of it.               *)
LEMMA ValueSays ==
    ASSUME NEW S, NEW s \in Seq(S), NEW t \in S, NEW opt \in TakesValue,
           \/ /\ Len(s) > 0 /\ s[Len(s)] = Flag(opt) /\ t.opt \in {None, Pair}
           \/ /\ t.opt = opt /\ t # Flag(opt) /\ ~Follow(s, Len(s) + 1, TakesValue),
           opt = "o" => t.opt # None, opt # "o" => t.opt # Pair
    PROVE  /\ \A long \in Longs :
                  Says(Append(s, t), Len(s) + 1, long) <=> KeyOf(opt, t) = long
           /\ ~Plain(Append(s, t), Len(s) + 1)
           /\ \A o \in TakesValue : t # Flag(o)
  <1> DEFINE r == Append(s, t)
             n == Len(s)
  <1>1. /\ n \in Nat /\ r[n + 1] = t /\ \A j \in 1..n : r[j] = s[j]
        /\ n + 1 > 1 <=> n > 0
        /\ (n + 1) - 1 = n /\ n > 0 => n \in 1..n
    BY OneTokenMore
  <1>2. \A opts : Follow(r, n + 1, opts) <=> n > 0 /\ \E o \in opts : s[n] = Flag(o)
    BY <1>1 DEF Follow
  <1>3. \A o : Flag(o).opt = o
    BY DEF Flag, Token
  <1>4. Follow(s, n + 1, TakesValue) <=> n > 0 /\ \E o \in TakesValue : s[n] = Flag(o)
    BY <1>1 DEF Follow
  <1>5. /\ opt \notin {None, Pair}
        /\ opt = "o" \/ opt \in DOMAIN LongFor
        /\ \A long \in Longs : None \notin ShortFor(long) /\ Pair \notin ShortFor(long)
        /\ "o" \notin {None, Pair}
    <2>1. opt = "o" \/ opt \in DOMAIN LongFor
      BY DEF TakesValue
    <2>2. "o" \notin {None, Pair}
      BY DEF None, Pair
    <2> QED
      BY <2>1, <2>2, LongsHaveShorts
  <1> HIDE DEF r, n
  <1>6. CASE n > 0 /\ s[n] = Flag(opt) /\ t.opt \in {None, Pair}
    <2>1. \A opts : Follow(r, n + 1, opts) <=> opt \in opts
      BY <1>2, <1>3, <1>6
    <2>2. ~Plain(r, n + 1)
      BY <2>1 DEF Plain
    <2>3. \A o \in TakesValue : t # Flag(o)
      BY <1>3, <1>6, LongsHaveShorts
    <2>4. ASSUME NEW long \in Longs PROVE Says(r, n + 1, long) <=> KeyOf(opt, t) = long
      <3>1. t.opt \notin ShortFor(long) /\ t.opt # "o"
        BY <1>5, <1>6
      <3>2. Says(r, n + 1, long) <=> (t.opt = Pair /\ t.key = long) \/ opt \in ShortFor(long)
        BY <1>1, <2>1, <3>1 DEF Says
      <3>3. CASE opt = "o"
        BY <1>6, <3>2, <3>3, LongsHaveShorts DEF KeyOf
      <3>4. CASE opt # "o"
        BY <1>5, <1>6, <3>2, <3>4, LongsHaveShorts DEF KeyOf
      <3> QED
        BY <3>3, <3>4
    <2> QED
      BY <2>2, <2>3, <2>4 DEF r, n
  <1>7. CASE t.opt = opt /\ t # Flag(opt) /\ ~Follow(s, n + 1, TakesValue)
    <2>1. ~Follow(r, n + 1, TakesValue)
      BY <1>2, <1>4, <1>7
    <2>2. ~Plain(r, n + 1)
      BY <1>1, <1>5, <1>7 DEF Plain, IsOption
    <2>3. \A o \in TakesValue : t # Flag(o)
      BY <1>3, <1>7
    <2>4. ASSUME NEW long \in Longs PROVE Says(r, n + 1, long) <=> KeyOf(opt, t) = long
      <3>1. ~Follow(r, n + 1, ShortFor(long))
        BY <1>2, <2>1, LongsHaveShorts
      <3>2. Says(r, n + 1, long) <=> (opt \in {"o", Pair} /\ t.key = long) \/ opt \in ShortFor(long)
        BY <1>1, <1>7, <3>1 DEF Says
      <3>3. CASE opt = "o"
        BY <3>2, <3>3, LongsHaveShorts DEF KeyOf
      <3>4. CASE opt # "o"
        BY <1>5, <3>2, <3>4, LongsHaveShorts DEF KeyOf
      <3> QED
        BY <3>3, <3>4
    <2> QED
      BY <2>2, <2>3, <2>4 DEF r, n
  <1> QED
    BY <1>6, <1>7 DEF n

LEMMA TypedAreDests == \A t \in AccessTokens : t \in Dests
  <1> DEFINE others == {Flag(None)} \cup {Word(h) : h \in Hosts} \cup {At(u, h) : u \in Users, h \in Hosts}
  <1>1. Dests = AccessTokens \cup others
    BY DEF Dests
  <1> HIDE DEF others
  <1> QED
    BY <1>1

LEMMA TokenIsRead ==
    ASSUME NEW s \in Seq(AccessTokens), NEW t \in AccessTokens, NEW acc, IsRead(s, acc), ~acc.bad,
           ~Takes(acc, t).bad
    PROVE  IsRead(Append(s, t), Takes(acc, t))
  <1> DEFINE r == Append(s, t)
             n == Len(s)
             new == Takes(acc, t)
  <1>1. acc \in Parses /\ SudoIsApart(acc)
    BY DEF IsRead
  <1>2. acc.dest.opt = None => Heard(s, acc) /\ Stands(s, acc)
    BY DEF IsRead
  <1>3. /\ DOMAIN r = 1..(n + 1) /\ DOMAIN s = 1..n /\ n \in Nat /\ r[n + 1] = t /\ Len(r) = n + 1
        /\ \A j \in 1..n : r[j] = s[j]
        /\ \A j \in 1..n : Plain(r, j) = Plain(s, j)
        /\ \A j \in 1..n : Before(r, j) = Before(s, j)
        /\ \A j \in 1..(n + 1) : j \in 1..n \/ j = n + 1
    BY OneTokenMore
  <1>4. \A o : Flag(o).opt = o /\ Flag(o).key = ""
    BY DEF Flag, Token
  <1>5. t # Flag(None) /\ t \in Dests
    <2>1. t # Flag(None)
      BY RecipeAssumption, Zenon
    <2>2. t \in Dests
      BY TypedAreDests, Zenon
    <2> QED
      BY <2>1, <2>2
  <1>6. ~new.bad
    OBVIOUS
  <1>7. /\ n > 0 => n \in 1..n
        /\ \A opts : Follow(s, n + 1, opts) <=> n > 0 /\ \E o \in opts : s[n] = Flag(o)
        /\ \A opts : Follow(r, n + 1, opts) <=> n > 0 /\ \E o \in opts : s[n] = Flag(o)
        /\ \A opts : Follow(r, (n + 1) + 1, opts) <=> \E o \in opts : t = Flag(o)
    <2> HIDE DEF r, n, new
    <2>1. /\ n > 0 => n \in 1..n
          /\ n + 1 > 1 <=> n > 0
          /\ (n + 1) - 1 = n /\ ((n + 1) + 1) - 1 = n + 1 /\ (n + 1) + 1 > 1
      BY <1>3
    <2>2. \A opts : Follow(s, n + 1, opts) <=> n > 0 /\ \E o \in opts : s[n] = Flag(o)
      BY <2>1 DEF Follow
    <2>3. \A opts : Follow(r, n + 1, opts) <=> n > 0 /\ \E o \in opts : s[n] = Flag(o)
      BY <1>3, <2>1 DEF Follow
    <2>4. \A opts : Follow(r, (n + 1) + 1, opts) <=> \E o \in opts : t = Flag(o)
      BY <1>3, <2>1 DEF Follow
    <2> QED
      BY <2>1, <2>2, <2>3, <2>4
  <1>8. CASE acc.sudo
    <2>1. new \in Parses /\ new.sudo /\ SudoIsApart(new) /\ SameSaid(new, acc)
      BY <1>1, <1>6, <1>8, SudoTakes DEF SudoIsApart
    <2> HIDE DEF new
    <2>2. ASSUME new.dest.opt = None PROVE Heard(r, new) /\ Stands(r, new)
      <3>1. Heard(s, acc) /\ Stands(s, acc)
        BY <1>2, <2>1, <2>2 DEF SameSaid
      <3>2. ~Before(r, n + 1)
        BY <1>8, <3>1, NextPlain
      <3>3. Heard(r, new)
        BY <2>1, <3>1, <3>2, NothingHeard DEF SameSaid
      <3>4. acc.dest # Flag(None) /\ new.dest = acc.dest
        BY <1>8, <2>1, <3>1 DEF Stands, SameSaid
      <3>5. PICK p \in 1..n : s[p] = acc.dest /\ Plain(s, p) /\ Before(s, p)
        BY <1>3, <3>1, <3>4 DEF Stands
      <3>6. p \in 1..(n + 1) /\ r[p] = new.dest /\ Plain(r, p) /\ Before(r, p)
        BY <1>3, <3>4, <3>5
      <3> HIDE DEF r, n
      <3>7. Stands(r, new)
        BY <1>3, <2>1, <3>2, <3>4, <3>6 DEF Stands
      <3> QED
        BY <3>3, <3>7
    <2> QED
      BY <2>1, <2>2 DEF IsRead, new
  <1>9. CASE ~acc.sudo /\ acc.want \in TakesValue
    <2> DEFINE got == [acc EXCEPT !.want = None]
    <2>1. ~IsOption(t) /\ new = Valued(got, acc.want, t)
      BY <1>1, <1>6, <1>9, TakesBeforeSudo, LongsHaveShorts
    <2>2. /\ got \in Parses /\ got.want = None /\ ~got.sudo /\ SudoIsApart(got)
          /\ got.users = acc.users /\ got.ports = acc.ports /\ got.keys = acc.keys
          /\ got.jump = acc.jump /\ got.dest = acc.dest
      BY <1>1, <1>9 DEF Parses, SudoIsApart, None
    <2> HIDE DEF new, got
    <2>3. /\ new = Named(got, KeyOf(acc.want, t), Whole(t))
          /\ acc.want = "o" => t.opt # None
          /\ acc.want # "o" => t.opt # Pair
          /\ new \in Parses /\ SudoIsApart(new) /\ ~new.sudo /\ new.want = None /\ new.dest = got.dest
      BY <1>6, <1>9, <2>1, <2>2, ValueIsTaken
    <2>4. ASSUME new.dest.opt = None PROVE Heard(r, new) /\ Stands(r, new)
      <3>1. Heard(s, acc) /\ Stands(s, acc)
        BY <1>2, <2>2, <2>3, <2>4
      <3>2. Len(s) > 0 /\ s[Len(s)] = Flag(acc.want) /\ t.opt \in {None, Pair}
        BY <1>9, <2>1, <3>1, LongsHaveShorts DEF Stands, IsOption
      <3>3. /\ \A long \in Longs : Says(r, n + 1, long) <=> KeyOf(acc.want, t) = long
            /\ ~Plain(r, n + 1)
            /\ \A o \in TakesValue : t # Flag(o)
        BY <1>9, <2>3, <3>2, ValueSays
      <3>4. Stands(r, new)
        BY <1>9, <2>2, <2>3, <3>1, <3>3, ValueStands
      <3>5. Before(r, n + 1)
        BY <1>9, <3>1, <3>3, NextPlain
      <3>6. Heard(s, got)
        BY <2>2, <3>1 DEF Heard
      <3>7. ~Named(got, KeyOf(acc.want, t), Whole(t)).bad
        BY <1>6, <2>3
      <3>8. Heard(r, new)
        BY <2>2, <2>3, <3>3, <3>5, <3>6, <3>7, ValueHeard
      <3> QED
        BY <3>4, <3>8
    <2> QED
      BY <2>3, <2>4 DEF IsRead, new
  <1>10. CASE ~acc.sudo /\ acc.want = None /\ t.opt \in TakesValue /\ t # Flag(t.opt)
    <2>1. new = Valued(acc, t.opt, t)
      <3>1. IsOption(t)
        BY <1>10, LongsHaveShorts DEF IsOption
      <3>2. t # Word("sudo") /\ t # Flag("T")
        <4>1. Word("sudo").opt = None
          BY DEF Word, Token
        <4> QED
          BY <1>4, <1>10, <4>1, LongsHaveShorts
      <3> QED
        BY <1>1, <1>6, <1>10, <3>1, <3>2, TakesBeforeSudo, LongsHaveShorts
    <2> HIDE DEF new
    <2>2. /\ new = Named(acc, KeyOf(t.opt, t), Whole(t))
          /\ t.opt = "o" => t.opt # None
          /\ t.opt # "o" => t.opt # Pair
          /\ new \in Parses /\ SudoIsApart(new) /\ ~new.sudo /\ new.want = None /\ new.dest = acc.dest
      BY <1>1, <1>6, <1>10, <2>1, ValueIsTaken
    <2>3. ASSUME new.dest.opt = None PROVE Heard(r, new) /\ Stands(r, new)
      <3>1. Heard(s, acc) /\ Stands(s, acc)
        BY <1>2, <2>2, <2>3
      <3>2. ~Follow(s, Len(s) + 1, TakesValue)
        BY <1>10, <3>1 DEF Stands
      <3>3. /\ \A long \in Longs : Says(r, n + 1, long) <=> KeyOf(t.opt, t) = long
            /\ ~Plain(r, n + 1)
            /\ \A o \in TakesValue : t # Flag(o)
        BY <1>10, <2>2, <3>2, ValueSays
      <3>4. Stands(r, new)
        BY <1>10, <2>2, <3>1, <3>3, ValueStands
      <3>5. Before(r, n + 1)
        BY <1>10, <3>1, <3>3, NextPlain
      <3>6. ~Named(acc, KeyOf(t.opt, t), Whole(t)).bad
        BY <1>6, <2>2
      <3>7. Heard(r, new)
        BY <1>1, <2>2, <3>1, <3>3, <3>5, <3>6, ValueHeard
      <3> QED
        BY <3>4, <3>7
    <2> QED
      BY <2>2, <2>3 DEF IsRead, new
  <1>11. CASE ~acc.sudo /\ acc.want = None /\ ~(t.opt \in TakesValue /\ t # Flag(t.opt))
    <2>1. \/ t = Flag("T") /\ new = acc
          \/ t.opt \in TakesValue /\ t = Flag(t.opt) /\ new = [acc EXCEPT !.want = t.opt]
          \/ ~IsOption(t) /\ acc.dest = Flag(None) /\ new = [acc EXCEPT !.dest = t]
          \/ acc.dest # Flag(None) /\ t = Word("sudo") /\ new = [acc EXCEPT !.sudo = TRUE]
      BY <1>1, <1>6, <1>11, TakesBeforeSudo, LongsHaveShorts
    <2> HIDE DEF new, r, n
    <2>2. CASE t = Flag("T") /\ new = acc
      <3>1. ASSUME acc.dest.opt = None PROVE Heard(r, new) /\ Stands(r, new)
        <4>1. Heard(s, acc) /\ Stands(s, acc)
          BY <1>2, <3>1
        <4>2. ~Follow(s, n + 1, TakesValue) /\ ~Follow(r, n + 1, TakesValue)
          BY <1>7, <1>11, <4>1 DEF Stands, n
        <4>3. t.opt = "T" /\ \A o \in TakesValue : t # Flag(o)
          BY <1>4, <2>2, LongsHaveShorts
        <4>4. ~Plain(r, n + 1)
          BY <1>3, <4>3 DEF Plain, IsOption, None, Pair
        <4>5. \A long \in Longs : ~Says(r, n + 1, long)
          <5> SUFFICES ASSUME NEW long \in Longs PROVE ~Says(r, n + 1, long)
            OBVIOUS
          <5>1. ShortFor(long) \subseteq TakesValue /\ "T" \notin TakesValue
            BY LongsHaveShorts
          <5>2. ~Follow(r, n + 1, ShortFor(long))
            BY <1>7, <4>2, <5>1
          <5>3. t.opt \notin {"o", Pair} /\ t.opt \notin ShortFor(long)
            BY <4>3, <5>1 DEF Pair
          <5> QED
            BY <1>3, <5>2, <5>3 DEF Says
        <4>6. Heard(r, new)
          BY <2>2, <4>1, <4>5, NothingHeard DEF r, n
        <4>7. Stands(r, new)
          BY <1>11, <2>2, <4>1, <4>3, <4>4, ValueStands DEF r, n
        <4> QED
          BY <4>6, <4>7
      <3> QED
        BY <1>1, <2>2, <3>1 DEF IsRead, new, r
    <2>3. CASE t.opt \in TakesValue /\ t = Flag(t.opt) /\ new = [acc EXCEPT !.want = t.opt]
      <3>1. /\ new \in Parses /\ SudoIsApart(new) /\ ~new.sudo /\ new.want = t.opt
            /\ new.users = acc.users /\ new.ports = acc.ports /\ new.keys = acc.keys
            /\ new.jump = acc.jump /\ new.dest = acc.dest
        BY <1>1, <1>11, <2>3 DEF Parses, SudoIsApart, TakesValue, LongFor
      <3>2. ASSUME acc.dest.opt = None PROVE Heard(r, new) /\ Stands(r, new)
        <4>1. Heard(s, acc) /\ Stands(s, acc)
          BY <1>2, <3>2
        <4>2. ~Follow(s, n + 1, TakesValue) /\ ~Follow(r, n + 1, TakesValue)
          BY <1>7, <1>11, <4>1 DEF Stands, n
        <4>3. ~Plain(r, n + 1)
          BY <1>3, <2>3, LongsHaveShorts DEF Plain, IsOption
        <4>4. \A long \in Longs : ~Says(r, n + 1, long)
          <5> SUFFICES ASSUME NEW long \in Longs PROVE ~Says(r, n + 1, long)
            OBVIOUS
          <5>1. ShortFor(long) \subseteq TakesValue /\ long # ""
            BY LongsHaveShorts
          <5>2. ~Follow(r, n + 1, ShortFor(long))
            BY <1>7, <4>2, <5>1
          <5>3. t.key = ""
            BY <1>4, <2>3
          <5> QED
            BY <1>3, <2>3, <5>1, <5>2, <5>3 DEF Says
        <4>5. Heard(r, new)
          BY <3>1, <4>1, <4>4, NothingHeard DEF r, n
        <4>6. acc.dest = Flag(None) => \A j \in 1..(n + 1) : ~Plain(r, j)
          BY <1>3, <4>1, <4>3 DEF Stands
        <4>7. ASSUME acc.dest # Flag(None)
              PROVE  \E p \in 1..(n + 1) :
                         /\ r[p] = acc.dest /\ Plain(r, p) /\ Before(r, p)
                         /\ \A j \in 1..(n + 1) : Plain(r, j) => j = p
          <5>1. PICK p \in 1..n : /\ s[p] = acc.dest /\ Plain(s, p) /\ Before(s, p)
                                  /\ \A j \in 1..n : Plain(s, j) => j = p
            BY <1>3, <1>11, <4>1, <4>7 DEF Stands
          <5>2. p \in 1..(n + 1) /\ r[p] = acc.dest /\ Plain(r, p) /\ Before(r, p)
            BY <1>3, <5>1
          <5> QED
            BY <1>3, <4>3, <5>1, <5>2
        <4>8. new.want # None /\ Len(r) > 0 /\ r[Len(r)] = Flag(new.want)
          <5>1. t.opt # None
            BY <2>3, LongsHaveShorts, Zenon
          <5>2. r[n + 1] = Flag(t.opt)
            BY <1>3, <2>3, Zenon
          <5>3. n + 1 > 0
            BY <1>3
          <5> QED
            BY <1>3, <3>1, <5>1, <5>2, <5>3
        <4>9. Stands(r, new)
          BY <1>3, <3>1, <4>6, <4>7, <4>8 DEF Stands
        <4> QED
          BY <4>5, <4>9
      <3> QED
        BY <3>1, <3>2 DEF IsRead, new, r
    <2>4. CASE ~IsOption(t) /\ acc.dest = Flag(None) /\ new = [acc EXCEPT !.dest = t]
      <3>1. /\ new \in Parses /\ SudoIsApart(new) /\ ~new.sudo /\ new.want = None
            /\ new.users = acc.users /\ new.ports = acc.ports /\ new.keys = acc.keys
            /\ new.jump = acc.jump /\ new.dest = t
        BY <1>1, <1>5, <1>11, <2>4 DEF Parses, SudoIsApart
      <3>2. ASSUME new.dest.opt = None PROVE Heard(r, new) /\ Stands(r, new)
        <4>1. Heard(s, acc) /\ Stands(s, acc)
          BY <1>2, <1>4, <2>4
        <4>2. ~Follow(s, n + 1, TakesValue) /\ ~Follow(r, n + 1, TakesValue)
          BY <1>7, <1>11, <4>1 DEF Stands, n
        <4>3. Plain(r, n + 1)
          BY <1>3, <2>4, <4>2 DEF Plain
        <4>4. Before(r, n + 1)
          BY <1>11, <2>4, <4>1, NextPlain DEF r, n
        <4>5. \A long \in Longs : ~Says(r, n + 1, long)
          <5> SUFFICES ASSUME NEW long \in Longs PROVE ~Says(r, n + 1, long)
            OBVIOUS
          <5>1. ShortFor(long) \subseteq TakesValue /\ None \notin TakesValue
            BY LongsHaveShorts
          <5>2. ~Follow(r, n + 1, ShortFor(long))
            BY <1>7, <4>2, <5>1
          <5>3. t.opt = None /\ None \notin {"o", Pair}
            BY <3>1, <3>2 DEF None, Pair
          <5> QED
            BY <1>3, <5>1, <5>2, <5>3 DEF Says
        <4>6. Heard(r, new)
          BY <3>1, <4>1, <4>5, NothingHeard DEF r, n
        <4>7. \A o \in TakesValue : t # Flag(o)
          <5>1. t.opt = None /\ None \notin TakesValue
            BY <3>1, <3>2, LongsHaveShorts
          <5> QED
            BY <1>4, <5>1
        <4>8. \A j \in 1..(n + 1) : Plain(r, j) => j = n + 1
          BY <1>3, <2>4, <4>1 DEF Stands
        <4>9. ~Follow(r, (n + 1) + 1, TakesValue)
          BY <1>7, <4>7
        <4>10. Stands(r, new)
          <5>1. n + 1 \in 1..(n + 1) /\ r[n + 1] = new.dest
            BY <1>3, <3>1
          <5> QED
            BY <1>3, <1>5, <3>1, <4>3, <4>4, <4>8, <4>9, <5>1 DEF Stands
        <4> QED
          BY <4>6, <4>10
      <3> QED
        BY <3>1, <3>2 DEF IsRead, new, r
    <2>5. CASE acc.dest # Flag(None) /\ t = Word("sudo") /\ new = [acc EXCEPT !.sudo = TRUE]
      <3>1. /\ new \in Parses /\ SudoIsApart(new) /\ new.sudo
            /\ new.users = acc.users /\ new.ports = acc.ports /\ new.keys = acc.keys
            /\ new.jump = acc.jump /\ new.dest = acc.dest
        BY <1>1, <1>11, <2>5 DEF Parses, SudoIsApart
      <3>2. ASSUME acc.dest.opt = None PROVE Heard(r, new) /\ Stands(r, new)
        <4>1. Heard(s, acc) /\ Stands(s, acc)
          BY <1>2, <3>2
        <4>2. ~Follow(r, n + 1, TakesValue)
          BY <1>7, <1>11, <4>1 DEF Stands, n
        <4>3. Plain(r, n + 1)
          <5>1. t.opt = None
            BY <2>5 DEF Word, Token
          <5> QED
            BY <1>3, <4>2, <5>1 DEF Plain, IsOption
        <4>4. ~Before(r, n + 1)
          BY <2>5, <4>1, <4>3, NextPlain DEF r, n
        <4>5. Heard(r, new)
          BY <3>1, <4>1, <4>4, NothingHeard DEF r, n
        <4>6. PICK p \in 1..n : s[p] = acc.dest /\ Plain(s, p) /\ Before(s, p)
          BY <1>3, <2>5, <4>1 DEF Stands
        <4>7. p \in 1..(n + 1) /\ r[p] = new.dest /\ Plain(r, p) /\ Before(r, p)
          BY <1>3, <3>1, <4>6
        <4>8. Stands(r, new)
          BY <1>3, <2>5, <3>1, <4>4, <4>7 DEF Stands
        <4> QED
          BY <4>5, <4>8
      <3> QED
        BY <3>1, <3>2 DEF IsRead, new, r
    <2> QED
      BY <2>1, <2>2, <2>3, <2>4, <2>5
  <1>12. ~acc.sudo => acc.want \in TakesValue \/ acc.want = None
    BY <1>1 DEF Parses, SudoIsApart
  <1> QED
    BY <1>8, <1>9, <1>10, <1>11, <1>12

(* However the line is typed, what was parsed of it is what it says.       *)
AccessIsRead ==
    field = "access" =>
        /\ line \in Seq(AccessTokens)
        /\ ~Collected(line).bad => IsRead(line, Collected(line))

LEMMA AccessIsAlwaysRead == Spec => []AccessIsRead
  <1>1. Init => AccessIsRead
    <2> SUFFICES ASSUME Init PROVE AccessIsRead
      OBVIOUS
    <2>1. line = <<>> /\ line \in Seq(AccessTokens) /\ DOMAIN line = {} /\ Len(line) = 0
      BY DEF Init
    <2>2. Collected(line) = Start
      BY <2>1, NothingCollected
    <2>3. Heard(line, Start)
      <3>1. \A long : SaidAs(line, long) = {}
        BY <2>1 DEF SaidAs
      <3>2. ToSet(<<>>) = {}
        BY DEF ToSet
      <3>3. /\ Start.users = <<>> /\ Start.ports = <<>> /\ Start.keys = <<>>
            /\ Start.jump = None
        BY DEF Start
      <3> QED
        BY <3>1, <3>2, <3>3 DEF Heard
    <2>4. Stands(line, Start)
      <3>1. ~Start.sudo /\ Start.want = None
        BY DEF Start
      <3>2. ~Follow(line, Len(line) + 1, TakesValue)
        BY <2>1 DEF Follow
      <3> QED
        BY <2>1, <3>1, <3>2, StartIsAParse DEF Stands
    <2> QED
      BY <2>1, <2>2, <2>3, <2>4, StartIsAParse DEF AccessIsRead, IsRead
  <1>2. AccessIsRead /\ [Next]_vars => AccessIsRead'
    <2>1. ASSUME AccessIsRead, Next, field = "access" PROVE AccessIsRead'
      <3>1. PICK t \in AccessTokens : line' = Append(line, t) /\ field' = field /\ ~Collected(line).bad
        BY <2>1 DEF Next, Types, Hopeless
      <3>2. line \in Seq(AccessTokens) /\ IsRead(line, Collected(line))
        BY <2>1, <3>1 DEF AccessIsRead
      <3>3. Collected(line') = Takes(Collected(line), t) /\ line' \in Seq(AccessTokens)
        BY <3>1, <3>2, CollectedGoesOn
      <3>4. ~Takes(Collected(line), t).bad => IsRead(line', Takes(Collected(line), t))
        BY <3>1, <3>2, TokenIsRead
      <3> QED
        BY <3>3, <3>4 DEF AccessIsRead
    <2>2. ASSUME Next, field # "access" PROVE AccessIsRead'
      BY <2>2 DEF Next, Types, AccessIsRead
    <2>3. ASSUME AccessIsRead, UNCHANGED vars PROVE AccessIsRead'
      BY <2>3 DEF vars, AccessIsRead
    <2> QED
      BY <2>1, <2>2, <2>3
  <1> QED
    BY <1>1, <1>2, PTL DEF Spec

-----------------------------------------------------------------------------
(* Each key once: the same keys, in a sequence without repeats.            *)
OnceBy(g, s) ==
    g = [n \in 0..Len(s) |->
            IF n = 0 THEN <<>>
            ELSE IF s[n] \in ToSet(g[n - 1]) THEN g[n - 1] ELSE Append(g[n - 1], s[n])]

LEMMA OnceSteps ==
    ASSUME NEW s, Len(s) \in Nat
    PROVE  \E g : /\ Once(s) = g[Len(s)]
                  /\ g[0] = <<>>
                  /\ \A n \in 1..Len(s) :
                         g[n] = IF s[n] \in ToSet(g[n - 1]) THEN g[n - 1] ELSE Append(g[n - 1], s[n])
  <1> DEFINE Goes(old, x) == IF x \in ToSet(old) THEN old ELSE Append(old, x)
             UpTo(g, m) == g = [n \in 0..m |-> IF n = 0 THEN <<>> ELSE Goes(g[n - 1], s[n])]
             bad == {m \in 0..Len(s) : \A g : ~UpTo(g, m)}
  <1>1. bad = {}
    <2> HIDE DEF Goes
    <2> SUFFICES ASSUME bad # {} PROVE FALSE
      OBVIOUS
    <2>1. PICK m \in bad : \A k \in bad : m <= k
      <3>1. bad \in SUBSET Nat
        OBVIOUS
      <3> HIDE DEF bad
      <3> QED
        BY <3>1, LeastOf
    <2>2. CASE m = 0
      <3>1. UpTo([n \in 0..0 |-> <<>>], 0)
        OBVIOUS
      <3> QED
        BY <2>2, <3>1
    <2>3. CASE m # 0
      <3>1. m - 1 \in 0..Len(s) /\ m - 1 \notin bad /\ m \in Nat
        BY <2>1, <2>3
      <3>2. PICK g : UpTo(g, m - 1)
        BY <3>1
      <3> DEFINE h == [n \in 0..m |-> IF n < m THEN g[n] ELSE Goes(g[m - 1], s[m])]
      <3>3. g[0] = <<>> /\ \A n \in 1..(m - 1) : g[n] = Goes(g[n - 1], s[n])
        BY <2>3, <3>1, <3>2
      <3>4. ASSUME NEW n \in 0..m
            PROVE  h[n] = IF n = 0 THEN <<>> ELSE Goes(h[n - 1], s[n])
        <4>1. CASE n = 0
          BY <2>3, <3>1, <3>3, <4>1
        <4>2. CASE n # 0
          <5>1. n - 1 \in 0..m /\ n - 1 < m
            BY <3>1, <4>2
          <5>2. h[n - 1] = g[n - 1]
            BY <5>1
          <5>3. h[n] = Goes(g[n - 1], s[n])
            BY <3>1, <3>3, <4>2
          <5> QED
            BY <4>2, <5>2, <5>3
        <4> QED
          BY <4>1, <4>2
      <3>5. h = [n \in 0..m |-> h[n]]
        OBVIOUS
      <3> HIDE DEF h
      <3>6. UpTo(h, m)
        BY <3>4, <3>5
      <3> QED
        BY <3>6
    <2> QED
      BY <2>2, <2>3
  <1>2. Len(s) \in 0..Len(s)
    OBVIOUS
  <1>3. \E g : UpTo(g, Len(s))
    BY <1>1, <1>2
  <1>4. \E g : OnceBy(g, s)
    BY <1>3 DEF OnceBy
  <1> DEFINE g == CHOOSE h : OnceBy(h, s)
  <1>5. OnceBy(g, s)
    BY <1>4, Zenon
  <1>6. Once(s) = g[Len(s)]
    BY DEF Once, OnceBy
  <1> HIDE DEF g
  <1>7. g = [n \in 0..Len(s) |-> IF n = 0 THEN <<>> ELSE Goes(g[n - 1], s[n])]
    BY <1>5 DEF OnceBy
  <1> HIDE DEF Goes
  <1>8. g[0] = <<>>
    BY <1>7
  <1>9. ASSUME NEW n \in 1..Len(s) PROVE g[n] = Goes(g[n - 1], s[n])
    <2>1. n \in 0..Len(s) /\ n # 0
      OBVIOUS
    <2> QED
      BY <1>7, <2>1
  <1> QED
    BY <1>6, <1>8, <1>9 DEF Goes

(* No two places of a sequence hold the same.                              *)
NoRepeat(s) == \A i, j \in DOMAIN s : s[i] = s[j] => i = j

LEMMA OnceKeeps ==
    ASSUME NEW S, NEW s \in Seq(S)
    PROVE  Once(s) \in Seq(S) /\ ToSet(Once(s)) = ToSet(s) /\ NoRepeat(Once(s))
  <1> DEFINE m == Len(s)
             Among(n) == {s[i] : i \in 1..n}
             Kept(n, q) == q \in Seq(S) /\ ToSet(q) = Among(n) /\ NoRepeat(q)
  <1>1. m \in Nat /\ DOMAIN s = 1..m /\ \A i \in 1..m : s[i] \in S
    OBVIOUS
  <1>2. PICK g : /\ Once(s) = g[m] /\ g[0] = <<>>
                 /\ \A n \in 1..m :
                        g[n] = IF s[n] \in ToSet(g[n - 1]) THEN g[n - 1] ELSE Append(g[n - 1], s[n])
    BY <1>1, OnceSteps
  <1> DEFINE bad == {n \in 0..m : ~Kept(n, g[n])}
  <1>3. bad = {}
    <2> SUFFICES ASSUME bad # {} PROVE FALSE
      OBVIOUS
    <2>1. PICK n \in bad : \A k \in bad : n <= k
      <3>1. bad \in SUBSET Nat
        OBVIOUS
      <3> HIDE DEF bad
      <3> QED
        BY <3>1, LeastOf
    <2>2. n # 0
      <3>1. Among(0) = {} /\ ToSet(<<>>) = {} /\ <<>> \in Seq(S) /\ NoRepeat(<<>>)
        BY DEF ToSet, NoRepeat
      <3> QED
        BY <1>2, <2>1, <3>1
    <2>3. n \in 1..m /\ n - 1 \in 0..m /\ n - 1 \notin bad
      <3>1. n \in 0..m /\ \A k \in bad : n <= k
        BY <2>1
      <3> HIDE DEF bad, m
      <3>2. n \in 1..m /\ n - 1 \in 0..m /\ ~(n <= n - 1)
        BY <1>1, <2>2, <3>1
      <3> QED
        BY <3>1, <3>2
    <2> DEFINE q == g[n - 1]
    <2>4. q \in Seq(S) /\ ToSet(q) = Among(n - 1) /\ NoRepeat(q)
      <3>1. \A k \in 0..m : k \notin bad => Kept(k, g[k])
        OBVIOUS
      <3>2. Kept(n - 1, q)
        <4> HIDE DEF bad, Kept, m
        <4> QED
          BY <2>3, <3>1
      <3> QED
        BY <3>2
    <2>5. g[n] = IF s[n] \in ToSet(q) THEN q ELSE Append(q, s[n])
      BY <1>2, <2>3
    <2>6. Among(n) = Among(n - 1) \cup {s[n]}
      <3>1. 1..n = (1..(n - 1)) \cup {n}
        BY <2>3
      <3> QED
        BY <3>1
    <2>7. s[n] \in S /\ ~Kept(n, g[n])
      BY <1>1, <2>1, <2>3
    <2> HIDE DEF q, Among
    <2>8. CASE s[n] \in ToSet(q)
      BY <2>4, <2>5, <2>6, <2>7, <2>8
    <2>9. CASE s[n] \notin ToSet(q)
      <3> DEFINE r == Append(q, s[n])
                 l == Len(q)
      <3>1. r \in Seq(S) /\ ToSet(r) = ToSet(q) \cup {s[n]}
        BY <2>4, <2>7, ToSetOfOneMore
      <3>2. /\ DOMAIN r = 1..(l + 1) /\ DOMAIN q = 1..l /\ l \in Nat
            /\ r[l + 1] = s[n] /\ \A i \in 1..l : r[i] = q[i]
        BY <2>4, <2>7
      <3>3. \A i \in 1..l : q[i] # s[n]
        BY <2>9, <3>2 DEF ToSet
      <3> HIDE DEF r, l
      <3>4. \A i \in 1..(l + 1) : i \in 1..l \/ i = l + 1
        BY <3>2
      <3>5. NoRepeat(r)
        BY <2>4, <3>2, <3>3, <3>4 DEF NoRepeat
      <3> QED
        BY <2>4, <2>5, <2>6, <2>7, <2>9, <3>1, <3>5 DEF r
    <2> QED
      BY <2>8, <2>9
  <1>4. Kept(m, g[m])
    <2>1. \A k \in 0..m : k \notin bad => Kept(k, g[k])
      OBVIOUS
    <2> HIDE DEF bad, Kept, m
    <2>2. m \in 0..m
      BY <1>1
    <2> QED
      BY <1>3, <2>1, <2>2
  <1>5. Among(m) = ToSet(s)
    BY <1>1 DEF ToSet
  <1> QED
    BY <1>2, <1>4, <1>5

(* Said once or more, one thing: it is the first, and all there is.        *)
LEMMA OneIsSaid ==
    ASSUME NEW S, NEW values \in Seq(S), Single(values)
    PROVE  /\ values = <<>> => FirstOr(values) = None /\ ToSet(values) = {}
           /\ values # <<>> => FirstOr(values) \in S /\ ToSet(values) = {FirstOr(values)}
  <1>1. DOMAIN values = 1..Len(values) /\ Len(values) \in Nat
    OBVIOUS
  <1>2. IsFiniteSet(ToSet(values))
    <2>1. values \in Surjection(1..Len(values), ToSet(values))
      BY <1>1 DEF Surjection, ToSet
    <2>2. IsFiniteSet(1..Len(values))
      BY <1>1, FS_Interval
    <2> QED
      BY <2>1, <2>2, FS_Surjection
  <1>3. CASE values = <<>>
    BY <1>3 DEF FirstOr, ToSet
  <1>4. CASE values # <<>>
    <2>1. 1 \in DOMAIN values /\ FirstOr(values) = values[1] /\ values[1] \in S
      BY <1>1, <1>4 DEF FirstOr
    <2>2. values[1] \in ToSet(values)
      BY <2>1 DEF ToSet
    <2>3. Cardinality(ToSet(values)) \in Nat /\ Cardinality(ToSet(values)) # 0
      BY <1>2, <2>2, FS_CardinalityType, FS_EmptySet
    <2>4. Cardinality(ToSet(values)) = 1
      BY <2>3 DEF Single
    <2>5. \E x : ToSet(values) = {x}
      BY <1>2, <2>4, FS_Singleton
    <2> QED
      BY <1>4, <2>1, <2>2, <2>5
  <1> QED
    BY <1>3, <1>4

LEMMA OneOfSingle ==
    ASSUME NEW S, NEW values \in Seq(S), Single(values)
    PROVE  OneOf(FirstOr(values), ToSet(values))
  <1>1. CASE values = <<>>
    <2>1. FirstOr(values) = None /\ ToSet(values) = {}
      BY <1>1, OneIsSaid
    <2> QED
      BY <2>1 DEF OneOf
  <1>2. CASE values # <<>>
    <2>1. ToSet(values) = {FirstOr(values)}
      BY <1>2, OneIsSaid
    <2> QED
      BY <2>1 DEF OneOf
  <1> QED
    BY <1>1, <1>2

(* The logins of a line: of its options, and the one before the host.      *)
LEMMA LoginsAreSaid ==
    ASSUME NEW acc \in Parses, acc.dest.key \in Users \cup {""}
    PROVE  /\ Logins(acc) \in Seq(Users)
           /\ ToSet(Logins(acc)) =
                  ToSet(acc.users) \cup (IF acc.dest.key # "" THEN {acc.dest.key} ELSE {})
  <1> DEFINE key == acc.dest.key
             users == acc.users
  <1>1. users \in Seq(Users)
    BY DEF Parses
  <1> HIDE DEF key, users
  <1>2. CASE key # ""
    <2>1. key \in Users
      BY <1>2 DEF key
    <2>2. users \o <<key>> = Append(users, key)
      BY <1>1, <2>1, AppendIsConcat
    <2>3. Logins(acc) = Append(users, key)
      <3>1. Logins(acc) = users \o <<key>>
        BY <1>2 DEF Logins, key, users
      <3> QED
        BY <2>2, <3>1
    <2>4. /\ Append(users, key) \in Seq(Users)
          /\ ToSet(Append(users, key)) = ToSet(users) \cup {key}
      <3>1. Append(users, key) \in Seq(Users)
        BY <1>1, <2>1, AppendProperties, Zenon
      <3>2. \A s \in Seq(Users), e \in Users : ToSet(Append(s, e)) = ToSet(s) \cup {e}
        BY ToSetOfOneMore, Zenon
      <3>3. ToSet(Append(users, key)) = ToSet(users) \cup {key}
        BY <1>1, <2>1, <3>2, Zenon
      <3> QED
        BY <3>1, <3>3
    <2>5. /\ ToSet(Logins(acc)) = ToSet(users) \cup {key} /\ Logins(acc) \in Seq(Users)
      BY <2>3, <2>4
    <2> QED
      BY <1>2, <2>5 DEF key, users
  <1>3. CASE key = ""
    <2>1. Logins(acc) = users \o <<>>
      BY <1>3 DEF Logins, key, users
    <2>2. users \o <<>> = users
      BY <1>1, ConcatEmptySeq
    <2>3. Logins(acc) = users
      BY <2>1, <2>2
    <2>4. ToSet(users) = ToSet(users) \cup {}
      OBVIOUS
    <2> QED
      BY <1>1, <1>3, <2>3, <2>4 DEF key, users
  <1> QED
    BY <1>2, <1>3

(* Nothing an accepted line says of who, where and with which key is lost  *)
(* or overruled, however long it is and in whatever order it says it       *)
(* (_parse_access, _single).                                               *)
THEOREM AllIsKept == Spec => []AllThatWasSaid
  <1>1. AccessIsRead => AllThatWasSaid
    <2> DEFINE acc == Collected(line)
               a == Access(line)
    <2> SUFFICES ASSUME AccessIsRead, field = "access", AcceptsAccess(line)
                 PROVE  /\ OneOf(a.user, SaidAs(line, "user") \cup SaidAt(line))
                        /\ OneOf(a.port, SaidAs(line, "port"))
                        /\ ToSet(a.keys) = SaidAs(line, "identityfile")
                        /\ a.jump \in SaidAs(line, "proxyjump") \cup {None}
                        /\ (a.jump = None) = (SaidAs(line, "proxyjump") = {})
      BY DEF AllThatWasSaid
    <2>1. /\ ~acc.bad /\ acc.want = None /\ acc.dest.opt = None
          /\ acc.dest.w \in Hosts /\ acc.dest.key \in Users \cup {""}
          /\ Single(Logins(acc)) /\ Single(acc.ports)
      BY DEF AcceptsAccess
    <2>2. /\ a.user = FirstOr(Logins(acc)) /\ a.port = FirstOr(acc.ports)
          /\ a.keys = Once(acc.keys) /\ a.jump = acc.jump
      BY DEF Access
    <2> HIDE DEF acc, a
    <2>3. /\ acc \in Parses /\ Heard(line, acc) /\ Stands(line, acc)
          /\ line \in Seq(AccessTokens)
      BY <2>1 DEF AccessIsRead, IsRead, acc
    <2>4. acc.dest # Flag(None)
      <3>1. Flag(None).w = "" /\ "" \notin Hosts
        BY RecipeAssumption DEF Flag, Token
      <3> QED
        BY <2>1, <3>1
    <2>5. PICK p \in DOMAIN line : line[p] = acc.dest /\ Plain(line, p) /\ Before(line, p)
      BY <2>3, <2>4 DEF Stands
    <2>6. SaidAt(line) = IF acc.dest.key # "" THEN {acc.dest.key} ELSE {}
      <3>1. ASSUME NEW j \in DOMAIN line, Before(line, j), Plain(line, j) PROVE j = p
        <4>1. j \in Nat /\ p \in Nat /\ j \in 1..j /\ p \in 1..p /\ (j <= p => j \in 1..p)
              /\ (p <= j => p \in 1..j)
          BY <2>3
        <4>2. CASE j <= p
          BY <2>5, <3>1, <4>1, <4>2 DEF Before
        <4>3. CASE p <= j
          BY <2>5, <3>1, <4>1, <4>3 DEF Before
        <4> QED
          BY <4>1, <4>2, <4>3
      <3>2. \A j \in DOMAIN line : Before(line, j) /\ Plain(line, j) <=> j = p
        BY <2>5, <3>1
      <3> QED
        BY <2>5, <3>2 DEF SaidAt
    <2>7. OneOf(a.user, SaidAs(line, "user") \cup SaidAt(line))
      <3>1. /\ Logins(acc) \in Seq(Users)
            /\ ToSet(Logins(acc)) = SaidAs(line, "user") \cup SaidAt(line)
        BY <2>1, <2>3, <2>6, LoginsAreSaid DEF Heard
      <3>2. OneOf(FirstOr(Logins(acc)), ToSet(Logins(acc)))
        BY <2>1, <3>1, OneOfSingle
      <3> QED
        BY <2>2, <3>1, <3>2
    <2>8. OneOf(a.port, SaidAs(line, "port"))
      <3>1. acc.ports \in Seq(Ports) /\ ToSet(acc.ports) = SaidAs(line, "port")
        BY <2>3 DEF Parses, Heard
      <3>2. OneOf(FirstOr(acc.ports), ToSet(acc.ports))
        BY <2>1, <3>1, OneOfSingle
      <3> QED
        BY <2>2, <3>1, <3>2
    <2>9. ToSet(a.keys) = SaidAs(line, "identityfile")
      <3>1. acc.keys \in Seq(KeyPaths)
        BY <2>3 DEF Parses
      <3> QED
        BY <2>2, <2>3, <3>1, OnceKeeps DEF Heard
    <2> QED
      BY <2>2, <2>3, <2>7, <2>8, <2>9 DEF Heard
  <1> QED
    BY <1>1, AccessIsAlwaysRead, PTL

-----------------------------------------------------------------------------
(* ReadsBack: what ssh is given, parsed a piece at a time.  The parse       *)
(* before the destination, by what it holds so far.                        *)
Arrives(acc, keys, ports, jump, timeout, identities) ==
    /\ acc \in Parses /\ ~acc.bad /\ acc.want = None
    /\ acc.users = <<>> /\ acc.dest = Flag(None)
    /\ ~acc.sudo /\ acc.runAs = None /\ ~acc.quiet /\ ~acc.home
    /\ acc.keys = keys /\ acc.ports = ports /\ acc.jump = jump
    /\ acc.timeout = timeout /\ acc.identities = identities

LEMMA StartArrives == Arrives(Start, <<>>, <<>>, None, None, None)
  <1>1. /\ ~Start.bad /\ Start.want = None /\ Start.users = <<>> /\ ~Start.sudo
        /\ Start.runAs = None /\ ~Start.quiet /\ ~Start.home /\ Start.keys = <<>>
        /\ Start.ports = <<>> /\ Start.jump = None /\ Start.timeout = None
        /\ Start.identities = None
    BY DEF Start
  <1> QED
    BY <1>1, StartIsAParse DEF Arrives

(* A value that its key allows.                                            *)
LEMMA NamedArrives ==
    ASSUME NEW acc, NEW keys, NEW ports, NEW jump, NEW timeout, NEW identities,
           Arrives(acc, keys, ports, jump, timeout, identities)
    PROVE  /\ \A v \in KeyPaths : Arrives(Named(acc, "identityfile", v),
                                         Append(keys, v), ports, jump, timeout, identities)
           /\ \A v \in Ports : Arrives(Named(acc, "port", v),
                                      keys, Append(ports, v), jump, timeout, identities)
           /\ \A v \in Jumps : Arrives(Named(acc, "proxyjump", v),
                                      keys, ports, v, timeout, identities)
           /\ \A v \in Seconds : Arrives(Named(acc, "connecttimeout", v),
                                        keys, ports, jump, v, identities)
           /\ \A v \in {"yes", "no"} : Arrives(Named(acc, "identitiesonly", v),
                                              keys, ports, jump, timeout, v)
  <1>1. acc \in Parses /\ ~acc.bad
    BY DEF Arrives
  <1>2. ASSUME NEW key, NEW v, ~Named(acc, key, v).bad, key # "user"
        PROVE  Arrives(Named(acc, key, v),
                       IF key = "identityfile" THEN Append(keys, v) ELSE keys,
                       IF key = "port" THEN Append(ports, v) ELSE ports,
                       IF key = "proxyjump" THEN v ELSE jump,
                       IF key = "connecttimeout" THEN v ELSE timeout,
                       IF key = "identitiesonly" THEN v ELSE identities)
    <2> DEFINE new == Named(acc, key, v)
    <2>1. /\ new \in Parses
          /\ new.want = acc.want /\ new.dest = acc.dest /\ new.sudo = acc.sudo
          /\ new.runAs = acc.runAs /\ new.quiet = acc.quiet /\ new.home = acc.home
          /\ new.users = IF key = "user" THEN Append(acc.users, v) ELSE acc.users
          /\ new.ports = IF key = "port" THEN Append(acc.ports, v) ELSE acc.ports
          /\ new.keys = IF key = "identityfile" THEN Append(acc.keys, v) ELSE acc.keys
          /\ new.jump = IF key = "proxyjump" THEN v ELSE acc.jump
          /\ new.timeout = IF key = "connecttimeout" THEN v ELSE acc.timeout
          /\ new.identities = IF key = "identitiesonly" THEN v ELSE acc.identities
      BY <1>1, <1>2, NamedTakes
    <2>2. ~new.bad
      BY <1>2
    <2> HIDE DEF new
    <2>3. Arrives(new,
                  IF key = "identityfile" THEN Append(keys, v) ELSE keys,
                  IF key = "port" THEN Append(ports, v) ELSE ports,
                  IF key = "proxyjump" THEN v ELSE jump,
                  IF key = "connecttimeout" THEN v ELSE timeout,
                  IF key = "identitiesonly" THEN v ELSE identities)
      BY <1>2, <2>1, <2>2 DEF Arrives
    <2> QED
      BY <2>3 DEF new
  <1>3. ASSUME NEW v \in KeyPaths PROVE ~Named(acc, "identityfile", v).bad
    BY <1>1, <1>3 DEF Named, If, Parses
  <1>4. ASSUME NEW v \in Ports PROVE ~Named(acc, "port", v).bad
    BY <1>1, <1>4 DEF Named, If, Parses
  <1>5. ASSUME NEW v \in Jumps PROVE ~Named(acc, "proxyjump", v).bad
    BY <1>1, <1>5 DEF Named, If, Parses
  <1>6. ASSUME NEW v \in Seconds PROVE ~Named(acc, "connecttimeout", v).bad
    BY <1>1, <1>6 DEF Named, If, Parses
  <1>7. ASSUME NEW v \in {"yes", "no"} PROVE ~Named(acc, "identitiesonly", v).bad
    BY <1>1, <1>7 DEF Named, If, Parses
  <1>8. \A v \in KeyPaths : Arrives(Named(acc, "identityfile", v),
                                   Append(keys, v), ports, jump, timeout, identities)
    BY <1>2, <1>3
  <1>9. \A v \in Ports : Arrives(Named(acc, "port", v),
                                keys, Append(ports, v), jump, timeout, identities)
    BY <1>2, <1>4
  <1>10. \A v \in Jumps : Arrives(Named(acc, "proxyjump", v),
                                 keys, ports, v, timeout, identities)
    BY <1>2, <1>5
  <1>11. \A v \in Seconds : Arrives(Named(acc, "connecttimeout", v),
                                   keys, ports, jump, v, identities)
    BY <1>2, <1>6
  <1>12. \A v \in {"yes", "no"} : Arrives(Named(acc, "identitiesonly", v),
                                         keys, ports, jump, timeout, v)
    BY <1>2, <1>7
  <1> QED
    BY <1>8, <1>9, <1>10, <1>11, <1>12

(* What ssh_argv gives an option: a word, or a -o its key=value.           *)
IsFor(o, t) == IF o = "o" THEN t.opt = Pair ELSE t.opt = None /\ t.key = ""

(* An option waits for its value, and takes it.                            *)
LEMMA GivenApart ==
    ASSUME NEW acc, NEW keys, NEW ports, NEW jump, NEW timeout, NEW identities,
           Arrives(acc, keys, ports, jump, timeout, identities),
           NEW o \in TakesValue, NEW t, IsFor(o, t)
    PROVE  \E got : /\ Arrives(got, keys, ports, jump, timeout, identities)
                    /\ Takes(Takes(acc, Flag(o)), t) = Named(got, KeyOf(o, t), Whole(t))
  <1> DEFINE wants == [acc EXCEPT !.want = o]
             got == [wants EXCEPT !.want = None]
  <1>1. /\ o \notin {None, Pair, "T", "u"} /\ Flag(o).opt = o /\ Flag(o) # Flag("T")
        /\ ~IsOption(t) /\ IsOption(Flag(o))
    BY DEF IsFor, TakesValue, LongFor, None, Pair, Flag, Token, IsOption
  <1>2. acc \in Parses /\ ~acc.bad /\ acc.want = None /\ ~acc.sudo
    BY DEF Arrives
  <1>3. wants \in Parses /\ ~wants.bad /\ wants.want = o
    BY <1>2 DEF Parses
  <1>4. Arrives(got, keys, ports, jump, timeout, identities)
    <2>1. got \in Parses
      BY <1>2 DEF Parses
    <2>2. got.want = None
      BY <1>2 DEF Parses
    <2>3. /\ got.bad = acc.bad /\ got.users = acc.users /\ got.dest = acc.dest
          /\ got.sudo = acc.sudo /\ got.runAs = acc.runAs /\ got.quiet = acc.quiet
          /\ got.home = acc.home /\ got.keys = acc.keys /\ got.ports = acc.ports
          /\ got.jump = acc.jump /\ got.timeout = acc.timeout /\ got.identities = acc.identities
      BY <1>2 DEF Parses
    <2> HIDE DEF got, wants
    <2> QED
      BY <2>1, <2>2, <2>3 DEF Arrives
  <1>5. Takes(acc, Flag(o)) = wants
    <2>1. Takes(acc, Flag(o)) = Option(acc, Flag(o))
      BY <1>1, <1>2 DEF Takes
    <2> QED
      BY <1>1, <2>1 DEF Option
  <1>6. Takes(wants, t) = Valued(got, o, t)
    <2>1. Takes(wants, t) = Wanted(wants, t)
      BY <1>1, <1>3 DEF Takes
    <2> HIDE DEF wants
    <2> QED
      BY <1>1, <1>3, <2>1 DEF Wanted
  <1> HIDE DEF wants, got
  <1>7. Valued(got, o, t) = Named(got, KeyOf(o, t), Whole(t))
    BY <1>1 DEF IsFor, Valued, If, KeyOf, None, Pair
  <1> QED
    BY <1>4, <1>5, <1>6, <1>7

(* Each option that ssh_argv writes, with its value.                       *)
LEMMA EachArrives ==
    ASSUME NEW acc, NEW keys, NEW ports, NEW jump, NEW timeout, NEW identities,
           Arrives(acc, keys, ports, jump, timeout, identities)
    PROVE  /\ \A v \in KeyPaths : Arrives(Takes(Takes(acc, Flag("i")), Word(v)),
                                         Append(keys, v), ports, jump, timeout, identities)
           /\ \A v \in Ports : Arrives(Takes(Takes(acc, Flag("p")), Word(v)),
                                      keys, Append(ports, v), jump, timeout, identities)
           /\ \A v \in Jumps : Arrives(Takes(Takes(acc, Flag("J")), Word(v)),
                                      keys, ports, v, timeout, identities)
           /\ \A v \in Seconds :
                  Arrives(Takes(Takes(acc, Flag("o")), Setting("connecttimeout", v)),
                          keys, ports, jump, v, identities)
           /\ \A v \in {"yes", "no"} :
                  Arrives(Takes(Takes(acc, Flag("o")), Setting("identitiesonly", v)),
                          keys, ports, jump, timeout, v)
  <1>1. {"i", "p", "J", "o"} \subseteq TakesValue
    BY DEF TakesValue, LongFor
  <1>2. ASSUME NEW v
        PROVE  /\ Word(v).opt = None /\ Word(v).key = "" /\ Whole(Word(v)) = v
               /\ KeyOf("i", Word(v)) = "identityfile" /\ KeyOf("p", Word(v)) = "port"
               /\ KeyOf("J", Word(v)) = "proxyjump"
    BY DEF Word, Token, Whole, KeyOf, LongFor, None, Pair
  <1>3. ASSUME NEW v, NEW key
        PROVE  /\ Setting(key, v).opt = Pair /\ Whole(Setting(key, v)) = v
               /\ KeyOf("o", Setting(key, v)) = key
    BY DEF Setting, Token, Whole, KeyOf
  <1>4. ASSUME NEW v \in KeyPaths
        PROVE  Arrives(Takes(Takes(acc, Flag("i")), Word(v)),
                       Append(keys, v), ports, jump, timeout, identities)
    <2>1. \E got : /\ Arrives(got, keys, ports, jump, timeout, identities)
                   /\ Takes(Takes(acc, Flag("i")), Word(v)) = Named(got, "identityfile", v)
      <3>1. "i" \in TakesValue /\ IsFor("i", Word(v))
        BY <1>1, <1>2 DEF IsFor
      <3>2. \E got : /\ Arrives(got, keys, ports, jump, timeout, identities)
                     /\ Takes(Takes(acc, Flag("i")), Word(v))
                            = Named(got, KeyOf("i", Word(v)), Whole(Word(v)))
        BY <3>1, GivenApart
      <3> QED
        BY <1>2, <3>2
    <2> QED
      BY <2>1, NamedArrives
  <1>5. ASSUME NEW v \in Ports
        PROVE  Arrives(Takes(Takes(acc, Flag("p")), Word(v)),
                       keys, Append(ports, v), jump, timeout, identities)
    <2>1. \E got : /\ Arrives(got, keys, ports, jump, timeout, identities)
                   /\ Takes(Takes(acc, Flag("p")), Word(v)) = Named(got, "port", v)
      <3>1. "p" \in TakesValue /\ IsFor("p", Word(v))
        BY <1>1, <1>2 DEF IsFor
      <3>2. \E got : /\ Arrives(got, keys, ports, jump, timeout, identities)
                     /\ Takes(Takes(acc, Flag("p")), Word(v))
                            = Named(got, KeyOf("p", Word(v)), Whole(Word(v)))
        BY <3>1, GivenApart
      <3> QED
        BY <1>2, <3>2
    <2> QED
      BY <2>1, NamedArrives
  <1>6. ASSUME NEW v \in Jumps
        PROVE  Arrives(Takes(Takes(acc, Flag("J")), Word(v)),
                       keys, ports, v, timeout, identities)
    <2>1. \E got : /\ Arrives(got, keys, ports, jump, timeout, identities)
                   /\ Takes(Takes(acc, Flag("J")), Word(v)) = Named(got, "proxyjump", v)
      <3>1. "J" \in TakesValue /\ IsFor("J", Word(v))
        BY <1>1, <1>2 DEF IsFor
      <3>2. \E got : /\ Arrives(got, keys, ports, jump, timeout, identities)
                     /\ Takes(Takes(acc, Flag("J")), Word(v))
                            = Named(got, KeyOf("J", Word(v)), Whole(Word(v)))
        BY <3>1, GivenApart
      <3> QED
        BY <1>2, <3>2
    <2> QED
      BY <2>1, NamedArrives
  <1>7. ASSUME NEW v \in Seconds
        PROVE  Arrives(Takes(Takes(acc, Flag("o")), Setting("connecttimeout", v)),
                       keys, ports, jump, v, identities)
    <2>1. \E got : /\ Arrives(got, keys, ports, jump, timeout, identities)
                   /\ Takes(Takes(acc, Flag("o")), Setting("connecttimeout", v))
                          = Named(got, "connecttimeout", v)
      <3>1. "o" \in TakesValue /\ IsFor("o", Setting("connecttimeout", v))
        BY <1>1, <1>3 DEF IsFor
      <3>2. \E got : /\ Arrives(got, keys, ports, jump, timeout, identities)
                     /\ Takes(Takes(acc, Flag("o")), Setting("connecttimeout", v))
                            = Named(got, KeyOf("o", Setting("connecttimeout", v)), Whole(Setting("connecttimeout", v)))
        BY <3>1, GivenApart
      <3> QED
        BY <1>3, <3>2
    <2> QED
      BY <2>1, NamedArrives
  <1>8. ASSUME NEW v \in {"yes", "no"}
        PROVE  Arrives(Takes(Takes(acc, Flag("o")), Setting("identitiesonly", v)),
                       keys, ports, jump, timeout, v)
    <2>1. \E got : /\ Arrives(got, keys, ports, jump, timeout, identities)
                   /\ Takes(Takes(acc, Flag("o")), Setting("identitiesonly", v))
                          = Named(got, "identitiesonly", v)
      <3>1. "o" \in TakesValue /\ IsFor("o", Setting("identitiesonly", v))
        BY <1>1, <1>3 DEF IsFor
      <3>2. \E got : /\ Arrives(got, keys, ports, jump, timeout, identities)
                     /\ Takes(Takes(acc, Flag("o")), Setting("identitiesonly", v))
                            = Named(got, KeyOf("o", Setting("identitiesonly", v)), Whole(Setting("identitiesonly", v)))
        BY <3>1, GivenApart
      <3> QED
        BY <1>3, <3>2
    <2> QED
      BY <2>1, NamedArrives
  <1> QED
    BY <1>4, <1>5, <1>6, <1>7, <1>8

(* A line that ends with two more tokens.                                  *)
LEMMA TwoMore ==
    ASSUME NEW S, NEW s \in Seq(S), NEW t \in S, NEW u \in S
    PROVE  /\ s \o <<t, u>> \in Seq(S)
           /\ Collected(s \o <<t, u>>) = Takes(Takes(Collected(s), t), u)
  <1>1. s \o <<t, u>> = Append(Append(s, t), u)
    OBVIOUS
  <1>2. Append(s, t) \in Seq(S) /\ Append(Append(s, t), u) \in Seq(S)
    OBVIOUS
  <1>3. /\ Collected(Append(s, t)) = Takes(Collected(s), t)
        /\ Collected(Append(Append(s, t), u)) = Takes(Collected(Append(s, t)), u)
    BY <1>2, CollectedGoesOn, Zenon
  <1> QED
    BY <1>1, <1>2, <1>3, Zenon

-----------------------------------------------------------------------------
(* What ssh_argv writes; and an access as _parse_access makes one.         *)
Written ==
    {Flag(o) : o \in {"i", "p", "J", "o", "n", "u", "H"}}
    \cup {Word(w) : w \in KeyPaths \cup Ports \cup Jumps \cup Hosts \cup Users \cup {"sudo"}}
    \cup {Setting(k, w) : k \in {"connecttimeout", "identitiesonly"}, w \in Seconds \cup {"yes", "no"}}
    \cup {At(u, h) : u \in Users, h \in Hosts}

Accesses ==
    [user : Users \cup {None}, host : Hosts, port : Ports \cup {None}, keys : Seq(KeyPaths),
     jump : Jumps \cup {None}, timeout : Seconds \cup {None}, identities : {"yes", "no", None},
     sudo : BOOLEAN, runAs : Users \cup {None}, home : BOOLEAN]

Given(v) == IF v = None THEN <<>> ELSE <<v>>

(* An option of what ssh_argv writes, if there is a value to say.          *)
Saying(s, v, t, u) == s \o Said(v, <<t, u>>)

LEMMA SaidAfter ==
    ASSUME NEW s \in Seq(Written), NEW v, NEW t, NEW u,
           v # None => t \in Written /\ u \in Written
    PROVE  /\ Saying(s, v, t, u) \in Seq(Written)
           /\ v = None => Saying(s, v, t, u) = s
           /\ v # None => Collected(Saying(s, v, t, u)) = Takes(Takes(Collected(s), t), u)
  <1>1. CASE v = None
    <2>1. s \o <<>> = s
      BY ConcatEmptySeq, Zenon
    <2>2. Said(v, <<t, u>>) = <<>>
      BY <1>1 DEF Said
    <2>3. Saying(s, v, t, u) = s
      BY <2>1, <2>2, Zenon DEF Saying
    <2> QED
      BY <1>1, <2>3
  <1>2. CASE v # None
    <2>1. Saying(s, v, t, u) = s \o <<t, u>>
      BY <1>2 DEF Said, Saying
    <2>2. s \o <<t, u>> \in Seq(Written)
          /\ Collected(s \o <<t, u>>) = Takes(Takes(Collected(s), t), u)
      BY <1>2, TwoMore
    <2> QED
      BY <1>2, <2>1, <2>2, Zenon
  <1> QED
    BY <1>1, <1>2

(* The keys, each after its -i: written a key further, two tokens more.    *)
LEMMA KeyArgvGoesOn ==
    ASSUME NEW keys \in Seq(KeyPaths), NEW k \in KeyPaths
    PROVE  /\ KeyArgv(keys) \in Seq(Written)
           /\ KeyArgv(Append(keys, k)) = KeyArgv(keys) \o <<Flag("i"), Word(k)>>
  <1> DEFINE n == Len(keys)
             more == Append(keys, k)
  <1>1. /\ n \in Nat /\ Len(more) = n + 1 /\ more[n + 1] = k
        /\ \A i \in 1..n : more[i] = keys[i] /\ keys[i] \in KeyPaths
    OBVIOUS
  <1>2. Flag("i") \in Written /\ \A w \in KeyPaths : Word(w) \in Written
    BY DEF Written
  <1> HIDE DEF more, n
  <1>3. \A i \in 1..(2 * n) : i % 2 = 1 \/ (i % 2 = 0 /\ i \div 2 \in 1..n)
    BY <1>1
  <1>4. KeyArgv(keys) \in [1..(2 * n) -> Written]
    <2>1. KeyArgv(keys)
              = [i \in 1..(2 * n) |-> IF i % 2 = 1 THEN Flag("i") ELSE Word(keys[i \div 2])]
      BY DEF KeyArgv, n
    <2> QED
      BY <1>1, <1>2, <1>3, <2>1
  <1>5. KeyArgv(keys) \in Seq(Written) /\ Len(KeyArgv(keys)) = 2 * n
    BY <1>1, <1>4
  <1> DEFINE a == KeyArgv(keys)
             b == KeyArgv(more)
             f == Flag("i")
             w == Word(k)
             c == a \o <<f, w>>
  <1>6. \A i \in 1..(2 * n) : a[i] = IF i % 2 = 1 THEN f ELSE Word(keys[i \div 2])
    BY DEF KeyArgv, n
  <1>7. b = [i \in 1..(2 * (n + 1)) |-> IF i % 2 = 1 THEN f ELSE Word(more[i \div 2])]
    BY <1>1 DEF KeyArgv
  <1>8. f \in Written /\ w \in Written
    BY <1>2
  <1>9. w = Word(k)
    OBVIOUS
  <1> HIDE DEF a, b, f, w
  <1>10. /\ c \in Seq(Written) /\ Len(c) = 2 * n + 2
         /\ \A i \in 1..(2 * n) : c[i] = a[i]
         /\ c[2 * n + 1] = f /\ c[2 * n + 2] = w
    BY <1>1, <1>5, <1>8 DEF a
  <1>11. c = [i \in 1..(2 * n + 2) |-> c[i]]
    BY <1>10
  <1> HIDE DEF c
  <1>12. ASSUME NEW i \in 1..(2 * n + 2) PROVE b[i] = c[i]
    <2>1. b[i] = IF i % 2 = 1 THEN f ELSE Word(more[i \div 2])
      BY <1>1, <1>7
    <2>2. CASE i \in 1..(2 * n)
      <3>1. i % 2 = 1 \/ (i % 2 = 0 /\ more[i \div 2] = keys[i \div 2])
        BY <1>1, <1>3, <2>2
      <3> QED
        BY <1>6, <1>10, <2>1, <2>2, <3>1
    <2>3. CASE i = 2 * n + 1
      <3>1. i % 2 = 1
        BY <1>1, <2>3
      <3> QED
        BY <1>10, <2>1, <2>3, <3>1
    <2>4. CASE i = 2 * n + 2
      <3>1. i % 2 = 0 /\ i \div 2 = n + 1
        BY <1>1, <2>4
      <3> QED
        BY <1>1, <1>9, <1>10, <2>1, <2>4, <3>1
    <2>5. i \in 1..(2 * n) \/ i = 2 * n + 1 \/ i = 2 * n + 2
      BY <1>1
    <2> QED
      BY <2>2, <2>3, <2>4, <2>5
  <1>13. 2 * (n + 1) = 2 * n + 2
    BY <1>1
  <1>14. b = c
    BY <1>7, <1>11, <1>12, <1>13
  <1> QED
    BY <1>5, <1>14 DEF a, b, c, f, w, more

LEMMA KeysAreRead ==
    ASSUME NEW keys \in Seq(KeyPaths)
    PROVE  /\ KeyArgv(keys) \in Seq(Written)
           /\ Arrives(Collected(KeyArgv(keys)), keys, <<>>, None, None, None)
  <1> DEFINE Read(ks) == /\ KeyArgv(ks) \in Seq(Written)
                         /\ Arrives(Collected(KeyArgv(ks)), ks, <<>>, None, None, None)
             bad == {n \in Nat : \E ks \in Seq(KeyPaths) : Len(ks) = n /\ ~Read(ks)}
  <1>1. bad = {}
    <2> SUFFICES ASSUME bad # {} PROVE FALSE
      OBVIOUS
    <2>1. PICK n \in bad : \A m \in bad : n <= m
      <3>1. bad \in SUBSET Nat
        OBVIOUS
      <3> HIDE DEF bad
      <3> QED
        BY <3>1, LeastOf
    <2>2. PICK ks \in Seq(KeyPaths) : Len(ks) = n /\ ~Read(ks)
      BY <2>1
    <2>3. CASE ks = <<>>
      <3>1. KeyArgv(<<>>) = <<>>
        <4>1. KeyArgv(<<>>) \in [1..0 -> {}]
          BY DEF KeyArgv
        <4> QED
          BY <4>1
      <3>2. Read(ks)
        <4>3. <<>> \in Seq(Written)
          OBVIOUS
        <4>1. KeyArgv(<<>>) \in Seq(Written)
          BY <3>1, <4>3, Zenon
        <4>2. Arrives(Collected(KeyArgv(<<>>)), <<>>, <<>>, None, None, None)
          BY <3>1, StartArrives, NothingCollected, Zenon
        <4> QED
          BY <2>3, <4>1, <4>2, Zenon
      <3> QED
        BY <2>2, <3>2
    <2>4. CASE ks # <<>>
      <3>1. PICK q \in Seq(KeyPaths), k \in KeyPaths : ks = Append(q, k)
        BY <2>4, SequenceEmptyOrAppend
      <3>2. Len(q) \in Nat /\ n = Len(q) + 1
        BY <2>2, <3>1
      <3>3. Read(q)
        <4>1. Len(q) \notin bad
          <5> HIDE DEF bad, Read
          <5> QED
            BY <2>1, <3>2
        <4> HIDE DEF Read
        <4> QED
          BY <3>2, <4>1
      <3>4. /\ KeyArgv(ks) = KeyArgv(q) \o <<Flag("i"), Word(k)>>
            /\ KeyArgv(q) \in Seq(Written)
        BY <3>1, KeyArgvGoesOn
      <3>5. Flag("i") \in Written /\ Word(k) \in Written
        BY DEF Written
      <3>6. /\ KeyArgv(ks) \in Seq(Written)
            /\ Collected(KeyArgv(ks)) = Takes(Takes(Collected(KeyArgv(q)), Flag("i")), Word(k))
        BY <3>4, <3>5, TwoMore
      <3>8. Arrives(Collected(KeyArgv(q)), q, <<>>, None, None, None)
        BY <3>3
      <3>9. Arrives(Takes(Takes(Collected(KeyArgv(q)), Flag("i")), Word(k)),
                    Append(q, k), <<>>, None, None, None)
        BY <3>8, EachArrives, Zenon
      <3> QED
        BY <2>2, <3>1, <3>6, <3>9
    <2> QED
      BY <2>3, <2>4
  <1>2. Len(keys) \in Nat /\ Len(keys) \notin bad
    BY <1>1
  <1> HIDE DEF Read
  <1>3. Read(keys)
    BY <1>2
  <1> QED
    BY <1>3 DEF Read

-----------------------------------------------------------------------------
(* The options, as far as the destination.                                 *)
OptionArgv(a) ==
    KeyArgv(a.keys)
    \o Said(a.port, <<Flag("p"), Word(a.port)>>)
    \o Said(a.jump, <<Flag("J"), Word(a.jump)>>)
    \o Said(a.timeout, <<Flag("o"), Setting("connecttimeout", a.timeout)>>)
    \o Said(a.identities, <<Flag("o"), Setting("identitiesonly", a.identities)>>)

LEMMA OptionsAreRead ==
    ASSUME NEW a \in Accesses
    PROVE  /\ OptionArgv(a) \in Seq(Written)
           /\ Arrives(Collected(OptionArgv(a)),
                      a.keys, Given(a.port), a.jump, a.timeout, a.identities)
  <1>1. /\ a.keys \in Seq(KeyPaths) /\ a.port \in Ports \cup {None} /\ a.jump \in Jumps \cup {None}
        /\ a.timeout \in Seconds \cup {None} /\ a.identities \in {"yes", "no", None}
    BY DEF Accesses
  <1>2. /\ Flag("p") \in Written /\ Flag("J") \in Written /\ Flag("o") \in Written
        /\ \A v \in Ports \cup Jumps : Word(v) \in Written
        /\ \A v \in Seconds : Setting("connecttimeout", v) \in Written
        /\ \A v \in {"yes", "no"} : Setting("identitiesonly", v) \in Written
    BY DEF Written
  <1>3. Given(None) = <<>> /\ \A v : v # None => Given(v) = Append(<<>>, v)
    <2>1. ASSUME NEW v PROVE <<v>> = Append(<<>>, v)
      OBVIOUS
    <2> QED
      BY <2>1 DEF Given
  <1> DEFINE s0 == KeyArgv(a.keys)
             s1 == Saying(s0, a.port, Flag("p"), Word(a.port))
             s2 == Saying(s1, a.jump, Flag("J"), Word(a.jump))
             s3 == Saying(s2, a.timeout, Flag("o"), Setting("connecttimeout", a.timeout))
             s4 == Saying(s3, a.identities, Flag("o"), Setting("identitiesonly", a.identities))
             Came(s, ports, jump, timeout, identities) ==
                 /\ s \in Seq(Written)
                 /\ Arrives(Collected(s), a.keys, ports, jump, timeout, identities)
  <1>4. Came(s0, Given(None), None, None, None)
    BY <1>1, <1>3, KeysAreRead
  <1> HIDE DEF s0
  <1>5. Came(s1, Given(a.port), None, None, None)
    <2> DEFINE t == Word(a.port)
    <2>1. a.port # None => a.port \in Ports /\ Flag("p") \in Written /\ t \in Written
      BY <1>1, <1>2
    <2>2. s0 \in Seq(Written)
      BY <1>4
    <2> HIDE DEF t, Came
    <2>3. /\ s1 \in Seq(Written)
          /\ a.port = None => s1 = s0
          /\ a.port # None => Collected(s1) = Takes(Takes(Collected(s0), Flag("p")), t)
      BY <2>1, <2>2, SaidAfter DEF t
    <2> HIDE DEF s1
    <2>4. CASE a.port = None
      BY <1>4, <2>3, <2>4, Zenon
    <2>5. CASE a.port # None
      <3>1. Arrives(Takes(Takes(Collected(s0), Flag("p")), t),
                    a.keys, Append(Given(None), a.port), None, None, None)
        BY <1>4, <2>1, <2>5, EachArrives DEF t, Came
      <3>2. Append(Given(None), a.port) = Given(a.port)
        BY <1>3, <2>5
      <3> QED
        BY <2>3, <2>5, <3>1, <3>2, Zenon DEF Came
    <2> QED
      BY <2>4, <2>5
  <1> HIDE DEF s1
  <1>6. Came(s2, Given(a.port), a.jump, None, None)
    <2> DEFINE t == Word(a.jump)
    <2>1. a.jump # None => a.jump \in Jumps /\ Flag("J") \in Written /\ t \in Written
      BY <1>1, <1>2
    <2>2. s1 \in Seq(Written)
      BY <1>5
    <2> HIDE DEF t, Came
    <2>3. /\ s2 \in Seq(Written)
          /\ a.jump = None => s2 = s1
          /\ a.jump # None => Collected(s2) = Takes(Takes(Collected(s1), Flag("J")), t)
      BY <2>1, <2>2, SaidAfter DEF t
    <2> HIDE DEF s2
    <2>4. CASE a.jump = None
      BY <1>5, <2>3, <2>4, Zenon
    <2>5. CASE a.jump # None
      <3>1. Arrives(Takes(Takes(Collected(s1), Flag("J")), t),
                    a.keys, Given(a.port), a.jump, None, None)
        BY <1>5, <2>1, <2>5, EachArrives DEF t, Came
      <3> QED
        BY <2>3, <2>5, <3>1, Zenon DEF Came
    <2> QED
      BY <2>4, <2>5
  <1> HIDE DEF s2
  <1>7. Came(s3, Given(a.port), a.jump, a.timeout, None)
    <2> DEFINE t == Setting("connecttimeout", a.timeout)
    <2>1. a.timeout # None => a.timeout \in Seconds /\ Flag("o") \in Written /\ t \in Written
      BY <1>1, <1>2
    <2>2. s2 \in Seq(Written)
      BY <1>6
    <2> HIDE DEF t, Came
    <2>3. /\ s3 \in Seq(Written)
          /\ a.timeout = None => s3 = s2
          /\ a.timeout # None => Collected(s3) = Takes(Takes(Collected(s2), Flag("o")), t)
      BY <2>1, <2>2, SaidAfter DEF t
    <2> HIDE DEF s3
    <2>4. CASE a.timeout = None
      BY <1>6, <2>3, <2>4, Zenon
    <2>5. CASE a.timeout # None
      <3>1. Arrives(Takes(Takes(Collected(s2), Flag("o")), t),
                    a.keys, Given(a.port), a.jump, a.timeout, None)
        BY <1>6, <2>1, <2>5, EachArrives DEF t, Came
      <3> QED
        BY <2>3, <2>5, <3>1, Zenon DEF Came
    <2> QED
      BY <2>4, <2>5
  <1> HIDE DEF s3
  <1>8. Came(s4, Given(a.port), a.jump, a.timeout, a.identities)
    <2> DEFINE t == Setting("identitiesonly", a.identities)
    <2>1. a.identities # None => a.identities \in {"yes", "no"} /\ Flag("o") \in Written /\ t \in Written
      BY <1>1, <1>2
    <2>2. s3 \in Seq(Written)
      BY <1>7
    <2> HIDE DEF t, Came
    <2>3. /\ s4 \in Seq(Written)
          /\ a.identities = None => s4 = s3
          /\ a.identities # None => Collected(s4) = Takes(Takes(Collected(s3), Flag("o")), t)
      BY <2>1, <2>2, SaidAfter DEF t
    <2> HIDE DEF s4
    <2>4. CASE a.identities = None
      BY <1>7, <2>3, <2>4, Zenon
    <2>5. CASE a.identities # None
      <3>1. Arrives(Takes(Takes(Collected(s3), Flag("o")), t),
                    a.keys, Given(a.port), a.jump, a.timeout, a.identities)
        BY <1>7, <2>1, <2>5, EachArrives DEF t, Came
      <3> QED
        BY <2>3, <2>5, <3>1, Zenon DEF Came
    <2> QED
      BY <2>4, <2>5
  <1> HIDE DEF s4
  <1>9. OptionArgv(a) = s4
    BY DEF OptionArgv, Saying, s0, s1, s2, s3, s4
  <1> QED
    BY <1>8, <1>9, Zenon

-----------------------------------------------------------------------------
(* From the destination on: who to become there.                           *)
Dest(a) == IF a.user = None THEN Word(a.host) ELSE At(a.user, a.host)

Becomes(acc, a, sudo, runAs, home) ==
    /\ acc \in Parses /\ ~acc.bad /\ acc.want = None
    /\ acc.users = <<>> /\ acc.dest = Dest(a)
    /\ acc.keys = a.keys /\ acc.ports = Given(a.port) /\ acc.jump = a.jump
    /\ acc.timeout = a.timeout /\ acc.identities = a.identities
    /\ acc.sudo = sudo /\ acc.quiet = sudo /\ acc.runAs = runAs /\ acc.home = home

LEMMA DestIsThere ==
    ASSUME NEW a \in Accesses
    PROVE  /\ Dest(a) \in Written /\ Dest(a) \in Dests
           /\ Dest(a).opt = None /\ Dest(a) # Flag(None) /\ Dest(a).w = a.host
           /\ Dest(a).key = IF a.user = None THEN "" ELSE a.user
  <1>1. a.host \in Hosts /\ a.user \in Users \cup {None} /\ a.host # ""
    BY RecipeAssumption DEF Accesses
  <1>2. CASE a.user = None
    <2> DEFINE d == Word(a.host)
    <2>1. Dest(a) = d /\ d \in Written /\ d \in Dests
      <3>1. Dest(a) = d
        BY <1>2 DEF Dest
      <3>2. d \in {Word(w) : w \in KeyPaths \cup Ports \cup Jumps \cup Hosts \cup Users \cup {"sudo"}}
            /\ d \in {Word(h) : h \in Hosts}
        BY <1>1
      <3> HIDE DEF d
      <3>3. d \in Written
        BY <3>2 DEF Written
      <3>4. d \in Dests
        BY <3>2 DEF Dests
      <3> QED
        BY <3>1, <3>3, <3>4
    <2>2. d.opt = None /\ d.key = "" /\ d.w = a.host
      BY DEF Word, Token
    <2>3. Flag(None).w = ""
      BY DEF Flag, Token
    <2> HIDE DEF d
    <2> QED
      BY <1>1, <1>2, <2>1, <2>2, <2>3
  <1>3. CASE a.user # None
    <2> DEFINE d == At(a.user, a.host)
    <2>1. Dest(a) = d /\ d \in Written /\ d \in Dests
      <3>1. Dest(a) = d
        BY <1>3 DEF Dest
      <3>2. d \in {At(u, h) : u \in Users, h \in Hosts}
        <4>1. a.user \in Users /\ a.host \in Hosts
          BY <1>1, <1>3
        <4>2. \A u \in Users, h \in Hosts : At(u, h) \in {At(v, w) : v \in Users, w \in Hosts}
          OBVIOUS
        <4> DEFINE u == a.user
                   h == a.host
        <4>3. u \in Users /\ h \in Hosts /\ d = At(u, h)
          BY <4>1
        <4> HIDE DEF u, h, d
        <4> QED
          BY <4>2, <4>3
      <3> HIDE DEF d
      <3>3. d \in Written
        BY <3>2 DEF Written
      <3>4. d \in Dests
        BY <3>2 DEF Dests
      <3> QED
        BY <3>1, <3>3, <3>4
    <2>2. d.opt = None /\ d.key = a.user /\ d.w = a.host
      BY DEF At, Token
    <2>3. Flag(None).w = ""
      BY DEF Flag, Token
    <2> HIDE DEF d
    <2> QED
      BY <1>1, <1>3, <2>1, <2>2, <2>3
  <1> QED
    BY <1>2, <1>3

LEMMA DestIsRead ==
    ASSUME NEW a \in Accesses, NEW acc,
           Arrives(acc, a.keys, Given(a.port), a.jump, a.timeout, a.identities)
    PROVE  Becomes(Takes(acc, Dest(a)), a, FALSE, None, FALSE)
  <1> DEFINE d == Dest(a)
             new == [acc EXCEPT !.dest = d]
  <1>1. d \in Dests /\ ~IsOption(d)
    BY DestIsThere DEF IsOption
  <1>2. d = Dest(a)
    OBVIOUS
  <1> HIDE DEF d
  <1>3. /\ acc \in Parses /\ ~acc.bad /\ acc.want = None /\ ~acc.sudo /\ acc.dest = Flag(None)
    BY DEF Arrives
  <1>4. Takes(acc, d) = new
    BY <1>1, <1>3 DEF Takes
  <1>5. new \in Parses /\ new.dest = d
    BY <1>1, <1>3 DEF Parses
  <1>6. /\ new.bad = acc.bad /\ new.want = acc.want /\ new.users = acc.users
        /\ new.sudo = acc.sudo /\ new.runAs = acc.runAs /\ new.quiet = acc.quiet
        /\ new.home = acc.home /\ new.keys = acc.keys /\ new.ports = acc.ports
        /\ new.jump = acc.jump /\ new.timeout = acc.timeout /\ new.identities = acc.identities
    BY <1>3 DEF Parses
  <1>7. acc.sudo = FALSE /\ acc.quiet = FALSE /\ acc.home = FALSE
    BY DEF Arrives, Parses
  <1> HIDE DEF new
  <1>8. Becomes(new, a, FALSE, None, FALSE)
    BY <1>2, <1>5, <1>6, <1>7 DEF Arrives, Becomes
  <1> QED
    BY <1>2, <1>4, <1>8

LEMMA SudoIsRead ==
    ASSUME NEW a \in Accesses, NEW acc, Becomes(acc, a, FALSE, None, FALSE)
    PROVE  Becomes(Takes(Takes(acc, Word("sudo")), Flag("n")), a, TRUE, None, FALSE)
  <1> DEFINE sudo == [acc EXCEPT !.sudo = TRUE]
             q == TRUE
             h == FALSE
             new == [sudo EXCEPT !.quiet = q, !.home = h]
  <1>1. /\ acc \in Parses /\ ~acc.bad /\ acc.want = None /\ ~acc.sudo /\ acc.dest # Flag(None)
        /\ acc.runAs = None /\ acc.home = FALSE /\ acc.quiet = FALSE
    BY DestIsThere DEF Becomes
  <1>2. Takes(acc, Word("sudo")) = sudo
    <2>1. ~IsOption(Word("sudo"))
      BY DEF IsOption, Word, Token
    <2> QED
      BY <1>1, <2>1 DEF Takes, If
  <1>3. /\ sudo \in Parses /\ ~sudo.bad /\ sudo.want = None /\ sudo.sudo /\ sudo.runAs = None
        /\ sudo.quiet = FALSE /\ sudo.home = FALSE
    BY <1>1 DEF Parses
  <1>4. Takes(sudo, Flag("n")) = new
    <2>1. /\ Flag("n").opt = "n" /\ Flag("n").key = "" /\ Flag("n").w = "" /\ Flag("n") # Flag("u")
      BY DEF Flag, Token
    <2>2. Takes(sudo, Flag("n")) = SudoFlag(sudo, Flag("n"))
      BY <1>3, <2>1 DEF Takes, Sudo
    <2> HIDE DEF sudo
    <2>3. SudoFlag(sudo, Flag("n"))
              = [sudo EXCEPT !.quiet = @ \/ "n" \in {"n", ""}, !.home = @ \/ "H" \in {"n", ""}]
      BY <2>1 DEF SudoFlag, If
    <2>4. (sudo.quiet \/ "n" \in {"n", ""}) = TRUE /\ (sudo.home \/ "H" \in {"n", ""}) = FALSE
      BY <1>3
    <2> QED
      BY <2>2, <2>3, <2>4
  <1>5. new \in Parses /\ new.quiet = TRUE /\ new.home = FALSE /\ new.sudo = TRUE
    BY <1>1 DEF Parses
  <1>6. /\ new.bad = acc.bad /\ new.want = acc.want /\ new.users = acc.users
        /\ new.runAs = acc.runAs /\ new.dest = acc.dest
        /\ new.keys = acc.keys /\ new.ports = acc.ports
        /\ new.jump = acc.jump /\ new.timeout = acc.timeout /\ new.identities = acc.identities
    BY <1>1 DEF Parses
  <1> HIDE DEF new, sudo
  <1>7. Becomes(new, a, TRUE, None, FALSE)
    BY <1>5, <1>6 DEF Becomes
  <1> QED
    BY <1>2, <1>4, <1>7

LEMMA RunAsIsRead ==
    ASSUME NEW a \in Accesses, NEW acc, Becomes(acc, a, TRUE, None, FALSE), NEW u \in Users
    PROVE  Becomes(Takes(Takes(acc, Flag("u")), Word(u)), a, TRUE, u, FALSE)
  <1> DEFINE wants == [acc EXCEPT !.want = "u"]
             got == [wants EXCEPT !.want = None]
             new == [got EXCEPT !.runAs = u]
  <1>1. /\ acc \in Parses /\ ~acc.bad /\ acc.want = None /\ acc.sudo /\ acc.runAs = None
    BY DEF Becomes
  <1>2. Takes(acc, Flag("u")) = wants
    BY <1>1 DEF Takes, Sudo, SudoFlag
  <1>3. wants \in Parses /\ ~wants.bad /\ wants.want = "u"
    BY <1>1 DEF Parses
  <1>4. Takes(wants, Word(u)) = new
    <2>1. ~IsOption(Word(u)) /\ IsWord(Word(u), Users) /\ Word(u).w = u /\ "u" # None
      BY DEF IsOption, IsWord, Word, Token, None
    <2> HIDE DEF wants
    <2>2. Takes(wants, Word(u)) = Wanted(wants, Word(u))
      BY <1>3, <2>1 DEF Takes
    <2> QED
      BY <1>3, <2>1, <2>2 DEF Wanted, If
  <1>5. new \in Parses /\ new.runAs = u /\ new.want = None
    BY <1>1 DEF Parses
  <1>6. /\ new.bad = acc.bad /\ new.users = acc.users
        /\ new.sudo = acc.sudo /\ new.quiet = acc.quiet /\ new.home = acc.home
        /\ new.dest = acc.dest /\ new.keys = acc.keys /\ new.ports = acc.ports
        /\ new.jump = acc.jump /\ new.timeout = acc.timeout /\ new.identities = acc.identities
    BY <1>1 DEF Parses
  <1> HIDE DEF new, got, wants
  <1>7. Becomes(new, a, TRUE, u, FALSE)
    BY <1>5, <1>6 DEF Becomes
  <1> QED
    BY <1>2, <1>4, <1>7

LEMMA HomeIsRead ==
    ASSUME NEW a \in Accesses, NEW acc, NEW runAs, Becomes(acc, a, TRUE, runAs, FALSE)
    PROVE  Becomes(Takes(acc, Flag("H")), a, TRUE, runAs, TRUE)
  <1> DEFINE q == TRUE
             h == TRUE
             new == [acc EXCEPT !.quiet = q, !.home = h]
  <1>1. /\ acc \in Parses /\ ~acc.bad /\ acc.want = None /\ acc.sudo
        /\ acc.quiet = TRUE /\ acc.home = FALSE
    BY DEF Becomes
  <1>2. Takes(acc, Flag("H")) = new
    <2>1. /\ Flag("H").opt = "H" /\ Flag("H").key = "" /\ Flag("H").w = "" /\ Flag("H") # Flag("u")
      BY DEF Flag, Token
    <2>2. Takes(acc, Flag("H")) = SudoFlag(acc, Flag("H"))
      BY <1>1, <2>1 DEF Takes, Sudo
    <2>3. SudoFlag(acc, Flag("H"))
              = [acc EXCEPT !.quiet = @ \/ "n" \in {"H", ""}, !.home = @ \/ "H" \in {"H", ""}]
      BY <2>1 DEF SudoFlag, If
    <2>4. (acc.quiet \/ "n" \in {"H", ""}) = TRUE /\ (acc.home \/ "H" \in {"H", ""}) = TRUE
      BY <1>1
    <2> QED
      BY <2>2, <2>3, <2>4
  <1>3. new \in Parses /\ new.quiet = TRUE /\ new.home = TRUE
    BY <1>1 DEF Parses
  <1>4. /\ new.bad = acc.bad /\ new.want = acc.want /\ new.users = acc.users
        /\ new.sudo = acc.sudo /\ new.runAs = acc.runAs
        /\ new.dest = acc.dest /\ new.keys = acc.keys /\ new.ports = acc.ports
        /\ new.jump = acc.jump /\ new.timeout = acc.timeout /\ new.identities = acc.identities
    BY <1>1 DEF Parses
  <1> HIDE DEF new
  <1>5. Becomes(new, a, TRUE, runAs, TRUE)
    BY <1>3, <1>4 DEF Becomes
  <1> QED
    BY <1>2, <1>5

(* The whole of what ssh is given.                                         *)
LEMMA AllIsRead ==
    ASSUME NEW a \in Accesses, ~a.sudo => a.runAs = None /\ ~a.home
    PROVE  Becomes(Collected(SshArgv(a)), a, a.sudo, a.runAs, a.home)
  <1> DEFINE o == OptionArgv(a)
             d == Dest(a)
             s == Append(o, d)
             b1 == <<Word("sudo"), Flag("n")>>
             b2 == Said(a.runAs, <<Flag("u"), Word(a.runAs)>>)
             b3 == IF a.home THEN <<Flag("H")>> ELSE <<>>
  <1>1. /\ o \in Seq(Written)
        /\ Arrives(Collected(o), a.keys, Given(a.port), a.jump, a.timeout, a.identities)
    BY OptionsAreRead
  <1>2. d \in Written
    BY DestIsThere
  <1>3. SshArgv(a) = (o \o <<d>>) \o BecomeArgv(a)
    BY DEF SshArgv, OptionArgv, Dest
  <1>4. BecomeArgv(a) = IF ~a.sudo THEN <<>> ELSE (b1 \o b2) \o b3
    BY DEF BecomeArgv
  <1>5. a.sudo \in BOOLEAN /\ a.home \in BOOLEAN /\ a.runAs \in Users \cup {None}
    BY DEF Accesses
  <1>6. /\ Word("sudo") \in Written /\ Flag("n") \in Written /\ Flag("u") \in Written
        /\ Flag("H") \in Written /\ \A u \in Users : Word(u) \in Written
    BY DEF Written
  <1> HIDE DEF o, d
  <1>7. s \in Seq(Written) /\ o \o <<d>> = s
    BY <1>1, <1>2, AppendIsConcat, AppendProperties
  <1>8. Becomes(Collected(s), a, FALSE, None, FALSE)
    <2>1. Collected(s) = Takes(Collected(o), d)
      BY <1>1, <1>2, CollectedGoesOn
    <2> QED
      BY <1>1, <2>1, DestIsRead DEF d
  <1> HIDE DEF s
  <1>9. CASE ~a.sudo
    <2>1. SshArgv(a) = s \o <<>>
      BY <1>3, <1>4, <1>7, <1>9, Zenon
    <2>2. s \o <<>> = s
      BY <1>7, ConcatEmptySeq, Zenon
    <2>3. a.sudo = FALSE /\ a.runAs = None /\ a.home = FALSE
      BY <1>5, <1>9
    <2> QED
      BY <1>8, <2>1, <2>2, <2>3
  <1>10. CASE a.sudo
    <2> DEFINE x1 == s \o b1
               x2 == x1 \o b2
               x3 == x2 \o b3
    <2>1. b1 \in Seq(Written) /\ b2 \in Seq(Written) /\ b3 \in Seq(Written)
      <3>1. ASSUME NEW t \in Written, NEW u \in Written
            PROVE  <<t, u>> \in Seq(Written) /\ <<t>> \in Seq(Written)
        OBVIOUS
      <3>2. <<>> \in Seq(Written)
        OBVIOUS
      <3> QED
        BY <1>5, <1>6, <3>1, <3>2 DEF Said
    <2>2. SshArgv(a) = s \o ((b1 \o b2) \o b3)
      BY <1>3, <1>4, <1>7, <1>10, Zenon
    <2>3. x1 \in Seq(Written) /\ Collected(x1) = Takes(Takes(Collected(s), Word("sudo")), Flag("n"))
      BY <1>6, <1>7, TwoMore
    <2>4. Becomes(Collected(x1), a, TRUE, None, FALSE)
      BY <1>8, <2>3, SudoIsRead, Zenon
    <2>5. x2 = Saying(x1, a.runAs, Flag("u"), Word(a.runAs))
      BY DEF Saying
    <2> HIDE DEF b1, x1
    <2>6. /\ x2 \in Seq(Written)
          /\ a.runAs = None => x2 = x1
          /\ a.runAs # None =>
                 Collected(x2) = Takes(Takes(Collected(x1), Flag("u")), Word(a.runAs))
      <3>1. a.runAs # None => Flag("u") \in Written /\ Word(a.runAs) \in Written
        BY <1>5, <1>6
      <3> HIDE DEF x2
      <3> QED
        BY <2>3, <2>5, <3>1, SaidAfter
    <2> HIDE DEF b2, x2
    <2>7. Becomes(Collected(x2), a, TRUE, a.runAs, FALSE)
      <3>1. CASE a.runAs = None
        BY <2>4, <2>6, <3>1, Zenon
      <3>2. CASE a.runAs # None
        <4>1. a.runAs \in Users
          BY <1>5, <3>2
        <4>2. Collected(x2) = Takes(Takes(Collected(x1), Flag("u")), Word(a.runAs))
          BY <2>6, <3>2
        <4> QED
          BY <2>4, <4>1, <4>2, RunAsIsRead, Zenon
      <3> QED
        BY <3>1, <3>2
    <2>8. Becomes(Collected(x3), a, TRUE, a.runAs, a.home)
      <3>1. CASE ~a.home
        <4>1. x3 = x2 \o <<>> /\ x2 \o <<>> = x2
          BY <2>6, <3>1, ConcatEmptySeq
        <4>2. a.home = FALSE
          BY <1>5, <3>1
        <4> QED
          BY <2>7, <4>1, <4>2, Zenon
      <3>2. CASE a.home
        <4> DEFINE h == Flag("H")
        <4>1. h \in Written /\ x3 = x2 \o <<h>>
          BY <1>6, <3>2
        <4>2. x2 \o <<h>> = Append(x2, h) /\ Collected(Append(x2, h)) = Takes(Collected(x2), h)
          BY <2>6, <4>1, AppendIsConcat, CollectedGoesOn
        <4>3. Collected(x3) = Takes(Collected(x2), Flag("H"))
          BY <4>1, <4>2, Zenon
        <4>4. a.home = TRUE
          BY <1>5, <3>2
        <4> QED
          BY <2>7, <4>3, <4>4, HomeIsRead, Zenon
      <3> QED
        BY <3>1, <3>2
    <2> HIDE DEF b3
    <2>9. s \o ((b1 \o b2) \o b3) = x3
      <3>1. b1 \o b2 \in Seq(Written)
        BY <2>1, ConcatProperties, Zenon
      <3>4. \A x, y, z \in Seq(Written) : (x \o y) \o z = x \o (y \o z)
        BY ConcatAssociative
      <3>2. s \o ((b1 \o b2) \o b3) = (s \o (b1 \o b2)) \o b3
        BY <1>7, <2>1, <3>1, <3>4, Zenon
      <3>3. s \o (b1 \o b2) = (s \o b1) \o b2
        BY <1>7, <2>1, <3>4, Zenon
      <3> QED
        BY <3>2, <3>3, Zenon DEF x1, x2
    <2>10. a.sudo = TRUE
      BY <1>5, <1>10
    <2> QED
      BY <2>2, <2>8, <2>9, <2>10, Zenon
  <1> QED
    BY <1>5, <1>9, <1>10

(* Keys that do not repeat are each said once already.                     *)
LEMMA OnceIsSame ==
    ASSUME NEW S, NEW s \in Seq(S), NoRepeat(s)
    PROVE  Once(s) = s
  <1> DEFINE m == Len(s)
             Same(n, q) == q \in Seq(S) /\ Len(q) = n /\ \A i \in 1..n : q[i] = s[i]
  <1>1. m \in Nat /\ DOMAIN s = 1..m /\ \A i \in 1..m : s[i] \in S
    OBVIOUS
  <1>2. PICK g : /\ Once(s) = g[m] /\ g[0] = <<>>
                 /\ \A n \in 1..m :
                        g[n] = IF s[n] \in ToSet(g[n - 1]) THEN g[n - 1] ELSE Append(g[n - 1], s[n])
    BY <1>1, OnceSteps
  <1> DEFINE bad == {n \in 0..m : ~Same(n, g[n])}
  <1>3. bad = {}
    <2> SUFFICES ASSUME bad # {} PROVE FALSE
      OBVIOUS
    <2>1. PICK n \in bad : \A k \in bad : n <= k
      <3>1. bad \in SUBSET Nat
        OBVIOUS
      <3> HIDE DEF bad
      <3> QED
        BY <3>1, LeastOf
    <2>2. n # 0
      <3>1. Same(0, <<>>)
        OBVIOUS
      <3> QED
        BY <1>2, <2>1, <3>1
    <2>3. n \in 1..m /\ n - 1 \in 0..m /\ n - 1 \notin bad
      <3>1. n \in 0..m /\ \A k \in bad : n <= k
        BY <2>1
      <3> HIDE DEF bad, m
      <3>2. n \in 1..m /\ n - 1 \in 0..m /\ ~(n <= n - 1)
        BY <1>1, <2>2, <3>1
      <3> QED
        BY <3>1, <3>2
    <2> DEFINE q == g[n - 1]
    <2>4. q \in Seq(S) /\ Len(q) = n - 1 /\ \A i \in 1..(n - 1) : q[i] = s[i]
      <3>1. \A k \in 0..m : k \notin bad => Same(k, g[k])
        OBVIOUS
      <3>2. Same(n - 1, q)
        <4> HIDE DEF bad, Same, m
        <4> QED
          BY <2>3, <3>1
      <3> QED
        BY <3>2
    <2>5. g[n] = IF s[n] \in ToSet(q) THEN q ELSE Append(q, s[n])
      BY <1>2, <2>3
    <2>6. s[n] \in S /\ ~Same(n, g[n])
      BY <1>1, <2>1, <2>3
    <2> HIDE DEF q, m
    <2>7. s[n] \notin ToSet(q)
      <3> SUFFICES ASSUME NEW i \in 1..(n - 1), q[i] = s[n] PROVE FALSE
        BY <2>3, <2>4 DEF ToSet
      <3>1. i \in DOMAIN s /\ n \in DOMAIN s /\ i # n /\ s[i] = s[n]
        BY <1>1, <2>3, <2>4
      <3> QED
        BY <3>1 DEF NoRepeat
    <2>8. g[n] = Append(q, s[n])
      BY <2>5, <2>7
    <2> DEFINE r == Append(q, s[n])
    <2>9. r \in Seq(S) /\ Len(r) = n /\ r[n] = s[n] /\ \A i \in 1..(n - 1) : r[i] = q[i]
      BY <2>3, <2>4, <2>6
    <2> HIDE DEF r
    <2>10. \A i \in 1..n : i \in 1..(n - 1) \/ i = n
      BY <2>3
    <2>11. Same(n, r)
      BY <2>4, <2>9, <2>10
    <2> QED
      BY <2>6, <2>8, <2>11 DEF r
  <1>4. Same(m, g[m])
    <2>1. \A k \in 0..m : k \notin bad => Same(k, g[k])
      OBVIOUS
    <2> HIDE DEF bad, Same, m
    <2>2. m \in 0..m
      BY <1>1
    <2> QED
      BY <1>3, <2>1, <2>2
  <1> DEFINE q == g[m]
  <1>5. q \in Seq(S) /\ Len(q) = m /\ \A i \in 1..m : q[i] = s[i]
    BY <1>4
  <1> HIDE DEF q
  <1>6. q = s
    BY <1>1, <1>5
  <1> QED
    BY <1>2, <1>6 DEF q

LEMMA GivenIsOne ==
    ASSUME NEW v
    PROVE  Single(Given(v)) /\ FirstOr(Given(v)) = v
  <1>1. CASE v = None
    <2>1. ToSet(<<>>) = {} /\ Given(v) = <<>>
      BY <1>1 DEF ToSet, Given
    <2> QED
      BY <1>1, <2>1, FS_EmptySet DEF Single, FirstOr
  <1>2. CASE v # None
    <2>1. Given(v) = <<v>> /\ <<v>> # <<>> /\ <<v>>[1] = v
      BY <1>2 DEF Given
    <2>2. ToSet(<<v>>) = {v}
      BY DEF ToSet
    <2>3. Cardinality({v}) = 1
      BY FS_Singleton
    <2> QED
      BY <2>1, <2>2, <2>3 DEF Single, FirstOr
  <1> QED
    BY <1>1, <1>2

(* An access that is parsed again from what ssh is given is the same.      *)
LEMMA ReadAgain ==
    ASSUME NEW a \in Accesses, NEW s, Becomes(Collected(s), a, a.sudo, a.runAs, a.home),
           NoRepeat(a.keys)
    PROVE  /\ AcceptsAccess(s)
           /\ Access(s) = [user |-> a.user, host |-> a.host, port |-> a.port, keys |-> a.keys,
                           jump |-> a.jump, timeout |-> a.timeout, identities |-> a.identities,
                           sudo |-> a.sudo, runAs |-> a.runAs, home |-> a.home]
  <1> DEFINE acc == Collected(s)
  <1>1. Becomes(acc, a, a.sudo, a.runAs, a.home)
    OBVIOUS
  <1> HIDE DEF acc
  <1>2. /\ ~acc.bad /\ acc.want = None /\ acc.users = <<>> /\ acc.dest = Dest(a)
        /\ acc.keys = a.keys /\ acc.ports = Given(a.port) /\ acc.jump = a.jump
        /\ acc.timeout = a.timeout /\ acc.identities = a.identities
        /\ acc.sudo = a.sudo /\ acc.quiet = a.sudo /\ acc.runAs = a.runAs /\ acc.home = a.home
    BY <1>1 DEF Becomes
  <1>3. /\ a.user \in Users \cup {None} /\ a.host \in Hosts /\ a.keys \in Seq(KeyPaths)
        /\ "" \notin Users
    BY RecipeAssumption DEF Accesses
  <1>4. /\ acc.dest.opt = None /\ acc.dest.w = a.host
        /\ acc.dest.key = IF a.user = None THEN "" ELSE a.user
    BY <1>2, DestIsThere
  <1>5. Logins(acc) = Given(a.user)
    <2>1. <<>> \o <<>> = <<>> /\ \A v : <<>> \o <<v>> = <<v>>
      <3>1. <<>> \o <<>> = <<>>
        OBVIOUS
      <3>2. ASSUME NEW v PROVE <<>> \o <<v>> = <<v>>
        <4>1. <<v>> \in Seq({v})
          OBVIOUS
        <4> QED
          BY <4>1, ConcatEmptySeq
      <3> QED
        BY <3>1, <3>2
    <2>2. Logins(acc) = <<>> \o IF acc.dest.key # "" THEN <<acc.dest.key>> ELSE <<>>
      BY <1>2 DEF Logins
    <2>3. CASE a.user = None
      BY <1>4, <2>1, <2>2, <2>3 DEF Given
    <2>4. CASE a.user # None
      <3>1. acc.dest.key = a.user /\ a.user # ""
        BY <1>3, <1>4, <2>4
      <3>2. Logins(acc) = <<>> \o <<a.user>>
        BY <2>2, <3>1
      <3>3. Given(a.user) = <<a.user>>
        BY <2>4 DEF Given
      <3> QED
        BY <2>1, <3>2, <3>3
    <2> QED
      BY <2>3, <2>4
  <1>6. /\ Single(Logins(acc)) /\ FirstOr(Logins(acc)) = a.user
        /\ Single(acc.ports) /\ FirstOr(acc.ports) = a.port
    BY <1>2, <1>5, GivenIsOne
  <1>7. Once(acc.keys) = a.keys
    BY <1>2, <1>3, OnceIsSame
  <1>8. acc.dest.key \in Users \cup {""}
    BY <1>3, <1>4
  <1>9. AcceptsAccess(s)
    BY <1>2, <1>3, <1>4, <1>6, <1>8 DEF AcceptsAccess, acc
  <1>10. Access(s) = [user |-> FirstOr(Logins(acc)), host |-> acc.dest.w,
                      port |-> FirstOr(acc.ports), keys |-> Once(acc.keys), jump |-> acc.jump,
                      timeout |-> acc.timeout, identities |-> acc.identities,
                      sudo |-> acc.sudo, runAs |-> acc.runAs, home |-> acc.home]
    BY DEF Access, acc
  <1> QED
    BY <1>2, <1>4, <1>6, <1>7, <1>9, <1>10

(* An accepted line gives an access that is typed, and one of a kind.      *)
LEMMA AcceptedIsAccess ==
    ASSUME AccessIsRead, field = "access", AcceptsAccess(line)
    PROVE  LET a == Access(line) IN
           /\ a \in Accesses /\ NoRepeat(a.keys) /\ (~a.sudo => a.runAs = None /\ ~a.home)
  <1> DEFINE acc == Collected(line)
  <1>1. /\ ~acc.bad /\ acc.want = None /\ acc.dest.w \in Hosts /\ acc.dest.key \in Users \cup {""}
        /\ Single(Logins(acc)) /\ Single(acc.ports)
    BY DEF AcceptsAccess
  <1>2. acc \in Parses /\ SudoIsApart(acc)
    BY <1>1 DEF AccessIsRead, IsRead
  <1>3. Access(line) = [user |-> FirstOr(Logins(acc)), host |-> acc.dest.w,
                        port |-> FirstOr(acc.ports), keys |-> Once(acc.keys), jump |-> acc.jump,
                        timeout |-> acc.timeout, identities |-> acc.identities,
                        sudo |-> acc.sudo, runAs |-> acc.runAs, home |-> acc.home]
    BY DEF Access
  <1> HIDE DEF acc
  <1>4. FirstOr(Logins(acc)) \in Users \cup {None}
    <2>1. Logins(acc) \in Seq(Users)
      BY <1>1, <1>2, LoginsAreSaid
    <2> QED
      BY <1>1, <2>1, OneIsSaid
  <1>5. FirstOr(acc.ports) \in Ports \cup {None}
    <2>1. acc.ports \in Seq(Ports)
      BY <1>2 DEF Parses
    <2> QED
      BY <1>1, <2>1, OneIsSaid
  <1>6. Once(acc.keys) \in Seq(KeyPaths) /\ NoRepeat(Once(acc.keys))
    <2>1. acc.keys \in Seq(KeyPaths)
      BY <1>2 DEF Parses
    <2> QED
      BY <2>1, OnceKeeps
  <1>7. /\ acc.jump \in Jumps \cup {None} /\ acc.timeout \in Seconds \cup {None}
        /\ acc.identities \in {"yes", "no", None} /\ acc.sudo \in BOOLEAN
        /\ acc.runAs \in Users \cup {None} /\ acc.home \in BOOLEAN
    BY <1>2 DEF Parses
  <1>8. ~acc.sudo => acc.runAs = None /\ ~acc.home
    BY <1>2 DEF SudoIsApart
  <1> DEFINE a == Access(line)
  <1>9. /\ a.keys = Once(acc.keys) /\ a.sudo = acc.sudo /\ a.runAs = acc.runAs /\ a.home = acc.home
    BY <1>3
  <1>10. a \in Accesses
    <2> DEFINE u == FirstOr(Logins(acc))
               h == acc.dest.w
               p == FirstOr(acc.ports)
               k == Once(acc.keys)
    <2>1. /\ u \in Users \cup {None} /\ h \in Hosts /\ p \in Ports \cup {None}
          /\ k \in Seq(KeyPaths)
      BY <1>1, <1>4, <1>5, <1>6
    <2>2. a = [user |-> u, host |-> h, port |-> p, keys |-> k, jump |-> acc.jump,
               timeout |-> acc.timeout, identities |-> acc.identities,
               sudo |-> acc.sudo, runAs |-> acc.runAs, home |-> acc.home]
      BY <1>3
    <2> HIDE DEF u, h, p, k, a
    <2> QED
      BY <1>7, <2>1, <2>2 DEF Accesses
  <1> HIDE DEF a
  <1>11. a \in Accesses /\ NoRepeat(a.keys) /\ (~a.sudo => a.runAs = None /\ ~a.home)
    BY <1>6, <1>8, <1>9, <1>10
  <1> QED
    BY <1>11 DEF a

(* What is accepted is told to ssh and sudo whole: their command line, for *)
(* any line of any length, is one that would be accepted as the same login,*)
(* way in, keys and user to become (_parse_access, ssh_argv, become_argv). *)
THEOREM WhatIsToldReadsBack == Spec => []ReadsBack
  <1>1. AccessIsRead => ReadsBack
    <2> SUFFICES ASSUME AccessIsRead, field = "access", AcceptsAccess(line)
                 PROVE  /\ AcceptsAccess(SshArgv(Access(line)))
                        /\ Access(SshArgv(Access(line))) = Access(line)
      BY DEF ReadsBack
    <2> DEFINE a == Access(line)
    <2>1. a \in Accesses /\ NoRepeat(a.keys) /\ (~a.sudo => a.runAs = None /\ ~a.home)
      BY AcceptedIsAccess
    <2>2. a = [user |-> a.user, host |-> a.host, port |-> a.port, keys |-> a.keys,
               jump |-> a.jump, timeout |-> a.timeout, identities |-> a.identities,
               sudo |-> a.sudo, runAs |-> a.runAs, home |-> a.home]
      BY DEF Access
    <2> HIDE DEF a
    <2>3. Becomes(Collected(SshArgv(a)), a, a.sudo, a.runAs, a.home)
      BY <2>1, AllIsRead
    <2>4. /\ AcceptsAccess(SshArgv(a))
          /\ Access(SshArgv(a)) = [user |-> a.user, host |-> a.host, port |-> a.port, keys |-> a.keys,
               jump |-> a.jump, timeout |-> a.timeout, identities |-> a.identities,
               sudo |-> a.sudo, runAs |-> a.runAs, home |-> a.home]
      BY <2>1, <2>3, ReadAgain
    <2> QED
      BY <2>2, <2>4, Zenon DEF a
  <1> QED
    BY <1>1, AccessIsAlwaysRead, PTL
=============================================================================
