------------------------------- MODULE Recipe -------------------------------
(***************************************************************************)
(* The two lines a person writes on an ssh card (recipe.py): how to arrive *)
(* as the right user, and what to run there.  They are parsed token by     *)
(* token and never run.  The lines are typed here a token at a time, and   *)
(* parsed as the form parses them after each.  How a line is cut into      *)
(* tokens and quoted again is left out: a token is an option with what is  *)
(* attached to it, or a word, and none is empty.                           *)
(***************************************************************************)
EXTENDS Naturals, Sequences, SequencesExt, FiniteSetsExt

CONSTANTS
    Users, Hosts, Ports, KeyPaths, \* words that pass for a user, a host, ...
    Jumps,                         \* for a jump host, its user included
    Seconds,                       \* for a timeout
    Scripts,                       \* and the absolute paths that are odoo-bin
    AccessTokens, LaunchTokens,    \* what may be typed
    MaxTokens                      \* bound: tokens in a line

VARIABLES
    field, \* the field being typed: access, launch
    line   \* its tokens
vars == <<field, line>>

None == "none"
Pair == "pair"
Token(opt, key, w) == [opt |-> opt, key |-> key, w |-> w]
Word(w) == Token(None, "", w)
At(user, host) == Token(None, user, host)      \* user@host
Setting(key, w) == Token(Pair, key, w)         \* key=value, what -o takes
Flag(opt) == Token(opt, "", "")                \* -x or --long
Attached(opt, w) == Token(opt, "", w)          \* -xvalue or --long=value
IsOption(t) == t.opt \notin {None, Pair}
IsWord(t, words) == t.opt = None /\ t.key = "" /\ t.w \in words

(* The value a token gives: its option apart, and the key before its "=".  *)
Whole(t) == IF t.opt \in {"o", Pair} \/ t.key = "" THEN t.w ELSE t.key \o "@" \o t.w

ASSUME RecipeAssumption ==
    /\ Flag(None) \notin AccessTokens
    /\ "" \notin Users \cup Hosts \cup Ports \cup KeyPaths \cup Jumps \cup Seconds
    /\ None \notin Users \cup Ports \cup Jumps \cup Seconds

-----------------------------------------------------------------------------
(* _parse_access: one pass.  want is an option still without its value.    *)
Start ==
    [bad |-> FALSE, want |-> None, users |-> <<>>, ports |-> <<>>, keys |-> <<>>,
     jump |-> None, timeout |-> None, identities |-> None, dest |-> Flag(None),
     sudo |-> FALSE, runAs |-> None, quiet |-> FALSE, home |-> FALSE]

Refuse(acc) == [acc EXCEPT !.bad = TRUE]
If(ok, acc, new) == IF ok THEN new ELSE Refuse(acc)

(* _apply_named: the only -o keys, by what they do.                        *)
Named(acc, key, v) ==
    CASE key = "port" -> If(v \in Ports, acc, [acc EXCEPT !.ports = Append(@, v)])
      [] key = "user" -> If(v \in Users, acc, [acc EXCEPT !.users = Append(@, v)])
      [] key = "identityfile" ->
             If(v \in KeyPaths, acc, [acc EXCEPT !.keys = Append(@, v)])
      [] key = "proxyjump" -> If(v \in Jumps, acc, [acc EXCEPT !.jump = v])
      [] key = "connecttimeout" -> If(v \in Seconds, acc, [acc EXCEPT !.timeout = v])
      [] key = "identitiesonly" ->
             If(v \in {"yes", "no"}, acc, [acc EXCEPT !.identities = v])
      [] key = "batchmode" -> If(v = "yes", acc, acc)
      [] OTHER -> Refuse(acc)

LongFor == [p |-> "port", l |-> "user", i |-> "identityfile", J |-> "proxyjump"]

(* The value of an option, whether attached or the next token.  What looks *)
(* like an option is no port, user, path or host.                          *)
Valued(acc, opt, t) ==
    IF opt = "o" THEN If(t.opt # None, acc, Named(acc, t.key, Whole(t)))
    ELSE If(t.opt # Pair /\ (t.key = "" \/ opt = "J"), acc, Named(acc, LongFor[opt], Whole(t)))

TakesValue == {"o"} \cup DOMAIN LongFor

(* _parse_option.                                                          *)
Option(acc, t) ==
    IF t = Flag("T") THEN acc
    ELSE IF t.opt \notin TakesValue THEN Refuse(acc)
    ELSE IF t = Flag(t.opt) THEN [acc EXCEPT !.want = t.opt]
    ELSE Valued(acc, t.opt, t)

(* One option of sudo's.                                                   *)
SudoFlag(acc, t) ==
    IF t = Flag("u") THEN [acc EXCEPT !.want = "u"]
    ELSE IF t.opt = "u" THEN If(t.key = "" /\ t.w \in Users, acc, [acc EXCEPT !.runAs = t.w])
    ELSE If(t.opt \in {"n", "H"} /\ t.key = "" /\ t.w \in {"", "n", "H"}, acc,
            [acc EXCEPT !.quiet = @ \/ "n" \in {t.opt, t.w},
                        !.home = @ \/ "H" \in {t.opt, t.w}])

(* _parse_become, after its sudo: -n, -H, and one -u USER.                 *)
Sudo(acc, t) ==
    IF t.opt = "u" /\ acc.runAs # None THEN Refuse(acc)
    ELSE SudoFlag(acc, t)

(* The token after an option that wants one.                               *)
Wanted(acc, t) ==
    LET got == [acc EXCEPT !.want = None] IN
    IF IsOption(t) THEN Refuse(acc)
    ELSE IF acc.want = "u" THEN If(IsWord(t, Users), acc, [got EXCEPT !.runAs = t.w])
    ELSE Valued(got, acc.want, t)

Takes(acc, t) ==
    IF acc.bad THEN acc
    ELSE IF acc.want # None THEN Wanted(acc, t)
    ELSE IF acc.sudo THEN Sudo(acc, t)
    ELSE IF IsOption(t) THEN Option(acc, t)
    ELSE IF acc.dest = Flag(None) THEN [acc EXCEPT !.dest = t]
    ELSE If(t = Word("sudo"), acc, [acc EXCEPT !.sudo = TRUE])

Collected(tokens) ==
    LET acc[n \in 0..Len(tokens)] == IF n = 0 THEN Start ELSE Takes(acc[n - 1], tokens[n])
    IN  acc[Len(tokens)]

(* Bug: the first that is given is taken, and the others forgotten.        *)
FirstGiven(values) == TRUE

(* _single: the same may be said twice, two different may not.             *)
Single(values) == Cardinality(ToSet(values)) <= 1

Logins(acc) == acc.users \o IF acc.dest.key # "" THEN <<acc.dest.key>> ELSE <<>>

AcceptsAccess(tokens) ==
    LET acc == Collected(tokens) IN
    /\ ~acc.bad
    /\ acc.want = None
    /\ acc.dest.opt = None /\ acc.dest.w \in Hosts /\ acc.dest.key \in Users \cup {""}
    /\ acc.sudo => acc.quiet
    /\ Single(Logins(acc))
    /\ Single(acc.ports)

FirstOr(values) == IF values = <<>> THEN None ELSE values[1]

(* dict.fromkeys: each key once, where it was first.                       *)
Once(keys) ==
    LET once[n \in 0..Len(keys)] ==
            IF n = 0 THEN <<>>
            ELSE IF keys[n] \in ToSet(once[n - 1]) THEN once[n - 1]
            ELSE Append(once[n - 1], keys[n])
    IN  once[Len(keys)]

(* Access: what a connection is made from.                                 *)
Access(tokens) ==
    LET acc == Collected(tokens) IN
    [user |-> FirstOr(Logins(acc)), host |-> acc.dest.w, port |-> FirstOr(acc.ports),
     keys |-> Once(acc.keys), jump |-> acc.jump, timeout |-> acc.timeout,
     identities |-> acc.identities, sudo |-> acc.sudo, runAs |-> acc.runAs, home |-> acc.home]

Said(value, tokens) == IF value = None THEN <<>> ELSE tokens

(* Bug: the flags of sudo are run together, -u last but one.               *)
BecomeArgvRunTogether(a) ==
    IF ~a.sudo THEN <<>>
    ELSE <<Word("sudo"), Flag("n"), Flag("u")>>
         \o (IF a.home THEN <<Flag("H")>> ELSE <<>>) \o Said(a.runAs, <<Word(a.runAs)>>)

BecomeArgv(a) ==
    IF ~a.sudo THEN <<>>
    ELSE <<Word("sudo"), Flag("n")>> \o Said(a.runAs, <<Flag("u"), Word(a.runAs)>>)
         \o (IF a.home THEN <<Flag("H")>> ELSE <<>>)

(* -i and a key, for each.                                                 *)
KeyArgv(keys) ==
    [i \in 1..(2 * Len(keys)) |-> IF i % 2 = 1 THEN Flag("i") ELSE Word(keys[i \div 2])]

(* ssh_argv, up to the remote command: what ssh is really given.           *)
SshArgv(a) ==
    KeyArgv(a.keys)
    \o Said(a.port, <<Flag("p"), Word(a.port)>>)
    \o Said(a.jump, <<Flag("J"), Word(a.jump)>>)
    \o Said(a.timeout, <<Flag("o"), Setting("connecttimeout", a.timeout)>>)
    \o Said(a.identities, <<Flag("o"), Setting("identitiesonly", a.identities)>>)
    \o <<IF a.user = None THEN Word(a.host) ELSE At(a.user, a.host)>>
    \o BecomeArgv(a)

-----------------------------------------------------------------------------
(* _parse_launch.                                                          *)
IsShell(tokens, i) == tokens[i] = Word("shell")
IsAddonsPath(t) == t.opt = "addons-path" /\ t.w # ""

(* Bug: only the token just before it is looked at.                        *)
FollowsTokenBefore(tokens, i) == ~IsOption(tokens[i - 1])

(* A shell after a word, or after an addons path that is after a word.     *)
Follows(tokens, i) ==
    IF IsAddonsPath(tokens[i - 1]) /\ i >= 3
    THEN ~IsOption(tokens[i - 2]) ELSE ~IsOption(tokens[i - 1])

(* _find_shell: the first that counts.                                     *)
ShellAt(tokens) ==
    {i \in 2..Len(tokens) :
        /\ IsShell(tokens, i) /\ Follows(tokens, i)
        /\ \A j \in 2..(i - 1) : ~(IsShell(tokens, j) /\ Follows(tokens, j))}

AcceptsLaunch(tokens) ==
    tokens # <<>> /\ ~IsOption(tokens[1]) /\ tokens[1].w # "shell" /\ ShellAt(tokens) # {}

OdooBin(tokens) ==
    LET i == CHOOSE j \in ShellAt(tokens) : TRUE IN
    IF IsAddonsPath(tokens[i - 1]) THEN tokens[i - 2] ELSE tokens[i - 1]

(* Odoo's own arguments are those after shell.                             *)
After(tokens) ==
    SubSeq(tokens, 1 + CHOOSE i \in ShellAt(tokens) : TRUE, Len(tokens))

(* _database_flag, _config_flag, _workers_flag, _port_flag: the first such *)
(* option, and the text attached to it or after it, an option's included.  *)
ValueOf(tokens, names) ==
    LET hits == {i \in DOMAIN tokens : tokens[i].opt \in names} IN
    IF hits = {} THEN Flag(None)
    ELSE LET i == Min(hits) IN
         IF tokens[i].w # "" THEN Word(tokens[i].w)
         ELSE IF i < Len(tokens) THEN tokens[i + 1] ELSE Flag(None)

Launch(tokens) ==
    LET after == After(tokens) IN
    [odooBin |-> OdooBin(tokens),
     database |-> ValueOf(after, {"d", "database"}),
     config |-> ValueOf(after, {"c", "config"}),
     httpOff |-> \/ {Flag("no-http"), Flag("no-xmlrpc")} \cap ToSet(after) # {}
                 \/ ValueOf(after, {"workers"}) = Word("0"),
     httpPort |-> ValueOf(after, {"p", "http-port", "xmlrpc-port"})]

-----------------------------------------------------------------------------
(* The form: the line is parsed at every change.  A line refused for what  *)
(* it already holds is not typed further.                                  *)
Hopeless == field = "access" /\ Collected(line).bad

Types ==
    /\ Len(line) < MaxTokens
    /\ ~Hopeless
    /\ \E t \in IF field = "access" THEN AccessTokens ELSE LaunchTokens :
           line' = Append(line, t)
    /\ UNCHANGED field

Init == field \in {"access", "launch"} /\ line = <<>>
Next == Types
Spec == Init /\ [][Next]_vars

-----------------------------------------------------------------------------
(* What ssh is given says all that was accepted: read back, it is the same *)
(* login, keys, way in and user to become.                                 *)
ReadsBack ==
    field = "access" /\ AcceptsAccess(line) =>
        LET said == SshArgv(Access(line)) IN
        AcceptsAccess(said) /\ Access(said) = Access(line)

(* What a line says, looked up where it stands, before the word after the  *)
(* destination: attached to an option, in the token that follows it, or in *)
(* a -o.                                                                   *)
ShortFor(long) == {o \in DOMAIN LongFor : LongFor[o] = long}
Follow(tokens, i, opts) == i > 1 /\ tokens[i - 1] \in {Flag(o) : o \in opts}
Plain(tokens, i) == ~IsOption(tokens[i]) /\ ~Follow(tokens, i, TakesValue)
Before(tokens, i) ==
    \A j, k \in 1..i : Plain(tokens, j) /\ Plain(tokens, k) => j = k

Says(tokens, i, long) ==
    \/ tokens[i].opt \in {"o", Pair} /\ tokens[i].key = long
    \/ tokens[i].opt \in ShortFor(long) /\ tokens[i] # Flag(tokens[i].opt)
    \/ Follow(tokens, i, ShortFor(long))

SaidAs(tokens, long) ==
    {Whole(tokens[i]) : i \in {j \in DOMAIN tokens : Before(tokens, j) /\ Says(tokens, j, long)}}

(* The login before the host.                                              *)
SaidAt(tokens) ==
    {tokens[i].key : i \in {j \in DOMAIN tokens :
        Before(tokens, j) /\ Plain(tokens, j) /\ tokens[j].key # ""}}

OneOf(value, said) == IF said = {} THEN value = None ELSE said = {value}

(* Nothing an accepted line says of who, where and with which key is lost  *)
(* or overruled: a login said in three places is one login, a port one     *)
(* port, and every key is offered.                                         *)
AllThatWasSaid ==
    field = "access" /\ AcceptsAccess(line) =>
        LET a == Access(line) IN
        /\ OneOf(a.user, SaidAs(line, "user") \cup SaidAt(line))
        /\ OneOf(a.port, SaidAs(line, "port"))
        /\ ToSet(a.keys) = SaidAs(line, "identityfile")
        /\ a.jump \in SaidAs(line, "proxyjump") \cup {None}
        /\ (a.jump = None) = (SaidAs(line, "proxyjump") = {})

(* Where Odoo itself takes the subcommand: the first argument after the    *)
(* script, an addons path apart.                                           *)
OdooTakesShell(i) ==
    /\ IsWord(line[i], Scripts)
    /\ \/ i + 1 <= Len(line) /\ IsShell(line, i + 1)
       \/ i + 2 <= Len(line) /\ IsAddonsPath(line[i + 1]) /\ IsShell(line, i + 2)

(* A launch whose shell Odoo would take is accepted, and its first script  *)
(* that is told so is where Odoo's version is read from.                   *)
ShellIsFound ==
    field = "launch" /\ line # <<>> /\ ~IsOption(line[1]) /\ line[1].w # "shell" =>
        LET where == {i \in DOMAIN line : OdooTakesShell(i)} IN
        where # {} =>
            /\ AcceptsLaunch(line)
            /\ (\A j \in 1..Min(where) : ~IsShell(line, j))
                   => OdooBin(line) = line[Min(where)]

(* docs/architecture.md and the message of the refusal: options go after   *)
(* shell, and only a leading addons path before it.  The code looks no     *)
(* further back than the word before shell, which may be an option's value.*)
NoOptionBeforeShell ==
    field = "launch" /\ AcceptsLaunch(line) =>
        \A s \in ShellAt(line), i, k \in DOMAIN line :
            /\ i < k /\ k < s
            /\ IsOption(line[k])
            /\ {j \in DOMAIN line : IsWord(line[j], Scripts)} = {i}
            => IsAddonsPath(line[k])
=============================================================================
