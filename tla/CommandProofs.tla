---------------------------- MODULE CommandProofs ----------------------------
(***************************************************************************)
(* Theorems about the commands agents run, for lines of any length: what a *)
(* scan has found after each argument is an invariant of the scan, as what *)
(* holds after each step is one of a specification.                        *)
(***************************************************************************)
EXTENDS CommandExec, WellFoundedInduction, NaturalsInduction, TLAPS

-----------------------------------------------------------------------------
(***************************************************************************)
(* What holds at every position of a line                                  *)
(***************************************************************************)

\* A set of numbers that has any has a smallest.
LEMMA Smallest ==
  ASSUME NEW S, S \subseteq Nat, S # {}
  PROVE  \E i \in S : \A j \in S : i <= j
<1> DEFINE R == {ss \in Nat \X Nat : ss[1] < ss[2]}
<1>1. IsWellFoundedOn(R, Nat)
  BY NatLessThanWellFounded, Zenon DEF OpToRel
<1>2. PICK i \in S : \A j \in S : <<j, i>> \notin R
  <2> HIDE DEF R
  <2> QED BY <1>1, WFMin
<1>3. \A j \in S : <<j, i>> \in Nat \X Nat /\ (j < i => <<j, i>> \in R)
  OBVIOUS
<1>4. ASSUME NEW j \in S PROVE i <= j
  <2>1. ~(j < i)
    BY <1>2, <1>3
  <2>2. i \in Nat /\ j \in Nat
    OBVIOUS
  <2> HIDE DEF R
  <2> QED BY <2>1, <2>2
<1> QED BY <1>4

\* A set that has 0, and each number whose predecessor it has, has them all: else
\* there would be a smallest one that it lacks.
LEMMA Upwards ==
  ASSUME NEW n \in Nat, NEW S, 0 \in S, \A i \in 1..n : i - 1 \in S => i \in S
  PROVE  0..n \subseteq S
<1> DEFINE lacked == {i \in 0..n : i \notin S}
<1> SUFFICES ASSUME lacked # {} PROVE FALSE
  OBVIOUS
<1>0. lacked \subseteq Nat
  OBVIOUS
<1>1. PICK i \in lacked : \A j \in lacked : i <= j
  <2> HIDE DEF lacked
  <2> QED BY <1>0, Smallest
<1>2. i # 0 /\ i \in 1..n /\ i - 1 \in 0..n /\ ~(i <= i - 1)
  BY <1>1
<1> QED BY <1>1, <1>2

-----------------------------------------------------------------------------
(***************************************************************************)
(* The recursive functions have the values their equations give            *)
(***************************************************************************)

\* A scan begins with nothing found and takes one argument after the other.
LEMMA ScanSteps ==
  ASSUME NEW args, Len(args) \in Nat, NEW from \in Nat \ {0}, NEW flags, NEW i \in 0..Len(args)
  PROVE  Scans(args, from, flags)[i] =
            IF i < from THEN Scanned(flags)
                        ELSE ScanArg(flags, Scans(args, from, flags)[i-1], args[i])
<1> DEFINE n == Len(args)
           Step(scan, j) == IF j < from THEN Scanned(flags) ELSE ScanArg(flags, scan[j-1], args[j])
           Scan(m, scan) == scan = [j \in 0..m |-> Step(scan, j)]
           S == {m \in 0..n : \E scan : Scan(m, scan)}
<1>1. 0 \in S
  <2> DEFINE scan == [j \in 0..0 |-> Scanned(flags)]
  <2>1. Scan(0, scan)
    OBVIOUS
  <2> QED BY <2>1
<1>2. ASSUME NEW m \in 1..n, m - 1 \in S PROVE m \in S
  <2>1. PICK old : Scan(m-1, old)
    BY <1>2
  <2> DEFINE scan == [j \in 0..m |-> IF j = m THEN Step(old, m) ELSE old[j]]
  <2>2. \A j \in 0..m : Step(scan, j) = Step(old, j)
    OBVIOUS
  <2>3. \A j \in 0..m-1 : old[j] = Step(old, j)
    BY <2>1
  <2>4. \A j \in 0..m : scan[j] = Step(scan, j)
    <3> HIDE DEF Step
    <3> QED BY <2>2, <2>3
  <2>5. Scan(m, scan)
    <3>1. scan = [j \in 0..m |-> scan[j]]
      OBVIOUS
    <3> HIDE DEF scan
    <3> QED BY <2>4, <3>1, Zenon
  <2>6. \E new : Scan(m, new)
    <3> HIDE DEF Scan, scan
    <3> QED BY <2>5
  <2> HIDE DEF Scan, scan
  <2> QED BY <2>6
<1>3. n \in S
  <2>1. n \in 0..n /\ n \in Nat
    OBVIOUS
  <2> HIDE DEF S, n
  <2>2. 0..n \subseteq S
    BY <1>1, <1>2, <2>1, Upwards
  <2> QED BY <2>1, <2>2
<1>4. \E scan : Scan(n, scan)
  BY <1>3
<1>5. Scan(n, CHOOSE scan : Scan(n, scan))
  <2> HIDE DEF Scan
  <2> QED BY <1>4
<1>6. Scans(args, from, flags) = CHOOSE scan : Scan(n, scan)
  BY DEF Scans
<1> HIDE DEF Step
<1>7. Scans(args, from, flags)[i] = Step(Scans(args, from, flags), i)
  BY <1>5, <1>6
<1> QED BY <1>7 DEF Step

\* The arguments without a dash are collected from the first one looked at on.
LEMMA KeptSteps ==
  ASSUME NEW args, Len(args) \in Nat, NEW from \in Nat \ {0}, NEW i \in 0..Len(args)
  PROVE  Kept(args, from)[i] =
            IF i < from THEN <<>>
            ELSE IF Dashed(args[i]) THEN Kept(args, from)[i-1]
                                    ELSE Append(Kept(args, from)[i-1], args[i])
<1> DEFINE n == Len(args)
           Step(kept, j) ==
               IF j < from THEN <<>>
               ELSE IF Dashed(args[j]) THEN kept[j-1] ELSE Append(kept[j-1], args[j])
           Upto(m, kept) == kept = [j \in 0..m |-> Step(kept, j)]
           S == {m \in 0..n : \E kept : Upto(m, kept)}
<1>1. 0 \in S
  <2> DEFINE kept == [j \in 0..0 |-> <<>>]
  <2>1. Upto(0, kept)
    OBVIOUS
  <2> QED BY <2>1
<1>2. ASSUME NEW m \in 1..n, m - 1 \in S PROVE m \in S
  <2>1. PICK old : Upto(m-1, old)
    BY <1>2
  <2> DEFINE kept == [j \in 0..m |-> IF j = m THEN Step(old, m) ELSE old[j]]
  <2>2. \A j \in 0..m : Step(kept, j) = Step(old, j)
    OBVIOUS
  <2>3. \A j \in 0..m-1 : old[j] = Step(old, j)
    BY <2>1
  <2>4. \A j \in 0..m : kept[j] = Step(kept, j)
    <3> HIDE DEF Step
    <3> QED BY <2>2, <2>3
  <2>5. Upto(m, kept)
    <3>1. kept = [j \in 0..m |-> kept[j]]
      OBVIOUS
    <3> HIDE DEF kept
    <3> QED BY <2>4, <3>1, Zenon
  <2>6. \E new : Upto(m, new)
    <3> HIDE DEF Upto, kept
    <3> QED BY <2>5
  <2> HIDE DEF Upto, kept
  <2> QED BY <2>6
<1>3. n \in S
  <2>1. n \in 0..n /\ n \in Nat
    OBVIOUS
  <2> HIDE DEF S, n
  <2>2. 0..n \subseteq S
    BY <1>1, <1>2, <2>1, Upwards
  <2> QED BY <2>1, <2>2
<1>4. \E kept : Upto(n, kept)
  BY <1>3
<1>5. Upto(n, CHOOSE kept : Upto(n, kept))
  <2> HIDE DEF Upto
  <2> QED BY <1>4
<1>6. Kept(args, from) = CHOOSE kept : Upto(n, kept)
  BY DEF Kept
<1> HIDE DEF Step
<1>7. Kept(args, from)[i] = Step(Kept(args, from), i)
  BY <1>5, <1>6
<1> QED BY <1>7 DEF Step

\* So are the places of bodies, from the first argument on.
LEMMA BodySteps ==
  ASSUME NEW args, Len(args) \in Nat, NEW names, NEW field, NEW i \in 0..Len(args)
  PROVE  BodySeen(args, names, field)[i] =
            IF i = 0 THEN [skip |-> FALSE, at |-> <<>>]
            ELSE BodyArg(args, names, field, BodySeen(args, names, field)[i-1], i)
<1> DEFINE n == Len(args)
           Step(seen, j) ==
               IF j = 0 THEN [skip |-> FALSE, at |-> <<>>]
               ELSE BodyArg(args, names, field, seen[j-1], j)
           Upto(m, seen) == seen = [j \in 0..m |-> Step(seen, j)]
           S == {m \in 0..n : \E seen : Upto(m, seen)}
<1>1. 0 \in S
  <2> DEFINE seen == [j \in 0..0 |-> [skip |-> FALSE, at |-> <<>>]]
  <2>1. Upto(0, seen)
    OBVIOUS
  <2>2. \E new : Upto(0, new)
    <3> HIDE DEF Upto, seen
    <3> QED BY <2>1
  <2> HIDE DEF Upto
  <2> QED BY <2>2
<1>2. ASSUME NEW m \in 1..n, m - 1 \in S PROVE m \in S
  <2>1. PICK old : Upto(m-1, old)
    BY <1>2
  <2> DEFINE seen == [j \in 0..m |-> IF j = m THEN Step(old, m) ELSE old[j]]
  <2>2. \A j \in 0..m : Step(seen, j) = Step(old, j)
    OBVIOUS
  <2>3. \A j \in 0..m-1 : old[j] = Step(old, j)
    BY <2>1
  <2>4. \A j \in 0..m : seen[j] = Step(seen, j)
    <3> HIDE DEF Step
    <3> QED BY <2>2, <2>3
  <2>5. Upto(m, seen)
    <3>1. seen = [j \in 0..m |-> seen[j]]
      OBVIOUS
    <3> HIDE DEF seen
    <3> QED BY <2>4, <3>1, Zenon
  <2>6. \E new : Upto(m, new)
    <3> HIDE DEF Upto, seen
    <3> QED BY <2>5
  <2> HIDE DEF Upto, seen
  <2> QED BY <2>6
<1>3. n \in S
  <2>1. n \in 0..n /\ n \in Nat
    OBVIOUS
  <2> HIDE DEF S, n
  <2>2. 0..n \subseteq S
    BY <1>1, <1>2, <2>1, Upwards
  <2> QED BY <2>1, <2>2
<1>4. \E seen : Upto(n, seen)
  BY <1>3
<1>5. Upto(n, CHOOSE seen : Upto(n, seen))
  <2> HIDE DEF Upto
  <2> QED BY <1>4
<1>6. BodySeen(args, names, field) = CHOOSE seen : Upto(n, seen)
  BY DEF BodySeen
<1> HIDE DEF Step
<1>7. BodySeen(args, names, field)[i] = Step(BodySeen(args, names, field), i)
  BY <1>5, <1>6
<1> QED BY <1>7 DEF Step

-----------------------------------------------------------------------------
(***************************************************************************)
(* What a scan finds                                                       *)
(***************************************************************************)

\* Strings; the provers do not know that "" and Footer are.
Name == STRING \cup {"", Footer}
Argument == [flag : Name, inline : BOOLEAN, word : Seq(Name)]

LEMMA Single ==
  ASSUME NEW X, NEW s \in Seq(X), Len(s) = 1
  PROVE  s = <<s[1]>>
OBVIOUS

LEMMA Wider ==
  ASSUME NEW X, NEW Y, X \subseteq Y, NEW s \in Seq(X)
  PROVE  s \in Seq(Y)
OBVIOUS

LEMMA Arguments ==
  ASSUME NEW args \in Seq(Arg)
  PROVE  args \in Seq(Argument)
<1>1. STRING \subseteq Name
  BY DEF Name
<1>2. ASSUME NEW w \in Seq(STRING) PROVE w \in Seq(Name)
  BY <1>1, <1>2, Wider
<1>3. ASSUME NEW a \in Arg PROVE a \in Argument
  BY <1>1, <1>2, <1>3 DEF Arg, Argument
<1> QED BY <1>3

Found(flags) ==
  [ok : BOOLEAN, open : Range1(flags.valued) \cup {""}, words : Seq(Seq(Name)),
   switches : [Range1(flags.switches) -> Nat], values : [Range1(flags.valued) -> Seq(Argument)]]

\* Flags as scanPolicyArgs is given them: an alias is of one kind, none is the word's
\* "", and a name is not the "" of no flag.
Table(flags) ==
  /\ DOMAIN flags.valued \cap DOMAIN flags.switches = {}
  /\ "" \notin DOMAIN flags.valued
  /\ "" \notin Range1(flags.valued)

LEMMA Appended ==
  ASSUME NEW X, NEW s \in Seq(X), NEW x \in X
  PROVE  /\ Append(s, x) \in Seq(X) /\ Len(s) \in Nat /\ Len(Append(s, x)) = Len(s) + 1
         /\ \A k \in 1..Len(s) : Append(s, x)[k] = s[k]
         /\ Append(s, x)[Len(s) + 1] = x
OBVIOUS

LEMMA ArgFields ==
  ASSUME NEW a \in Argument
  PROVE  /\ a.flag \in Name /\ a.inline \in BOOLEAN /\ a.word \in Seq(Name)
         /\ Word(a.word) \in Argument
<1>1. a.flag \in Name /\ a.inline \in BOOLEAN /\ a.word \in Seq(Name)
  BY DEF Argument
<1>2. ASSUME NEW w \in Seq(Name) PROVE [flag |-> "", inline |-> FALSE, word |-> w] \in Argument
  BY <1>2 DEF Argument, Name
<1>3. Word(a.word) = [flag |-> "", inline |-> FALSE, word |-> a.word]
  BY DEF Word
<1> QED BY <1>1, <1>2, <1>3

LEMMA FoundFields ==
  ASSUME NEW flags, NEW scan \in Found(flags)
  PROVE  /\ scan.ok \in BOOLEAN /\ scan.open \in Range1(flags.valued) \cup {""}
         /\ scan.words \in Seq(Seq(Name))
         /\ scan.switches \in [Range1(flags.switches) -> Nat]
         /\ scan.values \in [Range1(flags.valued) -> Seq(Argument)]
BY DEF Found

LEMMA ScannedType ==
  ASSUME NEW flags
  PROVE  Scanned(flags) \in Found(flags)
BY DEF Scanned, Found

\* One argument is taken as the value that is awaited, as a word, as a switch, as a flag
\* that awaits its value or as one that has it, or the scan fails.
LEMMA ScanArgType ==
  ASSUME NEW flags, NEW scan \in Found(flags), NEW a \in Argument
  PROVE  ScanArg(flags, scan, a) \in Found(flags)
<1>1. CASE ~scan.ok
  BY <1>1 DEF ScanArg
<1>2. CASE scan.ok /\ scan.open # ""
  <2>1. scan.open \in Range1(flags.valued) /\ scan.values[scan.open] \in Seq(Argument)
    BY <1>2 DEF Found
  <2>2. Append(scan.values[scan.open], a) \in Seq(Argument)
    BY <2>1
  <2> QED BY <1>2, <2>1, <2>2 DEF ScanArg, Found
<1>3. CASE scan.ok /\ scan.open = "" /\ Positional(a)
  <2>1. Append(scan.words, a.word) \in Seq(Seq(Name))
    BY ArgFields, FoundFields, Appended
  <2> QED BY <1>3, <2>1 DEF ScanArg, Found
<1>4. CASE /\ scan.ok /\ scan.open = "" /\ ~Positional(a)
           /\ ~a.inline /\ a.flag \in DOMAIN flags.switches
  <2>1. flags.switches[a.flag] \in Range1(flags.switches)
    BY <1>4 DEF Range1
  <2>2. scan.switches[flags.switches[a.flag]] + 1 \in Nat
    <3>1. scan.switches[flags.switches[a.flag]] \in Nat
      BY <2>1, FoundFields
    <3> QED BY <3>1
  <2> QED BY <1>4, <2>1, <2>2 DEF ScanArg, Found
<1>5. CASE /\ scan.ok /\ scan.open = "" /\ ~Positional(a)
           /\ ~(~a.inline /\ a.flag \in DOMAIN flags.switches)
           /\ ~a.inline /\ a.flag \in DOMAIN flags.valued
  <2>1. flags.valued[a.flag] \in Range1(flags.valued)
    BY <1>5 DEF Range1
  <2> QED BY <1>5, <2>1 DEF ScanArg, Found
<1>6. CASE /\ scan.ok /\ scan.open = "" /\ ~Positional(a) /\ a.inline
           /\ a.flag \in DOMAIN flags.valued \ ShortAliases /\ a.word # <<>>
  <2>1. flags.valued[a.flag] \in Range1(flags.valued)
    BY <1>6 DEF Range1
  <2>2. Word(a.word) \in Argument
    BY ArgFields
  <2>3. Append(scan.values[flags.valued[a.flag]], Word(a.word)) \in Seq(Argument)
    <3>1. scan.values[flags.valued[a.flag]] \in Seq(Argument)
      BY <2>1, FoundFields
    <3> QED BY <2>2, <3>1, Appended
  <2> QED BY <1>6, <2>1, <2>3 DEF ScanArg, Found
<1>7. CASE /\ scan.ok /\ scan.open = "" /\ ~Positional(a)
           /\ ~(~a.inline /\ a.flag \in DOMAIN flags.switches)
           /\ ~(~a.inline /\ a.flag \in DOMAIN flags.valued)
           /\ ~(a.inline /\ a.flag \in DOMAIN flags.valued \ ShortAliases /\ a.word # <<>>)
  BY <1>7 DEF ScanArg, Found
<1>8. a.inline \in BOOLEAN
  BY DEF Argument
<1> QED BY <1>1, <1>2, <1>3, <1>4, <1>5, <1>6, <1>7, <1>8

LEMMA ScansType ==
  ASSUME NEW args \in Seq(Argument), NEW from \in Nat \ {0}, NEW flags
  PROVE  \A i \in 0..Len(args) : Scans(args, from, flags)[i] \in Found(flags)
<1> DEFINE n == Len(args)
           S == {i \in 0..n : Scans(args, from, flags)[i] \in Found(flags)}
<1>1. n \in Nat
  OBVIOUS
<1>2. 0 \in S
  BY ScanSteps, ScannedType
<1>3. ASSUME NEW i \in 1..n, i - 1 \in S PROVE i \in S
  <2>1. args[i] \in Argument
    OBVIOUS
  <2> QED BY <1>3, <2>1, ScanSteps, ScannedType, ScanArgType
<1>4. 0..n \subseteq S
  <2> HIDE DEF S, n
  <2> QED BY <1>1, <1>2, <1>3, Upwards
<1> QED BY <1>4

\* What an argument is to a scan that does not fail.
TakenAs(flags, scan, a, new) ==
  /\ scan.ok
  /\ scan.open # "" =>
        /\ new.open = "" /\ new.words = scan.words
        /\ new.values = [scan.values EXCEPT ![scan.open] = Append(@, a)]
  /\ scan.open = "" /\ a.flag = "" =>
        /\ new.open = "" /\ new.words = Append(scan.words, a.word)
        /\ new.values = scan.values
  /\ scan.open = "" /\ a.flag # "" =>
        /\ new.words = scan.words
        /\ \/ /\ ~a.inline /\ a.flag \in DOMAIN flags.switches
              /\ new.open = "" /\ new.values = scan.values
           \/ /\ ~a.inline /\ a.flag \in DOMAIN flags.valued
              /\ new.open = flags.valued[a.flag] /\ new.values = scan.values
           \/ /\ a.inline /\ a.flag \in DOMAIN flags.valued \ ShortAliases /\ a.word # <<>>
              /\ new.open = ""
              /\ new.values =
                   [scan.values EXCEPT ![flags.valued[a.flag]] = Append(@, Word(a.word))]

LEMMA Taken ==
  ASSUME NEW flags, Table(flags), NEW scan \in Found(flags), NEW a \in Argument,
         ScanArg(flags, scan, a).ok
  PROVE  TakenAs(flags, scan, a, ScanArg(flags, scan, a))
<1> DEFINE new == ScanArg(flags, scan, a)
<1>0. new = ScanArg(flags, scan, a) /\ new.ok
  OBVIOUS
<1> HIDE DEF new
<1>1. scan.ok
  BY <1>0 DEF ScanArg
<1>2. CASE scan.open # ""
  BY <1>0, <1>1, <1>2 DEF ScanArg, Found, TakenAs
<1>3. CASE scan.open = "" /\ Positional(a)
  BY <1>0, <1>1, <1>3 DEF TakenAs, ScanArg, Found, Positional
<1>4. CASE /\ scan.open = "" /\ ~Positional(a)
           /\ ~a.inline /\ a.flag \in DOMAIN flags.switches
  BY <1>0, <1>1, <1>4 DEF TakenAs, ScanArg, Found, Positional
<1>5. CASE /\ scan.open = "" /\ ~Positional(a)
           /\ ~(~a.inline /\ a.flag \in DOMAIN flags.switches)
           /\ ~a.inline /\ a.flag \in DOMAIN flags.valued
  BY <1>0, <1>1, <1>5 DEF TakenAs, ScanArg, Found, Positional
<1>6. CASE /\ scan.open = "" /\ ~Positional(a) /\ a.inline
           /\ a.flag \in DOMAIN flags.valued \ ShortAliases /\ a.word # <<>>
  BY <1>0, <1>1, <1>6 DEF TakenAs, ScanArg, Found, Positional
<1>7. CASE /\ scan.open = "" /\ ~Positional(a)
           /\ ~(~a.inline /\ a.flag \in DOMAIN flags.switches)
           /\ ~(~a.inline /\ a.flag \in DOMAIN flags.valued)
           /\ ~(a.inline /\ a.flag \in DOMAIN flags.valued \ ShortAliases /\ a.word # <<>>)
  BY <1>0, <1>1, <1>7 DEF TakenAs, ScanArg, Found
<1> QED BY <1>2, <1>3, <1>4, <1>5, <1>6, <1>7

Grown(s, t) == Len(s) <= Len(t) /\ \A k \in 1..Len(s) : t[k] = s[k]

\* A scan that has not failed has found all that it had found before.
Keeps(flags, old, new) ==
  new.ok =>
    /\ old.ok
    /\ Grown(old.words, new.words)
    /\ \A m \in Range1(flags.valued) : Grown(old.values[m], new.values[m])

LEMMA GrownSelf ==
  ASSUME NEW X, NEW s \in Seq(X)
  PROVE  Grown(s, s)
BY DEF Grown

LEMMA GrownAppend ==
  ASSUME NEW X, NEW s \in Seq(X), NEW x \in X
  PROVE  Grown(s, Append(s, x))
BY DEF Grown

LEMMA GrownOn ==
  ASSUME NEW X, NEW r \in Seq(X), NEW s \in Seq(X), NEW t \in Seq(X), Grown(r, s), Grown(s, t)
  PROVE  Grown(r, t)
BY DEF Grown

LEMMA ScanArgKeeps ==
  ASSUME NEW flags, Table(flags), NEW scan \in Found(flags), NEW a \in Argument
  PROVE  Keeps(flags, scan, ScanArg(flags, scan, a))
<1> DEFINE new == ScanArg(flags, scan, a)
<1> SUFFICES ASSUME new.ok
             PROVE  /\ scan.ok
                    /\ Grown(scan.words, new.words)
                    /\ \A m \in Range1(flags.valued) : Grown(scan.values[m], new.values[m])
  BY DEF Keeps
<1>0. TakenAs(flags, scan, a, new)
  BY Taken
<1>1. /\ scan.words \in Seq(Seq(Name)) /\ a.word \in Seq(Name)
      /\ scan.values \in [Range1(flags.valued) -> Seq(Argument)]
      /\ scan.open \in Range1(flags.valued) \cup {""}
      /\ Word(a.word) \in Argument
  BY FoundFields, ArgFields
<1>2. ASSUME NEW m \in Range1(flags.valued), NEW v \in Argument
      PROVE  \A k \in Range1(flags.valued) :
                Grown(scan.values[k], [scan.values EXCEPT ![m] = Append(@, v)][k])
  <2> SUFFICES ASSUME NEW k \in Range1(flags.valued)
               PROVE  Grown(scan.values[k], [scan.values EXCEPT ![m] = Append(@, v)][k])
    OBVIOUS
  <2>1. scan.values[k] \in Seq(Argument)
    BY <1>1
  <2>2. CASE k = m
    <3>1. [scan.values EXCEPT ![m] = Append(@, v)][k] = Append(scan.values[k], v)
      BY <1>1, <2>2
    <3> QED BY <1>2, <2>1, <3>1, GrownAppend
  <2>3. CASE k # m
    <3>1. [scan.values EXCEPT ![m] = Append(@, v)][k] = scan.values[k]
      BY <1>1, <2>3
    <3> QED BY <2>1, <3>1, GrownSelf
  <2> QED BY <2>2, <2>3
<1>3. \A k \in Range1(flags.valued) : Grown(scan.values[k], scan.values[k])
  <2> TAKE k \in Range1(flags.valued)
  <2>1. scan.values[k] \in Seq(Argument)
    BY <1>1
  <2> QED BY <2>1, GrownSelf
<1>4. Grown(scan.words, scan.words) /\ Grown(scan.words, Append(scan.words, a.word))
  BY <1>1, GrownSelf, GrownAppend
<1>5. a.flag \in DOMAIN flags.valued => flags.valued[a.flag] \in Range1(flags.valued)
  BY DEF Range1
<1> HIDE DEF new
<1>6. CASE scan.open # ""
  <2>1. scan.ok /\ new.words = scan.words
        /\ new.values = [scan.values EXCEPT ![scan.open] = Append(@, a)]
    BY <1>0, <1>6 DEF TakenAs
  <2> QED BY <1>1, <1>2, <1>4, <1>6, <2>1
<1>7. CASE scan.open = "" /\ a.flag = ""
  <2>1. scan.ok /\ new.words = Append(scan.words, a.word) /\ new.values = scan.values
    BY <1>0, <1>7 DEF TakenAs
  <2> QED BY <1>3, <1>4, <2>1
<1>8. CASE scan.open = "" /\ a.flag # ""
  <2>1. /\ scan.ok /\ new.words = scan.words
        /\ \/ new.values = scan.values
           \/ /\ a.flag \in DOMAIN flags.valued
              /\ new.values = [scan.values EXCEPT ![flags.valued[a.flag]] = Append(@, Word(a.word))]
    BY <1>0, <1>8 DEF TakenAs
  <2> QED BY <1>1, <1>2, <1>3, <1>4, <1>5, <2>1
<1> QED BY <1>6, <1>7, <1>8

LEMMA ScansGrow ==
  ASSUME NEW args \in Seq(Argument), NEW from \in Nat \ {0}, NEW flags, Table(flags)
  PROVE  \A j \in 0..Len(args) : \A i \in 0..j :
            Keeps(flags, Scans(args, from, flags)[i], Scans(args, from, flags)[j])
<1> DEFINE n == Len(args)
           scan == Scans(args, from, flags)
           S == {j \in 0..n : \A i \in 0..j : Keeps(flags, scan[i], scan[j])}
<1>1. n \in Nat /\ \A i \in 0..n : scan[i] \in Found(flags)
  BY ScansType
<1>2. \A i \in 0..n : Keeps(flags, scan[i], scan[i])
  <2> TAKE i \in 0..n
  <2>1. /\ scan[i].words \in Seq(Seq(Name))
        /\ scan[i].values \in [Range1(flags.valued) -> Seq(Argument)]
    BY <1>1, FoundFields
  <2> QED BY <2>1, GrownSelf DEF Keeps
<1>3. ASSUME NEW i \in 0..n, NEW j \in 0..n, NEW k \in 0..n,
             Keeps(flags, scan[i], scan[j]), Keeps(flags, scan[j], scan[k])
      PROVE  Keeps(flags, scan[i], scan[k])
  <2>1. \A h \in {i, j, k} : /\ scan[h].words \in Seq(Seq(Name))
                             /\ scan[h].values \in [Range1(flags.valued) -> Seq(Argument)]
    BY <1>1, FoundFields
  <2>2. SUFFICES ASSUME scan[k].ok
                 PROVE  /\ scan[i].ok /\ Grown(scan[i].words, scan[k].words)
                        /\ \A m \in Range1(flags.valued) : Grown(scan[i].values[m], scan[k].values[m])
    BY DEF Keeps
  <2>3. scan[i].ok /\ Grown(scan[i].words, scan[k].words)
    BY <1>3, <2>1, <2>2, GrownOn DEF Keeps
  <2>4. ASSUME NEW m \in Range1(flags.valued) PROVE Grown(scan[i].values[m], scan[k].values[m])
    <3>1. Grown(scan[i].values[m], scan[j].values[m]) /\ Grown(scan[j].values[m], scan[k].values[m])
      BY <1>3, <2>2 DEF Keeps
    <3>2. \A h \in {i, j, k} : scan[h].values[m] \in Seq(Argument)
      BY <2>1
    <3> QED BY <3>1, <3>2, GrownOn
  <2> QED BY <2>3, <2>4
<1>4. 0 \in S
  BY <1>2
<1>5. ASSUME NEW j \in 1..n, j - 1 \in S PROVE j \in S
  <2>1. Keeps(flags, scan[j-1], scan[j])
    <3>1. CASE j < from
      <4>1. scan[j] = Scanned(flags) /\ scan[j-1] = Scanned(flags)
        BY <3>1, ScanSteps
      <4> QED BY <1>2, <4>1
    <3>2. CASE ~(j < from)
      <4>1. scan[j] = ScanArg(flags, scan[j-1], args[j]) /\ args[j] \in Argument
        BY <3>2, ScanSteps
      <4>2. scan[j-1] \in Found(flags)
        BY <1>1
      <4> HIDE DEF scan
      <4> QED BY <4>1, <4>2, ScanArgKeeps
    <3> QED BY <3>1, <3>2
  <2>2. \A i \in 0..j-1 : Keeps(flags, scan[i], scan[j-1])
    BY <1>5
  <2>3. ASSUME NEW i \in 0..j PROVE Keeps(flags, scan[i], scan[j])
    <3>1. i = j \/ i \in 0..j-1
      BY <2>3
    <3> HIDE DEF scan
    <3> QED BY <1>2, <1>3, <2>1, <2>2, <3>1
  <2> QED BY <2>3
<1>6. 0..n \subseteq S
  <2> HIDE DEF S, n
  <2> QED BY <1>1, <1>4, <1>5, Upwards
<1> QED BY <1>6

-----------------------------------------------------------------------------
(***************************************************************************)
(* Where the rewriting finds bodies                                        *)
(***************************************************************************)

Looked(args) == [skip : BOOLEAN, at : Seq(1..Len(args))]

\* What an argument is to rewriteSingleValueFlag.
LookedAt(args, names, field, seen, i, new) ==
  /\ seen.skip => ~new.skip /\ new.at = seen.at
  /\ ~seen.skip /\ args[i].flag \notin names => ~new.skip /\ new.at = seen.at
  /\ ~seen.skip /\ args[i].flag \in names /\ ~args[i].inline /\ i < Len(args)
     /\ BodyValue(args[i+1], field) => new.skip /\ new.at = Append(seen.at, i + 1)
  /\ ~seen.skip /\ args[i].flag \in names /\ args[i].inline
     /\ BodyValue(Word(args[i].word), field) => ~new.skip /\ new.at = Append(seen.at, i)
  /\ \/ new.at = seen.at
     \/ /\ ~seen.skip /\ args[i].flag \in names /\ args[i].inline
        /\ new.at = Append(seen.at, i)
     \/ i < Len(args) /\ new.at = Append(seen.at, i + 1)

LEMMA LooksAt ==
  ASSUME NEW args \in Seq(Argument), NEW names, NEW field, NEW seen \in Looked(args),
         NEW i \in 1..Len(args)
  PROVE  /\ BodyArg(args, names, field, seen, i) \in Looked(args)
         /\ LookedAt(args, names, field, seen, i, BodyArg(args, names, field, seen, i))
<1>1. /\ seen.skip \in BOOLEAN /\ seen.at \in Seq(1..Len(args)) /\ Len(args) \in Nat
      /\ seen = [skip |-> seen.skip, at |-> seen.at]
  BY DEF Looked
<1>2. Append(seen.at, i) \in Seq(1..Len(args))
  BY <1>1
<1>3. i < Len(args) => Append(seen.at, i + 1) \in Seq(1..Len(args))
  <2>1. i < Len(args) => i + 1 \in 1..Len(args)
    BY <1>1
  <2> QED BY <1>1, <2>1
<1>4. args[i].inline \in BOOLEAN
  BY ArgFields
<1>5. CASE seen.skip
  BY <1>1, <1>5 DEF BodyArg, LookedAt, Looked
<1>6. CASE ~seen.skip /\ args[i].flag \notin names
  BY <1>1, <1>6 DEF BodyArg, LookedAt, Looked
<1>7. CASE /\ ~seen.skip /\ args[i].flag \in names
           /\ ~args[i].inline /\ i < Len(args) /\ BodyValue(args[i+1], field)
  BY <1>1, <1>3, <1>7 DEF BodyArg, LookedAt, Looked
<1>8. CASE /\ ~seen.skip /\ args[i].flag \in names
           /\ ~(~args[i].inline /\ i < Len(args) /\ BodyValue(args[i+1], field))
           /\ args[i].inline /\ BodyValue(Word(args[i].word), field)
  BY <1>1, <1>2, <1>8 DEF BodyArg, LookedAt, Looked
<1>9. CASE /\ ~seen.skip /\ args[i].flag \in names
           /\ ~(~args[i].inline /\ i < Len(args) /\ BodyValue(args[i+1], field))
           /\ ~(args[i].inline /\ BodyValue(Word(args[i].word), field))
  BY <1>1, <1>9 DEF BodyArg, LookedAt, Looked
<1> QED BY <1>5, <1>6, <1>7, <1>8, <1>9

LEMMA BodySeenType ==
  ASSUME NEW args \in Seq(Argument), NEW names, NEW field
  PROVE  \A i \in 0..Len(args) : BodySeen(args, names, field)[i] \in Looked(args)
<1> DEFINE n == Len(args)
           S == {i \in 0..n : BodySeen(args, names, field)[i] \in Looked(args)}
<1>1. n \in Nat
  OBVIOUS
<1>2. 0 \in S
  <2>1. [skip |-> FALSE, at |-> <<>>] \in Looked(args)
    BY DEF Looked
  <2> QED BY <2>1, BodySteps
<1>3. ASSUME NEW i \in 1..n, i - 1 \in S PROVE i \in S
  <2>1. BodySeen(args, names, field)[i] = BodyArg(args, names, field, BodySeen(args, names, field)[i-1], i)
    BY BodySteps
  <2> QED BY <1>3, <2>1, LooksAt
<1>4. 0..n \subseteq S
  <2> HIDE DEF S, n
  <2> QED BY <1>1, <1>2, <1>3, Upwards
<1> QED BY <1>4

\* A place that has been found stays, and one that is found later is a later one.
Later(i, old, new) ==
  Grown(old.at, new.at) /\ \A k \in Len(old.at)+1..Len(new.at) : new.at[k] > i

LEMMA LaterAppend ==
  ASSUME NEW n \in Nat, NEW r, NEW s, r.at \in Seq(1..n), s.at \in Seq(1..n), NEW i \in Nat, Later(i, r, s),
         NEW x \in 1..n, x > i, NEW new, new.at = Append(s.at, x)
  PROVE  Later(i, r, new)
<1>1. /\ Len(r.at) \in Nat /\ Len(s.at) \in Nat /\ Len(new.at) = Len(s.at) + 1
      /\ \A k \in 1..Len(s.at) : new.at[k] = s.at[k]
      /\ new.at[Len(s.at) + 1] = x
  OBVIOUS
<1>2. Grown(r.at, new.at)
  BY <1>1 DEF Later, Grown
<1>3. ASSUME NEW k \in Len(r.at)+1..Len(new.at) PROVE new.at[k] > i
  <2>1. k \in 1..Len(s.at) \/ k = Len(s.at) + 1
    BY <1>1, <1>3
  <2>2. k \in 1..Len(s.at) => s.at[k] > i
    BY <1>1, <1>3 DEF Later
  <2> QED BY <1>1, <2>1, <2>2
<1> QED BY <1>2, <1>3 DEF Later

LEMMA PlacesGrow ==
  ASSUME NEW args \in Seq(Argument), NEW names, NEW field
  PROVE  \A j \in 0..Len(args) : \A i \in 0..j :
            Later(i, BodySeen(args, names, field)[i], BodySeen(args, names, field)[j])
<1> DEFINE n == Len(args)
           seen == BodySeen(args, names, field)
           S == {j \in 0..n : \A i \in 0..j : Later(i, seen[i], seen[j])}
<1>1. n \in Nat /\ \A i \in 0..n : seen[i].at \in Seq(1..n)
  BY BodySeenType DEF Looked
<1>2. \A i \in 0..n : Later(i, seen[i], seen[i])
  <2> HIDE DEF seen
  <2> QED BY <1>1 DEF Later, Grown
<1>3. 0 \in S
  BY <1>2
<1>4. ASSUME NEW j \in 1..n, j - 1 \in S PROVE j \in S
  <2>1. \/ seen[j].at = seen[j-1].at
        \/ seen[j].at = Append(seen[j-1].at, j)
        \/ j + 1 \in 1..n /\ seen[j].at = Append(seen[j-1].at, j + 1)
    <3>1. seen[j] = BodyArg(args, names, field, seen[j-1], j)
      BY BodySteps
    <3>2. seen[j-1] \in Looked(args)
      BY BodySeenType
    <3> HIDE DEF seen
    <3>3. LookedAt(args, names, field, seen[j-1], j, seen[j])
      BY <3>1, <3>2, LooksAt
    <3> QED BY <3>3 DEF LookedAt
  <2>2. ASSUME NEW i \in 0..j-1 PROVE Later(i, seen[i], seen[j])
    <3>1. Later(i, seen[i], seen[j-1])
      BY <1>4
    <3>2. seen[i].at \in Seq(1..n) /\ seen[j-1].at \in Seq(1..n) /\ seen[j].at \in Seq(1..n)
      BY <1>1
    <3>3. CASE seen[j].at = seen[j-1].at
      BY <3>1, <3>3 DEF Later
    <3>4. CASE ~(seen[j].at = seen[j-1].at)
      <4>1. PICK x \in 1..n : x > i /\ seen[j].at = Append(seen[j-1].at, x)
        BY <2>1, <3>4
      <4>2. i \in Nat
        OBVIOUS
      <4> HIDE DEF seen, n
      <4> QED BY <1>1, <4>2, <3>1, <3>2, <4>1, LaterAppend
    <3> QED BY <3>3, <3>4
  <2>3. ASSUME NEW i \in 0..j PROVE Later(i, seen[i], seen[j])
    <3>1. i = j \/ i \in 0..j-1
      BY <2>3
    <3> HIDE DEF seen
    <3> QED BY <1>2, <2>2, <3>1
  <2> QED BY <2>3
<1>5. 0..n \subseteq S
  <2> HIDE DEF S, n
  <2> QED BY <1>1, <1>3, <1>4, Upwards
<1> QED BY <1>5

-----------------------------------------------------------------------------
(***************************************************************************)
(* The rewriting and the scan agree on which argument is the body          *)
(***************************************************************************)

\* The scan awaits the value of another flag.
AwaitsOther(scan, name) == scan.open # "" /\ scan.open # name

\* A line that a scan accepts, with one value for `name`, and in which the spellings of
\* that flag are the flag: none comes before the scan, none is another flag's value.
OneBody(args, from, flags, names, name, field) ==
  LET scan == Scans(args, from, flags)
      all  == scan[Len(args)]
  IN  /\ all.ok /\ all.open = ""
      /\ Len(all.values[name]) = 1
      /\ BodyValue(all.values[name][1], field)
      /\ \A i \in 1..Len(args) : i < from => args[i].flag \notin names
      /\ \A i \in 1..Len(args) : AwaitsOther(scan[i-1], name) => args[i].flag \notin names

\* What the scan and the rewriting have found after i arguments.
Matches(name, scan, seen, i) ==
  /\ scan.ok
  /\ scan.open = name =>
        /\ seen.skip
        /\ Len(seen.at) = Len(scan.values[name]) + 1
        /\ seen.at[Len(seen.at)] = i + 1
  /\ scan.open # name =>
        /\ ~seen.skip
        /\ Len(seen.at) = Len(scan.values[name])
        /\ \A k \in 1..Len(seen.at) : seen.at[k] <= i
  /\ \A k \in 1..Len(seen.at) : seen.at[k] <= i + 1

\* The one value that a line gives is what it gives for good.
LEMMA OneValue ==
  ASSUME NEW args \in Seq(Argument), NEW from \in Nat \ {0}, NEW flags, Table(flags),
         NEW names, NEW name \in Range1(flags.valued), NEW field,
         OneBody(args, from, flags, names, name, field),
         NEW i \in 0..Len(args)
  PROVE  LET scan == Scans(args, from, flags)
             body == scan[Len(args)].values[name][1]
         IN  /\ scan[i].ok
             /\ Len(scan[i].values[name]) \in Nat /\ Len(scan[i].values[name]) <= 1
             /\ Len(scan[i].values[name]) = 1 => scan[i].values[name] = <<body>>
             /\ \A j \in 0..i : Len(scan[j].values[name]) <= Len(scan[i].values[name])
<1> DEFINE n == Len(args)
           scan == Scans(args, from, flags)
           body == scan[n].values[name][1]
<1>1. n \in Nat /\ n \in 0..n
  OBVIOUS
<1>2. \A j \in 0..n : scan[j].values[name] \in Seq(Argument)
  <2> TAKE j \in 0..n
  <2>1. scan[j].values \in [Range1(flags.valued) -> Seq(Argument)]
    BY ScansType, FoundFields
  <2> QED BY <2>1
<1>3. scan[n].ok /\ Len(scan[n].values[name]) = 1
  BY DEF OneBody
<1>4. Keeps(flags, scan[i], scan[n]) /\ \A j \in 0..i : Keeps(flags, scan[j], scan[i])
  BY <1>1, ScansGrow
<1>5. scan[i].ok /\ Grown(scan[i].values[name], scan[n].values[name])
  <2> HIDE DEF scan, n
  <2> QED BY <1>3, <1>4 DEF Keeps
<1>6. ASSUME NEW j \in 0..i PROVE Len(scan[j].values[name]) <= Len(scan[i].values[name])
  <2> HIDE DEF scan, n
  <2> QED BY <1>4, <1>5 DEF Keeps, Grown
<1>7. scan[i].values[name] \in Seq(Argument) /\ scan[n].values[name] \in Seq(Argument)
  BY <1>1, <1>2
<1>8. /\ Len(scan[i].values[name]) \in Nat /\ Len(scan[i].values[name]) <= 1
      /\ Len(scan[i].values[name]) = 1 => scan[i].values[name] = <<body>>
  <2>1. Len(scan[i].values[name]) \in Nat /\ Len(scan[i].values[name]) <= 1
    <3> HIDE DEF scan, n
    <3> QED BY <1>3, <1>5, <1>7 DEF Grown
  <2>2. Len(scan[i].values[name]) = 1 => scan[i].values[name][1] = body
    <3> HIDE DEF scan, n
    <3> QED BY <1>3, <1>5, <1>7 DEF Grown
  <2>3. ASSUME Len(scan[i].values[name]) = 1 PROVE scan[i].values[name] = <<body>>
    <3>1. scan[i].values[name] = <<scan[i].values[name][1]>>
      BY <1>7, <2>3, Single
    <3> HIDE DEF scan, n, body
    <3> QED BY <2>2, <2>3, <3>1, Zenon
  <2> QED BY <2>1, <2>3
<1> QED BY <1>5, <1>6, <1>8

\* The step of a scan and of the rewriting, where the scan looks.
LEMMA BothStep ==
  ASSUME NEW args \in Seq(Argument), NEW from \in Nat \ {0}, NEW flags, Table(flags),
         NEW names, NEW field, NEW i \in 1..Len(args), ~(i < from),
         Scans(args, from, flags)[i].ok
  PROVE  /\ TakenAs(flags, Scans(args, from, flags)[i-1], args[i], Scans(args, from, flags)[i])
         /\ LookedAt(args, names, field, BodySeen(args, names, field)[i-1], i,
                     BodySeen(args, names, field)[i])
<1>1. i \in 0..Len(args) /\ i - 1 \in 0..Len(args) /\ args[i] \in Argument
  OBVIOUS
<1>2. /\ Scans(args, from, flags)[i] = ScanArg(flags, Scans(args, from, flags)[i-1], args[i])
      /\ Scans(args, from, flags)[i-1] \in Found(flags)
  BY <1>1, ScanSteps, ScansType
<1>3. /\ BodySeen(args, names, field)[i] =
            BodyArg(args, names, field, BodySeen(args, names, field)[i-1], i)
      /\ BodySeen(args, names, field)[i-1] \in Looked(args)
  BY <1>1, BodySteps, BodySeenType
<1>4. TakenAs(flags, Scans(args, from, flags)[i-1], args[i], Scans(args, from, flags)[i])
  BY <1>1, <1>2, Taken
<1>5. LookedAt(args, names, field, BodySeen(args, names, field)[i-1], i,
               BodySeen(args, names, field)[i])
  BY <1>3, LooksAt
<1> QED BY <1>4, <1>5

\* The spellings of a valued flag.
Spellings(flags, name) == {f \in DOMAIN flags.valued : flags.valued[f] = name}

\* A value that an argument adds is a body.
AddsBody(name, s, t, field) ==
  \A v \in Argument : t.values[name] = Append(s.values[name], v) => BodyValue(v, field)

LEMMA MatchStep ==
  ASSUME NEW args \in Seq(Argument), NEW flags, Table(flags), NEW name \in Range1(flags.valued),
         NEW names, names = Spellings(flags, name), NEW field,
         NEW s \in Found(flags), NEW t \in Found(flags), NEW b \in Looked(args), NEW c \in Looked(args),
         NEW i \in 1..Len(args), Matches(name, s, b, i - 1), t.ok,
         TakenAs(flags, s, args[i], t), LookedAt(args, names, field, b, i, c),
         AwaitsOther(s, name) => args[i].flag \notin names,
         AddsBody(name, s, t, field),
         t.open = name => i < Len(args) /\ BodyValue(args[i+1], field)
  PROVE  Matches(name, t, c, i)
<1>1. /\ b.at \in Seq(1..Len(args)) /\ c.at \in Seq(1..Len(args)) /\ Len(args) \in Nat
      /\ s.values \in [Range1(flags.valued) -> Seq(Argument)] /\ s.values[name] \in Seq(Argument)
      /\ args[i] \in Argument /\ Word(args[i].word) \in Argument
      /\ i \in Nat /\ i - 1 + 1 = i /\ i + 1 \in Nat
      /\ Len(b.at) \in Nat /\ Len(s.values[name]) \in Nat
  <2>1. b.at \in Seq(1..Len(args)) /\ c.at \in Seq(1..Len(args))
    BY DEF Looked
  <2>2. s.values \in [Range1(flags.valued) -> Seq(Argument)]
    BY FoundFields
  <2>3. s.values[name] \in Seq(Argument)
    BY <2>2
  <2>4. args[i] \in Argument /\ Len(args) \in Nat
    OBVIOUS
  <2>5. Word(args[i].word) \in Argument
    BY <2>4, ArgFields
  <2>6. Len(b.at) \in Nat /\ Len(s.values[name]) \in Nat
    BY <2>1, <2>3
  <2>7. i \in Nat /\ i - 1 + 1 = i /\ i + 1 \in Nat
    BY <2>4
  <2> QED BY <2>1, <2>2, <2>3, <2>4, <2>5, <2>6, <2>7
<1>2. name # "" /\ "" \notin names
  BY DEF Table, Spellings
<1>3. \A k \in 1..Len(b.at) : b.at[k] \in Nat /\ b.at[k] <= i /\ b.at[k] <= i + 1
  <2>1. \A k \in 1..Len(b.at) : b.at[k] <= i - 1 + 1 /\ b.at[k] \in 1..Len(args)
    BY <1>1 DEF Matches
  <2> QED BY <1>1, <2>1
<1>4. ASSUME ~c.skip, c.at = b.at, t.open # name, Len(b.at) = Len(t.values[name])
      PROVE  Matches(name, t, c, i)
  BY <1>1, <1>3, <1>4 DEF Matches
<1>5. CASE s.open = name
  <2>1. b.skip /\ Len(b.at) = Len(s.values[name]) + 1
    BY <1>5 DEF Matches
  <2>2. ~c.skip /\ c.at = b.at
    BY <2>1 DEF LookedAt
  <2>3. t.open = "" /\ t.values[name] = Append(s.values[name], args[i])
    BY <1>1, <1>2, <1>5 DEF TakenAs
  <2>4. Len(t.values[name]) = Len(s.values[name]) + 1
    <3>1. s.values[name] \in Seq(Argument) /\ args[i] \in Argument
      BY <1>1
    <3>2. Len(Append(s.values[name], args[i])) = Len(s.values[name]) + 1
      BY <3>1, Appended
    <3> QED BY <2>3, <3>2, Zenon
  <2>5. t.open # name
    BY <1>2, <2>3, Zenon
  <2>6. Len(b.at) = Len(t.values[name])
    BY <2>1, <2>4
  <2> QED BY <1>4, <2>2, <2>5, <2>6, Zenon
<1>6. ASSUME s.open # name PROVE ~b.skip /\ Len(b.at) = Len(s.values[name])
  BY <1>6 DEF Matches
<1>7. CASE AwaitsOther(s, name)
  <2>0. s.open # name
    BY <1>7 DEF AwaitsOther
  <2>1. t.open = "" /\ t.values[name] = s.values[name]
    BY <1>1, <1>7 DEF TakenAs, AwaitsOther
  <2>2. ~c.skip /\ c.at = b.at
    BY <1>6, <1>7, <2>0 DEF LookedAt
  <2> QED BY <1>2, <1>4, <1>6, <2>0, <2>1, <2>2
<1>8. CASE s.open = "" /\ args[i].flag = ""
  <2>1. t.open = "" /\ t.values[name] = s.values[name]
    BY <1>8 DEF TakenAs
  <2>2. ~c.skip /\ c.at = b.at
    BY <1>2, <1>6, <1>8 DEF LookedAt
  <2> QED BY <1>2, <1>4, <1>6, <1>8, <2>1, <2>2
<1>9. CASE s.open = "" /\ args[i].flag # "" /\ args[i].flag \notin names
  <2>1. t.open # name /\ t.values[name] = s.values[name]
    <3>1. \/ t.open = "" /\ t.values = s.values
          \/ /\ args[i].flag \in DOMAIN flags.valued
             /\ t.open = flags.valued[args[i].flag] /\ t.values = s.values
          \/ /\ args[i].flag \in DOMAIN flags.valued /\ t.open = ""
             /\ t.values = [s.values EXCEPT ![flags.valued[args[i].flag]] = Append(@, Word(args[i].word))]
      BY <1>9 DEF TakenAs
    <3>2. args[i].flag \in DOMAIN flags.valued => flags.valued[args[i].flag] # name
      BY <1>9 DEF Spellings
    <3> QED BY <1>1, <1>2, <3>1, <3>2
  <2>2. ~c.skip /\ c.at = b.at
    BY <1>2, <1>6, <1>9 DEF LookedAt
  <2> QED BY <1>2, <1>4, <1>6, <1>9, <2>1, <2>2
<1>10. CASE s.open = "" /\ args[i].flag \in names
  <2>1. /\ args[i].flag \in DOMAIN flags.valued /\ flags.valued[args[i].flag] = name
        /\ args[i].flag \notin DOMAIN flags.switches /\ args[i].flag # ""
    BY <1>2, <1>10 DEF Spellings, Table
  <2>2. \/ ~args[i].inline /\ t.open = name /\ t.values = s.values
        \/ /\ args[i].inline /\ t.open = ""
           /\ t.values = [s.values EXCEPT ![name] = Append(@, Word(args[i].word))]
    BY <1>10, <2>1 DEF TakenAs
  <2>3. CASE ~args[i].inline /\ t.open = name /\ t.values = s.values
    <3>1. c.skip /\ c.at = Append(b.at, i + 1)
      BY <1>2, <1>6, <1>10, <2>3 DEF LookedAt
    <3>2. /\ Len(c.at) = Len(b.at) + 1 /\ c.at[Len(b.at) + 1] = i + 1
          /\ \A k \in 1..Len(b.at) : c.at[k] = b.at[k]
      BY <1>1, <3>1
    <3>3. Len(b.at) \in Nat /\ \A k \in 1..Len(c.at) : k \in 1..Len(b.at) \/ k = Len(b.at) + 1
      BY <1>1, <3>2
    <3>4. ASSUME NEW k \in 1..Len(c.at) PROVE c.at[k] <= i + 1
      <4>1. c.at[k] = i + 1 \/ c.at[k] <= i + 1
        BY <1>3, <3>2, <3>3
      <4>2. i + 1 \in Nat /\ i + 1 <= i + 1
        OBVIOUS
      <4> QED BY <4>1, <4>2
    <3>5. Len(c.at) = Len(t.values[name]) + 1 /\ c.at[Len(c.at)] = i + 1
      <4>1. ~b.skip /\ Len(b.at) = Len(s.values[name])
        BY <1>2, <1>6, <1>10, Zenon
      <4> QED BY <2>3, <3>2, <4>1
    <3> QED BY <2>3, <3>1, <3>4, <3>5 DEF Matches
  <2>4. CASE /\ args[i].inline /\ t.open = ""
             /\ t.values = [s.values EXCEPT ![name] = Append(@, Word(args[i].word))]
    <3>0. t.values[name] = Append(s.values[name], Word(args[i].word))
      BY <1>1, <2>4
    <3>1. BodyValue(Word(args[i].word), field)
      BY <1>1, <3>0 DEF AddsBody
    <3>2. ~c.skip /\ c.at = Append(b.at, i)
      BY <1>2, <1>6, <1>10, <2>4, <3>1 DEF LookedAt
    <3>3. /\ Len(c.at) = Len(b.at) + 1 /\ c.at[Len(b.at) + 1] = i
          /\ \A k \in 1..Len(b.at) : c.at[k] = b.at[k]
      BY <1>1, <3>2
    <3>4. Len(b.at) \in Nat /\ \A k \in 1..Len(c.at) : k \in 1..Len(b.at) \/ k = Len(b.at) + 1
      BY <1>1, <3>3
    <3>5. ASSUME NEW k \in 1..Len(c.at) PROVE c.at[k] <= i /\ c.at[k] <= i + 1
      <4>1. c.at[k] = i \/ (c.at[k] <= i /\ c.at[k] <= i + 1)
        BY <1>3, <3>3, <3>4
      <4>2. i \in Nat /\ i <= i /\ i <= i + 1
        OBVIOUS
      <4> QED BY <4>1, <4>2
    <3>6. Len(t.values[name]) = Len(s.values[name]) + 1
      BY <1>1, <3>0, Appended
    <3>7. t.open # name
      BY <1>2, <2>4, Zenon
    <3>8. Len(c.at) = Len(t.values[name])
      <4>1. Len(b.at) = Len(s.values[name])
        BY <1>2, <1>6, <1>10, Zenon
      <4> QED BY <3>3, <3>6, <4>1
    <3> QED BY <3>2, <3>5, <3>7, <3>8 DEF Matches
  <2> QED BY <2>2, <2>3, <2>4
<1> QED BY <1>5, <1>7, <1>8, <1>9, <1>10 DEF AwaitsOther

LEMMA ScanFields ==
  ASSUME NEW args \in Seq(Argument), NEW from \in Nat \ {0}, NEW flags, NEW name \in Range1(flags.valued),
         NEW i \in 0..Len(args)
  PROVE  /\ Scans(args, from, flags)[i] \in Found(flags)
         /\ Scans(args, from, flags)[i].values \in [Range1(flags.valued) -> Seq(Argument)]
         /\ Scans(args, from, flags)[i].values[name] \in Seq(Argument)
<1>1. Scans(args, from, flags)[i] \in Found(flags)
  BY ScansType
<1>2. Scans(args, from, flags)[i].values \in [Range1(flags.valued) -> Seq(Argument)]
  BY <1>1, FoundFields
<1> QED BY <1>1, <1>2

\* A value that is added is the one value, and so a body; a value that is awaited comes.
LEMMA ValueIsBody ==
  ASSUME NEW args \in Seq(Argument), NEW from \in Nat \ {0}, NEW flags, Table(flags),
         NEW names, NEW name \in Range1(flags.valued), NEW field,
         OneBody(args, from, flags, names, name, field),
         NEW i \in 1..Len(args), ~(i < from)
  PROVE  LET scan == Scans(args, from, flags)
         IN  /\ AddsBody(name, scan[i-1], scan[i], field)
             /\ scan[i].open = name => i < Len(args) /\ BodyValue(args[i+1], field)
<1> DEFINE n == Len(args)
           scan == Scans(args, from, flags)
           body == scan[n].values[name][1]
<1>1. /\ n \in Nat /\ i \in 0..n /\ i - 1 \in 0..n /\ n \in 0..n
  OBVIOUS
<1>d. BodyValue(body, field) /\ scan[n].open = ""
  BY DEF OneBody
<1>a. name # ""
  BY DEF Table
<1>b. \A j \in 0..n : /\ scan[j].ok /\ Len(scan[j].values[name]) <= 1
                     /\ (Len(scan[j].values[name]) = 1 => scan[j].values[name] = <<body>>)
  BY OneValue
<1>c. \A j \in 0..n : /\ scan[j].values \in [Range1(flags.valued) -> Seq(Argument)]
                     /\ scan[j].values[name] \in Seq(Argument)
  BY ScanFields
<1>2. ASSUME NEW j \in 1..n PROVE AddsBody(name, scan[j-1], scan[j], field)
  <2> SUFFICES ASSUME NEW v \in Argument, scan[j].values[name] = Append(scan[j-1].values[name], v)
               PROVE  BodyValue(v, field)
    BY DEF AddsBody
  <2>2. j \in 0..n /\ j - 1 \in 0..n
    OBVIOUS
  <2> HIDE DEF scan, body
  <2>3. scan[j-1].values[name] \in Seq(Argument)
    BY <1>c, <2>2
  <2>4. /\ Len(scan[j].values[name]) = Len(scan[j-1].values[name]) + 1
        /\ scan[j].values[name][Len(scan[j-1].values[name]) + 1] = v
    <3>1. /\ Len(Append(scan[j-1].values[name], v)) = Len(scan[j-1].values[name]) + 1
          /\ Append(scan[j-1].values[name], v)[Len(scan[j-1].values[name]) + 1] = v
      BY <2>3, Appended
    <3> QED BY <3>1, Zenon
  <2>5. /\ Len(scan[j].values[name]) <= 1
        /\ Len(scan[j].values[name]) = 1 => scan[j].values[name] = <<body>>
    <3> HIDE DEF n
    <3> QED BY <1>b, <2>2, Zenon
  <2>6. Len(scan[j-1].values[name]) = 0
    <3>1. Len(scan[j-1].values[name]) \in Nat
      BY <2>3
    <3> QED BY <2>4, <2>5, <3>1
  <2>7. v = body
    <3>1. 0 + 1 = 1
      OBVIOUS
    <3>2. scan[j].values[name] = <<body>> /\ scan[j].values[name][1] = v
      BY <2>4, <2>5, <2>6, <3>1, Zenon
    <3> QED BY <3>2
  <2> QED BY <1>d, <2>7
<1>3. ASSUME scan[i].open = name PROVE i < n /\ BodyValue(args[i+1], field)
  <2>1. i # n
    <3> HIDE DEF scan, n
    <3> QED BY <1>d, <1>3, <1>a, Zenon
  <2>2. i + 1 \in 1..n /\ i + 1 \in 0..n /\ ~(i + 1 < from) /\ i + 1 - 1 = i /\ i < n
    BY <2>1
  <2>3. \A j \in 1..n : ~(j < from) /\ scan[j].ok => TakenAs(flags, scan[j-1], args[j], scan[j])
    BY BothStep
  <2>4. scan[i+1].ok
    <3> HIDE DEF scan, n, body
    <3> QED BY <1>b, <2>2, Zenon
  <2>5. TakenAs(flags, scan[i], args[i+1], scan[i+1]) /\ AddsBody(name, scan[i], scan[i+1], field)
    <3> HIDE DEF scan
    <3> QED BY <1>2, <2>2, <2>3, <2>4
  <2>6. args[i+1] \in Argument
    BY <2>2
  <2> HIDE DEF scan
  <2>6a. scan[i].values \in [Range1(flags.valued) -> Seq(Argument)]
    BY <1>1, <1>c
  <2>7. scan[i].open # "" /\ name = scan[i].open
    BY <1>a, <1>3, Zenon
  <2>8. scan[i+1].values[name] = Append(scan[i].values[name], args[i+1])
    <3>1. scan[i+1].values = [scan[i].values EXCEPT ![scan[i].open] = Append(@, args[i+1])]
      BY <2>5, <2>7 DEF TakenAs
    <3> QED BY <2>6a, <2>7, <3>1
  <2> QED BY <2>2, <2>5, <2>6, <2>8 DEF AddsBody
<1> QED BY <1>2, <1>3

\* They match after every argument.
LEMMA PlacesMatch ==
  ASSUME NEW args \in Seq(Argument), NEW from \in Nat \ {0}, NEW flags, Table(flags),
         NEW name \in Range1(flags.valued), NEW field,
         OneBody(args, from, flags, Spellings(flags, name), name, field)
  PROVE  \A i \in 0..Len(args) :
            Matches(name, Scans(args, from, flags)[i],
                    BodySeen(args, Spellings(flags, name), field)[i], i)
<1> DEFINE n == Len(args)
           names == Spellings(flags, name)
           scan == Scans(args, from, flags)
           seen == BodySeen(args, names, field)
           S == {i \in 0..n : Matches(name, scan[i], seen[i], i)}
<1>1. n \in Nat /\ \A i \in 0..n : scan[i] \in Found(flags) /\ seen[i] \in Looked(args)
  BY ScansType, BodySeenType
<1>2. Scanned(flags).ok /\ Len(Scanned(flags).values[name]) = 0
  BY DEF Scanned
<1>3. Scanned(flags).open # name
  <2>1. name # ""
    BY DEF Table
  <2>2. Scanned(flags).open = ""
    BY DEF Scanned
  <2> QED BY <2>1, <2>2, Zenon
<1>4. 0 \in S
  <2>1. scan[0] = Scanned(flags) /\ seen[0] = [skip |-> FALSE, at |-> <<>>]
    BY ScanSteps, BodySteps
  <2>2. ~seen[0].skip /\ Len(seen[0].at) = 0
    BY <2>1
  <2>3. Matches(name, Scanned(flags), seen[0], 0)
    <3> HIDE DEF scan, seen, names
    <3> QED BY <1>2, <1>3, <2>2 DEF Matches
  <2> QED BY <2>1, <2>3
<1>5. ASSUME NEW i \in 1..n, i - 1 \in S PROVE i \in S
  <2>0. i \in 0..n /\ i - 1 \in 0..n /\ Matches(name, scan[i-1], seen[i-1], i - 1)
    BY <1>5
  <2>1. CASE i < from
    <3>1. scan[i-1] = Scanned(flags) /\ scan[i] = Scanned(flags)
      BY <2>0, <2>1, ScanSteps
    <3>2. seen[i] = BodyArg(args, names, field, seen[i-1], i)
      BY <2>0, BodySteps
    <3>3. args[i].flag \notin names
      BY <2>1 DEF OneBody
    <3> HIDE DEF scan, seen, names
    <3>4. /\ ~seen[i-1].skip /\ Len(seen[i-1].at) = 0
      BY <1>2, <1>3, <2>0, <3>1 DEF Matches
    <3>5. LookedAt(args, names, field, seen[i-1], i, seen[i])
      BY <1>1, <2>0, <3>2, LooksAt
    <3>6. ~seen[i].skip /\ seen[i].at = seen[i-1].at
      BY <3>3, <3>4, <3>5 DEF LookedAt
    <3>7. Matches(name, Scanned(flags), seen[i], i)
      BY <1>2, <1>3, <3>4, <3>6 DEF Matches
    <3> QED BY <2>0, <3>1, <3>7
  <2>2. CASE ~(i < from)
    <3>1. scan[i].ok
      BY <2>0, OneValue
    <3>2. TakenAs(flags, scan[i-1], args[i], scan[i])
          /\ LookedAt(args, names, field, seen[i-1], i, seen[i])
      BY <2>2, <3>1, BothStep
    <3>3. AddsBody(name, scan[i-1], scan[i], field)
          /\ (scan[i].open = name => i < n /\ BodyValue(args[i+1], field))
      BY <2>2, ValueIsBody
    <3>4. AwaitsOther(scan[i-1], name) => args[i].flag \notin names
      BY DEF OneBody
    <3> HIDE DEF scan, seen
    <3>5. Matches(name, scan[i], seen[i], i)
      BY <1>1, <2>0, <3>1, <3>2, <3>3, <3>4, MatchStep
    <3> QED BY <2>0, <3>5
  <2> QED BY <2>1, <2>2
<1>6. 0..n \subseteq S
  <2> HIDE DEF S, n
  <2> QED BY <1>1, <1>4, <1>5, Upwards
<1> QED BY <1>6

-----------------------------------------------------------------------------
(***************************************************************************)
(* What is signed is the body                                              *)
(***************************************************************************)

\* There is one place, and it is where the scan takes the value of `name`: the
\* argument that follows the flag, or the flag with its inline value.
PlaceOf(scan, a, names, name) ==
  /\ Len(scan.values[name]) = 0
  /\ scan.open = name \/ (scan.open = "" /\ a.flag \in names /\ a.inline)

LEMMA OnePlace ==
  ASSUME NEW args \in Seq(Argument), NEW from \in Nat \ {0}, NEW flags, Table(flags),
         NEW name \in Range1(flags.valued), NEW field,
         OneBody(args, from, flags, Spellings(flags, name), name, field)
  PROVE  LET at == BodyAt(args, Spellings(flags, name), field)
         IN  /\ Len(at) = 1 /\ at[1] \in 1..Len(args) /\ ~(at[1] < from)
             /\ PlaceOf(Scans(args, from, flags)[at[1] - 1], args[at[1]], Spellings(flags, name), name)
<1> DEFINE n == Len(args)
           names == Spellings(flags, name)
           scan == Scans(args, from, flags)
           seen == BodySeen(args, names, field)
           q == seen[n].at[1]
<1>1. n \in Nat /\ n \in 0..n
  OBVIOUS
<1>2. /\ \A i \in 0..n : Matches(name, scan[i], seen[i], i)
      /\ \A i \in 0..n : seen[i] \in Looked(args)
      /\ \A i \in 0..n : Later(i, seen[i], seen[n])
  BY <1>1, PlacesMatch, BodySeenType, PlacesGrow
<1>3. \A i \in 0..n : /\ scan[i].values[name] \in Seq(Argument)
                      /\ seen[i].at \in Seq(1..n)
  BY <1>2, ScanFields DEF Looked
<1>4. name # ""
  BY DEF Table
<1>5. scan[n].open = "" /\ Len(scan[n].values[name]) = 1
  BY DEF OneBody
<1>6. BodyAt(args, names, field) = seen[n].at
  BY DEF BodyAt
<1>7. \A i \in 0..n : i < from => scan[i].open = ""
  <2> SUFFICES ASSUME NEW i \in 0..n, i < from PROVE scan[i].open = ""
    OBVIOUS
  <2>1. scan[i] = Scanned(flags)
    BY ScanSteps
  <2>2. Scanned(flags).open = ""
    BY DEF Scanned
  <2> HIDE DEF scan
  <2> QED BY <2>1, <2>2, Zenon
<1>8. \A i \in 1..n : i < from => args[i].flag \notin names
  BY DEF OneBody
<1>9. \A i \in 1..n : AwaitsOther(scan[i-1], name) => args[i].flag \notin names
  BY DEF OneBody
<1>10. \A i \in 1..n : LookedAt(args, names, field, seen[i-1], i, seen[i])
  <2> TAKE i \in 1..n
  <2>1. seen[i] = BodyArg(args, names, field, seen[i-1], i) /\ seen[i-1] \in Looked(args)
    BY <1>2, BodySteps
  <2> HIDE DEF seen, names
  <2> QED BY <2>1, LooksAt
<1> HIDE DEF scan, seen, names
<1>11. Len(seen[n].at) = 1 /\ q \in 1..n
  <2>1. scan[n].open # name
    BY <1>4, <1>5, Zenon
  <2>2. Matches(name, scan[n], seen[n], n) /\ seen[n].at \in Seq(1..n)
    BY <1>1, <1>2, <1>3
  <2>3. Len(seen[n].at) = 1
    BY <1>5, <2>1, <2>2 DEF Matches
  <2> QED BY <2>2, <2>3
<1>12. q - 1 \in 0..n /\ q \in 0..n /\ q \in Nat /\ q - 1 \in Nat
  BY <1>11
<1> HIDE DEF q, n
<1>13. /\ Matches(name, scan[q-1], seen[q-1], q - 1)
       /\ Grown(seen[q-1].at, seen[n].at) /\ Grown(seen[q].at, seen[n].at)
       /\ \A k \in Len(seen[q].at)+1..1 : seen[n].at[k] > q
       /\ Len(seen[q-1].at) \in Nat /\ Len(seen[q].at) \in Nat /\ Len(scan[q-1].values[name]) \in Nat
  <2>1. Matches(name, scan[q-1], seen[q-1], q - 1)
    BY <1>2, <1>12
  <2>2. Later(q-1, seen[q-1], seen[n]) /\ Later(q, seen[q], seen[n])
    BY <1>2, <1>12
  <2>3. seen[q-1].at \in Seq(1..n) /\ seen[q].at \in Seq(1..n) /\ scan[q-1].values[name] \in Seq(Argument)
    BY <1>3, <1>12
  <2> QED BY <1>11, <2>1, <2>2, <2>3 DEF Later
<1>14. CASE scan[q-1].open = name
  <2>1. Len(seen[q-1].at) = Len(scan[q-1].values[name]) + 1
    BY <1>13, <1>14 DEF Matches
  <2>2. Len(scan[q-1].values[name]) = 0
    BY <1>11, <1>13, <2>1 DEF Grown
  <2>3. ~(q < from)
    <3>1. scan[q-1].open # ""
      BY <1>4, <1>14, Zenon
    <3>2. ~(q - 1 < from)
      BY <1>7, <1>12, <3>1
    <3> QED BY <1>12, <3>2
  <2>4. PlaceOf(scan[q-1], args[q], names, name)
    BY <1>14, <2>2 DEF PlaceOf
  <2> QED BY <1>6, <1>11, <2>3, <2>4 DEF names, scan, n, q
<1>15. CASE scan[q-1].open # name
  <2>1. /\ Len(seen[q-1].at) = Len(scan[q-1].values[name])
        /\ \A k \in 1..Len(seen[q-1].at) : seen[q-1].at[k] <= q - 1
    BY <1>13, <1>15 DEF Matches
  <2>2. Len(seen[q-1].at) = 0
    <3> SUFFICES ASSUME Len(seen[q-1].at) # 0 PROVE FALSE
      OBVIOUS
    <3>1. 1 \in 1..Len(seen[q-1].at)
      BY <1>13
    <3>2. seen[n].at[1] = seen[q-1].at[1]
      BY <1>13, <3>1 DEF Grown
    <3>3. q <= q - 1
      BY <2>1, <3>1, <3>2 DEF q
    <3> QED BY <1>12, <3>3
  <2>3. Len(seen[q].at) = 1
    <3> SUFFICES ASSUME Len(seen[q].at) # 1 PROVE FALSE
      OBVIOUS
    <3>1. Len(seen[q].at) = 0
      <4>1. Len(seen[q].at) <= Len(seen[n].at)
        BY <1>13 DEF Grown
      <4>2. Len(seen[n].at) = 1 /\ Len(seen[q].at) \in Nat
        BY <1>11, <1>13, Zenon
      <4>3. \A k \in Nat : k <= 1 => k = 0 \/ k = 1
        OBVIOUS
      <4> QED BY <4>1, <4>2, <4>3, Zenon
    <3>2. 1 \in Len(seen[q].at)+1..1
      BY <3>1
    <3>3. q > q
      BY <1>13, <3>2 DEF q
    <3> QED BY <1>12, <3>3
  <2>4. seen[q].at[1] = q
    <3>1. 1 \in 1..Len(seen[q].at)
      BY <2>3
    <3> QED BY <1>13, <3>1 DEF Grown, q
  <2>5. args[q].flag \in names /\ args[q].inline
    <3>1. LookedAt(args, names, field, seen[q-1], q, seen[q])
      BY <1>10, <1>11
    <3>2. seen[q].at # seen[q-1].at
      <4>1. seen[q].at = seen[q-1].at => Len(seen[q].at) = Len(seen[q-1].at)
        BY Zenon
      <4> QED BY <2>2, <2>3, <4>1
    <3>3. \/ args[q].flag \in names /\ args[q].inline
          \/ seen[q].at = Append(seen[q-1].at, q + 1)
      BY <3>1, <3>2 DEF LookedAt
    <3>4. seen[q].at # Append(seen[q-1].at, q + 1)
      <4>1. seen[q-1].at \in Seq(1..n)
        BY <1>3, <1>12
      <4>2. Append(seen[q-1].at, q + 1)[1] = q + 1
        BY <2>2, <4>1
      <4>3. q # q + 1
        BY <1>12
      <4> QED BY <2>4, <4>2, <4>3
    <3> QED BY <3>3, <3>4
  <2>6. scan[q-1].open = ""
    <3>1. ~AwaitsOther(scan[q-1], name)
      BY <1>9, <1>11, <2>5
    <3> QED BY <1>15, <3>1 DEF AwaitsOther
  <2>7. ~(q < from)
    BY <1>8, <1>11, <2>5
  <2>8. PlaceOf(scan[q-1], args[q], names, name)
    BY <2>1, <2>2, <2>5, <2>6 DEF PlaceOf
  <2> QED BY <1>6, <1>11, <2>7, <2>8 DEF names, scan, n, q
<1> QED BY <1>14, <1>15

\* A scan of the signed line goes as that of the line went, with the signed value.
Signed(name, s, t) ==
  t.ok /\ t.open = s.open /\ Len(t.values[name]) = 1 /\ HasFooter(t.values[name][1])

\* A value that is added to a flag is added to no other.
LEMMA AddedTo ==
  ASSUME NEW R, NEW values \in [R -> Seq(Argument)], NEW m \in R, NEW name \in R, NEW v \in Argument,
         NEW new, new = [values EXCEPT ![m] = Append(@, v)], m # name
  PROVE  new[name] = values[name]
OBVIOUS

LEMMA SignedStep ==
  ASSUME NEW flags, Table(flags), NEW name \in Range1(flags.valued), NEW a \in Argument,
         NEW s \in Found(flags), NEW t \in Found(flags), Signed(name, s, t),
         ScanArg(flags, s, a).ok,
         Len(s.values[name]) = 1, Len(ScanArg(flags, s, a).values[name]) = 1
  PROVE  Signed(name, ScanArg(flags, s, a), ScanArg(flags, t, a))
<1> DEFINE R == Range1(flags.valued)
           p == ScanArg(flags, s, a)
           r == ScanArg(flags, t, a)
<1>1. /\ s.values \in [R -> Seq(Argument)] /\ t.values \in [R -> Seq(Argument)]
      /\ Word(a.word) \in Argument /\ s.open \in R \cup {""} /\ name \in R
  BY FoundFields, ArgFields
<1>2. TakenAs(flags, s, a, p) /\ Len(p.values[name]) = 1 /\ p.ok
  BY Taken
<1>3. t.ok /\ t.open = s.open /\ s.ok
  BY <1>2 DEF Signed, TakenAs
<1>4. r = ScanArg(flags, t, a)
  OBVIOUS
<1>5. ASSUME r.ok, r.open = p.open, r.values[name] = t.values[name] PROVE Signed(name, p, r)
  <2> HIDE DEF p, r
  <2> QED BY <1>5 DEF Signed
<1>6. ASSUME NEW m \in R, NEW v \in Argument, p.values = [s.values EXCEPT ![m] = Append(@, v)],
             r.values = [t.values EXCEPT ![m] = Append(@, v)]
      PROVE  r.values[name] = t.values[name]
  <2>1. m # name
    <3> SUFFICES ASSUME m = name PROVE FALSE
      OBVIOUS
    <3> HIDE DEF p, r, R
    <3>1. Len(p.values[name]) = Len(s.values[name]) + 1
      <4>1. p.values = [s.values EXCEPT ![name] = Append(@, v)]
        BY <1>6, Zenon
      <4>2. s.values \in [R -> Seq(Argument)] /\ name \in R
        BY <1>1
      <4>3. p.values[name] = Append(s.values[name], v) /\ s.values[name] \in Seq(Argument)
        BY <4>1, <4>2
      <4>4. Len(Append(s.values[name], v)) = Len(s.values[name]) + 1
        BY <1>6, <4>3, Appended
      <4> QED BY <4>3, <4>4, Zenon
    <3>2. 1 # 1 + 1
      OBVIOUS
    <3> QED BY <1>2, <3>1, <3>2, Zenon
  <2> HIDE DEF p, r
  <2> QED BY <1>1, <1>6, <2>1, AddedTo
<1> SUFFICES Signed(name, p, r)
  OBVIOUS
<1> HIDE DEF p, r
<1>7. CASE s.open # ""
  <2>1. p.open = "" /\ p.values = [s.values EXCEPT ![s.open] = Append(@, a)]
    BY <1>2, <1>7 DEF TakenAs
  <2>2. r = [t EXCEPT !.values[t.open] = Append(@, a), !.open = ""]
    BY <1>3, <1>4, <1>7 DEF ScanArg
  <2>3. r.ok /\ r.open = "" /\ r.values = [t.values EXCEPT ![s.open] = Append(@, a)]
    BY <1>3, <2>2 DEF Found
  <2>4. s.open \in R
    BY <1>1, <1>7
  <2>5. r.values[name] = t.values[name]
    BY <1>6, <2>1, <2>3, <2>4, Zenon
  <2> QED BY <1>5, <2>1, <2>3, <2>5, Zenon
<1>8. CASE s.open = "" /\ a.flag = ""
  <2>1. p.open = ""
    BY <1>2, <1>8 DEF TakenAs
  <2>2. r = [t EXCEPT !.words = Append(@, a.word)]
    BY <1>3, <1>4, <1>8 DEF ScanArg, Positional
  <2>3. r.ok /\ r.open = "" /\ r.values = t.values
    BY <1>3, <1>8, <2>2 DEF Found
  <2> QED BY <1>5, <2>1, <2>3, Zenon
<1>9. CASE s.open = "" /\ a.flag # ""
  <2>0. t.open = "" /\ ~Positional(a)
    BY <1>3, <1>9 DEF Positional
  <2>1. CASE /\ ~a.inline /\ a.flag \in DOMAIN flags.switches
             /\ p.open = "" /\ p.values = s.values
    <3>1. r = [t EXCEPT !.switches[flags.switches[a.flag]] = @ + 1]
      BY <1>3, <1>4, <2>0, <2>1 DEF ScanArg
    <3>2. r.ok /\ r.open = "" /\ r.values = t.values
      BY <1>3, <2>0, <3>1 DEF Found
    <3> QED BY <1>5, <2>1, <3>2, Zenon
  <2>2. CASE /\ ~a.inline /\ a.flag \in DOMAIN flags.valued
             /\ p.open = flags.valued[a.flag] /\ p.values = s.values
    <3>0. a.flag \notin DOMAIN flags.switches
      BY <2>2 DEF Table
    <3>1. r = [t EXCEPT !.open = flags.valued[a.flag]]
      BY <1>3, <1>4, <2>0, <2>2, <3>0 DEF ScanArg
    <3>2. r.ok /\ r.open = flags.valued[a.flag] /\ r.values = t.values
      BY <1>3, <3>1 DEF Found
    <3> QED BY <1>5, <2>2, <3>2, Zenon
  <2>3. CASE /\ a.inline /\ a.flag \in DOMAIN flags.valued \ ShortAliases /\ a.word # <<>>
             /\ p.open = ""
             /\ p.values = [s.values EXCEPT ![flags.valued[a.flag]] = Append(@, Word(a.word))]
    <3>1. r = [t EXCEPT !.values[flags.valued[a.flag]] = Append(@, Word(a.word))]
      BY <1>3, <1>4, <2>0, <2>3 DEF ScanArg
    <3>2. /\ r.ok /\ r.open = ""
          /\ r.values = [t.values EXCEPT ![flags.valued[a.flag]] = Append(@, Word(a.word))]
      BY <1>3, <2>0, <3>1 DEF Found
    <3>3. flags.valued[a.flag] \in R
      BY <2>3 DEF Range1
    <3>4. r.values[name] = t.values[name]
      BY <1>1, <1>6, <2>3, <3>2, <3>3, Zenon
    <3> QED BY <1>5, <2>3, <3>2, <3>4, Zenon
  <2> QED BY <1>2, <1>9, <2>1, <2>2, <2>3 DEF TakenAs
<1> QED BY <1>7, <1>8, <1>9

\* The argument with the footer.
Footed(a) == [a EXCEPT !.word = Append(@, Footer)]

LEMMA FootedType ==
  ASSUME NEW a \in Argument
  PROVE  /\ Footed(a) \in Argument
         /\ Footed(a).flag = a.flag /\ Footed(a).inline = a.inline /\ Footed(a).word # <<>>
         /\ HasFooter(Footed(a)) /\ HasFooter(Word(Footed(a).word))
<1>1. a.word \in Seq(Name) /\ Footer \in Name
  BY ArgFields DEF Name
<1>2. /\ Append(a.word, Footer) \in Seq(Name) /\ Append(a.word, Footer) # <<>>
      /\ Len(Append(a.word, Footer)) = Len(a.word) + 1
      /\ Append(a.word, Footer)[Len(a.word) + 1] = Footer
  BY <1>1
<1>3. Last(Append(a.word, Footer)) = Footer
  BY <1>2, Zenon DEF Last
<1>4. /\ Footed(a).flag = a.flag /\ Footed(a).inline = a.inline
      /\ Footed(a).word = Append(a.word, Footer)
      /\ Footed(a) = [flag |-> a.flag, inline |-> a.inline, word |-> Append(a.word, Footer)]
  BY DEF Footed, Argument
<1>5. a.flag \in Name /\ a.inline \in BOOLEAN
  BY ArgFields
<1>6. Footed(a) \in Argument
  <2>1. [flag |-> a.flag, inline |-> a.inline, word |-> Append(a.word, Footer)] \in Argument
    BY <1>2, <1>5 DEF Argument
  <2> QED BY <1>4, <2>1, Zenon
<1>7. HasFooter(Footed(a))
  BY <1>2, <1>3, <1>4, Zenon DEF HasFooter
<1>8. Word(Footed(a).word).word = Append(a.word, Footer)
  BY <1>4 DEF Word
<1>9. HasFooter(Word(Footed(a).word))
  BY <1>2, <1>3, <1>8, Zenon DEF HasFooter
<1>10. Footed(a).word # <<>>
  BY <1>2, <1>4, Zenon
<1> QED BY <1>4, <1>6, <1>7, <1>9, <1>10

LEMMA FirstAdded ==
  ASSUME NEW R, NEW values \in [R -> Seq(Argument)], NEW name \in R, Len(values[name]) = 0,
         NEW v \in Argument, NEW new, new = [values EXCEPT ![name] = Append(@, v)]
  PROVE  Len(new[name]) = 1 /\ new[name][1] = v
<1>1. new[name] = Append(values[name], v) /\ values[name] \in Seq(Argument)
  OBVIOUS
<1>2. Len(Append(values[name], v)) = Len(values[name]) + 1
      /\ Append(values[name], v)[Len(values[name]) + 1] = v
  BY <1>1, Appended
<1>3. 0 + 1 = 1
  OBVIOUS
<1> QED BY <1>1, <1>2, <1>3, Zenon

LEMMA SignHere ==
  ASSUME NEW flags, Table(flags), NEW name \in Range1(flags.valued), NEW a \in Argument,
         NEW s \in Found(flags), PlaceOf(s, a, Spellings(flags, name), name), ScanArg(flags, s, a).ok
  PROVE  /\ Signed(name, ScanArg(flags, s, a), ScanArg(flags, s, Footed(a)))
         /\ Len(ScanArg(flags, s, a).values[name]) = 1
<1> DEFINE R == Range1(flags.valued)
           b == Footed(a)
           p == ScanArg(flags, s, a)
           r == ScanArg(flags, s, b)
<1>1. /\ b \in Argument /\ b.flag = a.flag /\ b.inline = a.inline /\ b.word # <<>>
      /\ HasFooter(b) /\ HasFooter(Word(b.word))
  BY FootedType
<1> HIDE DEF b
<1>2. /\ s.values \in [R -> Seq(Argument)] /\ name \in R /\ Len(s.values[name]) = 0
      /\ Word(a.word) \in Argument /\ Word(b.word) \in Argument
  BY <1>1, FoundFields, ArgFields DEF PlaceOf
<1>3. TakenAs(flags, s, a, p) /\ s.ok
  <2>1. TakenAs(flags, s, a, p)
    BY Taken
  <2> HIDE DEF p
  <2> QED BY <2>1 DEF TakenAs
<1>4. name # ""
  BY DEF Table
<1>5. p = ScanArg(flags, s, a) /\ r = ScanArg(flags, s, b)
  OBVIOUS
<1> SUFFICES Signed(name, p, r) /\ Len(p.values[name]) = 1
  BY DEF b
<1> HIDE DEF p, r, R
<1>6. ASSUME NEW u \in Argument, NEW v \in Argument, r.ok, p.open = "", r.open = "", HasFooter(v),
             p.values = [s.values EXCEPT ![name] = Append(@, u)],
             r.values = [s.values EXCEPT ![name] = Append(@, v)]
      PROVE  Signed(name, p, r) /\ Len(p.values[name]) = 1
  <2>0. /\ s.values \in [R -> Seq(Argument)] /\ name \in R /\ Len(s.values[name]) = 0
        /\ p.values = [s.values EXCEPT ![name] = Append(@, u)]
        /\ r.values = [s.values EXCEPT ![name] = Append(@, v)]
        /\ u \in Argument /\ v \in Argument
    BY <1>2, <1>6
  <2>1. Len(p.values[name]) = 1
    BY <2>0, FirstAdded
  <2>2. Len(r.values[name]) = 1 /\ r.values[name][1] = v
    BY <2>0, FirstAdded
  <2>3. r.open = p.open /\ r.ok /\ HasFooter(r.values[name][1])
    BY <1>6, <2>2, Zenon
  <2> QED BY <2>1, <2>2, <2>3 DEF Signed
<1>7. CASE s.open = name
  <2>1. s.open # ""
    BY <1>4, <1>7, Zenon
  <2>2. /\ p = [s EXCEPT !.values[s.open] = Append(@, a), !.open = ""]
        /\ r = [s EXCEPT !.values[s.open] = Append(@, b), !.open = ""]
    BY <1>3, <1>5, <2>1 DEF ScanArg
  <2>3. /\ r.ok /\ p.open = "" /\ r.open = ""
        /\ p.values = [s.values EXCEPT ![s.open] = Append(@, a)]
        /\ r.values = [s.values EXCEPT ![s.open] = Append(@, b)]
    BY <1>3, <2>2 DEF Found
  <2>4. /\ p.values = [s.values EXCEPT ![name] = Append(@, a)]
        /\ r.values = [s.values EXCEPT ![name] = Append(@, b)]
    BY <1>7, <2>3, Zenon
  <2> QED BY <1>1, <1>6, <2>3, <2>4
<1>8. CASE s.open = "" /\ a.flag \in Spellings(flags, name) /\ a.inline
  <2>1. /\ a.flag \in DOMAIN flags.valued /\ flags.valued[a.flag] = name
        /\ a.flag # "" /\ ~Positional(a) /\ ~Positional(b)
    BY <1>1, <1>8 DEF Spellings, Table, Positional
  <2>2. a.flag \notin ShortAliases /\ a.word # <<>>
    BY <1>3, <1>8, <2>1 DEF TakenAs
  <2>3. /\ p = [s EXCEPT !.values[flags.valued[a.flag]] = Append(@, Word(a.word))]
        /\ r = [s EXCEPT !.values[flags.valued[a.flag]] = Append(@, Word(b.word))]
    BY <1>1, <1>3, <1>5, <1>8, <2>1, <2>2 DEF ScanArg
  <2>4. /\ r.ok /\ p.open = "" /\ r.open = ""
        /\ p.values = [s.values EXCEPT ![flags.valued[a.flag]] = Append(@, Word(a.word))]
        /\ r.values = [s.values EXCEPT ![flags.valued[a.flag]] = Append(@, Word(b.word))]
    BY <1>3, <1>8, <2>3 DEF Found
  <2>5. /\ p.values = [s.values EXCEPT ![name] = Append(@, Word(a.word))]
        /\ r.values = [s.values EXCEPT ![name] = Append(@, Word(b.word))]
    BY <2>1, <2>4, Zenon
  <2> QED BY <1>1, <1>2, <1>6, <2>4, <2>5
<1> QED BY <1>7, <1>8 DEF PlaceOf

\* The signed line differs in one argument, which the scan looks at and which keeps
\* its flag, and if it is the first one that the scan looks at, it has one.
SameButOne(args, out, from) ==
  /\ out \in Seq(Argument) /\ Len(out) = Len(args)
  /\ \A i \in 1..Len(args) : out[i].flag = args[i].flag /\ out[i].inline = args[i].inline
  /\ \A i \in 1..Len(args) :
       out[i] # args[i] => ~(i < from) /\ (i = from => args[i].flag # "")

\* The one body of a signed line is the body of the line with the footer.
LEMMA SignedBody ==
  ASSUME NEW args \in Seq(Argument), NEW from \in Nat \ {0}, NEW flags, Table(flags),
         NEW name \in Range1(flags.valued), NEW field,
         OneBody(args, from, flags, Spellings(flags, name), name, field)
  PROVE  LET at  == BodyAt(args, Spellings(flags, name), field)
             out == rewriteSingleValueFlag(args, at)
             all == Scans(out, from, flags)[Len(out)]
         IN  /\ Len(at) = 1 /\ SameButOne(args, out, from)
             /\ Len(all.values[name]) = 1 /\ HasFooter(all.values[name][1])
<1> DEFINE n == Len(args)
           at == BodyAt(args, Spellings(flags, name), field)
           q == at[1]
           out == rewriteSingleValueFlag(args, at)
           line == Scans(args, from, flags)
           scan == Scans(out, from, flags)
<1>1. /\ Len(at) = 1 /\ q \in 1..n /\ ~(q < from)
      /\ PlaceOf(line[q-1], args[q], Spellings(flags, name), name)
  BY OnePlace
<1> HIDE DEF at
<1>2. /\ n \in Nat /\ q \in 0..n /\ q - 1 \in 0..n /\ n \in 0..n /\ q \in Nat
      /\ args[q] \in Argument
  BY <1>1
<1>3. /\ Footed(args[q]) \in Argument /\ Footed(args[q]).flag = args[q].flag
      /\ Footed(args[q]).inline = args[q].inline
  BY <1>2, FootedType
<1>4. /\ out = [args EXCEPT ![q] = Footed(args[q])]
  BY DEF rewriteSingleValueFlag, Footed
<1> HIDE DEF out, q
<1>5. /\ out \in Seq(Argument) /\ Len(out) = n
      /\ out[q] = Footed(args[q]) /\ \A i \in 1..n : i # q => out[i] = args[i]
  BY <1>1, <1>3, <1>4
<1>6. SameButOne(args, out, from)
  <2>1. ASSUME NEW i \in 1..n PROVE out[i].flag = args[i].flag /\ out[i].inline = args[i].inline
    BY <1>3, <1>5
  <2>2. q = from => args[q].flag # ""
    <3>1. q = from => line[q-1] = Scanned(flags)
      BY <1>2, ScanSteps
    <3>2. name # "" /\ "" \notin Spellings(flags, name)
      BY DEF Table, Spellings
    <3>3. Scanned(flags).open = ""
      BY DEF Scanned
    <3> HIDE DEF line
    <3>4. Scanned(flags).open # name
      BY <3>2, <3>3, Zenon
    <3>5. q = from => line[q-1].open # name
      BY <3>1, <3>4, Zenon
    <3> QED BY <1>1, <3>2, <3>5, Zenon DEF PlaceOf
  <2>3. ASSUME NEW i \in 1..n, out[i] # args[i] PROVE ~(i < from) /\ (i = from => args[i].flag # "")
    <3>1. i = q
      BY <1>5, <2>3
    <3> QED BY <1>1, <2>2, <3>1
  <2> QED BY <1>5, <2>1, <2>3 DEF SameButOne
<1>7. /\ line[n].ok /\ Len(line[n].values[name]) = 1
      /\ \A i \in 0..n : line[i].ok /\ Len(line[i].values[name]) <= 1
      /\ \A i \in 0..n : \A j \in 0..i : Len(line[j].values[name]) <= Len(line[i].values[name])
      /\ \A i \in 0..n : Len(line[i].values[name]) \in Nat
  <2>1. line[n].ok /\ Len(line[n].values[name]) = 1
    BY DEF OneBody
  <2>2. \A i \in 0..n : /\ line[i].ok /\ Len(line[i].values[name]) <= 1
                        /\ Len(line[i].values[name]) \in Nat
                        /\ \A j \in 0..i : Len(line[j].values[name]) <= Len(line[i].values[name])
    BY OneValue
  <2> HIDE DEF line, n
  <2> QED BY <2>1, <2>2
<1>8. \A i \in 0..n : line[i] \in Found(flags) /\ scan[i] \in Found(flags)
  BY <1>5, ScansType
<1>9. \A i \in 1..n : ~(i < from) => /\ line[i] = ScanArg(flags, line[i-1], args[i])
                                     /\ scan[i] = ScanArg(flags, scan[i-1], out[i])
  BY <1>5, ScanSteps
<1>10. \A i \in 0..n : i < from => line[i] = Scanned(flags) /\ scan[i] = Scanned(flags)
  BY <1>5, ScanSteps
<1> HIDE DEF line, scan
<1> DEFINE Before == {i \in 0..n : i < q => scan[i] = line[i]}
           After == {i \in 0..n : ~(i < q) => Signed(name, line[i], scan[i])
                                              /\ Len(line[i].values[name]) = 1}
<1>11. 0..n \subseteq Before
  <2>1. 0 \in Before
    BY <1>1, <1>2, <1>10
  <2>2. ASSUME NEW i \in 1..n, i - 1 \in Before PROVE i \in Before
    <3> SUFFICES ASSUME i < q PROVE scan[i] = line[i]
      OBVIOUS
    <3>1. scan[i-1] = line[i-1] /\ out[i] = args[i] /\ i \in 0..n
      BY <1>2, <1>5, <2>2
    <3> QED BY <1>9, <1>10, <3>1
  <2> HIDE DEF Before, n
  <2> QED BY <1>2, <2>1, <2>2, Upwards
<1>12. 0..n \subseteq After
  <2>1. 0 \in After
    BY <1>1
  <2>2. ASSUME NEW i \in 1..n, i - 1 \in After PROVE i \in After
    <3> SUFFICES ASSUME ~(i < q) PROVE Signed(name, line[i], scan[i]) /\ Len(line[i].values[name]) = 1
      OBVIOUS
    <3>0. i \in 0..n /\ i - 1 \in 0..n /\ args[i] \in Argument /\ ~(i < from)
      BY <1>1, <1>2
    <3>1. /\ line[i] = ScanArg(flags, line[i-1], args[i]) /\ scan[i] = ScanArg(flags, scan[i-1], out[i])
          /\ line[i-1] \in Found(flags) /\ scan[i-1] \in Found(flags) /\ line[i].ok
      BY <1>7, <1>8, <1>9, <3>0
    <3>2. CASE i = q
      <4>1. scan[i-1] = line[i-1] /\ out[i] = Footed(args[i])
        BY <1>2, <1>5, <1>11, <3>2
      <4>2. PlaceOf(line[i-1], args[i], Spellings(flags, name), name)
        BY <1>1, <3>2
      <4> QED BY <3>0, <3>1, <4>1, <4>2, SignHere
    <3>3. CASE i # q
      <4>1. Signed(name, line[i-1], scan[i-1]) /\ Len(line[i-1].values[name]) = 1 /\ out[i] = args[i]
        BY <1>2, <1>5, <2>2, <3>3
      <4>2. Len(line[i].values[name]) = 1
        <5>1. /\ Len(line[i-1].values[name]) <= Len(line[i].values[name])
              /\ Len(line[i].values[name]) <= 1 /\ Len(line[i].values[name]) \in Nat
          BY <1>7, <3>0
        <5>2. \A k \in Nat : 1 <= k /\ k <= 1 => k = 1
          OBVIOUS
        <5> QED BY <4>1, <5>1, <5>2, Zenon
      <4> QED BY <3>0, <3>1, <4>1, <4>2, SignedStep
    <3> QED BY <3>2, <3>3
  <2> HIDE DEF After, n
  <2> QED BY <1>2, <2>1, <2>2, Upwards
<1>13. Signed(name, line[n], scan[n])
  BY <1>1, <1>2, <1>12
<1>14. Len(scan[n].values[name]) = 1 /\ HasFooter(scan[n].values[name][1])
  BY <1>13 DEF Signed
<1> QED BY <1>1, <1>5, <1>6, <1>14 DEF scan, out, at

-----------------------------------------------------------------------------
(***************************************************************************)
(* The flags of the commands of gh that post                               *)
(***************************************************************************)

LEMMA AliasesFields ==
  ASSUME NEW names
  PROVE  /\ DOMAIN Aliases(names) = UNION {names[n] : n \in DOMAIN names}
         /\ \A a \in DOMAIN Aliases(names) :
               Aliases(names)[a] \in DOMAIN names /\ a \in names[Aliases(names)[a]]
         /\ Range1(Aliases(names)) \subseteq DOMAIN names
<1>1. DOMAIN Aliases(names) = UNION {names[n] : n \in DOMAIN names}
  BY DEF Aliases
<1>2. ASSUME NEW a \in DOMAIN Aliases(names)
      PROVE  Aliases(names)[a] \in DOMAIN names /\ a \in names[Aliases(names)[a]]
  <2>1. \E n \in DOMAIN names : a \in names[n]
    BY <1>1
  <2>2. Aliases(names)[a] = CHOOSE n \in DOMAIN names : a \in names[n]
    BY <1>1 DEF Aliases
  <2> QED BY <2>1, <2>2
<1>3. Range1(Aliases(names)) \subseteq DOMAIN names
  BY <1>2 DEF Range1
<1> QED BY <1>1, <1>2, <1>3

\* A name whose aliases no other name has is what they are mapped to.
LEMMA AliasesOf ==
  ASSUME NEW names, NEW n \in DOMAIN names, names[n] # {},
         \A m \in DOMAIN names : m # n => names[m] \cap names[n] = {}
  PROVE  /\ n \in Range1(Aliases(names))
         /\ {a \in DOMAIN Aliases(names) : Aliases(names)[a] = n} = names[n]
<1>1. \A a \in names[n] : a \in DOMAIN Aliases(names) /\ Aliases(names)[a] = n
  BY AliasesFields
<1>2. \A a \in DOMAIN Aliases(names) : Aliases(names)[a] = n => a \in names[n]
  BY AliasesFields
<1>3. n \in Range1(Aliases(names))
  BY <1>1 DEF Range1
<1> QED BY <1>1, <1>2, <1>3

\* The flags a body or a field is given with.
BodyNames == {"--body", "-b"}
FieldNames == {"-f", "--raw-field"}

Switches == [draft |-> {"--draft"}, fill |-> {"--fill"}]
Valued == [title |-> {"-t", "--title"}, body |-> {"-b", "--body"},
           base |-> {"-B", "--base"}, head |-> {"-H", "--head"},
           label |-> {"-l", "--label"}, assignee |-> {"-a", "--assignee"},
           reviewer |-> {"-r", "--reviewer"}]

LEMMA CreateTable ==
  /\ Table(CreateFlags) /\ "body" \in Range1(CreateFlags.valued)
  /\ "field" \notin Range1(CreateFlags.valued)
  /\ Spellings(CreateFlags, "body") = BodyNames
<1>1. CreateFlags.valued = Aliases(Valued) /\ CreateFlags.switches = Aliases(Switches)
  BY DEF CreateFlags, Flags, Valued, Switches
<1>2. /\ DOMAIN Valued = {"title", "body", "base", "head", "label", "assignee", "reviewer"}
      /\ DOMAIN Switches = {"draft", "fill"}
  BY DEF Valued, Switches
<1>3. /\ Valued["title"] = {"-t", "--title"} /\ Valued["body"] = {"-b", "--body"}
      /\ Valued["base"] = {"-B", "--base"} /\ Valued["head"] = {"-H", "--head"}
      /\ Valued["label"] = {"-l", "--label"} /\ Valued["assignee"] = {"-a", "--assignee"}
      /\ Valued["reviewer"] = {"-r", "--reviewer"}
      /\ Switches["draft"] = {"--draft"} /\ Switches["fill"] = {"--fill"}
  BY DEF Valued, Switches
<1>4. DOMAIN Aliases(Valued) = UNION {Valued[n] : n \in DOMAIN Valued}
  BY AliasesFields
<1>5. DOMAIN Aliases(Valued) = {"-t", "--title", "-b", "--body", "-B", "--base", "-H", "--head",
                                "-l", "--label", "-a", "--assignee", "-r", "--reviewer"}
  BY <1>2, <1>3, <1>4
<1>6. DOMAIN Aliases(Switches) = {"--draft", "--fill"}
  <2>1. DOMAIN Aliases(Switches) = UNION {Switches[n] : n \in DOMAIN Switches}
    BY AliasesFields
  <2> QED BY <1>2, <1>3, <2>1
<1>7. \A m \in DOMAIN Valued : m # "body" => Valued[m] \cap Valued["body"] = {}
  BY <1>2, <1>3
<1>8. "body" \in Range1(Aliases(Valued))
      /\ {a \in DOMAIN Aliases(Valued) : Aliases(Valued)[a] = "body"} = Valued["body"]
  <2>1. "body" \in DOMAIN Valued /\ Valued["body"] # {}
    BY <1>2, <1>3
  <2> QED BY <1>7, <2>1, AliasesOf
<1>9. Range1(Aliases(Valued)) \subseteq DOMAIN Valued
  BY AliasesFields
<1>10. Table(CreateFlags)
  <2>1. DOMAIN CreateFlags.valued \cap DOMAIN CreateFlags.switches = {}
    BY <1>1, <1>5, <1>6
  <2>2. "" \notin DOMAIN CreateFlags.valued
    BY <1>1, <1>5
  <2>3. "" \notin Range1(CreateFlags.valued)
    <3>1. "" \notin DOMAIN Valued
      BY <1>2
    <3> QED BY <1>1, <1>9, <3>1
  <2> QED BY <2>1, <2>2, <2>3 DEF Table
<1>11. Spellings(CreateFlags, "body") = BodyNames
  BY <1>1, <1>3, <1>8 DEF Spellings, BodyNames
<1> QED BY <1>1, <1>2, <1>8, <1>9, <1>10, <1>11

LEMMA NoFlagsTable ==
  DOMAIN Aliases(NoFlags) = {}
<1>1. DOMAIN NoFlags = {}
  BY DEF NoFlags
<1> QED BY <1>1, AliasesFields

\* One valued flag.
LEMMA OneFlagTable ==
  ASSUME NEW switches, NEW name, NEW spelt,
         NEW flags, flags.switches = Aliases(switches), flags.valued = Aliases([n \in {name} |-> spelt]),
         name # "", spelt # {}, "" \notin spelt, DOMAIN Aliases(switches) \cap spelt = {}
  PROVE  /\ Table(flags) /\ Range1(flags.valued) = {name}
         /\ Spellings(flags, name) = spelt
<1> DEFINE names == [n \in {name} |-> spelt]
<1>1. DOMAIN names = {name} /\ names[name] = spelt
  OBVIOUS
<1>2. UNION {names[n] : n \in DOMAIN names} = spelt
  BY <1>1
<1> HIDE DEF names
<1>3. DOMAIN Aliases(names) = spelt /\ Range1(Aliases(names)) \subseteq {name}
  BY <1>1, <1>2, AliasesFields
<1>4. name \in Range1(Aliases(names))
      /\ {a \in DOMAIN Aliases(names) : Aliases(names)[a] = name} = spelt
  <2>1. \A m \in DOMAIN names : m # name => names[m] \cap names[name] = {}
    BY <1>1
  <2> QED BY <1>1, <2>1, AliasesOf
<1>5. flags.valued = Aliases(names)
  BY DEF names
<1>6. Table(flags)
  BY <1>3, <1>5 DEF Table
<1>7. Spellings(flags, name) = spelt
  BY <1>4, <1>5 DEF Spellings
<1> QED BY <1>3, <1>4, <1>5, <1>6, <1>7

LEMMA BodyTable ==
  /\ Table(BodyFlag) /\ Range1(BodyFlag.valued) = {"body"}
  /\ Spellings(BodyFlag, "body") = BodyNames
<1>1. BodyFlag.switches = Aliases(NoFlags) /\ BodyFlag.valued = Aliases([body |-> {"-b", "--body"}])
  BY DEF BodyFlag, Flags
<1>2. [body |-> {"-b", "--body"}] = [n \in {"body"} |-> BodyNames]
  BY DEF BodyNames
<1>3. BodyNames # {} /\ "" \notin BodyNames
  BY DEF BodyNames
<1>4. BodyFlag.valued = Aliases([n \in {"body"} |-> BodyNames])
  BY <1>1, <1>2, Zenon
<1>5. DOMAIN Aliases(NoFlags) \cap BodyNames = {}
  BY NoFlagsTable
<1> QED BY <1>1, <1>3, <1>4, <1>5, OneFlagTable

LEMMA ReviewTable ==
  /\ Table(ReviewFlags) /\ Range1(ReviewFlags.valued) = {"body"}
  /\ Spellings(ReviewFlags, "body") = BodyNames
<1> DEFINE names == [comment |-> {"-c", "--comment"}, changes |-> {"-r", "--request-changes"}]
<1>1. ReviewFlags.switches = Aliases(names) /\ ReviewFlags.valued = Aliases([body |-> {"-b", "--body"}])
  BY DEF ReviewFlags, Flags
<1>2. [body |-> {"-b", "--body"}] = [n \in {"body"} |-> BodyNames]
  BY DEF BodyNames
<1>3. BodyNames # {} /\ "" \notin BodyNames
  BY DEF BodyNames
<1>4. ReviewFlags.valued = Aliases([n \in {"body"} |-> BodyNames])
  BY <1>1, <1>2, Zenon
<1>5. DOMAIN Aliases(names) \cap BodyNames = {}
  <2>1. /\ DOMAIN names = {"comment", "changes"}
        /\ names["comment"] = {"-c", "--comment"} /\ names["changes"] = {"-r", "--request-changes"}
    OBVIOUS
  <2> HIDE DEF names
  <2>2. DOMAIN Aliases(names) = UNION {names[n] : n \in DOMAIN names}
    BY AliasesFields
  <2>3. DOMAIN Aliases(names) = {"-c", "--comment", "-r", "--request-changes"}
    BY <2>1, <2>2
  <2> QED BY <2>3 DEF BodyNames
<1> HIDE DEF names
<1> QED BY <1>1, <1>3, <1>4, <1>5, OneFlagTable

LEMMA ReplyTable ==
  /\ Table(ReplyFlags) /\ Range1(ReplyFlags.valued) = {"method", "field"}
  /\ Spellings(ReplyFlags, "field") = FieldNames
<1> DEFINE names == [method |-> {"--method", "-X"}, field |-> {"-f", "--raw-field"}]
<1>1. ReplyFlags.switches = Aliases(NoFlags) /\ ReplyFlags.valued = Aliases(names)
  BY DEF ReplyFlags, Flags
<1>2. /\ DOMAIN names = {"method", "field"}
      /\ names["method"] = {"--method", "-X"} /\ names["field"] = FieldNames
  BY DEF FieldNames
<1> HIDE DEF names
<1>3. /\ "" \notin FieldNames /\ FieldNames # {} /\ FieldNames \cap {"--method", "-X"} = {}
  BY DEF FieldNames
<1>4. DOMAIN Aliases(names) = {"--method", "-X"} \cup FieldNames
  <2>1. DOMAIN Aliases(names) = UNION {names[n] : n \in DOMAIN names}
    BY AliasesFields
  <2> QED BY <1>2, <2>1
<1>5. /\ "field" \in Range1(Aliases(names))
      /\ {a \in DOMAIN Aliases(names) : Aliases(names)[a] = "field"} = FieldNames
  <2>1. \A m \in DOMAIN names : m # "field" => names[m] \cap names["field"] = {}
    BY <1>2, <1>3
  <2> QED BY <1>2, <1>3, <2>1, AliasesOf
<1>6. "method" \in Range1(Aliases(names))
  <2>1. \A m \in DOMAIN names : m # "method" => names[m] \cap names["method"] = {}
    BY <1>2, <1>3
  <2> QED BY <1>2, <2>1, AliasesOf
<1>7. Range1(Aliases(names)) \subseteq {"method", "field"}
  BY <1>2, AliasesFields
<1>8. Table(ReplyFlags)
  <2>1. DOMAIN ReplyFlags.valued \cap DOMAIN ReplyFlags.switches = {}
    BY <1>1, NoFlagsTable
  <2>2. "" \notin DOMAIN ReplyFlags.valued
    BY <1>1, <1>3, <1>4
  <2>3. "" \notin Range1(ReplyFlags.valued)
    <3>1. "" \notin {"method", "field"}
      OBVIOUS
    <3> QED BY <1>1, <1>7, <3>1, Zenon
  <2> QED BY <2>1, <2>2, <2>3 DEF Table
<1>9. Spellings(ReplyFlags, "field") = FieldNames
  BY <1>1, <1>5 DEF Spellings
<1> QED BY <1>1, <1>5, <1>6, <1>7, <1>8, <1>9

\* What a scan of a whole line has found.
LEMMA WholeScan ==
  ASSUME NEW args \in Seq(Argument), NEW from \in Nat \ {0}, NEW flags
  PROVE  LET scan == scanPolicyArgs(args, from, flags)
             all  == Scans(args, from, flags)[Len(args)]
         IN  /\ scan.values = all.values /\ scan.words = all.words
             /\ scan.ok = (all.ok /\ all.open = "")
             /\ all \in Found(flags)
             /\ DOMAIN all.values = Range1(flags.valued)
             /\ \A name \in Range1(flags.valued) : all.values[name] \in Seq(Argument)
<1> DEFINE scan == scanPolicyArgs(args, from, flags)
           all == Scans(args, from, flags)[Len(args)]
<1>1. all \in Found(flags)
  BY ScansType
<1>2. scan = [all EXCEPT !.ok = @ /\ all.open = ""]
  BY DEF scanPolicyArgs
<1> HIDE DEF scan, all
<1>3. all.values \in [Range1(flags.valued) -> Seq(Argument)]
  BY <1>1, FoundFields
<1>4. scan.values = all.values /\ scan.words = all.words /\ scan.ok = (all.ok /\ all.open = "")
  BY <1>1, <1>2 DEF Found
<1> QED BY <1>1, <1>3, <1>4 DEF scan, all

LEMMA GhBodyIs ==
  ASSUME NEW args \in Seq(Argument)
  PROVE  LET values == Scans(args, GhFrom(args), GhFlags(args))[Len(args)].values
             names == Range1(GhFlags(args).valued)
         IN  /\ "body" \in names /\ "field" \notin names => GhBody(args) = values["body"]
             /\ "field" \in names /\ "body" \notin names => GhBody(args) = values["field"]
<1> DEFINE scan == scanPolicyArgs(args, GhFrom(args), GhFlags(args))
           values == Scans(args, GhFrom(args), GhFlags(args))[Len(args)].values
           names == Range1(GhFlags(args).valued)
<1>1. GhBody(args) = valueFlagValues(scan, "body") \o valueFlagValues(scan, "field")
  BY DEF GhBody, GhFrom, GhFlags
<1>2. GhFrom(args) \in Nat \ {0}
  BY DEF GhFrom
<1>3. /\ scan.values = values /\ DOMAIN values = names
      /\ \A name \in names : values[name] \in Seq(Argument)
  BY <1>2, WholeScan
<1> HIDE DEF scan, values, names
<1>4. ASSUME NEW v \in Seq(Argument) PROVE v \o <<>> = v /\ <<>> \o v = v
  OBVIOUS
<1>5. /\ \A name \in names : valueFlagValues(scan, name) = values[name]
      /\ \A name : name \notin names => valueFlagValues(scan, name) = <<>>
  BY <1>3, Zenon DEF valueFlagValues
<1>6. ASSUME "body" \in names, "field" \notin names PROVE GhBody(args) = values["body"]
  BY <1>1, <1>3, <1>4, <1>5, <1>6, Zenon
<1>7. ASSUME "field" \in names, "body" \notin names PROVE GhBody(args) = values["field"]
  BY <1>1, <1>3, <1>4, <1>5, <1>7, Zenon
<1> QED BY <1>6, <1>7 DEF values, names

\* The signed line is looked at as the line is.
LEMMA SameLook ==
  ASSUME NEW args \in Seq(Argument), Len(args) >= 2, NEW out, SameButOne(args, out, GhFrom(args))
  PROVE  GhFlags(out) = GhFlags(args) /\ GhFrom(out) = GhFrom(args)
<1>1. GhFrom(args) \in {3, 4} /\ (GhFrom(args) = 3 => args[1] # Word(<<"pr">>) \/ Len(args) < 3 \/ Dashed(args[3]))
  BY DEF GhFrom
<1>2. Len(out) = Len(args) /\ Len(args) \in Nat
  <2>1. Len(args) \in Nat
    OBVIOUS
  <2> QED BY <2>1 DEF SameButOne
<1>3. out[1] = args[1] /\ out[2] = args[2]
  <2>1. 1 \in 1..Len(args) /\ 2 \in 1..Len(args) /\ 1 < GhFrom(args) /\ 2 < GhFrom(args)
    BY <1>1, <1>2
  <2> QED BY <2>1 DEF SameButOne
<1>4. ASSUME Len(args) >= 3 PROVE Dashed(out[3]) = Dashed(args[3])
  <2>1. 3 \in 1..Len(args)
    BY <1>2, <1>4
  <2>2. CASE out[3] = args[3]
    BY <2>2
  <2>3. CASE out[3] # args[3]
    <3>1. out[3].flag = args[3].flag /\ ~(3 < GhFrom(args)) /\ (3 = GhFrom(args) => args[3].flag # "")
      BY <2>1, <2>3 DEF SameButOne
    <3>2. args[3].flag # ""
      <4>1. 3 = GhFrom(args)
        <5>1. GhFrom(args) \in {3, 4} /\ ~(3 < GhFrom(args))
          BY <1>1, <3>1, Zenon
        <5> QED BY <5>1
      <4> QED BY <3>1, <4>1, Zenon
    <3> QED BY <3>1, <3>2 DEF Dashed
  <2> QED BY <2>2, <2>3
<1>5. GhFlags(out) = GhFlags(args)
  BY <1>3, Zenon DEF GhFlags
<1>6. GhFrom(out) = GhFrom(args)
  BY <1>2, <1>3, <1>4 DEF GhFrom
<1> QED BY <1>5, <1>6

LEMMA PostSigned ==
  ASSUME NEW args \in Seq(Argument), Len(args) >= 2, NEW name \in {"body", "field"}, NEW field,
         Table(GhFlags(args)), name \in Range1(GhFlags(args).valued),
         ({"body", "field"} \ {name}) \cap Range1(GhFlags(args).valued) = {},
         OneBody(args, GhFrom(args), GhFlags(args), Spellings(GhFlags(args), name), name, field)
  PROVE  LET out == rewriteSingleValueFlag(args, BodyAt(args, Spellings(GhFlags(args), name), field))
         IN  Len(GhBody(out)) = 1 /\ HasFooter(GhBody(out)[1])
<1> DEFINE from == GhFrom(args)
           flags == GhFlags(args)
           at == BodyAt(args, Spellings(flags, name), field)
           out == rewriteSingleValueFlag(args, at)
           values == Scans(out, from, flags)[Len(out)].values
<1>1. from \in Nat \ {0}
  BY DEF GhFrom
<1> HIDE DEF from, flags
<1>2. /\ SameButOne(args, out, from)
      /\ Len(values[name]) = 1 /\ HasFooter(values[name][1])
  BY <1>1, SignedBody DEF flags, from
<1> HIDE DEF at, out
<1>3. out \in Seq(Argument) /\ GhFlags(out) = flags /\ GhFrom(out) = from
  <2>1. out \in Seq(Argument)
    BY <1>2 DEF SameButOne
  <2> QED BY <1>2, <2>1, SameLook DEF flags, from
<1>4. GhBody(out) = values[name]
  <2>1. /\ "body" \in Range1(flags.valued) /\ "field" \notin Range1(flags.valued) => GhBody(out) = values["body"]
        /\ "field" \in Range1(flags.valued) /\ "body" \notin Range1(flags.valued) => GhBody(out) = values["field"]
    BY <1>3, GhBodyIs
  <2> HIDE DEF values
  <2>2. CASE name = "body"
    BY <2>1, <2>2 DEF flags
  <2>3. CASE name = "field"
    BY <2>1, <2>3 DEF flags
  <2> QED BY <2>2, <2>3
<1> HIDE DEF values
<1>5. Len(GhBody(out)) = 1 /\ HasFooter(GhBody(out)[1])
  BY <1>2, <1>4, Zenon
<1> QED BY <1>5 DEF out, at, flags

-----------------------------------------------------------------------------
(***************************************************************************)
(* What the policy of gh lets through has one body                         *)
(***************************************************************************)

\* A scan that has not failed had not failed before, and where it looks, an argument is
\* taken as one thing or another.
LEMMA LineSteps ==
  ASSUME NEW args \in Seq(Argument), NEW from \in Nat \ {0}, NEW flags, Table(flags),
         Scans(args, from, flags)[Len(args)].ok
  PROVE  LET line == Scans(args, from, flags)
         IN  /\ \A i \in 0..Len(args) : line[i].ok
             /\ \A i \in 0..Len(args) : i < from => line[i] = Scanned(flags) /\ line[i].open = ""
             /\ \A i \in 1..Len(args) : ~(i < from) => TakenAs(flags, line[i-1], args[i], line[i])
             /\ \A i \in 0..Len(args) : Keeps(flags, line[i], line[Len(args)])
<1> DEFINE n == Len(args)
           line == Scans(args, from, flags)
<1>1. n \in 0..n /\ n \in Nat
  OBVIOUS
<1>2. \A i \in 0..n : Keeps(flags, line[i], line[n])
  BY <1>1, ScansGrow
<1>3. line[n].ok
  OBVIOUS
<1>4. \A i \in 1..n : ~(i < from) /\ line[i].ok => TakenAs(flags, line[i-1], args[i], line[i])
  BY BothStep
<1>5. \A i \in 0..n : i < from => line[i] = Scanned(flags)
  BY ScanSteps
<1>6. Scanned(flags).open = ""
  BY DEF Scanned
<1> HIDE DEF line
<1>7. \A i \in 0..n : line[i].ok
  BY <1>2, <1>3 DEF Keeps
<1>8. \A i \in 0..n : i < from => line[i] = Scanned(flags) /\ line[i].open = ""
  BY <1>5, <1>6, Zenon
<1>9. \A i \in 1..n : ~(i < from) => TakenAs(flags, line[i-1], args[i], line[i])
  <2> TAKE i \in 1..n
  <2>1. i \in 0..n
    OBVIOUS
  <2> HIDE DEF n
  <2> QED BY <1>4, <1>7, <2>1, Zenon
<1> QED BY <1>2, <1>7, <1>8, <1>9 DEF line

\* The value of another flag is spelt as a body in no line but those that SpeltLikeBody
\* names.
LEMMA OtherValue ==
  ASSUME NEW args \in Seq(Argument), ~SpeltLikeBody(args), NEW i \in 1..Len(args),
         AwaitsOther(Scans(args, GhFrom(args), GhFlags(args))[i-1], "body")
  PROVE  args[i].flag \notin BodyNames
BY Zenon DEF SpeltLikeBody, AwaitsOther, BodyNames

LEMMA GhFromIs ==
  ASSUME NEW args
  PROVE  /\ GhFrom(args) \in {3, 4} /\ GhFrom(args) \in Nat \ {0}
         /\ GhFrom(args) = 4 => ~Dashed(args[3])
<1>1. \/ GhFrom(args) = 3
      \/ GhFrom(args) = 4 /\ ~Dashed(args[3])
  BY Zenon DEF GhFrom
<1> QED BY <1>1

LEMMA BeforeFrom ==
  ASSUME NEW args \in Seq(Argument), NEW i \in 1..Len(args), i < GhFrom(args)
  PROVE  i = 1 \/ i = 2 \/ (i = 3 /\ ~Dashed(args[3]))
<1>1. GhFrom(args) \in {3, 4} /\ (GhFrom(args) = 4 => ~Dashed(args[3]))
  BY GhFromIs
<1> HIDE DEF GhFrom, Dashed
<1> QED BY <1>1

\* The arguments that come before those a scan looks at are words.
LEMMA WordsFirst ==
  ASSUME NEW args \in Seq(Argument), args[1].flag = "", args[2].flag = "",
         NEW i \in 1..Len(args), i < GhFrom(args)
  PROVE  args[i].flag = ""
<1>1. i = 1 \/ i = 2 \/ (i = 3 /\ ~Dashed(args[3]))
  BY BeforeFrom, Zenon
<1>2. ~Dashed(args[3]) => args[3].flag = ""
  BY DEF Dashed
<1> QED BY <1>1, <1>2

LEMMA PrOneBody ==
  ASSUME NEW args \in Seq(Argument), Len(args) >= 2, args[1].flag = "", args[2].flag = "",
         NEW flags, Table(flags), "body" \in Range1(flags.valued), Spellings(flags, "body") = BodyNames,
         NEW from, from = GhFrom(args), scanPolicyArgs(args, from, flags).ok,
         Given(scanPolicyArgs(args, from, flags), "body") = 1,
         \A i \in 1..Len(args) :
            AwaitsOther(Scans(args, from, flags)[i-1], "body") => args[i].flag \notin BodyNames
  PROVE  OneBody(args, from, flags, BodyNames, "body", FALSE)
<1> DEFINE scan == scanPolicyArgs(args, from, flags)
           line == Scans(args, from, flags)
           all == line[Len(args)]
<1>1. from \in Nat \ {0}
  BY GhFromIs
<1>2. /\ scan.values = all.values /\ scan.ok = (all.ok /\ all.open = "")
      /\ DOMAIN all.values = Range1(flags.valued)
  BY <1>1, WholeScan
<1>3. scan.ok /\ Given(scan, "body") = 1
  OBVIOUS
<1>4. \A i \in 1..Len(args) : i < from => args[i].flag \notin BodyNames
  <2>1. "" \notin BodyNames
    BY DEF BodyNames
  <2>2. \A i \in 1..Len(args) : i < from => args[i].flag = ""
    BY WordsFirst
  <2> QED BY <2>1, <2>2, Zenon
<1> HIDE DEF scan, line
<1>5. all.ok /\ all.open = ""
  BY <1>2, <1>3
<1>6. Len(all.values["body"]) = 1
  BY <1>2, <1>3 DEF Given, valueFlagValues
<1>7. BodyValue(all.values["body"][1], FALSE)
  BY DEF BodyValue
<1> QED BY <1>4, <1>5, <1>6, <1>7 DEF OneBody, line

LEMMA OnlyAdded ==
  ASSUME NEW X, NEW s \in Seq(X), NEW v \in X, NEW t \in Seq(X), Grown(Append(s, v), t), Len(t) = 1
  PROVE  t[1] = v
<1>1. /\ Len(Append(s, v)) = Len(s) + 1 /\ Len(s) \in Nat /\ Append(s, v)[Len(s) + 1] = v
  OBVIOUS
<1>2. Len(s) + 1 <= 1 /\ \A k \in 1..Len(s)+1 : t[k] = Append(s, v)[k]
  BY <1>1 DEF Grown
<1>3. Len(s) = 0
  BY <1>1, <1>2
<1>4. t[Len(s) + 1] = v
  BY <1>1, <1>2, <1>3
<1> QED BY <1>3, <1>4

\* The value that follows the flag of a method is POST.
LEMMA ReplyOther ==
  ASSUME NEW args \in Seq(Argument),
         Scans(args, 3, ReplyFlags)[Len(args)].ok,
         Scans(args, 3, ReplyFlags)[Len(args)].values["method"] = <<Word(<<"POST">>)>>,
         NEW i \in 1..Len(args),
         AwaitsOther(Scans(args, 3, ReplyFlags)[i-1], "field")
  PROVE  args[i].flag \notin FieldNames
<1> DEFINE n == Len(args)
           line == Scans(args, 3, ReplyFlags)
<1>1. Table(ReplyFlags) /\ Range1(ReplyFlags.valued) = {"method", "field"}
  BY ReplyTable
<1>2. line[i-1].open # "" /\ line[i-1].open # "field"
  BY DEF AwaitsOther
<1>3. /\ \A j \in 0..n : j < 3 => line[j].open = ""
      /\ \A j \in 1..n : ~(j < 3) => TakenAs(ReplyFlags, line[j-1], args[j], line[j])
      /\ \A j \in 0..n : Keeps(ReplyFlags, line[j], line[n])
  <2>1. 3 \in Nat \ {0} /\ line[n].ok
    OBVIOUS
  <2>2. /\ \A j \in 0..n : line[j].ok
        /\ \A j \in 0..n : j < 3 => line[j] = Scanned(ReplyFlags) /\ line[j].open = ""
        /\ \A j \in 1..n : ~(j < 3) => TakenAs(ReplyFlags, line[j-1], args[j], line[j])
        /\ \A j \in 0..n : Keeps(ReplyFlags, line[j], line[n])
    BY <1>1, <2>1, LineSteps, Zenon
  <2> HIDE DEF line
  <2> QED BY <2>2, Zenon
<1>4. \A j \in 0..n : /\ line[j] \in Found(ReplyFlags)
                      /\ line[j].values \in [{"method", "field"} -> Seq(Argument)]
  <2>1. 3 \in Nat \ {0}
    OBVIOUS
  <2>2. \A j \in 0..n : line[j] \in Found(ReplyFlags)
    BY <2>1, ScansType
  <2> HIDE DEF line
  <2>3. \A j \in 0..n : line[j].values \in [Range1(ReplyFlags.valued) -> Seq(Argument)]
    BY <2>2, FoundFields
  <2> QED BY <1>1, <2>2, <2>3
<1>5. line[n].ok /\ line[n].values["method"] = <<Word(<<"POST">>)>>
  OBVIOUS
<1> HIDE DEF line
<1>6. i \in 0..n /\ i - 1 \in 0..n /\ n \in 0..n /\ args[i] \in Argument /\ n \in Nat
  OBVIOUS
<1>7. ~(i < 3)
  <2>1. ~(i - 1 < 3)
    BY <1>2, <1>3, <1>6, Zenon
  <2> QED BY <1>6, <2>1
<1>8. line[i-1].open = "method"
  <2>1. line[i-1].open \in {"method", "field"} \cup {""}
    BY <1>1, <1>4, <1>6, FoundFields
  <2> QED BY <1>2, <2>1
<1>9. line[i].values = [line[i-1].values EXCEPT !["method"] = Append(@, args[i])]
  <2>1. TakenAs(ReplyFlags, line[i-1], args[i], line[i])
    BY <1>3, <1>7
  <2> QED BY <1>8, <2>1 DEF TakenAs
<1>10. /\ line[i-1].values \in [{"method", "field"} -> Seq(Argument)]
       /\ line[n].values \in [{"method", "field"} -> Seq(Argument)]
  BY <1>4, <1>6
<1>11. line[i].values["method"] = Append(line[i-1].values["method"], args[i])
  BY <1>9, <1>10
<1>12. Grown(line[i].values["method"], line[n].values["method"])
  BY <1>1, <1>3, <1>5, <1>6 DEF Keeps
<1>13. line[n].values["method"][1] = args[i]
  <2>1. Len(line[n].values["method"]) = 1
    BY <1>5
  <2>2. line[i-1].values["method"] \in Seq(Argument) /\ line[n].values["method"] \in Seq(Argument)
    BY <1>10
  <2>3. Grown(Append(line[i-1].values["method"], args[i]), line[n].values["method"])
    BY <1>11, <1>12
  <2> QED BY <1>6, <2>1, <2>2, <2>3, OnlyAdded
<1>14. args[i] = Word(<<"POST">>)
  BY <1>5, <1>13
<1>15. args[i].flag = ""
  <2>1. Word(<<"POST">>).flag = ""
    BY DEF Word
  <2> QED BY <1>14, <2>1, Zenon
<1>16. "" \notin FieldNames
  BY DEF FieldNames
<1> QED BY <1>15, <1>16, Zenon

LEMMA ReplyOneBody ==
  ASSUME NEW args \in Seq(Argument), Positional(args[1]), Positional(args[2]),
         validateGhApiReviewReplyArgs(args)
  PROVE  OneBody(args, 3, ReplyFlags, FieldNames, "field", TRUE)
<1> DEFINE scan == scanPolicyArgs(args, 3, ReplyFlags)
           line == Scans(args, 3, ReplyFlags)
           all == line[Len(args)]
<1>1. Range1(ReplyFlags.valued) = {"method", "field"}
  BY ReplyTable
<1>2. /\ scan.values = all.values /\ scan.ok = (all.ok /\ all.open = "")
      /\ DOMAIN all.values = {"method", "field"}
  <2>1. 3 \in Nat \ {0}
    OBVIOUS
  <2>2. /\ scan.values = all.values /\ scan.ok = (all.ok /\ all.open = "")
        /\ DOMAIN all.values = Range1(ReplyFlags.valued)
    BY <2>1, WholeScan
  <2> QED BY <1>1, <2>2, Zenon
<1>3. /\ scan.ok /\ valueFlagValues(scan, "method") = <<Word(<<"POST">>)>>
      /\ Given(scan, "field") = 1 /\ IsBodyField(valueFlagValues(scan, "field")[1])
  BY DEF validateGhApiReviewReplyArgs, Only
<1> HIDE DEF scan
<1>4. all.ok /\ all.open = ""
  BY <1>2, <1>3
<1>5. valueFlagValues(scan, "method") = all.values["method"]
      /\ valueFlagValues(scan, "field") = all.values["field"]
  BY <1>2 DEF valueFlagValues
<1>6. Len(all.values["field"]) = 1 /\ BodyValue(all.values["field"][1], TRUE)
  BY <1>3, <1>5 DEF Given, BodyValue
<1>7. all.values["method"] = <<Word(<<"POST">>)>>
  BY <1>3, <1>5
<1>8. \A i \in 1..Len(args) : AwaitsOther(line[i-1], "field") => args[i].flag \notin FieldNames
  BY <1>4, <1>7, ReplyOther
<1>9. \A i \in 1..Len(args) : i < 3 => args[i].flag \notin FieldNames
  <2> TAKE i \in 1..Len(args)
  <2> SUFFICES ASSUME i < 3 PROVE args[i].flag \notin FieldNames
    OBVIOUS
  <2>1. i = 1 \/ i = 2
    OBVIOUS
  <2>2. args[i].flag = ""
    BY <2>1 DEF Positional
  <2>3. "" \notin FieldNames
    BY DEF FieldNames
  <2> QED BY <2>2, <2>3, Zenon
<1> QED BY <1>4, <1>6, <1>8, <1>9 DEF OneBody

\* A line of gh pr create has no word after the command: its flags follow at once.
LEMMA CreateFrom ==
  ASSUME NEW args \in Seq(Argument), Only(scanPolicyArgs(args, 3, CreateFlags))
  PROVE  GhFrom(args) = 3
<1> DEFINE n == Len(args)
           line == Scans(args, 3, CreateFlags)
           scan == scanPolicyArgs(args, 3, CreateFlags)
<1> SUFFICES ASSUME n >= 3, ~Dashed(args[3]) PROVE FALSE
  BY DEF GhFrom
<1>1. scan.words = line[n].words /\ scan.ok = (line[n].ok /\ line[n].open = "")
  <2>1. 3 \in Nat \ {0}
    OBVIOUS
  <2> QED BY <2>1, WholeScan
<1>2. scan.ok /\ scan.words = <<>>
  BY DEF Only
<1> HIDE DEF scan
<1>3. line[n].ok /\ line[n].words = <<>>
  BY <1>1, <1>2
<1>4. Table(CreateFlags) /\ 3 \in Nat \ {0}
  BY CreateTable
<1>5. 3 \in 0..n /\ 2 \in 0..n /\ 3 \in 1..n
  OBVIOUS
<1>6. /\ line[2].open = ""
      /\ TakenAs(CreateFlags, line[2], args[3], line[3])
      /\ Keeps(CreateFlags, line[3], line[n])
  <2>1. /\ \A j \in 0..n : line[j].ok
        /\ \A j \in 0..n : j < 3 => line[j] = Scanned(CreateFlags) /\ line[j].open = ""
        /\ \A j \in 1..n : ~(j < 3) => TakenAs(CreateFlags, line[j-1], args[j], line[j])
        /\ \A j \in 0..n : Keeps(CreateFlags, line[j], line[n])
    BY <1>3, <1>4, LineSteps, Zenon
  <2> HIDE DEF line
  <2>2. 3 - 1 = 2 /\ 2 < 3 /\ ~(3 < 3)
    OBVIOUS
  <2> QED BY <1>5, <2>1, <2>2
<1>7. line[2].words \in Seq(Seq(Name)) /\ args[3].word \in Seq(Name)
  <2>1. line[2] \in Found(CreateFlags) /\ args[3] \in Argument
    BY <1>5, ScansType
  <2> HIDE DEF line
  <2> QED BY <2>1, FoundFields, ArgFields
<1> HIDE DEF line
<1>8. args[3].flag = ""
  BY DEF Dashed
<1>9. line[3].words = Append(line[2].words, args[3].word)
  BY <1>6, <1>8 DEF TakenAs
<1>10. Len(line[3].words) = Len(line[2].words) + 1 /\ Len(line[2].words) \in Nat
  BY <1>7, <1>9
<1>11. Len(line[3].words) <= Len(line[n].words)
  BY <1>3, <1>6 DEF Keeps, Grown
<1>12. Len(line[n].words) = 0
  BY <1>3
<1> QED BY <1>10, <1>11, <1>12

LEMMA Pair ==
  ASSUME NEW X, NEW s \in Seq(X), Len(s) = 2
  PROVE  s = <<s[1], s[2]>>
OBVIOUS

LEMMA TwoParts ==
  ASSUME NEW X, NEW a \in X, NEW b \in X
  PROVE  <<a>> \o <<b>> = <<a, b>>
<1>1. <<a>> \in Seq(X) /\ <<b>> \in Seq(X)
  OBVIOUS
<1>2. /\ Len(<<a>> \o <<b>>) = 2 /\ (<<a>> \o <<b>>)[1] = a /\ (<<a>> \o <<b>>)[2] = b
      /\ <<a>> \o <<b>> \in Seq(X)
  BY <1>1
<1>3. <<a>> \o <<b>> = <<(<<a>> \o <<b>>)[1], (<<a>> \o <<b>>)[2]>>
  BY <1>2, Pair
<1> QED BY <1>2, <1>3, Zenon

\* A command of gh that writes on a pull request is one that the policy has a rule for.
LEMMA PrPolicy ==
  ASSUME NEW args, NEW cwd, ~IsHelp(args), validateGhArgs(args, cwd), WritesPr(args)
  PROVE  \/ args[2] = Word(<<"create">>) /\ validateGhPrCreateArgs(args, cwd)
         \/ args[2] = Word(<<"comment">>) /\ validateGhPrCommentArgs(args)
         \/ args[2] = Word(<<"review">>) /\ validateGhPrReviewArgs(args)
<1>1. /\ Len(args) >= 2 /\ args[1] = Word(<<"pr">>)
      /\ args[2] \in {Word(<<"create">>), Word(<<"comment">>), Word(<<"review">>)}
  BY DEF WritesPr
<1>2. Word(<<"pr">>) # Word(<<"api">>) /\ Word(<<"pr">>).word = <<"pr">>
  <2>1. Word(<<"pr">>).word = <<"pr">> /\ Word(<<"api">>).word = <<"api">>
    BY DEF Word
  <2>2. <<"pr">> # <<"api">>
    OBVIOUS
  <2> QED BY <2>1, <2>2, Zenon
<1>3. args # <<>> /\ args # <<Flag("--version")>>
  <2>1. Len(<<>>) = 0 /\ Len(<<Flag("--version")>>) = 1
    OBVIOUS
  <2>2. \A k : k >= 2 => k # 0 /\ k # 1
    OBVIOUS
  <2> QED BY <1>1, <2>1, <2>2, Zenon
<1> DEFINE key == ghCommandKey(args)
<1>4. \/ key \in AnyArguments
      \/ key = <<"api">>
      \/ key = <<"auth", "status">>
      \/ key = <<"pr", "create">> /\ validateGhPrCreateArgs(args, cwd)
      \/ key = <<"pr", "comment">> /\ validateGhPrCommentArgs(args)
      \/ key = <<"pr", "review">> /\ validateGhPrReviewArgs(args)
      \/ key \in ByNumber \/ key \in BySelector
      \/ key = <<"run", "rerun">> \/ key = <<"run", "download">> \/ key = <<"workflow", "run">>
  BY <1>3, Zenon DEF validateGhArgs
<1>5. ASSUME NEW c \in {"create", "comment", "review"}, args[2] = Word(<<c>>)
      PROVE  key = <<"pr", c>>
  <2>1. Word(<<c>>).flag = "" /\ Word(<<c>>).word = <<c>>
    BY DEF Word
  <2>2. <<c>> # Dash
    BY DEF Dash
  <2>3. ~Dashed(args[2])
    BY <1>5, <2>1, <2>2, Zenon DEF Dashed
  <2>4. key = args[1].word \o args[2].word
    BY <1>1, <1>2, <2>3, Zenon DEF ghCommandKey
  <2>5. <<"pr">> \o <<c>> = <<"pr", c>>
    <3>1. \A a \in {"pr", "create", "comment", "review"} :
            \A b \in {"pr", "create", "comment", "review"} : <<a>> \o <<b>> = <<a, b>>
      BY TwoParts
    <3> QED BY <3>1, Zenon
  <2> QED BY <1>1, <1>2, <1>5, <2>1, <2>4, <2>5, Zenon
<1> HIDE DEF key
<1>6. ASSUME NEW c \in {"create", "comment", "review"}, key = <<"pr", c>>
      PROVE  /\ key \notin AnyArguments /\ key \notin ByNumber /\ key \notin BySelector
             /\ key # <<"api">> /\ key # <<"auth", "status">>
             /\ key # <<"run", "rerun">> /\ key # <<"run", "download">> /\ key # <<"workflow", "run">>
  <2>1. key \notin AnyArguments
    BY <1>6 DEF AnyArguments
  <2>2. key \notin ByNumber /\ key \notin BySelector
    BY <1>6 DEF ByNumber, BySelector
  <2>3. /\ key # <<"api">> /\ key # <<"auth", "status">>
        /\ key # <<"run", "rerun">> /\ key # <<"run", "download">> /\ key # <<"workflow", "run">>
    BY <1>6
  <2> QED BY <2>1, <2>2, <2>3
<1>7. /\ <<"pr", "create">> # <<"pr", "comment">> /\ <<"pr", "create">> # <<"pr", "review">>
      /\ <<"pr", "comment">> # <<"pr", "review">>
  OBVIOUS
<1>8. CASE args[2] = Word(<<"create">>)
  <2>1. key = <<"pr", "create">>
    BY <1>5, <1>8
  <2> QED BY <1>4, <1>6, <1>7, <1>8, <2>1, Zenon
<1>9. CASE args[2] = Word(<<"comment">>)
  <2>1. key = <<"pr", "comment">>
    BY <1>5, <1>9
  <2> QED BY <1>4, <1>6, <1>7, <1>9, <2>1, Zenon
<1>10. CASE args[2] = Word(<<"review">>)
  <2>1. key = <<"pr", "review">>
    BY <1>5, <1>10
  <2> QED BY <1>4, <1>6, <1>7, <1>10, <2>1, Zenon
<1> QED BY <1>1, <1>8, <1>9, <1>10, Zenon

\* A reply to a review comment is one that the policy has a rule for.
LEMMA ApiPolicy ==
  ASSUME NEW args, NEW cwd, ~IsHelp(args), validateGhArgs(args, cwd),
         Len(args) >= 2, args[1] = Word(<<"api">>), IsReviewReply(args[2].word)
  PROVE  validateGhApiReviewReplyArgs(args) /\ ~Dashed(args[2])
<1>1. args # <<>> /\ args # <<Flag("--version")>>
  <2>1. Len(<<>>) = 0 /\ Len(<<Flag("--version")>>) = 1
    OBVIOUS
  <2>2. \A k : k >= 2 => k # 0 /\ k # 1
    OBVIOUS
  <2> QED BY <2>1, <2>2, Zenon
<1> DEFINE key == ghCommandKey(args)
<1>2. key = <<"api">>
  BY DEF ghCommandKey
<1>3. \/ key \in AnyArguments
      \/ validateGhApiArgs(args, cwd)
      \/ key = <<"auth", "status">> \/ key = <<"pr", "create">> \/ key = <<"pr", "comment">>
      \/ key = <<"pr", "review">>
      \/ key \in ByNumber \/ key \in BySelector
      \/ key = <<"run", "rerun">> \/ key = <<"run", "download">> \/ key = <<"workflow", "run">>
  BY <1>1, Zenon DEF validateGhArgs
<1> HIDE DEF key
<1>4. key \notin AnyArguments
  BY <1>2 DEF AnyArguments
<1>5. key \notin ByNumber /\ key \notin BySelector
  BY <1>2 DEF ByNumber, BySelector
<1>6. /\ key # <<"auth", "status">> /\ key # <<"pr", "create">> /\ key # <<"pr", "comment">>
      /\ key # <<"pr", "review">>
      /\ key # <<"run", "rerun">> /\ key # <<"run", "download">> /\ key # <<"workflow", "run">>
  BY <1>2
<1>7. validateGhApiArgs(args, cwd)
  BY <1>3, <1>4, <1>5, <1>6, Zenon
<1>8. ~Dashed(args[2])
      /\ (validateGhApiReviewReplyArgs(args) \/ validateGhApiExplicitReviewReplyArgs(args, cwd))
  BY <1>7, Zenon DEF validateGhApiArgs
<1> QED BY <1>8, Zenon DEF validateGhApiExplicitReviewReplyArgs

\* What a command of gh that is not refused is made.
LEMMA Disclaimed ==
  ASSUME NEW args, NEW session, ~IsHelp(args), Writes(args), withGhDisclaimer(args, session) # NoArgs
  PROVE  /\ args[1] = Word(<<"api">>) =>
              withGhDisclaimer(args, session) = rewriteSingleValueFlag(args, BodyAt(args, FieldNames, TRUE))
         /\ args[1] # Word(<<"api">>) =>
              withGhDisclaimer(args, session) = rewriteSingleValueFlag(args, BodyAt(args, BodyNames, FALSE))
BY Zenon DEF withGhDisclaimer, FieldNames, BodyNames

LEMMA WordsDiffer ==
  /\ Word(<<"pr">>) # Word(<<"api">>) /\ Word(<<"create">>) # Word(<<"review">>)
  /\ Word(<<"comment">>) # Word(<<"review">>) /\ Word(<<"comment">>) # Word(<<"create">>)
  /\ \A w : Word(w).flag = "" /\ Word(w).word = w
<1>1. \A w : Word(w).flag = "" /\ Word(w).word = w
  BY DEF Word
<1>2. /\ <<"pr">> # <<"api">> /\ <<"create">> # <<"review">>
      /\ <<"comment">> # <<"review">> /\ <<"comment">> # <<"create">>
  OBVIOUS
<1> QED BY <1>1, <1>2, Zenon

LEMMA BodyOnly ==
  ASSUME NEW args \in Seq(Argument), NEW from \in Nat \ {0}, NEW flags, Range1(flags.valued) = {"body"},
         NEW i \in 1..Len(args)
  PROVE  ~AwaitsOther(Scans(args, from, flags)[i-1], "body")
<1>1. i - 1 \in 0..Len(args)
  OBVIOUS
<1>2. Scans(args, from, flags)[i-1] \in Found(flags)
  BY <1>1, ScansType
<1>3. Scans(args, from, flags)[i-1].open \in Range1(flags.valued) \cup {""}
  BY <1>2, FoundFields
<1> QED BY <1>3, Zenon DEF AwaitsOther

LEMMA PrDisclaimer ==
  ASSUME NEW args \in Seq(Argument), NEW cwd, NEW session, ~IsHelp(args), validateGhArgs(args, cwd),
         WritesPr(args), ~SpeltLikeBody(args), withGhDisclaimer(args, session) # NoArgs
  PROVE  /\ Len(GhBody(withGhDisclaimer(args, session))) = 1
         /\ HasFooter(GhBody(withGhDisclaimer(args, session))[1])
<1> DEFINE out == rewriteSingleValueFlag(args, BodyAt(args, BodyNames, FALSE))
           from == GhFrom(args)
           flags == GhFlags(args)
           scan == scanPolicyArgs(args, from, flags)
<1>1. /\ Len(args) >= 2 /\ args[1] = Word(<<"pr">>)
      /\ args[2] \in {Word(<<"create">>), Word(<<"comment">>), Word(<<"review">>)}
  BY DEF WritesPr
<1>2. args[1].flag = "" /\ args[2].flag = "" /\ args[1] # Word(<<"api">>)
  BY <1>1, WordsDiffer, Zenon
<1>3. withGhDisclaimer(args, session) = out
  <2>1. Writes(args)
    BY DEF Writes
  <2> QED BY <1>2, <2>1, Disclaimed, Zenon
<1>4. from \in Nat \ {0}
  BY GhFromIs
<1>5. /\ Table(flags) /\ Spellings(flags, "body") = BodyNames
      /\ "body" \in Range1(flags.valued) /\ "field" \notin Range1(flags.valued)
      /\ scan.ok /\ Given(scan, "body") = 1
      /\ \A i \in 1..Len(args) : AwaitsOther(Scans(args, from, flags)[i-1], "body")
                                    => args[i].flag \notin BodyNames
  <2>1. CASE args[2] = Word(<<"create">>) /\ validateGhPrCreateArgs(args, cwd)
    <3>1. flags = CreateFlags
      BY <1>2, <2>1, Zenon DEF GhFlags
    <3>2. Only(scanPolicyArgs(args, 3, CreateFlags)) /\ Given(scanPolicyArgs(args, 3, CreateFlags), "body") = 1
      BY <2>1, Zenon DEF validateGhPrCreateArgs
    <3>3. from = 3
      BY <3>2, CreateFrom
    <3> HIDE DEF from, flags
    <3>4. Only(scan) /\ Given(scan, "body") = 1
      BY <3>1, <3>2, <3>3, Zenon
    <3>5. scan.ok
      BY <3>4 DEF Only
    <3>7. \A i \in 1..Len(args) : AwaitsOther(Scans(args, from, flags)[i-1], "body")
                                    => args[i].flag \notin BodyNames
      BY OtherValue DEF from, flags
    <3> HIDE DEF scan
    <3> QED BY <3>1, <3>3, <3>4, <3>5, <3>7, CreateTable, Zenon
  <2>2. CASE args[2] = Word(<<"comment">>) /\ validateGhPrCommentArgs(args)
    <3>1. flags = BodyFlag
      BY <1>2, <2>2, WordsDiffer, Zenon DEF GhFlags
    <3>2. /\ WithNumber(args) /\ Only(scanPolicyArgs(args, 4, BodyFlag))
          /\ Given(scanPolicyArgs(args, 4, BodyFlag), "body") = 1
      BY <2>2, Zenon DEF validateGhPrCommentArgs
    <3>3. from = 4
      <4>1. Len(args) >= 3 /\ args[3].flag = "" /\ args[3].word \in Numbers
        BY <3>2, Zenon DEF WithNumber, IsNumber
      <4>2. Dash \notin Numbers
        BY DEF Dash, Numbers
      <4>3. ~Dashed(args[3])
        BY <4>1, <4>2, Zenon DEF Dashed
      <4> QED BY <1>1, <4>1, <4>3, Zenon DEF GhFrom
    <3> HIDE DEF from, flags
    <3>4. Only(scan) /\ Given(scan, "body") = 1
      BY <3>1, <3>2, <3>3, Zenon
    <3>5. scan.ok
      BY <3>4 DEF Only
    <3>6. Range1(flags.valued) = {"body"}
      BY <3>1, BodyTable, Zenon
    <3>7. \A i \in 1..Len(args) : ~AwaitsOther(Scans(args, from, flags)[i-1], "body")
      BY <1>4, <3>6, BodyOnly
    <3>8. "body" \in {"body"} /\ "field" \notin {"body"}
      OBVIOUS
    <3> HIDE DEF scan
    <3> QED BY <3>1, <3>4, <3>5, <3>6, <3>7, <3>8, BodyTable, Zenon
  <2>3. CASE args[2] = Word(<<"review">>) /\ validateGhPrReviewArgs(args)
    <3>1. flags = ReviewFlags
      BY <1>2, <2>3, WordsDiffer, Zenon DEF GhFlags
    <3>2. Only(scan) /\ Given(scan, "body") = 1
      <4>1. from = IF Len(args) >= 3 /\ ~Dashed(args[3]) THEN 4 ELSE 3
        BY <1>1, Zenon DEF GhFrom
      <4> HIDE DEF from, flags
      <4> QED BY <2>3, <3>1, <4>1, Zenon DEF validateGhPrReviewArgs
    <3> HIDE DEF from, flags
    <3>5. scan.ok
      BY <3>2 DEF Only
    <3>6. Range1(flags.valued) = {"body"}
      BY <3>1, ReviewTable, Zenon
    <3>7. \A i \in 1..Len(args) : ~AwaitsOther(Scans(args, from, flags)[i-1], "body")
      BY <1>4, <3>6, BodyOnly
    <3>8. "body" \in {"body"} /\ "field" \notin {"body"}
      OBVIOUS
    <3> HIDE DEF scan
    <3> QED BY <3>1, <3>2, <3>5, <3>6, <3>7, <3>8, ReviewTable, Zenon
  <2> QED BY <2>1, <2>2, <2>3, PrPolicy
<1>6. OneBody(args, from, flags, BodyNames, "body", FALSE)
  BY <1>1, <1>2, <1>5, PrOneBody
<1>7. OneBody(args, from, flags, Spellings(flags, "body"), "body", FALSE)
  BY <1>5, <1>6, Zenon
<1>8. ({"body", "field"} \ {"body"}) \cap Range1(flags.valued) = {}
  BY <1>5
<1> DEFINE signed == rewriteSingleValueFlag(args, BodyAt(args, Spellings(flags, "body"), FALSE))
<1>9. Len(GhBody(signed)) = 1 /\ HasFooter(GhBody(signed)[1])
  <2>1. "body" \in {"body", "field"}
    OBVIOUS
  <2> QED BY <1>1, <1>5, <1>7, <1>8, <2>1, PostSigned
<1>10. signed = out
  BY <1>5, Zenon
<1> HIDE DEF signed, out
<1> QED BY <1>3, <1>9, <1>10, Zenon

LEMMA TailOf ==
  ASSUME NEW X, NEW w \in Seq(X), w # <<>>
  PROVE  /\ Len(w) \in Nat \ {0} /\ Len(Tail(w)) = Len(w) - 1
         /\ \A k \in 1..Len(w) - 1 : Tail(w)[k] = w[k+1]
OBVIOUS

\* An endpoint of replies speaks of replies.
LEMMA ReplySpeaks ==
  ASSUME NEW w \in Seq(Name), IsReviewReply(w)
  PROVE  SpeaksOfReplies(w)
<1>1. /\ Len(Endpoint(w)) = 8 /\ Endpoint(w)[4] = "pulls" /\ Endpoint(w)[6] = "comments"
      /\ Endpoint(w)[8] = "replies"
      /\ <<Endpoint(w)[5]>> \in Numbers /\ <<Endpoint(w)[7]>> \in Numbers
  BY DEF IsReviewReply
<1>2. Endpoint(w) = w \/ (w # <<>> /\ Endpoint(w) = Tail(w))
  BY Zenon DEF Endpoint
<1>3. CASE Endpoint(w) = w
  <2>1. 4 \in 1..Len(w) - 4 /\ 4 + 1 = 5 /\ 4 + 2 = 6 /\ 4 + 3 = 7 /\ 4 + 4 = 8
    <3>1. Len(w) = 8
      BY <1>1, <1>3, Zenon
    <3> QED BY <3>1
  <2> QED BY <1>1, <1>3, <2>1, Zenon DEF SpeaksOfReplies
<1>4. CASE w # <<>> /\ Endpoint(w) = Tail(w)
  <2>1. Len(w) = 9 /\ \A k \in 1..8 : Tail(w)[k] = w[k+1]
    <3>1. Len(Tail(w)) = 8
      BY <1>1, <1>4, Zenon
    <3>2. /\ Len(w) \in Nat /\ Len(Tail(w)) = Len(w) - 1
          /\ \A k \in 1..Len(w) - 1 : Tail(w)[k] = w[k+1]
      BY <1>4, TailOf
    <3>3. Len(w) = 9 /\ 9 - 1 = 8
      BY <3>1, <3>2
    <3> QED BY <3>2, <3>3
  <2>2. 5 \in 1..Len(w) - 4 /\ 5 + 1 = 6 /\ 5 + 2 = 7 /\ 5 + 3 = 8 /\ 5 + 4 = 9
    BY <2>1
  <2>3. /\ Endpoint(w)[4] = w[5] /\ Endpoint(w)[5] = w[6] /\ Endpoint(w)[6] = w[7]
        /\ Endpoint(w)[7] = w[8] /\ Endpoint(w)[8] = w[9]
    <3>1. /\ Tail(w)[4] = w[5] /\ Tail(w)[5] = w[6] /\ Tail(w)[6] = w[7]
          /\ Tail(w)[7] = w[8] /\ Tail(w)[8] = w[9]
      <4>1. 4 \in 1..8 /\ 5 \in 1..8 /\ 6 \in 1..8 /\ 7 \in 1..8 /\ 8 \in 1..8
            /\ 4 + 1 = 5 /\ 5 + 1 = 6 /\ 6 + 1 = 7 /\ 7 + 1 = 8 /\ 8 + 1 = 9
        OBVIOUS
      <4> QED BY <2>1, <4>1, Zenon
    <3> QED BY <1>4, <3>1, Zenon
  <2> QED BY <1>1, <2>2, <2>3, Zenon DEF SpeaksOfReplies
<1> QED BY <1>2, <1>3, <1>4

LEMMA ApiDisclaimer ==
  ASSUME NEW args \in Seq(Argument), NEW cwd, NEW session, ~IsHelp(args), validateGhArgs(args, cwd),
         Len(args) >= 2, args[1] = Word(<<"api">>), IsReviewReply(args[2].word),
         withGhDisclaimer(args, session) # NoArgs
  PROVE  /\ Len(GhBody(withGhDisclaimer(args, session))) = 1
         /\ HasFooter(GhBody(withGhDisclaimer(args, session))[1])
<1> DEFINE out == rewriteSingleValueFlag(args, BodyAt(args, FieldNames, TRUE))
           from == GhFrom(args)
           flags == GhFlags(args)
<1>1. validateGhApiReviewReplyArgs(args) /\ ~Dashed(args[2])
  BY ApiPolicy
<1>2. Positional(args[1]) /\ Positional(args[2])
  <2>1. args[1].flag = "" /\ args[2].flag = ""
    BY <1>1, WordsDiffer, Zenon DEF Dashed
  <2> QED BY <2>1 DEF Positional
<1>3. withGhDisclaimer(args, session) = out
  <2>1. 2 \in DOMAIN args /\ args[2] \in Argument /\ args # <<>>
    OBVIOUS
  <2>2. SpeaksOfReplies(args[2].word)
    BY <2>1, ArgFields, ReplySpeaks
  <2>3. Writes(args)
    BY <2>1, <2>2, Zenon DEF Writes
  <2> QED BY <2>3, Disclaimed, Zenon
<1>4. flags = ReplyFlags /\ from = 3
  <2>1. args[1] # Word(<<"pr">>)
    BY WordsDiffer, Zenon
  <2> QED BY <2>1, Zenon DEF GhFlags, GhFrom
<1>5. /\ Table(flags) /\ Spellings(flags, "field") = FieldNames
      /\ Range1(flags.valued) = {"method", "field"}
  BY <1>4, ReplyTable, Zenon
<1>6. OneBody(args, 3, ReplyFlags, FieldNames, "field", TRUE)
  BY <1>1, <1>2, ReplyOneBody
<1> HIDE DEF from, flags
<1>7. OneBody(args, from, flags, Spellings(flags, "field"), "field", TRUE)
  BY <1>4, <1>5, <1>6, Zenon
<1>8. /\ "field" \in Range1(flags.valued) /\ "field" \in {"body", "field"}
      /\ ({"body", "field"} \ {"field"}) \cap Range1(flags.valued) = {}
  BY <1>5
<1> DEFINE signed == rewriteSingleValueFlag(args, BodyAt(args, Spellings(flags, "field"), TRUE))
<1>9. Len(GhBody(signed)) = 1 /\ HasFooter(GhBody(signed)[1])
  BY <1>5, <1>7, <1>8, PostSigned DEF from, flags
<1>10. signed = out
  BY <1>5, Zenon
<1> HIDE DEF signed, out
<1> QED BY <1>3, <1>9, <1>10, Zenon

-----------------------------------------------------------------------------
(***************************************************************************)
(* What is run is what was allowed                                         *)
(***************************************************************************)

\* A command that runs is one the policy lets through, and its arguments are those
\* the policy was asked about, with what the endpoint adds.
Ran == stage = "running" => Allowed(request) /\ ran = effectiveArgs(request)
ExecInv ==
  /\ request \in Requests
  /\ Ran
  /\ stage \in {"received", "running"} => bound = {}

LEMMA ExecHolds == ExecSpec => []ExecInv
<1>1. ExecInit => ExecInv
  BY DEF ExecInit, ExecInv, Ran
<1>2. ExecInv /\ [ExecNext]_execVars => ExecInv'
  <2> SUFFICES ASSUME ExecInv, [ExecNext]_execVars PROVE ExecInv'
    OBVIOUS
  <2> USE DEF ExecInv
  <2>1. CASE Receive
    <3>1. CASE Allowed(request)
      <4>1. stage' = "running" /\ ran' = effectiveArgs(request) /\ request' = request /\ bound' = bound
            /\ stage = "received"
        BY <2>1, <3>1 DEF Receive
      <4>2. Allowed(request)' /\ effectiveArgs(request)' = effectiveArgs(request)
        BY <3>1, <4>1 DEF Allowed, effectiveArgs
      <4> QED BY <4>1, <4>2 DEF Ran
    <3>2. CASE ~Allowed(request)
      BY <2>1, <3>2 DEF Receive, Ran
    <3> QED BY <3>1, <3>2
  <2>2. CASE Fail
    BY <2>2 DEF Fail, Ran
  <2>3. CASE Succeed
    BY <2>3 DEF Succeed, Ran
  <2>4. CASE UNCHANGED execVars
    <3>1. /\ request' = request /\ stage' = stage /\ ran' = ran /\ bound' = bound
      BY <2>4 DEF execVars
    <3>2. Allowed(request)' = Allowed(request) /\ effectiveArgs(request)' = effectiveArgs(request)
      BY <3>1 DEF Allowed, effectiveArgs
    <3> QED BY <3>1, <3>2 DEF Ran
  <2> QED BY <2>1, <2>2, <2>3, <2>4 DEF ExecNext
<1> QED BY <1>1, <1>2, PTL DEF ExecSpec

LEMMA RequestArguments ==
  ASSUME NEW r \in Requests
  PROVE  r.args \in Seq(Argument)
BY ExecAssumption, Arguments

LEMMA PlacedHolds ==
  ASSUME ExecInv
  PROVE  DisclaimerPlaced
<1> SUFFICES ASSUME request.tool = "gh", stage = "running", ~IsHelp(request.args), Posts(request.args),
                    ~SpeltLikeBody(request.args)
             PROVE  Len(GhBody(ran)) = 1 /\ HasFooter(GhBody(ran)[1])
  BY DEF DisclaimerPlaced
<1> DEFINE args == request.args
           out == withGhDisclaimer(args, request.session)
<1>1. Allowed(request) /\ ran = effectiveArgs(request) /\ request \in Requests
  BY DEF ExecInv, Ran
<1>2. args \in Seq(Argument)
  BY <1>1, RequestArguments
<1>3. Len(args) >= 2 /\ args # <<>>
  <2>1. Len(args) >= 2
    BY DEF Posts, WritesPr
  <2> QED BY <2>1
<1>4. validateGhArgs(args, request.cwd) /\ out # NoArgs
  BY <1>1, <1>3 DEF Allowed
<1>5. ran = out
  BY <1>1, <1>3 DEF effectiveArgs
<1> HIDE DEF out, args
<1>6. Len(GhBody(out)) = 1 /\ HasFooter(GhBody(out)[1])
  <2>1. CASE WritesPr(args)
    BY <1>2, <1>4, <2>1, PrDisclaimer DEF out, args
  <2>2. CASE args[1] = Word(<<"api">>) /\ IsReviewReply(args[2].word)
    BY <1>2, <1>3, <1>4, <2>2, ApiDisclaimer DEF out, args
  <2> QED BY <2>1, <2>2 DEF Posts, args
<1> QED BY <1>5, <1>6, Zenon

\* What gh posts for an agent on a pull request ends with the disclaimer, whatever the
\* line: the policy, which counts the bodies of a scan, and rewriteSingleValueFlag, which
\* looks for one again by its spelling, find the same argument, unless what the command
\* takes for the value of another flag is itself spelt --body or -b (index.ts:140,
\* policy-gh.ts:277).
THEOREM DisclaimersArePlaced == ExecSpec => []DisclaimerPlaced
<1>1. ExecInv => DisclaimerPlaced
  BY PlacedHolds
<1> QED BY <1>1, ExecHolds, PTL

-----------------------------------------------------------------------------
(***************************************************************************)
(* The branch of a key                                                     *)
(***************************************************************************)

\* The words a scan has found and the arguments without a dash are the same, but for a
\* dash, which is a word to the scan.
SameWords(kept, words) ==
  \/ \E k \in 1..Len(words) : words[k] = Dash
  \/ Len(kept) = Len(words) /\ \A k \in 1..Len(words) : kept[k].word = words[k]

LEMMA KeptType ==
  ASSUME NEW args \in Seq(Argument), NEW from \in Nat \ {0}
  PROVE  \A i \in 0..Len(args) : Kept(args, from)[i] \in Seq(Argument)
<1> DEFINE n == Len(args)
           S == {i \in 0..n : Kept(args, from)[i] \in Seq(Argument)}
<1>1. n \in Nat /\ <<>> \in Seq(Argument)
  OBVIOUS
<1>2. 0 \in S
  <2>1. 0 \in 0..n /\ 0 < from /\ Len(args) \in Nat
    OBVIOUS
  <2>2. Kept(args, from)[0] = <<>>
    BY <2>1, KeptSteps
  <2> QED BY <1>1, <2>1, <2>2
<1>3. ASSUME NEW i \in 1..n, i - 1 \in S PROVE i \in S
  <2>1. args[i] \in Argument /\ Kept(args, from)[i-1] \in Seq(Argument)
    BY <1>3
  <2>2. Append(Kept(args, from)[i-1], args[i]) \in Seq(Argument)
    BY <2>1
  <2>3. \/ Kept(args, from)[i] = <<>>
        \/ Kept(args, from)[i] = Kept(args, from)[i-1]
        \/ Kept(args, from)[i] = Append(Kept(args, from)[i-1], args[i])
    <3>1. i \in 0..Len(args) /\ Len(args) \in Nat
      OBVIOUS
    <3> QED BY <3>1, KeptSteps, Zenon
  <2>4. Kept(args, from)[i] \in Seq(Argument)
    <3> DEFINE kept == Kept(args, from)
    <3> HIDE DEF kept
    <3> SUFFICES kept[i] \in Seq(Argument)
      BY DEF kept
    <3> QED BY <1>1, <2>1, <2>2, <2>3, Zenon DEF kept
  <2> QED BY <2>4
<1>4. 0..n \subseteq S
  <2> HIDE DEF S, n
  <2> QED BY <1>1, <1>2, <1>3, Upwards
<1> QED BY <1>4

LEMMA SameWithWord ==
  ASSUME NEW kept \in Seq(Argument), NEW words \in Seq(Seq(Name)), SameWords(kept, words),
         NEW a \in Argument
  PROVE  /\ a.word = Dash => SameWords(kept, Append(words, a.word))
         /\ SameWords(Append(kept, a), Append(words, a.word))
<1>1. a.word \in Seq(Name)
  BY ArgFields
<1>2. /\ Len(words) \in Nat /\ Len(Append(words, a.word)) = Len(words) + 1
      /\ \A k \in 1..Len(words) : Append(words, a.word)[k] = words[k]
      /\ Append(words, a.word)[Len(words) + 1] = a.word
  BY <1>1, Appended
<1>3. /\ Len(kept) \in Nat /\ Len(Append(kept, a)) = Len(kept) + 1
      /\ \A k \in 1..Len(kept) : Append(kept, a)[k] = kept[k]
      /\ Append(kept, a)[Len(kept) + 1] = a
  BY Appended
<1> DEFINE longer == Append(words, a.word)
           more == Append(kept, a)
<1> HIDE DEF longer, more
<1>4. a.word = Dash => SameWords(kept, longer)
  BY <1>2 DEF SameWords, longer
<1>5. CASE \E k \in 1..Len(words) : words[k] = Dash
  <2> SUFFICES SameWords(more, longer)
    BY <1>4 DEF longer, more
  <2> QED BY <1>2, <1>5 DEF SameWords, longer
<1>6. CASE Len(kept) = Len(words) /\ \A k \in 1..Len(words) : kept[k].word = words[k]
  <2>1. Len(more) = Len(longer)
    BY <1>2, <1>3, <1>6 DEF longer, more
  <2>2. ASSUME NEW k \in 1..Len(longer) PROVE more[k].word = longer[k]
    <3>1. k = Len(words) + 1 \/ k \in 1..Len(words)
      BY <1>2 DEF longer
    <3> QED BY <1>2, <1>3, <1>6, <3>1 DEF longer, more
  <2>3. SameWords(more, longer)
    BY <2>1, <2>2 DEF SameWords
  <2> QED BY <1>4, <2>3 DEF longer, more
<1> QED BY <1>5, <1>6 DEF SameWords

NeverAwaits(args, from, flags) ==
  \A i \in 0..Len(args) : Scans(args, from, flags)[i].open = ""

\* A scan in which no flag awaits a value finds the words that have no dash.
LEMMA WordsKept ==
  ASSUME NEW args \in Seq(Argument), NEW from \in Nat \ {0}, NEW flags, Table(flags),
         Scans(args, from, flags)[Len(args)].ok,
         NeverAwaits(args, from, flags)
  PROVE  SameWords(Undashed(args, from), Scans(args, from, flags)[Len(args)].words)
<1> DEFINE n == Len(args)
           line == Scans(args, from, flags)
           kept == Kept(args, from)
           S == {i \in 0..n : SameWords(kept[i], line[i].words)}
<1>1. n \in Nat /\ 0 \in 0..n /\ 0 < from
  OBVIOUS
<1>2. /\ \A i \in 0..n : i < from => line[i] = Scanned(flags) /\ line[i].open = ""
      /\ \A i \in 1..n : ~(i < from) => TakenAs(flags, line[i-1], args[i], line[i])
  <2>1. /\ \A i \in 0..n : line[i].ok
        /\ \A i \in 0..n : i < from => line[i] = Scanned(flags) /\ line[i].open = ""
        /\ \A i \in 1..n : ~(i < from) => TakenAs(flags, line[i-1], args[i], line[i])
        /\ \A i \in 0..n : Keeps(flags, line[i], line[n])
    BY LineSteps
  <2> QED BY <2>1, Zenon
<1>3. \A i \in 0..n : i < from => kept[i] = <<>>
  BY <1>1, KeptSteps
<1>4. \A i \in 1..n : ~(i < from) => kept[i] = IF Dashed(args[i]) THEN kept[i-1] ELSE Append(kept[i-1], args[i])
  <2> TAKE i \in 1..n
  <2>1. i \in 0..Len(args) /\ Len(args) \in Nat
    OBVIOUS
  <2> QED BY <2>1, KeptSteps, Zenon
<1>5. \A i \in 0..n : kept[i] \in Seq(Argument)
  BY KeptType
<1>6. \A i \in 0..n : line[i].words \in Seq(Seq(Name))
  BY ScansType, FoundFields
<1>7. \A i \in 0..n : line[i].open = ""
  BY Zenon DEF NeverAwaits
<1>8. SameWords(<<>>, Scanned(flags).words)
  BY DEF SameWords, Scanned
<1> HIDE DEF line, kept
<1>9. 0 \in S
  BY <1>1, <1>2, <1>3, <1>8, Zenon
<1>10. ASSUME NEW i \in 1..n, i - 1 \in S PROVE i \in S
  <2>1. i \in 0..n /\ i - 1 \in 0..n /\ args[i] \in Argument
    OBVIOUS
  <2>2. CASE i < from
    BY <1>2, <1>3, <1>8, <2>1, <2>2, Zenon
  <2>3. CASE ~(i < from)
    <3> DEFINE a == args[i]
               s == kept[i-1]
               w == line[i-1].words
    <3>1. TakenAs(flags, line[i-1], a, line[i]) /\ line[i-1].open = ""
      BY <1>2, <1>7, <2>1, <2>3, Zenon
    <3>2. \/ a.flag = "" /\ line[i].words = Append(w, a.word)
          \/ a.flag # "" /\ line[i].words = w
      BY <3>1, Zenon DEF TakenAs
    <3>3. kept[i] = IF Dashed(a) THEN s ELSE Append(s, a)
      BY <1>4, <2>3
    <3>4. a \in Argument /\ s \in Seq(Argument) /\ w \in Seq(Seq(Name)) /\ SameWords(s, w)
      BY <1>5, <1>6, <1>10, <2>1
    <3> HIDE DEF a, s, w
    <3>5. /\ a.word = Dash => SameWords(s, Append(w, a.word))
          /\ SameWords(Append(s, a), Append(w, a.word))
      BY <3>4, SameWithWord
    <3>6. CASE a.flag = "" /\ line[i].words = Append(w, a.word)
      <4>1. Dashed(a) <=> a.word = Dash
        BY <3>6, Zenon DEF Dashed
      <4> QED BY <2>1, <3>3, <3>5, <3>6, <4>1, Zenon
    <3>7. CASE a.flag # "" /\ line[i].words = w
      <4>1. Dashed(a)
        BY <3>7, Zenon DEF Dashed
      <4> QED BY <2>1, <3>3, <3>4, <3>7, <4>1, Zenon
    <3> QED BY <3>2, <3>6, <3>7, Zenon
  <2> QED BY <2>2, <2>3
<1>11. 0..n \subseteq S
  <2> HIDE DEF S, n
  <2> QED BY <1>1, <1>9, <1>10, Upwards
<1>12. n \in 0..n
  BY <1>1
<1>13. SameWords(kept[n], line[n].words)
  <2> HIDE DEF n
  <2> QED BY <1>11, <1>12
<1> QED BY <1>13 DEF kept, line, Undashed

\* Of the words of a scan none of which is a dash, as many and the same are kept.
LEMMA KeptAre ==
  ASSUME NEW kept, NEW words, SameWords(kept, words), \A k \in 1..Len(words) : words[k] # Dash
  PROVE  Len(kept) = Len(words) /\ \A k \in 1..Len(words) : kept[k].word = words[k]
BY DEF SameWords

LEMMA PairWhole ==
  ASSUME NEW X, NEW s \in Seq(X), Len(s) = 2
  PROVE  s[1] \in X /\ s[2] \in X /\ SubSeq(s, 1, 2) = s
<1>1. s[1] \in X /\ s[2] \in X
  OBVIOUS
<1>2. /\ SubSeq(s, 1, 2) \in Seq(X) /\ Len(SubSeq(s, 1, 2)) = 2
      /\ SubSeq(s, 1, 2)[1] = s[1] /\ SubSeq(s, 1, 2)[2] = s[2]
  OBVIOUS
<1>3. SubSeq(s, 1, 2) = <<SubSeq(s, 1, 2)[1], SubSeq(s, 1, 2)[2]>> /\ s = <<s[1], s[2]>>
  BY <1>2, Pair
<1> QED BY <1>1, <1>2, <1>3, Zenon

LEMMA PushTable ==
  Table(PushFlags) /\ Range1(PushFlags.valued) = {}
<1>1. PushFlags.valued = Aliases(NoFlags)
  BY DEF PushFlags, Flags
<1>2. DOMAIN PushFlags.valued = {}
  BY <1>1, NoFlagsTable
<1>3. Range1(PushFlags.valued) = {}
  BY <1>2 DEF Range1
<1> QED BY <1>2, <1>3, Zenon DEF Table

\* Of a push that is let through, the arguments without a dash are the remote and the
\* refspec.
LEMMA PushKept ==
  ASSUME NEW args \in Seq(Argument), validatePush(args)
  PROVE  LET kept == Undashed(args, 2)
             words == scanPolicyArgs(args, 2, PushFlags).words
         IN  /\ Len(kept) = 2 /\ kept[2].word = words[2] /\ words[2] \in Seq(Name)
             /\ IsPrefix(RefspecPrefix, words[2])
<1> DEFINE line == Scans(args, 2, PushFlags)
           n == Len(args)
           scan == scanPolicyArgs(args, 2, PushFlags)
           words == scan.words
           kept == Undashed(args, 2)
<1>0. 2 \in Nat \ {0} /\ n \in Nat /\ n \in 0..n
  OBVIOUS
<1>1. /\ scan.ok /\ Len(words) = 2 /\ words[1] = <<"origin">>
      /\ IsPrefix(RefspecPrefix, words[2])
  BY DEF validatePush, validatePushRefspec
<1>2. words = line[n].words /\ scan.ok = (line[n].ok /\ line[n].open = "")
  BY <1>0, WholeScan
<1>3. \A i \in 0..n : line[i] \in Found(PushFlags)
  BY <1>0, ScansType
<1>4. words \in Seq(Seq(Name))
  <2>1. line[n].words \in Seq(Seq(Name))
    BY <1>0, <1>3, FoundFields
  <2> HIDE DEF line, scan
  <2> QED BY <1>2, <2>1
<1>5. NeverAwaits(args, 2, PushFlags)
  <2>1. \A i \in 0..n : line[i].open \in Range1(PushFlags.valued) \cup {""}
    BY <1>3, FoundFields
  <2>2. Range1(PushFlags.valued) = {}
    BY PushTable
  <2> HIDE DEF line
  <2>3. \A i \in 0..n : line[i].open = ""
    BY <2>1, <2>2, Zenon
  <2> QED BY <2>3, Zenon DEF NeverAwaits, line
<1>6. line[n].ok
  <2> HIDE DEF line, scan
  <2> QED BY <1>1, <1>2, Zenon
<1>7. SameWords(kept, line[n].words)
  BY <1>0, <1>5, <1>6, PushTable, WordsKept
<1>8. SameWords(kept, words)
  <2> HIDE DEF line, words, kept
  <2> QED BY <1>2, <1>7, Zenon
<1> HIDE DEF line, scan, kept, words
<1>9. words[1] # Dash
  <2>1. <<"origin">> # <<"-">>
    OBVIOUS
  <2> QED BY <1>1, <2>1, Zenon DEF Dash
<1>10. words[2] # Dash /\ words[2] \in Seq(Name)
  <2>1. Len(words[2]) >= 2
    <3>1. Len(RefspecPrefix) = 2
      BY DEF RefspecPrefix
    <3> QED BY <1>1, <3>1 DEF IsPrefix
  <2>2. Len(Dash) = 1
    BY DEF Dash
  <2>3. words[2] \in Seq(Name)
    BY <1>1, <1>4, PairWhole, Zenon
  <2>4. ~(1 >= 2)
    OBVIOUS
  <2> QED BY <2>1, <2>2, <2>3, <2>4, Zenon
<1>11. \A k \in 1..Len(words) : words[k] # Dash
  <2>1. \A k \in 1..2 : k = 1 \/ k = 2
    OBVIOUS
  <2> QED BY <1>1, <1>9, <1>10, <2>1, Zenon
<1>12. Len(kept) = Len(words) /\ \A k \in 1..Len(words) : kept[k].word = words[k]
  BY <1>8, <1>11, KeptAre
<1>13. Len(kept) = 2 /\ kept[2].word = words[2]
  BY <1>1, <1>12
<1> QED BY <1>1, <1>10, <1>13 DEF words, scan, kept

\* A branch is pushed under its own name.
LEMMA PushedName ==
  ASSUME NEW w \in Seq(Name), IsPrefix(RefspecPrefix, w)
  PROVE  StripPrefix(<<"refs", "heads">>, AfterColon(w)) = Rest(w, 3)
<1> DEFINE v == <<"refs">> \o Tail(w)
<1>1. Len(w) >= 2 /\ Len(w) \in Nat /\ w[1] = "HEAD:refs" /\ w[2] = "heads"
  <2>1. /\ Len(RefspecPrefix) = 2 /\ RefspecPrefix[1] = "HEAD:refs" /\ RefspecPrefix[2] = "heads"
    BY DEF RefspecPrefix
  <2>2. Len(w) >= 2 /\ RefspecPrefix = SubSeq(w, 1, 2)
    <3>1. Len(w) >= 2 /\ SubSeq(RefspecPrefix, 1, Len(RefspecPrefix)) = SubSeq(w, 1, Len(RefspecPrefix))
      BY <2>1 DEF IsPrefix
    <3>2. SubSeq(RefspecPrefix, 1, 2) = RefspecPrefix
      <4>1. RefspecPrefix \in Seq({"HEAD:refs", "heads"})
        BY DEF RefspecPrefix
      <4> QED BY <2>1, <4>1, PairWhole
    <3> QED BY <2>1, <3>1, <3>2, Zenon
  <2>3. SubSeq(w, 1, 2)[1] = w[1] /\ SubSeq(w, 1, 2)[2] = w[2]
    BY <2>2
  <2>4. Len(w) \in Nat
    OBVIOUS
  <2> QED BY <2>1, <2>2, <2>3, <2>4, Zenon
<1>2. AfterColon(w) = v
  <2>1. w # <<>>
    BY <1>1
  <2> HIDE DEF v
  <2> QED BY <1>1, <2>1 DEF AfterColon, v
<1>3. /\ v \in Seq(Name \cup {"refs"}) /\ Len(v) = Len(w) /\ v[1] = "refs"
      /\ \A k \in 2..Len(w) : v[k] = w[k]
  <2>1. /\ Tail(w) \in Seq(Name) /\ Len(Tail(w)) = Len(w) - 1
        /\ \A k \in 1..Len(w)-1 : Tail(w)[k] = w[k+1]
    BY <1>1
  <2>2. <<"refs">> \in Seq(Name \cup {"refs"}) /\ Tail(w) \in Seq(Name \cup {"refs"}) /\ Len(<<"refs">>) = 1
    BY <2>1
  <2> QED BY <1>1, <2>1, <2>2
<1>4. Rest(v, 3) = Rest(w, 3)
  <2>1. SubSeq(v, 3, Len(v)) = [k \in 1..Len(w)-2 |-> v[k + 2]]
    BY <1>1, <1>3
  <2>2. SubSeq(w, 3, Len(w)) = [k \in 1..Len(w)-2 |-> w[k + 2]]
    BY <1>1
  <2>3. \A k \in 1..Len(w)-2 : v[k + 2] = w[k + 2]
    BY <1>1, <1>3
  <2> HIDE DEF v
  <2> QED BY <2>1, <2>2, <2>3 DEF Rest
<1>5. IsPrefix(<<"refs", "heads">>, v)
  <2>1. v[1] = "refs" /\ v[2] = "heads" /\ Len(v) >= 2
    BY <1>1, <1>3
  <2>2. SubSeq(v, 1, 2) = <<v[1], v[2]>>
    <3>1. SubSeq(v, 1, 2) \in Seq(Name \cup {"refs"}) /\ Len(SubSeq(v, 1, 2)) = 2
          /\ SubSeq(v, 1, 2)[1] = v[1] /\ SubSeq(v, 1, 2)[2] = v[2]
      BY <1>3, <2>1
    <3> HIDE DEF v
    <3>2. SubSeq(v, 1, 2) = <<SubSeq(v, 1, 2)[1], SubSeq(v, 1, 2)[2]>>
      BY <3>1, Pair
    <3> QED BY <3>1, <3>2, Zenon
  <2>3. SubSeq(<<"refs", "heads">>, 1, 2) = <<"refs", "heads">> /\ Len(<<"refs", "heads">>) = 2
    <3>1. <<"refs", "heads">> \in Seq({"refs", "heads"}) /\ Len(<<"refs", "heads">>) = 2
      OBVIOUS
    <3> QED BY <3>1, PairWhole, Zenon
  <2> HIDE DEF v
  <2>4. SubSeq(v, 1, 2) = <<"refs", "heads">>
    BY <2>1, <2>2, Zenon
  <2> QED BY <2>1, <2>3, <2>4 DEF IsPrefix
<1>6. Len(<<"refs", "heads">>) + 1 = 3
  OBVIOUS
<1> HIDE DEF v
<1>7. StripPrefix(<<"refs", "heads">>, v) = Rest(v, 3)
  BY <1>5, <1>6, Zenon DEF StripPrefix
<1> QED BY <1>2, <1>4, <1>7, Zenon

LEMMA AddTable ==
  /\ Table(WorktreeAddFlags) /\ Range1(WorktreeAddFlags.valued) = {"branch"}
  /\ DOMAIN WorktreeAddFlags.switches = {} /\ DOMAIN WorktreeAddFlags.valued = {"-b"}
  /\ WorktreeAddFlags.valued["-b"] = "branch"
<1>1. /\ WorktreeAddFlags.switches = Aliases(NoFlags)
      /\ WorktreeAddFlags.valued = Aliases([branch |-> {"-b"}])
  BY DEF WorktreeAddFlags, Flags
<1>2. [branch |-> {"-b"}] = [n \in {"branch"} |-> {"-b"}]
  OBVIOUS
<1>3. {"-b"} # {} /\ "" \notin {"-b"} /\ "branch" # ""
  OBVIOUS
<1>4. WorktreeAddFlags.valued = Aliases([n \in {"branch"} |-> {"-b"}])
  BY <1>1, <1>2, Zenon
<1>5. DOMAIN Aliases(NoFlags) = {}
  BY NoFlagsTable
<1>6. /\ Table(WorktreeAddFlags) /\ Range1(WorktreeAddFlags.valued) = {"branch"}
      /\ Spellings(WorktreeAddFlags, "branch") = {"-b"}
  <2> DEFINE spelt == {"-b"}
             name == "branch"
  <2>1. DOMAIN Aliases(NoFlags) \cap spelt = {}
    BY <1>5
  <2>2. /\ name # "" /\ spelt # {} /\ "" \notin spelt
        /\ WorktreeAddFlags.valued = Aliases([n \in {name} |-> spelt])
    BY <1>3, <1>4, Zenon
  <2>3. /\ Table(WorktreeAddFlags) /\ Range1(WorktreeAddFlags.valued) = {name}
        /\ Spellings(WorktreeAddFlags, name) = spelt
    <3> HIDE DEF spelt, name
    <3> QED BY <1>1, <2>1, <2>2, OneFlagTable
  <2> QED BY <2>3
<1>7. \A a \in DOMAIN WorktreeAddFlags.valued : WorktreeAddFlags.valued[a] = "branch"
  BY <1>6 DEF Range1
<1>8. DOMAIN WorktreeAddFlags.valued = {"-b"} /\ WorktreeAddFlags.valued["-b"] = "branch"
  BY <1>6, <1>7, Zenon DEF Spellings
<1> QED BY <1>1, <1>5, <1>6, <1>8, Zenon

\* An argument of git worktree add is the name of the new branch, the flag before it, or
\* a word.
Awaits(scan) == scan.open = "branch"
NamesNew(a) == a.flag = "-b" /\ ~a.inline
AddTaken(old, a, new) ==
  \/ Awaits(old) /\ ~Awaits(new) /\ new.values["branch"] = Append(old.values["branch"], a)
  \/ ~Awaits(old) /\ NamesNew(a) /\ Awaits(new) /\ new.values["branch"] = old.values["branch"]
  \/ ~Awaits(old) /\ Positional(a) /\ ~Awaits(new) /\ new.values["branch"] = old.values["branch"]

LEMMA AddTakes ==
  ASSUME NEW old \in Found(WorktreeAddFlags), NEW new, NEW a, TakenAs(WorktreeAddFlags, old, a, new)
  PROVE  AddTaken(old, a, new)
<1>1. /\ Range1(WorktreeAddFlags.valued) = {"branch"}
      /\ DOMAIN WorktreeAddFlags.switches = {} /\ DOMAIN WorktreeAddFlags.valued = {"-b"}
      /\ WorktreeAddFlags.valued["-b"] = "branch"
  BY AddTable
<1>2. old.values \in [{"branch"} -> Seq(Argument)] /\ (old.open = "branch" \/ old.open = "")
  <2>1. /\ old.values \in [Range1(WorktreeAddFlags.valued) -> Seq(Argument)]
        /\ old.open \in Range1(WorktreeAddFlags.valued) \cup {""}
    BY FoundFields
  <2> QED BY <1>1, <2>1
<1>3. "branch" # "" /\ "-b" \in ShortAliases
  BY DEF ShortAliases
<1>4. CASE old.open = "branch"
  <2>1. new.open = "" /\ new.values = [old.values EXCEPT ![old.open] = Append(@, a)]
    BY <1>3, <1>4, Zenon DEF TakenAs
  <2>2. [old.values EXCEPT !["branch"] = Append(@, a)]["branch"] = Append(old.values["branch"], a)
    BY <1>2
  <2>3. new.values["branch"] = Append(old.values["branch"], a)
    BY <1>4, <2>1, <2>2, Zenon
  <2> QED BY <1>3, <1>4, <2>1, <2>3, Zenon DEF AddTaken, Awaits
<1>5. CASE old.open = "" /\ a.flag = ""
  BY <1>3, <1>5, Zenon DEF TakenAs, AddTaken, Awaits, Positional
<1>6. CASE old.open = "" /\ a.flag # ""
  <2>1. /\ ~a.inline /\ a.flag \in DOMAIN WorktreeAddFlags.valued
        /\ new.open = WorktreeAddFlags.valued[a.flag] /\ new.values = old.values
    <3>1. a.flag \notin DOMAIN WorktreeAddFlags.switches
      BY <1>1
    <3>2. a.flag \notin DOMAIN WorktreeAddFlags.valued \ ShortAliases
      BY <1>1, <1>3
    <3> QED BY <1>6, <3>1, <3>2, Zenon DEF TakenAs
  <2>2. a.flag = "-b"
    BY <1>1, <2>1
  <2>3. new.open = "branch"
    BY <1>1, <2>1, <2>2, Zenon
  <2> QED BY <1>3, <1>6, <2>1, <2>2, <2>3, Zenon DEF AddTaken, Awaits, NamesNew
<1> QED BY <1>2, <1>4, <1>5, <1>6, Zenon

NewAt(args) == {i \in 3..Len(args) : args[i] \in {Flag("-b"), Flag("-B")}}

LEMMA NewFlags ==
  ASSUME NEW a \in Arg
  PROVE  /\ NamesNew(a) <=> a = Flag("-b")
         /\ a \in {Flag("-b"), Flag("-B")} => ~Positional(a)
<1>1. NamesNew(a) => a = Flag("-b")
  <2> SUFFICES ASSUME NamesNew(a) PROVE a = Flag("-b")
    OBVIOUS
  <2>1. a \in [flag : STRING, inline : BOOLEAN, word : Seq(STRING)]
    BY DEF Arg
  <2>2. a.flag = "-b" /\ a.inline = FALSE
    BY <2>1 DEF NamesNew
  <2>3. a.word = <<>>
    <3>1. a.flag # ""
      BY <2>2
    <3> QED BY <2>2, <3>1, Zenon DEF Arg
  <2>4. a = [flag |-> a.flag, inline |-> a.inline, word |-> a.word]
    BY <2>1
  <2> QED BY <2>2, <2>3, <2>4, Zenon DEF Flag
<1>2. a = Flag("-b") => NamesNew(a)
  BY DEF Flag, NamesNew
<1>3. a \in {Flag("-b"), Flag("-B")} => ~Positional(a)
  <2>1. Flag("-b").flag = "-b" /\ Flag("-B").flag = "-B"
    BY DEF Flag
  <2>2. "-b" # "" /\ "-B" # ""
    OBVIOUS
  <2> QED BY <2>1, <2>2, Zenon DEF Positional
<1> QED BY <1>1, <1>2, <1>3

LEMMA AddLine ==
  ASSUME NEW args \in Seq(Argument), Scans(args, 3, WorktreeAddFlags)[Len(args)].ok
  PROVE  LET line == Scans(args, 3, WorktreeAddFlags)
             New(i) == line[i].values["branch"]
         IN  /\ \A i \in 0..Len(args) : i < 3 => ~Awaits(line[i]) /\ New(i) = <<>>
             /\ \A i \in 1..Len(args) : ~(i < 3) => AddTaken(line[i-1], args[i], line[i])
             /\ \A i \in 0..Len(args) : New(i) \in Seq(Argument) /\ Grown(New(i), New(Len(args)))
<1> DEFINE line == Scans(args, 3, WorktreeAddFlags)
           n == Len(args)
           New(i) == line[i].values["branch"]
<1>0. 3 \in Nat \ {0} /\ n \in Nat /\ line[n].ok
  OBVIOUS
<1>1. Table(WorktreeAddFlags) /\ Range1(WorktreeAddFlags.valued) = {"branch"}
  BY AddTable
<1>2. \A i \in 0..n : line[i] \in Found(WorktreeAddFlags)
  BY <1>0, ScansType
<1>3. /\ \A i \in 0..n : line[i].ok
      /\ \A i \in 0..n : i < 3 => line[i] = Scanned(WorktreeAddFlags) /\ line[i].open = ""
      /\ \A i \in 1..n : ~(i < 3) => TakenAs(WorktreeAddFlags, line[i-1], args[i], line[i])
      /\ \A i \in 0..n : Keeps(WorktreeAddFlags, line[i], line[n])
  BY <1>0, <1>1, LineSteps, Zenon
<1> HIDE DEF line
<1>4. \A i \in 0..n : i < 3 => ~Awaits(line[i]) /\ New(i) = <<>>
  <2>1. Scanned(WorktreeAddFlags).values["branch"] = <<>>
    BY <1>1 DEF Scanned
  <2>2. "branch" # ""
    OBVIOUS
  <2> QED BY <1>3, <2>1, <2>2, Zenon DEF Awaits
<1>5. ASSUME NEW i \in 1..n, ~(i < 3) PROVE AddTaken(line[i-1], args[i], line[i])
  <2>1. line[i-1] \in Found(WorktreeAddFlags)
    <3>1. i - 1 \in 0..n
      OBVIOUS
    <3> QED BY <1>2, <3>1
  <2> QED BY <1>3, <1>5, <2>1, AddTakes
<1>6. ASSUME NEW i \in 0..n PROVE New(i) \in Seq(Argument) /\ Grown(New(i), New(n))
  <2>1. line[i].values \in [Range1(WorktreeAddFlags.valued) -> Seq(Argument)]
    BY <1>2, FoundFields
  <2>2. "branch" \in Range1(WorktreeAddFlags.valued)
    BY <1>1
  <2>3. Grown(New(i), New(n))
    BY <1>0, <1>3, <2>2 DEF Keeps, line
  <2> QED BY <2>1, <2>2, <2>3
<1> QED BY <1>4, <1>5, <1>6 DEF line

\* The first flag of a new branch is one to the scan too, and what follows it is the
\* branch, when the scan finds no other.
LEMMA NewBranchFirst ==
  ASSUME NEW args \in Seq(Arg), Scans(args, 3, WorktreeAddFlags)[Len(args)].ok,
         ~Awaits(Scans(args, 3, WorktreeAddFlags)[Len(args)]),
         Len(Scans(args, 3, WorktreeAddFlags)[Len(args)].values["branch"]) <= 1,
         NEW first \in NewAt(args), \A j \in NewAt(args) : first <= j
  PROVE  /\ first < Len(args)
         /\ Len(Scans(args, 3, WorktreeAddFlags)[Len(args)].values["branch"]) = 1
         /\ Scans(args, 3, WorktreeAddFlags)[Len(args)].values["branch"][1] = args[first + 1]
<1> DEFINE line == Scans(args, 3, WorktreeAddFlags)
           n == Len(args)
           New(i) == line[i].values["branch"]
<1>0. args \in Seq(Argument)
  BY Arguments
<1>1. ~Awaits(line[n]) /\ Len(New(n)) <= 1
  OBVIOUS
<1>2. /\ \A i \in 0..n : i < 3 => ~Awaits(line[i]) /\ New(i) = <<>>
      /\ \A i \in 1..n : ~(i < 3) => AddTaken(line[i-1], args[i], line[i])
      /\ \A i \in 0..n : New(i) \in Seq(Argument) /\ Grown(New(i), New(n))
  BY <1>0, AddLine
<1> HIDE DEF line
<1>3. /\ n \in Nat /\ first \in 1..n /\ ~(first < 3) /\ first - 1 \in 0..n
      /\ args[first] \in {Flag("-b"), Flag("-B")} /\ args[first] \in Arg
  <2>1. n \in Nat /\ first \in 3..n /\ args[first] \in {Flag("-b"), Flag("-B")}
    BY DEF NewAt
  <2> QED BY <2>1
<1>4. ~Awaits(line[first-1])
  <2> SUFFICES ASSUME Awaits(line[first-1]) PROVE FALSE
    OBVIOUS
  <2>1. ~(first - 1 < 3)
    BY <1>2, <1>3
  <2>2. first - 1 \in 3..n /\ first - 1 \in 1..n /\ args[first-1] \in Arg
    BY <1>3, <2>1
  <2>3. AddTaken(line[first-1-1], args[first-1], line[first-1])
    BY <1>2, <2>1, <2>2
  <2>4. NamesNew(args[first-1])
    BY <2>3, Zenon DEF AddTaken
  <2>5. args[first-1] = Flag("-b")
    BY <2>2, <2>4, NewFlags
  <2>6. first - 1 \in NewAt(args)
    BY <2>2, <2>5, Zenon DEF NewAt
  <2>7. ~(first <= first - 1)
    BY <1>3
  <2> QED BY <2>6, <2>7
<1>5. Awaits(line[first])
  <2>1. AddTaken(line[first-1], args[first], line[first])
    BY <1>2, <1>3
  <2>2. ~Positional(args[first])
    BY <1>3, NewFlags
  <2> QED BY <1>4, <2>1, <2>2, Zenon DEF AddTaken
<1>6. first # n
  BY <1>1, <1>5
<1>7. first < n /\ first \in 0..n /\ first + 1 \in 1..n /\ first + 1 \in 0..n /\ ~(first + 1 < 3)
  BY <1>3, <1>6
<1>8. New(first + 1) = Append(New(first), args[first + 1])
  <2>1. AddTaken(line[first + 1 - 1], args[first + 1], line[first + 1])
    BY <1>2, <1>7
  <2>2. first + 1 - 1 = first
    BY <1>7
  <2>3. AddTaken(line[first], args[first + 1], line[first + 1])
    BY <2>1, <2>2, Zenon
  <2> QED BY <1>5, <2>3, Zenon DEF AddTaken
<1>9. New(first) \in Seq(Argument) /\ args[first + 1] \in Argument
  BY <1>0, <1>2, <1>7
<1>10. Grown(Append(New(first), args[first + 1]), New(n)) /\ New(n) \in Seq(Argument)
  <2>1. Grown(New(first + 1), New(n))
    BY <1>2, <1>7
  <2>2. n \in 0..n
    BY <1>3
  <2>3. New(n) \in Seq(Argument)
    BY <1>2, <2>2
  <2> QED BY <1>8, <2>1, <2>3, Zenon
<1>11. Len(New(n)) = 1
  <2>1. Len(Append(New(first), args[first + 1])) = Len(New(first)) + 1 /\ Len(New(first)) \in Nat
    BY <1>9, Appended
  <2>2. Len(New(first)) + 1 <= Len(New(n))
    BY <1>10, <2>1, Zenon DEF Grown
  <2>3. Len(New(n)) \in Nat
    BY <1>10
  <2>4. \A a, b \in Nat : a + 1 <= b /\ b <= 1 => b = 1
    OBVIOUS
  <2> QED BY <1>1, <2>1, <2>2, <2>3, <2>4, Zenon
<1>12. New(n)[1] = args[first + 1]
  BY <1>9, <1>10, <1>11, OnlyAdded
<1> QED BY <1>7, <1>11, <1>12 DEF line

\* Without such a flag, none awaits a value and no branch is found.
LEMMA NoNewBranch ==
  ASSUME NEW args \in Seq(Arg), Scans(args, 3, WorktreeAddFlags)[Len(args)].ok, NewAt(args) = {}
  PROVE  /\ NeverAwaits(args, 3, WorktreeAddFlags)
         /\ Scans(args, 3, WorktreeAddFlags)[Len(args)].values["branch"] = <<>>
<1> DEFINE line == Scans(args, 3, WorktreeAddFlags)
           n == Len(args)
           New(i) == line[i].values["branch"]
           S == {i \in 0..n : ~Awaits(line[i]) /\ New(i) = <<>>}
<1>0. args \in Seq(Argument)
  BY Arguments
<1>1. n \in Nat /\ 0 \in 0..n /\ n \in 0..n /\ 0 < 3
  OBVIOUS
<1>2. /\ \A i \in 0..n : i < 3 => ~Awaits(line[i]) /\ New(i) = <<>>
      /\ \A i \in 1..n : ~(i < 3) => AddTaken(line[i-1], args[i], line[i])
      /\ \A i \in 0..n : New(i) \in Seq(Argument) /\ Grown(New(i), New(n))
  BY <1>0, AddLine
<1>3. \A i \in 0..n : line[i].open \in Range1(WorktreeAddFlags.valued) \cup {""}
  <2>1. 3 \in Nat \ {0}
    OBVIOUS
  <2>2. \A i \in 0..n : line[i] \in Found(WorktreeAddFlags)
    BY <1>0, <2>1, ScansType
  <2> QED BY <2>2, FoundFields
<1> HIDE DEF line
<1>4. 0 \in S
  BY <1>1, <1>2
<1>5. ASSUME NEW i \in 1..n, i - 1 \in S PROVE i \in S
  <2>1. i \in 0..n /\ i - 1 \in 0..n /\ ~Awaits(line[i-1]) /\ New(i-1) = <<>>
    BY <1>5
  <2>2. CASE i < 3
    BY <1>2, <2>1, <2>2
  <2>3. CASE ~(i < 3)
    <3>1. AddTaken(line[i-1], args[i], line[i])
      BY <1>2, <2>3
    <3>2. i \in 3..n /\ args[i] \in Arg
      BY <2>3
    <3>3. ~NamesNew(args[i])
      <4>1. args[i] # Flag("-b")
        BY <3>2, Zenon DEF NewAt
      <4> QED BY <3>2, <4>1, NewFlags
    <3> QED BY <2>1, <3>1, <3>3, Zenon DEF AddTaken
  <2> QED BY <2>2, <2>3
<1>6. 0..n \subseteq S
  <2> HIDE DEF S, n
  <2> QED BY <1>1, <1>4, <1>5, Upwards
<1>7. \A i \in 0..n : line[i].open = ""
  <2>1. Range1(WorktreeAddFlags.valued) = {"branch"}
    BY AddTable
  <2>2. \A i \in 0..n : ~Awaits(line[i])
    BY <1>6
  <2> QED BY <1>3, <2>1, <2>2, Zenon DEF Awaits
<1>8. NeverAwaits(args, 3, WorktreeAddFlags)
  BY <1>7, Zenon DEF NeverAwaits, line
<1>9. New(n) = <<>>
  BY <1>1, <1>6
<1> QED BY <1>8, <1>9 DEF line

\* Of a new worktree that is let through, the raw arguments and the scan agree on the
\* branch: it is named by the first flag, or it is the second word.
LEMMA AddedBranch ==
  ASSUME NEW args \in Seq(Arg), validateWorktreeAdd(args)
  PROVE  LET add   == scanPolicyArgs(args, 3, WorktreeAddFlags)
             new   == valueFlagValues(add, "branch")
             kept  == Undashed(args, 3)
             first == CHOOSE i \in NewAt(args) : \A j \in NewAt(args) : i <= j
         IN  /\ NewAt(args) # {} => first < Len(args) /\ new # <<>> /\ new[1] = args[first + 1]
             /\ NewAt(args) = {} => new = <<>> /\ Len(kept) = 2 /\ kept[2].word = add.words[2]
<1> DEFINE add   == scanPolicyArgs(args, 3, WorktreeAddFlags)
           new   == valueFlagValues(add, "branch")
           words == add.words
           kept  == Undashed(args, 3)
           first == CHOOSE i \in NewAt(args) : \A j \in NewAt(args) : i <= j
           n     == Len(args)
           all   == Scans(args, 3, WorktreeAddFlags)[n]
<1>0. args \in Seq(Argument) /\ 3 \in Nat \ {0} /\ n \in Nat
  BY Arguments
<1>1. /\ add.values = all.values /\ words = all.words /\ add.ok = (all.ok /\ all.open = "")
      /\ all \in Found(WorktreeAddFlags) /\ DOMAIN all.values = Range1(WorktreeAddFlags.valued)
  BY <1>0, WholeScan
<1>2. Table(WorktreeAddFlags) /\ Range1(WorktreeAddFlags.valued) = {"branch"}
  BY AddTable
<1> DEFINE Names(branch, path) ==
             /\ isValidWorktreeBranchPathPart(branch.word) /\ ~Dashed(branch)
             /\ parseWorktreeAddBranchFromPath(path) = branch.word
<1>3. /\ add.ok
      /\ \/ Len(new) = 1
         \/ Len(new) = 0 /\ Len(words) = 2 /\ Names(Word(words[2]), words[1])
  BY DEF validateWorktreeAdd
<1>4. new = all.values["branch"] /\ new \in Seq(Argument)
  <2>1. "branch" \in DOMAIN all.values
    BY <1>1, <1>2
  <2>2. add.values = all.values
    BY <1>1
  <2>3. new = all.values["branch"]
    <3> HIDE DEF add, all
    <3> QED BY <2>1, <2>2, Zenon DEF valueFlagValues
  <2>4. all.values \in [Range1(WorktreeAddFlags.valued) -> Seq(Argument)]
    BY <1>1, FoundFields
  <2> HIDE DEF add, all, new
  <2> QED BY <1>2, <2>3, <2>4
<1>5. words \in Seq(Seq(Name))
  BY <1>1, FoundFields
<1>6. all.ok /\ all.open = ""
  <2> HIDE DEF add, all, words, new, Names
  <2> QED BY <1>1, <1>3, Zenon
<1>7. ~Awaits(all)
  <2>1. "branch" # ""
    OBVIOUS
  <2> HIDE DEF all
  <2> QED BY <1>6, <2>1, Zenon DEF Awaits
<1>8. ASSUME NewAt(args) # {}
      PROVE  first < n /\ new # <<>> /\ new[1] = args[first + 1]
  <2>1. first \in NewAt(args) /\ \A j \in NewAt(args) : first <= j
    <3>1. NewAt(args) \subseteq Nat
      BY <1>0 DEF NewAt
    <3>2. \E i \in NewAt(args) : \A j \in NewAt(args) : i <= j
      BY <1>8, <3>1, Smallest
    <3> QED BY <3>2, Zenon
  <2>2. Len(new) <= 1
    <3>1. 1 <= 1 /\ 0 <= 1
      OBVIOUS
    <3> HIDE DEF new, words, Names
    <3> QED BY <1>3, <3>1, Zenon
  <2>3. Len(all.values["branch"]) <= 1
    <3> HIDE DEF new, all
    <3> QED BY <1>4, <2>2, Zenon
  <2>4. all.ok
    BY <1>6
  <2> HIDE DEF first
  <2>5. first < n /\ Len(all.values["branch"]) = 1 /\ all.values["branch"][1] = args[first + 1]
    BY <1>7, <2>1, <2>3, <2>4, NewBranchFirst
  <2> HIDE DEF new, all
  <2>6. Len(new) = 1 /\ new[1] = args[first + 1]
    BY <1>4, <2>5, Zenon
  <2>7. new # <<>>
    <3>1. Len(<<>>) = 0 /\ 0 # 1
      OBVIOUS
    <3> QED BY <2>6, <3>1, Zenon
  <2> QED BY <2>5, <2>6, <2>7
<1>9. ASSUME NewAt(args) = {}
      PROVE  new = <<>> /\ Len(kept) = 2 /\ kept[2].word = words[2]
  <2>1. NeverAwaits(args, 3, WorktreeAddFlags) /\ all.values["branch"] = <<>>
    BY <1>6, <1>9, NoNewBranch
  <2>2. new = <<>>
    <3> HIDE DEF new, all
    <3> QED BY <1>4, <2>1, Zenon
  <2>3. SameWords(kept, all.words)
    BY <1>0, <1>2, <1>6, <2>1, WordsKept, Zenon
  <2> HIDE DEF new, all, add, kept, words
  <2>4. SameWords(kept, words)
    BY <1>1, <2>3, Zenon
  <2>5. Len(words) = 2 /\ Names(Word(words[2]), words[1])
    <3>1. Len(new) = 0
      BY <2>2
    <3>2. 0 # 1
      OBVIOUS
    <3> HIDE DEF Names
    <3> QED BY <1>3, <3>1, <3>2, Zenon
  <2>6. Word(words[2]).flag = "" /\ Word(words[2]).word = words[2]
    BY WordsDiffer
  <2>7. words[2] # Dash
    BY <2>5, <2>6, Zenon DEF Dashed
  <2>8. words[1] # Dash
    <3>1. words[2] # <<>> /\ parseWorktreeAddBranchFromPath(words[1]) = words[2]
      BY <2>5, <2>6, Zenon DEF isValidWorktreeBranchPathPart
    <3>2. Len(words[1]) >= 5
      BY <3>1, Zenon DEF parseWorktreeAddBranchFromPath
    <3>3. Len(Dash) = 1 /\ ~(1 >= 5)
      BY DEF Dash
    <3> QED BY <3>2, <3>3, Zenon
  <2>9. \A k \in 1..Len(words) : words[k] # Dash
    <3>1. \A k \in 1..2 : k = 1 \/ k = 2
      OBVIOUS
    <3> QED BY <2>5, <2>7, <2>8, <3>1, Zenon
  <2>10. Len(kept) = Len(words) /\ \A k \in 1..Len(words) : kept[k].word = words[k]
    BY <2>4, <2>9, KeptAre
  <2>11. 2 \in 1..2
    OBVIOUS
  <2>12. Len(kept) = 2 /\ kept[2].word = words[2]
    BY <2>5, <2>10, <2>11, Zenon
  <2> QED BY <2>2, <2>12
<1> QED BY <1>8, <1>9, Zenon

\* A command that is allowed and names a branch is a push or a new worktree, and it names
\* the branch that the policy accepted.
LEMMA BranchNamed ==
  ASSUME NEW args \in Seq(Arg), resolveGitArgs(args), extractBranchFromGitArgs(args) # <<>>
  PROVE  extractBranchFromGitArgs(args) = BranchMade(args)
<1> DEFINE names == Undashed(args, 2)
           words == Undashed(args, 3)
           news  == {i \in 3..Len(args) : args[i] \in {Flag("-b"), Flag("-B")}}
           first == CHOOSE i \in news : \A j \in news : i <= j
           scan == scanPolicyArgs(args, 2, PushFlags)
           add  == scanPolicyArgs(args, 3, WorktreeAddFlags)
           new  == valueFlagValues(add, "branch")
           sub  == Subcommand(args)
           branch == extractBranchFromGitArgs(args)
<1>0. args \in Seq(Argument)
  BY Arguments
<1>1. branch = IF sub = "push" /\ Len(names) >= 2
               THEN StripPrefix(<<"refs", "heads">>, AfterColon(Last(names).word))
               ELSE IF sub = "worktree" /\ Len(args) >= 2 /\ IsWord(args[2], <<"add">>)
               THEN IF news # {} THEN (IF first < Len(args) THEN args[first + 1].word ELSE <<>>)
                    ELSE IF Len(words) > 1 THEN StripPrefix(<<"origin">>, words[2].word)
                    ELSE IF Len(words) = 1 THEN <<Last(words[1].word)>> ELSE <<>>
               ELSE <<>>
  BY DEF extractBranchFromGitArgs
<1>2. BranchMade(args) = IF sub = "push" THEN Rest(scan.words[2], 3)
                         ELSE IF new # <<>> THEN new[1].word
                         ELSE StripPrefix(<<"origin">>, add.words[2])
  BY DEF BranchMade
<1>3. news = NewAt(args)
  BY DEF NewAt
<1>4. branch # <<>>
  OBVIOUS
<1>5. \/ sub = "push"
      \/ sub = "worktree" /\ Len(args) >= 2 /\ IsWord(args[2], <<"add">>)
  <2> HIDE DEF branch, sub, news, first, words, names
  <2> QED BY <1>1, <1>4, Zenon
<1>6. /\ sub = "push" => validatePush(args)
      /\ sub = "worktree" => validateWorktree(args)
  <2>1. ASSUME args = <<Flag("--version")>> PROVE sub = ""
    <3>1. args[1] = Flag("--version") /\ Flag("--version").flag = "--version"
      BY <2>1 DEF Flag
    <3>2. "--version" # ""
      OBVIOUS
    <3> QED BY <3>1, <3>2, Zenon DEF Subcommand, Positional
  <2> HIDE DEF sub
  <2>2. sub \in {"push", "worktree"} => sub # "" /\ sub \notin ReadOnly
    BY DEF ReadOnly
  <2>3. ASSUME sub \in {"push", "worktree"}
        PROVE  CASE sub = "merge-base" -> validateMergeBase(args)
                 [] sub = "branch"     -> validateBranch(args)
                 [] sub = "remote"     -> validateRemote(args)
                 [] sub = "fetch"      -> validateFetch(args)
                 [] sub = "ls-remote"  -> validateLsRemote(args)
                 [] sub = "tag"        -> validateTag(args)
                 [] sub = "stash"      -> validateStash(args)
                 [] sub = "restore"    -> validateRestore(args)
                 [] sub = "add"        -> validateAdd(args)
                 [] sub = "commit"     -> validateCommit(args)
                 [] sub = "worktree"   -> validateWorktree(args)
                 [] sub = "push"       -> validatePush(args)
                 [] OTHER              -> validateMerge(args)
    BY <2>1, <2>2, <2>3, Zenon DEF resolveGitArgs, sub
  <2>4. sub = "push" => validatePush(args)
    BY <2>3
  <2>5. sub = "worktree" => validateWorktree(args)
    BY <2>3
  <2> QED BY <2>4, <2>5
<1>7. CASE sub = "push"
  <2>1. /\ Len(names) = 2 /\ names[2].word = scan.words[2] /\ scan.words[2] \in Seq(Name)
        /\ IsPrefix(RefspecPrefix, scan.words[2])
    BY <1>0, <1>6, <1>7, PushKept
  <2>2. StripPrefix(<<"refs", "heads">>, AfterColon(scan.words[2])) = Rest(scan.words[2], 3)
    BY <2>1, PushedName
  <2>3. Len(names) >= 2 /\ Last(names) = names[2]
    <3> HIDE DEF names
    <3> QED BY <2>1 DEF Last
  <2> HIDE DEF branch, sub, news, first, words, names, scan, add, new
  <2> QED BY <1>1, <1>2, <1>7, <2>1, <2>2, <2>3, Zenon DEF branch
<1>8. CASE sub = "worktree" /\ Len(args) >= 2 /\ IsWord(args[2], <<"add">>)
  <2>1. sub # "push"
    <3> HIDE DEF sub
    <3>1. "worktree" # "push"
      OBVIOUS
    <3> QED BY <1>8, <3>1, Zenon
  <2>2. validateWorktreeAdd(args)
    <3>1. validateWorktree(args) /\ IsWord(args[2], <<"add">>)
      BY <1>6, <1>8
    <3>2. /\ ~IsWord(args[2], <<"list">>) /\ ~IsWord(args[2], <<"remove">>)
          /\ ~IsWord(args[2], <<"prune">>)
      <4>1. args[2].word = <<"add">>
        BY <3>1, WordsDiffer, Zenon DEF IsWord
      <4>2. \A w : IsWord(args[2], w) => args[2].word = w
        BY WordsDiffer, Zenon DEF IsWord
      <4>3. <<"add">> # <<"list">> /\ <<"add">> # <<"remove">> /\ <<"add">> # <<"prune">>
        OBVIOUS
      <4> QED BY <4>1, <4>2, <4>3, Zenon
    <3> QED BY <3>1, <3>2 DEF validateWorktree
  <2>3. /\ news # {} => first < Len(args) /\ new # <<>> /\ new[1] = args[first + 1]
        /\ news = {} => new = <<>> /\ Len(words) = 2 /\ words[2].word = add.words[2]
    BY <1>3, <2>2, AddedBranch
  <2>4. Len(words) = 2 => Len(words) > 1
    <3>1. \A k : k = 2 => k > 1
      OBVIOUS
    <3> QED BY <3>1, Zenon
  <2> HIDE DEF branch, sub, news, first, words, names, scan, add, new
  <2> QED BY <1>1, <1>2, <1>8, <2>1, <2>3, <2>4, Zenon DEF branch
<1> QED BY <1>5, <1>7, <1>8

LEMMA KeysNamed ==
  ASSUME ExecInv, stage = "running", NEW key \in KeyOf(request), key[1] = "git"
  PROVE  key = <<"git", inferRepoFromPath(request.cwd), BranchMade(request.args)>>
<1> DEFINE args == request.args
           tool == request.tool
           repo == inferRepoFromPath(request.cwd)
           branch == extractBranchFromGitArgs(args)
<1>1. Allowed(request) /\ ran = effectiveArgs(request) /\ args \in Seq(Arg)
  BY ExecAssumption DEF ExecInv, Ran
<1>2. tool = "git"
  <2>1. CASE tool = "post"
    <3>1. \/ key = NewThread
          \/ key = <<"slack", Choice(request.args, "thread")>>
      BY <2>1 DEF KeyOf
    <3>2. key[1] = "slack"
      <4>1. NewThread[1] = "slack"
        BY DEF NewThread
      <4>2. \A c : <<"slack", c>>[1] = "slack"
        OBVIOUS
      <4> QED BY <3>1, <4>1, <4>2, Zenon
    <3>3. "slack" # "git"
      OBVIOUS
    <3> QED BY <3>2, <3>3, Zenon
  <2>2. CASE tool # "git" /\ tool # "post"
    BY <2>2 DEF KeyOf
  <2> QED BY <2>1, <2>2
<1>3. ran = args
  BY <1>1, <1>2 DEF effectiveArgs
<1>4. resolveGitArgs(args)
  BY <1>1, <1>2 DEF Allowed
<1>5. KeyOf(request) = computeGitCorrelationKey(args, request.cwd)
  <2>1. KeyOf(request) = computeGitCorrelationKey(ran, request.cwd)
    BY <1>2 DEF KeyOf
  <2> HIDE DEF args
  <2> QED BY <1>3, <2>1, Zenon
<1>6. branch # <<>> /\ key = <<"git", repo, branch>>
  <2>1. key \in computeGitCorrelationKey(args, request.cwd)
    BY <1>5
  <2>2. computeGitCorrelationKey(args, request.cwd) =
          IF branch = <<>> \/ repo = "" THEN {} ELSE {<<"git", repo, branch>>}
    BY DEF computeGitCorrelationKey
  <2> HIDE DEF branch, repo, args
  <2> QED BY <2>1, <2>2
<1>7. branch = BranchMade(args)
  BY <1>1, <1>4, <1>6, BranchNamed
<1> QED BY <1>6, <1>7

\* The branch key that a push or a new worktree binds to the session names the branch
\* that the policy accepted, whatever the line and the flags in it: it is computed from
\* the raw arguments, and the policy reads a scan of them (correlation.ts:37).
THEOREM KeysNameTheBranch == ExecSpec => []KeyIsBranch
<1>1. ExecInit => KeyIsBranch
  BY DEF ExecInit, KeyIsBranch
<1>2. ExecInv /\ KeyIsBranch /\ [ExecNext]_execVars => KeyIsBranch'
  <2> SUFFICES ASSUME ExecInv, KeyIsBranch, [ExecNext]_execVars PROVE KeyIsBranch'
    OBVIOUS
  <2>1. CASE Receive
    BY <2>1 DEF Receive, KeyIsBranch
  <2>2. CASE Fail
    BY <2>2 DEF Fail, KeyIsBranch
  <2>3. CASE Succeed
    <3>1. stage = "running" /\ bound = {} /\ request' = request
      BY <2>3 DEF Succeed, ExecInv
    <3>2. bound' \subseteq KeyOf(request)
      BY <2>3, <3>1 DEF Succeed
    <3>3. \A key \in bound' :
             key[1] = "git" =>
                key = <<"git", inferRepoFromPath(request.cwd), BranchMade(request.args)>>
      BY <3>1, <3>2, KeysNamed
    <3> QED BY <3>1, <3>3 DEF KeyIsBranch
  <2>4. CASE UNCHANGED execVars
    BY <2>4 DEF execVars, KeyIsBranch
  <2> QED BY <2>1, <2>2, <2>3, <2>4 DEF ExecNext
<1> QED BY <1>1, <1>2, ExecHolds, PTL DEF ExecSpec
=============================================================================
