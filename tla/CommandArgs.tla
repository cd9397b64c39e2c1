----------------------------- MODULE CommandArgs -----------------------------
(***************************************************************************)
(* Command lines as the policies of remote-cli read them.  An argument is a *)
(* word, a flag, or a flag with an inline value (--flag=value).  A word is  *)
(* split at its slashes, so that refspecs, paths, branches and endpoints    *)
(* are sequences of parts; a leading "" is a leading slash.                 *)
(***************************************************************************)
EXTENDS Naturals, Sequences, SequencesExt, TLC

Arg == {a \in [flag : STRING, inline : BOOLEAN, word : Seq(STRING)] :
           IF a.flag = "" THEN ~a.inline ELSE a.inline \/ a.word = <<>>}
Word(w) == [flag |-> "", inline |-> FALSE, word |-> w]
Flag(f) == [flag |-> f, inline |-> FALSE, word |-> <<>>]
Inline(f, w) == [flag |-> f, inline |-> TRUE, word |-> w]

Dash == <<"-">>
Dashed(a) == a.flag # "" \/ a.word = Dash       \* starts with a dash
Positional(a) == a.flag = ""                    \* to the scanner, "-" is a word
\* The arguments from position `from` on that do not start with a dash, and those
\* among the first ones up to each.
Kept(args, from) ==
    LET kept[i \in 0..Len(args)] ==
            IF i < from THEN <<>>
            ELSE IF Dashed(args[i]) THEN kept[i-1] ELSE Append(kept[i-1], args[i])
    IN  kept
Undashed(args, from) == Kept(args, from)[Len(args)]
Empty(a) == a.flag = "" /\ a.word = <<>>
IsWord(a, w) == a = Word(w)
Rest(args, i) == SubSeq(args, i, Len(args))

Numbers == {<<"7">>, <<"12">>, <<"0">>}
IsNumber(a) == a.flag = "" /\ a.word \in Numbers
Blank == {<<"body=">>, <<"body= ">>}
IsBodyField(a) == a.flag = "" /\ a.word # <<>> /\ a.word[1] \in {"body=", "body= ", "body=hi"}

Range1(f) == {f[i] : i \in DOMAIN f}

\* The flags a scan knows: an alias is mapped to the name of its flag.
NoAliases == [a \in {} |-> ""]
Aliases(names) == [a \in UNION {names[n] : n \in DOMAIN names} |->
                     CHOOSE n \in DOMAIN names : a \in names[n]]
Flags(switches, valued) == [switches |-> Aliases(switches), valued |-> Aliases(valued)]
NoFlags == [n \in {} |-> {}]

ShortAliases == {"-m", "-F", "-b", "-t", "-B", "-H", "-l", "-a", "-r", "-D", "-n",
                 "-p", "-f", "-q", "-X"}

\* What a scan has found: the words, how often each switch was given, and the values
\* of each valued flag.  `open` is the valued flag whose value comes next.
Scanned(flags) ==
    [ok |-> TRUE, open |-> "", words |-> <<>>,
     switches |-> [n \in Range1(flags.switches) |-> 0],
     values |-> [n \in Range1(flags.valued) |-> <<>>]]

\* One argument of scanPolicyArgs.  A scan that has failed stays failed.
ScanArg(flags, scan, a) ==
    IF ~scan.ok THEN scan
    ELSE IF scan.open # ""
    THEN [scan EXCEPT !.values[scan.open] = Append(@, a), !.open = ""]
    ELSE IF Positional(a)
    THEN [scan EXCEPT !.words = Append(@, a.word)]
    ELSE IF ~a.inline /\ a.flag \in DOMAIN flags.switches
    THEN [scan EXCEPT !.switches[flags.switches[a.flag]] = @ + 1]
    ELSE IF ~a.inline /\ a.flag \in DOMAIN flags.valued
    THEN [scan EXCEPT !.open = flags.valued[a.flag]]
    ELSE IF a.inline /\ a.flag \in DOMAIN flags.valued \ ShortAliases /\ a.word # <<>>
    THEN [scan EXCEPT !.values[flags.valued[a.flag]] = Append(@, Word(a.word))]
    ELSE [scan EXCEPT !.ok = FALSE]

\* What a scan has found after each argument; it starts at `from`.
Scans(args, from, flags) ==
    LET scan[i \in 0..Len(args)] ==
            IF i < from THEN Scanned(flags)
            ELSE LET before == scan[i-1] IN ScanArg(flags, before, args[i])
    IN  scan
scanPolicyArgs(args, from, flags) ==
    LET all == Scans(args, from, flags)[Len(args)]
    IN  [all EXCEPT !.ok = @ /\ all.open = ""]

booleanFlagCount(scan, name) == scan.switches[name]
valueFlagValues(scan, name) ==
    IF name \in DOMAIN scan.values THEN scan.values[name] ELSE <<>>
=============================================================================
