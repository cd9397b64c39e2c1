------------------------------ MODULE AliasLog ------------------------------
(***************************************************************************)
(* The alias log that the gateway, the runner and remote-cli share         *)
(* (src/packages/common/src/event-log.ts, correlation.ts).                 *)
(*                                                                         *)
(* Each process answers "which anchor is this key bound to" from its own   *)
(* copy of aliases.jsonl, which it rebuilds when the size of the file is   *)
(* not the size it saw last.  A binding is one appended line; the newest   *)
(* line for a key wins.                                                    *)
(*                                                                         *)
(* Inside one process an operation runs to its end without yielding (all   *)
(* file calls are synchronous), but the processes interleave between file  *)
(* calls, so each file call is a step of its own.  Lines are written whole *)
(* (O_APPEND), and records stand for bytes: sizes are compared only for    *)
(* equality, and every record makes the file longer.  The cached anchor of *)
(* a key is represented by the place in the file of the record it is from. *)
(***************************************************************************)
EXTENDS Integers, Sequences, FiniteSets

CONSTANTS
    Process,     \* the processes that import event-log.ts
    Ensurers,    \* those that bind unbound keys: gateway and runner
    Rebinders,   \* those that bind a key whatever it is bound to
    Key,         \* alias type and value
    Anchor,
    NoAnchor,    \* an operation without an anchor yet
    MaxRecords,  \* bound: lines of the file
    MaxCrashes,  \* bound: process crashes
    MaxFaults    \* bound: reads and stats of the file that fail

ASSUME AliasAssumption ==
    /\ Ensurers \cup Rebinders \subseteq Process
    /\ Key # {}
    /\ NoAnchor \notin Anchor
    /\ MaxRecords \in Nat
    /\ MaxCrashes \in Nat
    /\ MaxFaults \in Nat

VARIABLES
    log,       \* aliases.jsonl: a sequence of [key, anchor] records
    minted,    \* the anchors minted so far
    cache,     \* aliasCache.forward: the place of each key's record, 0 for none
    lastSize,  \* aliasCacheLastSize, Unloaded before the first load
    pc,        \* where each process is in its operation
    op,        \* the operation it is in
    size,      \* what the load's stat returned
    start,     \* history: the size of the file when the look-up began
    mine,      \* the place of the record the operation wrote, 0 for none
    seen,      \* history: the newest record each process was answered from
    basis,     \* history: what each copy rests on
    crashes,
    faults

vars == <<log, minted, cache, lastSize, pc, op, size, start, mine, seen,
          basis, crashes, faults>>

Unloaded == -1

\* by and fresh are history: who wrote the line, and whether for a key it had
\* found unbound.
Record == [key : Key, anchor : Anchor, by : Process, fresh : BOOLEAN]

Operation == [kind : {"resolve", "ensure", "append"},
              key : Key, anchor : Anchor \cup {NoAnchor}]

\* A copy rests on what a load found in the file, on that and a record of its
\* process's own put over it since, or on a load that could not see the file.
Basis == {"file", "own", "failed"}

PC == {"idle", "stat", "read", "decide", "write", "restat"}

TypeOK ==
    /\ log \in Seq(Record)
    /\ minted \subseteq Anchor
    /\ cache \in [Process -> [Key -> Nat]]
    /\ lastSize \in [Process -> Nat \cup {Unloaded}]
    /\ pc \in [Process -> PC]
    /\ op \in [Process -> Operation]
    /\ size \in [Process -> Nat]
    /\ start \in [Process -> Nat]
    /\ mine \in [Process -> Nat]
    /\ seen \in [Process -> [Key -> Nat]]
    /\ basis \in [Process -> Basis]
    /\ crashes \in Nat
    /\ faults \in Nat

Empty == [k \in Key |-> 0]

Resolve(k) == [kind |-> "resolve", key |-> k, anchor |-> NoAnchor]
Ensure(k) == [kind |-> "ensure", key |-> k, anchor |-> NoAnchor]
Nothing == Resolve(CHOOSE k \in Key : TRUE)
AppendAlias(k, a) == [kind |-> "append", key |-> k, anchor |-> a]

Init ==
    /\ log = <<>>
    /\ minted = {}
    /\ cache = [p \in Process |-> Empty]
    /\ lastSize = [p \in Process |-> Unloaded]
    /\ pc = [p \in Process |-> "idle"]
    /\ op = [p \in Process |-> Nothing]
    /\ size = [p \in Process |-> 0]
    /\ start = [p \in Process |-> 0]
    /\ mine = [p \in Process |-> 0]
    /\ seen = [p \in Process |-> Empty]
    /\ basis = [p \in Process |-> "file"]
    /\ crashes = 0
    /\ faults = 0

-----------------------------------------------------------------------------
(***************************************************************************)
(* What the file says                                                      *)
(***************************************************************************)

\* The places of k's records among the first n lines, and before the first.
Places(k, n) == {i \in 1..n : i <= Len(log) /\ log[i].key = k} \cup {0}

\* Replaying n lines leaves the last record of each key.
Latest(k, n) == CHOOSE i \in Places(k, n) : \A j \in Places(k, n) : j <= i

\* Mutant of Replay: the first record of a key wins.
ReplayFirst(n) ==
    [k \in Key |->
        LET bound == Places(k, n) \ {0}
        IN  IF bound = {} THEN 0 ELSE CHOOSE i \in bound : \A j \in bound : i <= j]

Replay(n) == [k \in Key |-> Latest(k, n)]

-----------------------------------------------------------------------------
(***************************************************************************)
(* Operations begin and end                                                *)
(***************************************************************************)

\* The operation of p is over, and its local variables with it.
Done(p) ==
    /\ pc' = [pc EXCEPT ![p] = "idle"]
    /\ op' = [op EXCEPT ![p] = Nothing]
    /\ size' = [size EXCEPT ![p] = 0]
    /\ start' = [start EXCEPT ![p] = 0]
    /\ mine' = [mine EXCEPT ![p] = 0]

Begin(p, o, at) ==
    /\ pc[p] = "idle"
    /\ op' = [op EXCEPT ![p] = o]
    /\ start' = [start EXCEPT ![p] = IF at = "stat" THEN Len(log) ELSE 0]
    /\ pc' = [pc EXCEPT ![p] = at]
    /\ UNCHANGED <<log, minted, cache, lastSize, size, mine, seen, basis,
                   crashes, faults>>

\* resolveAlias, and all that is built on it
StartResolve(p, k) == Begin(p, Resolve(k), "stat")

\* ensureAnchorForCorrelationKey.  Bound: an anchor is left for each process
\* that may mint one.
StartEnsure(p, k) ==
    /\ p \in Ensurers
    /\ Cardinality({q \in Process : op[q].kind = "ensure" /\ op[q].anchor = NoAnchor})
         < Cardinality(Anchor \ minted)
    /\ Begin(p, Ensure(k), "stat")

\* Mutant of StartAppend: a session without an anchor is not refused.
StartAppendUnbound(p, k, a) ==
    /\ p \in Rebinders
    /\ a \in Anchor
    /\ Begin(p, AppendAlias(k, NoAnchor), "write")

\* appendAlias with the anchor of a session: no lookup of k comes first.
StartAppend(p, k, a) ==
    /\ p \in Rebinders
    /\ \E i \in 1..Len(log) : log[i].anchor = a
    /\ Begin(p, AppendAlias(k, a), "write")

-----------------------------------------------------------------------------
(***************************************************************************)
(* loadAliasCacheIfChanged, before a lookup and after an append            *)
(***************************************************************************)

Loaded(p) == IF mine[p] = 0 THEN "decide" ELSE "restat"

\* A size that equals the last one ends the load with the copy as it is.
Stat(p) ==
    /\ pc[p] = "stat"
    /\ IF Len(log) = lastSize[p]
          THEN pc' = [pc EXCEPT ![p] = Loaded(p)] /\ UNCHANGED size
          ELSE /\ pc' = [pc EXCEPT ![p] = "read"]
               /\ size' = [size EXCEPT ![p] = Len(log)]
    /\ UNCHANGED <<log, minted, cache, lastSize, op, start, mine, seen,
                   basis, crashes, faults>>

\* statSync throws, and its file is taken for an empty one, which is not read.
StatFails(p) ==
    /\ pc[p] = "stat"
    /\ faults < MaxFaults
    /\ faults' = faults + 1
    /\ cache' = [cache EXCEPT ![p] = IF lastSize[p] = 0 THEN @ ELSE Empty]
    /\ lastSize' = [lastSize EXCEPT ![p] = 0]
    /\ basis' = [basis EXCEPT ![p] = "failed"]
    /\ pc' = [pc EXCEPT ![p] = Loaded(p)]
    /\ UNCHANGED <<log, minted, op, size, start, mine, seen, crashes>>

Rebuild(p, copy, from) ==
    /\ pc[p] = "read"
    /\ cache' = [cache EXCEPT ![p] = copy]
    /\ basis' = [basis EXCEPT ![p] = from]
    /\ size' = [size EXCEPT ![p] = 0]
    /\ lastSize' = [lastSize EXCEPT ![p] = size[p]]
    /\ pc' = [pc EXCEPT ![p] = Loaded(p)]
    /\ UNCHANGED <<log, minted, op, start, mine, seen, crashes>>

\* Mutant of Read: the size is taken after the lines were read.
ReadThenStat(p) ==
    /\ pc[p] = "read"
    /\ cache' = [cache EXCEPT ![p] = Replay(size[p])]
    /\ lastSize' = [lastSize EXCEPT ![p] = Len(log)]
    /\ basis' = [basis EXCEPT ![p] = "file"]
    /\ size' = [size EXCEPT ![p] = 0]
    /\ pc' = [pc EXCEPT ![p] = Loaded(p)]
    /\ UNCHANGED <<log, minted, op, start, mine, seen, crashes, faults>>

\* All lines that are there by now are replayed; none if the size was 0.
Read(p) ==
    /\ Rebuild(p, IF size[p] = 0 THEN Empty ELSE Replay(Len(log)), "file")
    /\ UNCHANGED faults

\* completeLines returns [] when the file cannot be read.
ReadFails(p) ==
    /\ faults < MaxFaults
    /\ size[p] > 0
    /\ Rebuild(p, Empty, "failed")
    /\ faults' = faults + 1

-----------------------------------------------------------------------------
(***************************************************************************)
(* Answers and appends                                                     *)
(***************************************************************************)

Answer(p, i) ==
    /\ seen' = [seen EXCEPT ![p][op[p].key] = i]
    /\ Done(p)

\* The copy has the answer, or there is none and nobody asked to bind the key.
AnswerFromCache(p) ==
    /\ pc[p] = "decide"
    /\ op[p].kind = "resolve" \/ cache[p][op[p].key] # 0
    /\ Answer(p, cache[p][op[p].key])
    /\ UNCHANGED <<log, minted, cache, lastSize, basis, crashes, faults>>

\* Mutant of Mint: the key is bound without a look at the copy.
MintAlways(p, a) ==
    /\ pc[p] = "decide"
    /\ op[p].kind = "ensure"
    /\ a \notin minted
    /\ minted' = minted \cup {a}
    /\ op' = [op EXCEPT ![p].anchor = a]
    /\ pc' = [pc EXCEPT ![p] = "write"]
    /\ start' = [start EXCEPT ![p] = 0]
    /\ UNCHANGED <<log, cache, lastSize, size, mine, seen, basis, crashes, faults>>

\* ensureAnchor mints an anchor for a key it found unbound.
Mint(p, a) ==
    /\ pc[p] = "decide"
    /\ op[p].kind = "ensure" /\ cache[p][op[p].key] = 0
    /\ a \notin minted
    /\ minted' = minted \cup {a}
    /\ op' = [op EXCEPT ![p].anchor = a]
    /\ pc' = [pc EXCEPT ![p] = "write"]
    /\ start' = [start EXCEPT ![p] = 0]
    /\ UNCHANGED <<log, cache, lastSize, size, mine, seen, basis, crashes, faults>>

\* appendFileSync
Write(p) ==
    /\ pc[p] = "write"
    /\ Len(log) < MaxRecords
    /\ log' = Append(log, [key |-> op[p].key, anchor |-> op[p].anchor,
                           by |-> p, fresh |-> op[p].kind = "ensure"])
    /\ mine' = [mine EXCEPT ![p] = Len(log) + 1]
    /\ pc' = [pc EXCEPT ![p] = "stat"]
    /\ UNCHANGED <<minted, cache, lastSize, op, size, start, seen, basis,
                   crashes, faults>>

\* Mutant of WriteFails: the record was applied before it was appended.
WriteFailsApplied(p) ==
    /\ pc[p] = "write"
    /\ cache' = [cache EXCEPT ![p][op[p].key] = Len(log) + 1]
    /\ Done(p)
    /\ UNCHANGED <<log, minted, lastSize, seen, basis, crashes, faults>>

\* The append throws: no answer, and the copy is as before.
WriteFails(p) ==
    /\ pc[p] = "write"
    /\ Done(p)
    /\ UNCHANGED <<log, minted, cache, lastSize, seen, basis, crashes, faults>>

\* applyAliasToCache puts its own record over what it loaded, and takes the
\* size of the file as it is now for the size of what it has.
Restat(p) ==
    /\ pc[p] = "restat"
    /\ cache' = [cache EXCEPT ![p][op[p].key] = mine[p]]
    /\ lastSize' = [lastSize EXCEPT ![p] = Len(log)]
    /\ basis' = [basis EXCEPT ![p] = "own"]
    /\ Answer(p, mine[p])
    /\ UNCHANGED <<log, minted, crashes, faults>>

\* statSync throws, and the copy keeps the size of its load.
RestatFails(p) ==
    /\ pc[p] = "restat"
    /\ faults < MaxFaults
    /\ faults' = faults + 1
    /\ cache' = [cache EXCEPT ![p][op[p].key] = mine[p]]
    /\ basis' = [basis EXCEPT ![p] = "own"]
    /\ Answer(p, mine[p])
    /\ UNCHANGED <<log, minted, lastSize, crashes>>

\* A process dies and starts again with nothing loaded.
Crash(p) ==
    /\ crashes < MaxCrashes
    /\ crashes' = crashes + 1
    /\ cache' = [cache EXCEPT ![p] = Empty]
    /\ lastSize' = [lastSize EXCEPT ![p] = Unloaded]
    /\ basis' = [basis EXCEPT ![p] = "file"]
    /\ Done(p)
    /\ UNCHANGED <<log, minted, seen, faults>>

-----------------------------------------------------------------------------

Next ==
    \E p \in Process :
        \/ \E k \in Key : StartResolve(p, k)
        \/ \E k \in Key : StartEnsure(p, k)
        \/ \E k \in Key, a \in Anchor : StartAppend(p, k, a)
        \/ Stat(p)
        \/ StatFails(p)
        \/ Read(p)
        \/ ReadFails(p)
        \/ AnswerFromCache(p)
        \/ \E a \in Anchor : Mint(p, a)
        \/ Write(p)
        \/ WriteFails(p)
        \/ Restat(p)
        \/ RestatFails(p)
        \/ Crash(p)

Spec == Init /\ [][Next]_vars

-----------------------------------------------------------------------------
(***************************************************************************)
(* Properties                                                              *)
(***************************************************************************)

\* A copy holds only bindings that are in the file, for their own key,
\* whatever the interleaving of loads, appends, crashes and failed reads.
CacheFromLog ==
    \A p \in Process, k \in Key :
        cache[p][k] # 0 => cache[p][k] \in Places(k, Len(log))

\* A process is never answered from an older binding of a key than the one it
\* was last answered from, even across a restart, unless a read has failed:
\* the re-stat after an append may hide newer records, and the append may be
\* put over one, but neither takes back an answer.
MonotonicAnswers ==
    [][faults' = 0 =>
         \A p \in Process, k \in Key : seen'[p][k] >= seen[p][k]]_vars

\* A lookup answers no older than the file was when it began, whoever else
\* writes in the meantime, when the copy it answers from rests on the file.
\* There are two ways to miss a binding and no third: a process has put a record
\* of its own over its copy and nobody has appended since, or a stat or read has
\* failed and nobody has appended since; the next line of anybody ends both.
FreshAnswers ==
    \A p \in Process :
        pc[p] = "decide" /\ basis[p] = "file" =>
            cache[p][op[p].key] >= Latest(op[p].key, start[p])

\* However stale the copies are, and wherever a process crashes, no process
\* mints twice for one key unless a stat or read has failed: a conversation that
\* two processes bind at once gets at most one anchor from each of them.
MintsOnce ==
    faults = 0 =>
        \A i, j \in 1..Len(log) :
            /\ log[i].fresh /\ log[j].fresh
            /\ log[i].by = log[j].by
            /\ log[i].key = log[j].key
            => i = j

\* "The cache reloads only when aliases.jsonl's size changes (signature check)
\* -- cheap and consistent with append-only semantics" (event-flow.md:319): a
\* process that is about to mint an anchor for a key looked when the key was
\* unbound.  It is not so with two writers: a process counts a line that another
\* appended in the size of its copy, which misses it, and mints an anchor for a
\* key that has one, which moves the key for everybody.
MintsForUnbound ==
    \A p \in Process :
        pc[p] = "decide" /\ op[p].kind = "ensure" /\ cache[p][op[p].key] = 0 =>
            Latest(op[p].key, start[p]) = 0

\* Once a key is bound to an anchor it is never bound to another: "once
\* slack:thread:1701... binds to anchor A, it binds forever" (event-flow.md:377).
\* No run states it, because it is not so in several ways: two processes mint at
\* once, a stale copy mints again, a session that posts to a thread moves it, and
\* a process that could not read the file mints again.
BoundOnce ==
    \A i, j \in 1..Len(log) :
        log[i].key = log[j].key => log[i].anchor = log[j].anchor

=============================================================================
