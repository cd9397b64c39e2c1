--------------------------- MODULE AliasLogProofs ---------------------------
(***************************************************************************)
(* Theorems about the alias log, for every set of processes, keys and      *)
(* anchors and every value of the bounds.                                  *)
(***************************************************************************)
EXTENDS AliasLog, TLAPS, WellFoundedInduction

-----------------------------------------------------------------------------
(***************************************************************************)
(* What the file says                                                      *)
(***************************************************************************)

\* A nonempty set of numbers up to n has a largest one.
LEMMA Largest ==
    ASSUME NEW n \in Nat, NEW S \in SUBSET (0..n), S # {}
    PROVE  \E i \in S : \A j \in S : j <= i
<1> DEFINE T == {n - i : i \in S}
           R == {ss \in Nat \X Nat : ss[1] < ss[2]}
<1>1. T \subseteq Nat /\ T # {}
  <2>1. \A i \in S : i \in 0..n
    OBVIOUS
  <2>2. \A i \in S : n - i \in Nat
    BY <2>1
  <2> QED
    BY <2>2
<1>2. IsWellFoundedOn(R, Nat)
  BY NatLessThanWellFounded, Zenon DEF OpToRel
<1>3. PICK x \in T : \A y \in T : ~(y < x)
  <2>1. PICK x \in T : \A y \in T : <<y, x>> \notin R
    <3> HIDE DEF T, R
    <3> QED
      BY <1>1, <1>2, WFMin
  <2> QED
    BY <1>1, <2>1
<1>4. PICK i \in S : x = n - i
  BY <1>2
<1>5. ASSUME NEW j \in S PROVE j <= i
  <2>1. n - j \in T
    OBVIOUS
  <2>2. ~(n - j < n - i)
    BY <1>3, <1>4, <2>1
  <2>3. i \in Int /\ j \in Int
    OBVIOUS
  <2> HIDE DEF T, R
  <2> QED
    BY <2>2, <2>3
<1> QED
  BY <1>5

\* Replaying the first n lines yields the newest of the key's records there.
LEMMA LatestIsNewest ==
    ASSUME NEW k, NEW n \in Nat
    PROVE  /\ Latest(k, n) \in Places(k, n)
           /\ \A j \in Places(k, n) : j <= Latest(k, n)
<1>1. Places(k, n) \in SUBSET (0..n) /\ Places(k, n) # {}
  BY DEF Places
<1>2. \E i \in Places(k, n) : \A j \in Places(k, n) : j <= i
  <2> HIDE DEF Places
  <2> QED
    BY <1>1, Largest
<1> QED
  BY <1>2 DEF Latest

\* More lines never make the newest record of a key older.
LEMMA LatestGrows ==
    ASSUME NEW k, NEW m \in Nat, NEW n \in Nat, m <= n
    PROVE  Latest(k, m) <= Latest(k, n)
<1>1. Places(k, m) \subseteq Places(k, n)
  BY DEF Places
<1> QED
  BY <1>1, LatestIsNewest

\* An append leaves what the earlier lines say as it was.
LEMMA AppendKeeps ==
    ASSUME log \in Seq(Record), NEW r \in Record, log' = Append(log, r),
           NEW k, NEW n \in Nat, n <= Len(log)
    PROVE  Places(k, n)' = Places(k, n) /\ Latest(k, n)' = Latest(k, n)
<1>1. /\ Len(log') = Len(log) + 1
      /\ \A i \in 1..Len(log) : log'[i] = log[i]
  OBVIOUS
<1>2. Places(k, n)' = Places(k, n)
  BY <1>1 DEF Places
<1> QED
  BY <1>2 DEF Latest

-----------------------------------------------------------------------------
(***************************************************************************)
(* Types                                                                   *)
(***************************************************************************)

\* The replayed copy has the type of a copy.
LEMMA ReplayType ==
    ASSUME NEW n \in Nat
    PROVE  Replay(n) \in [Key -> Nat]
BY LatestIsNewest DEF Replay, Places

\* Together with the types: what is about to be written has an anchor.
TypeInv ==
    /\ TypeOK
    /\ \A p \in Process : pc[p] = "write" => op[p].anchor \in Anchor

\* The operation of an idle process is well typed.
LEMMA NothingType == Nothing \in Operation
<1>1. (CHOOSE k \in Key : TRUE) \in Key
  BY AliasAssumption
<1> QED
  BY <1>1 DEF Nothing, Resolve, Operation

\* The end of an operation keeps the local variables well typed.
LEMMA DoneType ==
    ASSUME TypeOK, NEW p \in Process, Done(p)
    PROVE  /\ pc' \in [Process -> PC]
           /\ op' \in [Process -> Operation]
           /\ size' \in [Process -> Nat]
           /\ start' \in [Process -> Nat]
           /\ mine' \in [Process -> Nat]
BY NothingType DEF TypeOK, Done, PC

\* The beginning of an operation keeps every state well typed.
LEMMA BeginType ==
    ASSUME TypeInv, NEW p \in Process, NEW o \in Operation, NEW at \in PC,
           Begin(p, o, at), at = "write" => o.anchor \in Anchor
    PROVE  TypeInv'
<1>1. /\ op' \in [Process -> Operation]
      /\ pc' \in [Process -> PC]
      /\ start' \in [Process -> Nat]
  <2>1. Len(log) \in Nat
    BY DEF TypeInv, TypeOK
  <2> QED
    BY <2>1 DEF TypeInv, TypeOK, Begin
<1> QED
  BY <1>1 DEF TypeInv, TypeOK, Begin

\* An answer from place i keeps the history well typed.
LEMMA AnswerType ==
    ASSUME TypeOK, NEW p \in Process, NEW i \in Nat, Answer(p, i)
    PROVE  seen' \in [Process -> [Key -> Nat]]
<1>1. op[p].key \in Key
  BY DEF TypeOK, Operation
<1> QED
  BY <1>1 DEF TypeOK, Answer

\* The types are inductive with the anchors of pending writes.
LEMMA TypeInductive == Spec => []TypeInv
<1>1. Init => TypeInv
  BY AliasAssumption, NothingType DEF Init, TypeInv, TypeOK, Empty, PC, Basis
<1>2. TypeInv /\ [Next]_vars => TypeInv'
  <2> SUFFICES ASSUME TypeInv, [Next]_vars PROVE TypeInv'
    OBVIOUS
  <2>1. ASSUME NEW p \in Process, NEW k \in Key, StartResolve(p, k) PROVE TypeInv'
    BY <2>1, BeginType DEF StartResolve, Resolve, Operation, PC
  <2>2. ASSUME NEW p \in Process, NEW k \in Key, StartEnsure(p, k) PROVE TypeInv'
    BY <2>2, BeginType DEF StartEnsure, Ensure, Operation, PC
  <2>3. ASSUME NEW p \in Process, NEW k \in Key, NEW a \in Anchor, StartAppend(p, k, a)
        PROVE  TypeInv'
    BY <2>3, BeginType DEF StartAppend, AppendAlias, Operation, PC
  <2>4. ASSUME NEW p \in Process, Stat(p) PROVE TypeInv'
    <3>1. Len(log) \in Nat /\ Loaded(p) \in {"decide", "restat"}
      BY DEF Loaded, TypeInv, TypeOK
    <3>2. /\ size' \in [Process -> Nat]
          /\ \E at \in {"decide", "restat", "read"} : pc' = [pc EXCEPT ![p] = at]
      BY <2>4, <3>1 DEF Stat, TypeInv, TypeOK
    <3>3. /\ pc' \in [Process -> PC]
          /\ \A q \in Process : pc'[q] = "write" => pc[q] = "write"
      BY <3>2 DEF TypeInv, TypeOK, PC
    <3> QED
      BY <2>4, <3>2, <3>3 DEF Stat, TypeInv, TypeOK
  <2>5. ASSUME NEW p \in Process, NEW copy \in [Key -> Nat], NEW from \in Basis,
               Rebuild(p, copy, from), faults' \in Nat
        PROVE  TypeInv'
    BY <2>5 DEF Rebuild, Loaded, TypeInv, TypeOK, PC
  <2>6. Empty \in [Key -> Nat] /\ Replay(Len(log)) \in [Key -> Nat]
    BY ReplayType DEF Empty, TypeInv, TypeOK
  <2>7. ASSUME NEW p \in Process, Read(p) PROVE TypeInv'
    BY <2>5, <2>6, <2>7 DEF Read, Basis, TypeInv, TypeOK
  <2>8. ASSUME NEW p \in Process, ReadFails(p) PROVE TypeInv'
    BY SMTT(60), <2>5, <2>6, <2>8 DEF ReadFails, Basis, TypeInv, TypeOK
  <2>9. ASSUME NEW p \in Process, AnswerFromCache(p) PROVE TypeInv'
    <3>1. cache[p][op[p].key] \in Nat
      BY DEF TypeInv, TypeOK, Operation
    <3>2. seen' \in [Process -> [Key -> Nat]]
      BY <2>9, <3>1, AnswerType DEF TypeInv, AnswerFromCache
    <3> QED
      BY <2>9, <3>2, DoneType DEF Done, AnswerFromCache, Answer, TypeInv, TypeOK
  <2>10. ASSUME NEW p \in Process, NEW a \in Anchor, Mint(p, a) PROVE TypeInv'
    <3>1. op' \in [Process -> Operation]
      BY <2>10 DEF Mint, TypeInv, TypeOK, Operation
    <3> QED
      BY <2>10, <3>1 DEF Mint, TypeInv, TypeOK, PC
  <2>11. ASSUME NEW p \in Process, Write(p) PROVE TypeInv'
    <3>1. [key |-> op[p].key, anchor |-> op[p].anchor,
           by |-> p, fresh |-> op[p].kind = "ensure"] \in Record
      BY <2>11 DEF Write, TypeInv, TypeOK, Operation, Record
    <3>2. log' \in Seq(Record) /\ Len(log) + 1 \in Nat
      BY <2>11, <3>1 DEF Write, TypeInv, TypeOK
    <3> QED
      BY <2>11, <3>2 DEF Write, TypeInv, TypeOK, PC
  <2>12. ASSUME NEW p \in Process, WriteFails(p) PROVE TypeInv'
    BY <2>12, DoneType DEF Done, WriteFails, TypeInv, TypeOK
  <2>13. ASSUME NEW p \in Process, Restat(p) PROVE TypeInv'
    <3>1. mine[p] \in Nat /\ op[p].key \in Key /\ Len(log) \in Nat
      BY DEF TypeInv, TypeOK, Operation
    <3>2. seen' \in [Process -> [Key -> Nat]]
      BY <2>13, <3>1, AnswerType DEF TypeInv, Restat
    <3>3. cache' \in [Process -> [Key -> Nat]]
      BY <2>13, <3>1 DEF Restat, TypeInv, TypeOK
    <3>4. lastSize' \in [Process -> Nat \cup {Unloaded}]
      BY <2>13, <3>1 DEF Restat, TypeInv, TypeOK
    <3> QED
      BY <2>13, <3>2, <3>3, <3>4, DoneType
         DEF Done, Restat, Answer, Basis, TypeInv, TypeOK
  <2>14. ASSUME NEW p \in Process, Crash(p) PROVE TypeInv'
    <3>1. /\ cache' \in [Process -> [Key -> Nat]]
          /\ lastSize' \in [Process -> Nat \cup {Unloaded}]
          /\ basis' \in [Process -> Basis]
      BY <2>6, <2>14 DEF Crash, Basis, TypeInv, TypeOK
    <3>2. TypeOK'
      <4>1. crashes' \in Nat
        BY <2>14 DEF Crash, TypeInv, TypeOK
      <4> QED
        BY <2>14, <3>1, <4>1, DoneType DEF Crash, TypeInv, TypeOK
    <3> QED
      BY <2>14, <3>2 DEF Crash, Done, TypeInv, TypeOK
  <2>15. ASSUME NEW p \in Process, StatFails(p) PROVE TypeInv'
    <3>1. cache' \in [Process -> [Key -> Nat]] /\ faults' \in Nat
      BY <2>6, <2>15 DEF StatFails, TypeInv, TypeOK
    <3>2. lastSize' \in [Process -> Nat \cup {Unloaded}] /\ basis' \in [Process -> Basis]
      BY <2>15 DEF StatFails, Basis, TypeInv, TypeOK
    <3> QED
      BY <2>15, <3>1, <3>2 DEF StatFails, Loaded, TypeInv, TypeOK, PC
  <2>16. ASSUME NEW p \in Process, RestatFails(p) PROVE TypeInv'
    <3>1. mine[p] \in Nat /\ op[p].key \in Key /\ faults' \in Nat
      BY <2>16 DEF RestatFails, TypeInv, TypeOK, Operation
    <3>2. seen' \in [Process -> [Key -> Nat]]
      BY <2>16, <3>1, AnswerType DEF TypeInv, RestatFails
    <3>3. cache' \in [Process -> [Key -> Nat]] /\ basis' \in [Process -> Basis]
      BY <2>16, <3>1 DEF RestatFails, Basis, TypeInv, TypeOK
    <3> QED
      BY <2>16, <3>1, <3>2, <3>3, DoneType
         DEF Done, RestatFails, Answer, TypeInv, TypeOK
  <2>17. CASE UNCHANGED vars
    BY <2>17 DEF TypeInv, TypeOK, vars
  <2> QED
    BY <2>1, <2>2, <2>3, <2>4, <2>7, <2>8, <2>9, <2>10, <2>11, <2>12, <2>13,
       <2>14, <2>15, <2>16, <2>17 DEF Next
<1> QED
  BY <1>1, <1>2, PTL DEF Spec

\* Every state of the alias log and its copies is well typed.
THEOREM AliasTypeCorrect == Spec => []TypeOK
<1>1. TypeInv => TypeOK
  BY DEF TypeInv
<1> QED
  BY <1>1, TypeInductive, PTL

-----------------------------------------------------------------------------
(***************************************************************************)
(* Copies hold what is in the file                                         *)
(***************************************************************************)

\* A step that does not write leaves what the file says as it was.
LEMMA SameLog ==
    ASSUME UNCHANGED log
    PROVE  /\ \A k, n : Places(k, n)' = Places(k, n) /\ Latest(k, n)' = Latest(k, n)
           /\ Len(log') = Len(log)
BY DEF Places, Latest

\* A write adds the place of its record to those of its key.
LEMMA WriteGrows ==
    ASSUME TypeInv, NEW p \in Process, Write(p)
    PROVE  /\ Len(log') = Len(log) + 1
           /\ \A k \in Key : Places(k, Len(log)) \subseteq Places(k, Len(log))'
           /\ UNCHANGED op /\ mine'[p] \in Places(op[p].key, Len(log))'
           /\ \A k \in Key : \A n \in 0..Len(log) :
                  Places(k, n)' = Places(k, n) /\ Latest(k, n)' = Latest(k, n)
           /\ \A i \in 1..Len(log) : log'[i] = log[i]
           /\ log'[Len(log) + 1].key = op[p].key
           /\ log'[Len(log) + 1].by = p
           /\ log'[Len(log) + 1].fresh <=> op[p].kind = "ensure"
<1> DEFINE r == [key |-> op[p].key, anchor |-> op[p].anchor,
                 by |-> p, fresh |-> op[p].kind = "ensure"]
<1>1. r \in Record /\ log \in Seq(Record) /\ Len(log) \in Nat
  BY DEF Write, TypeInv, TypeOK, Operation, Record
<1>2. log' = Append(log, r) /\ mine'[p] = Len(log) + 1 /\ UNCHANGED op
  BY DEF Write, TypeInv, TypeOK
<1>3. /\ Len(log') = Len(log) + 1
      /\ \A i \in 1..Len(log) : log'[i] = log[i]
      /\ log'[Len(log) + 1] = r
      /\ r.key = op[p].key
  BY <1>1, <1>2
<1>4. \A k \in Key : Places(k, Len(log)) \subseteq Places(k, Len(log))'
  BY <1>1, <1>3 DEF Places
<1>5. mine'[p] \in Places(op[p].key, Len(log))'
  <2> HIDE DEF r
  <2> QED
    BY <1>1, <1>2, <1>3 DEF Places
<1>6. \A k \in Key : \A n \in 0..Len(log) :
          Places(k, n)' = Places(k, n) /\ Latest(k, n)' = Latest(k, n)
  <2> HIDE DEF r
  <2> QED
    BY <1>1, <1>2, AppendKeeps
<1>7. r.by = p /\ (r.fresh <=> op[p].kind = "ensure")
  OBVIOUS
<1> HIDE DEF r
<1> QED
  BY <1>2, <1>3, <1>4, <1>5, <1>6, <1>7

\* The strengthening of CacheFromLog: what an operation is about to put into
\* its copy is in the file as well.
CacheInv ==
    /\ \A p \in Process, k \in Key : cache[p][k] \in Places(k, Len(log))
    /\ \A p \in Process :
        /\ mine[p] # 0 => mine[p] \in Places(op[p].key, Len(log))
        /\ pc[p] = "restat" => mine[p] # 0
        /\ pc[p] = "idle" => mine[p] = 0

\* Every step keeps the copies within the file.
LEMMA CacheStep ==
    ASSUME TypeInv, CacheInv, [Next]_vars
    PROVE  CacheInv'
<1>0. Len(log) \in Nat /\ \A k \in Key : 0 \in Places(k, Len(log))
  BY DEF TypeInv, TypeOK, Places
<1>1. ASSUME NEW p \in Process, NEW o \in Operation, NEW at \in PC \ {"idle", "restat"},
             Begin(p, o, at)
      PROVE  CacheInv'
  BY <1>0, <1>1, SameLog DEF Begin, CacheInv, TypeInv, TypeOK
<1>2. ASSUME NEW p \in Process, NEW k \in Key, StartResolve(p, k) \/ StartEnsure(p, k)
      PROVE  CacheInv'
  BY <1>1, <1>2 DEF StartResolve, StartEnsure, Resolve, Ensure, Operation, PC
<1>3. ASSUME NEW p \in Process, NEW k \in Key, NEW a \in Anchor, StartAppend(p, k, a)
      PROVE  CacheInv'
  BY <1>1, <1>3 DEF StartAppend, AppendAlias, Operation, PC
<1>4. ASSUME NEW p \in Process, Stat(p) PROVE CacheInv'
  BY <1>0, <1>4, SameLog DEF Stat, Loaded, CacheInv, TypeInv, TypeOK
<1>5. ASSUME NEW p \in Process, NEW copy \in [Key -> Nat], NEW from,
             Rebuild(p, copy, from),
             \A k \in Key : copy[k] \in Places(k, Len(log))
      PROVE  CacheInv'
  BY <1>0, <1>5, SameLog DEF Rebuild, Loaded, CacheInv, TypeInv, TypeOK
<1>6. ASSUME NEW p \in Process, Read(p) \/ ReadFails(p) PROVE CacheInv'
  <2>1. Replay(Len(log)) \in [Key -> Nat] /\ Empty \in [Key -> Nat]
    BY <1>0, ReplayType DEF Empty
  <2>2. \A k \in Key : /\ Replay(Len(log))[k] \in Places(k, Len(log))
                       /\ Empty[k] \in Places(k, Len(log))
    BY <1>0, LatestIsNewest DEF Replay, Empty
  <2> QED
    BY <1>5, <1>6, <2>1, <2>2 DEF Read, ReadFails
<1>7. ASSUME NEW p \in Process, Done(p), UNCHANGED log,
             \A k \in Key : cache'[p][k] \in Places(k, Len(log)),
             \A q \in Process : q # p => cache'[q] = cache[q]
      PROVE  CacheInv'
  BY <1>0, <1>7, SameLog DEF Done, CacheInv, TypeInv, TypeOK
<1>8. ASSUME NEW p \in Process, AnswerFromCache(p) \/ WriteFails(p) PROVE CacheInv'
  BY <1>7, <1>8 DEF AnswerFromCache, WriteFails, Answer, CacheInv
<1>9. ASSUME NEW p \in Process, NEW a \in Anchor, Mint(p, a) PROVE CacheInv'
  <2>1. \A q \in Process : op'[q].key = op[q].key
    BY <1>9 DEF Mint, TypeInv, TypeOK, Operation
  <2> QED
    BY <1>0, <1>9, <2>1, SameLog DEF Mint, CacheInv, TypeInv, TypeOK, Operation
<1>10. ASSUME NEW p \in Process, Write(p) PROVE CacheInv'
  <2>1. /\ \A k \in Key : Places(k, Len(log)) \subseteq Places(k, Len(log))'
        /\ mine'[p] \in Places(op[p].key, Len(log))'
    BY <1>10, WriteGrows
  <2>2. \A q \in Process : op[q].key \in Key
    BY DEF TypeInv, TypeOK, Operation
  <2>3. mine'[p] # 0 /\ UNCHANGED <<cache, op>>
    BY <1>0, <1>10 DEF Write, TypeInv, TypeOK
  <2> QED
    BY <1>10, <2>1, <2>2, <2>3 DEF Write, CacheInv, TypeInv, TypeOK
<1>11. ASSUME NEW p \in Process, Restat(p) PROVE CacheInv'
  <2>1. \A k \in Key : cache'[p][k] \in Places(k, Len(log))
    BY <1>11 DEF Restat, CacheInv, TypeInv, TypeOK
  <2> QED
    BY <1>7, <1>11, <2>1 DEF Restat, Answer, TypeInv, TypeOK
<1>12. ASSUME NEW p \in Process, Crash(p) PROVE CacheInv'
  <2>1. \A k \in Key : cache'[p][k] \in Places(k, Len(log))
    BY <1>0, <1>12 DEF Crash, Empty, TypeInv, TypeOK
  <2> QED
    BY <1>7, <1>12, <2>1 DEF Crash, TypeInv, TypeOK
<1>13. ASSUME NEW p \in Process, StatFails(p) PROVE CacheInv'
  <2>1. \A k \in Key : cache'[p][k] \in Places(k, Len(log))
    BY <1>0, <1>13 DEF StatFails, Empty, CacheInv, TypeInv, TypeOK
  <2> QED
    BY <1>0, <1>13, <2>1, SameLog DEF StatFails, Loaded, CacheInv, TypeInv, TypeOK
<1>14. ASSUME NEW p \in Process, RestatFails(p) PROVE CacheInv'
  <2>1. \A k \in Key : cache'[p][k] \in Places(k, Len(log))
    BY <1>14 DEF RestatFails, CacheInv, TypeInv, TypeOK
  <2> QED
    BY <1>7, <1>14, <2>1 DEF RestatFails, Answer, TypeInv, TypeOK
<1>15. CASE UNCHANGED vars
  BY <1>0, <1>15, SameLog DEF CacheInv, vars, TypeInv, TypeOK
<1> QED
  BY <1>2, <1>3, <1>4, <1>6, <1>8, <1>9, <1>10, <1>11, <1>12, <1>13, <1>14,
     <1>15 DEF Next

\* Copies hold nothing that is not in the file.
LEMMA CacheInductive == Spec => []CacheInv
<1>1. Init => CacheInv
  BY DEF Init, CacheInv, Empty, Places
<1> QED
  BY <1>1, CacheStep, TypeInductive, PTL DEF Spec

\* A copy holds only bindings that are in the file, for their own key: for
\* every number of processes, whatever crashes or reads fail.
THEOREM CopiesComeFromTheLog == Spec => []CacheFromLog
<1>1. CacheInv => CacheFromLog
  BY DEF CacheInv, CacheFromLog
<1> QED
  BY <1>1, CacheInductive, PTL

-----------------------------------------------------------------------------
(***************************************************************************)
(* No answer is taken back                                                 *)
(***************************************************************************)

\* A loaded copy is at least as new as every answer given from it, and what an
\* operation has written is newer than all of them.
MonoInv ==
    faults = 0 =>
        \A p \in Process :
            /\ \A k \in Key : seen[p][k] \in Places(k, Len(log))
            /\ lastSize[p] # Unloaded => \A k \in Key : seen[p][k] <= cache[p][k]
            /\ pc[p] \in {"decide", "restat"} => lastSize[p] # Unloaded
            /\ pc[p] = "read" => \A k \in Key : seen[p][k] <= size[p]
            /\ mine[p] # 0 => \A k \in Key : seen[p][k] < mine[p]

NotOlder ==
    faults' = 0 => \A p \in Process, k \in Key : seen'[p][k] >= seen[p][k]

\* Every step keeps MonoInv and takes no answer back.
LEMMA MonoStep ==
    ASSUME TypeInv, CacheInv, MonoInv, [Next]_vars
    PROVE  MonoInv' /\ NotOlder
<1> USE DEF Unloaded
<1>0. /\ Len(log) \in Nat
      /\ \A k \in Key : Places(k, Len(log)) \subseteq 0..Len(log)
      /\ \A q \in Process : op[q].key \in Key
      /\ \A q \in Process, k \in Key : seen[q][k] \in Nat /\ cache[q][k] \in Nat
  BY DEF TypeInv, TypeOK, Places, Operation
<1>1. ASSUME NEW p, NEW o, NEW at \in {"stat", "write"}, Begin(p, o, at)
      PROVE  MonoInv' /\ NotOlder
  BY <1>0, <1>1, SameLog DEF Begin, MonoInv, NotOlder, TypeInv, TypeOK
<1>2. ASSUME NEW p, NEW k, NEW a, StartResolve(p, k) \/ StartEnsure(p, k) \/ StartAppend(p, k, a)
      PROVE  MonoInv' /\ NotOlder
  BY <1>1, <1>2 DEF StartResolve, StartEnsure, StartAppend
<1>3. ASSUME NEW p \in Process, Stat(p) PROVE MonoInv' /\ NotOlder
  <2>1. /\ UNCHANGED <<log, cache, lastSize, seen, mine, faults>>
        /\ \A q \in Process : q # p => pc'[q] = pc[q] /\ size'[q] = size[q]
    BY <1>3 DEF Stat, TypeInv, TypeOK
  <2>2. \/ /\ pc'[p] \in {"decide", "restat"}
           /\ lastSize[p] = Len(log)
        \/ /\ pc'[p] = "read"
           /\ size'[p] = Len(log)
    BY <1>3 DEF Stat, Loaded, TypeInv, TypeOK
  <2>3. Len(log) # Unloaded
    BY <1>0
  <2>4. faults = 0 => \A k \in Key : seen[p][k] <= Len(log)
    BY <1>0 DEF MonoInv
  <2>5. NotOlder
    BY <1>0, <2>1 DEF NotOlder
  <2>6. MonoInv'
    BY <1>0, <2>1, <2>2, <2>3, <2>4, SameLog DEF MonoInv
  <2> QED
    BY <2>5, <2>6
<1>4. ASSUME NEW p \in Process, Read(p) PROVE MonoInv' /\ NotOlder
  <2> DEFINE copy == IF size[p] = 0 THEN Empty ELSE Replay(Len(log))
  <2>1. ASSUME faults = 0, NEW k \in Key PROVE seen[p][k] <= copy[k]
    <3>1. CASE size[p] = 0
      BY <1>0, <1>4, <2>1, <3>1 DEF Read, Rebuild, MonoInv, Empty
    <3>2. CASE size[p] # 0
      BY <1>0, <2>1, <3>2, LatestIsNewest DEF MonoInv, Replay
    <3> QED
      BY <3>1, <3>2
  <2>2. Rebuild(p, copy, "file") /\ UNCHANGED faults
    BY <1>4 DEF Read
  <2> HIDE DEF copy
  <2>3. cache' = [cache EXCEPT ![p] = copy] /\ lastSize' = [lastSize EXCEPT ![p] = size[p]]
    BY <2>2 DEF Rebuild
  <2>4. size[p] # Unloaded
    BY DEF TypeInv, TypeOK
  <2> QED
    BY SMTT(60), <1>0, <2>1, <2>2, <2>3, <2>4, SameLog
       DEF Rebuild, Loaded, MonoInv, NotOlder, TypeInv, TypeOK
<1>5. ASSUME NEW p \in Process, ReadFails(p) PROVE MonoInv' /\ NotOlder
  BY <1>5 DEF ReadFails, MonoInv, NotOlder, TypeInv, TypeOK
<1>6. ASSUME NEW p \in Process, AnswerFromCache(p) PROVE MonoInv' /\ NotOlder
  <2> DEFINE i == cache[p][op[p].key]
  <2>1. /\ seen' = [seen EXCEPT ![p] = [seen[p] EXCEPT ![op[p].key] = i]]
        /\ UNCHANGED <<log, cache, lastSize, faults>>
        /\ Done(p)
    BY <1>6 DEF AnswerFromCache, Answer
  <2>2. i \in Places(op[p].key, Len(log))
    BY <1>0 DEF CacheInv
  <2>3. faults = 0 => seen[p][op[p].key] <= i
    BY <1>0, <1>6 DEF AnswerFromCache, MonoInv
  <2>4. \A k \in Key : seen'[p][k] = IF k = op[p].key THEN i ELSE seen[p][k]
    BY <1>0, <2>1 DEF TypeInv, TypeOK
  <2>5. \A q \in Process : q # p => seen'[q] = seen[q]
    BY <2>1 DEF TypeInv, TypeOK
  <2>6. i \in Nat /\ \A k \in Key : k = op[p].key => i = cache[p][k]
    BY <1>0
  <2> HIDE DEF i
  <2>7. NotOlder
    BY <1>0, <2>1, <2>3, <2>4, <2>5, <2>6 DEF NotOlder
  <2>8. MonoInv'
    BY SMTT(60), <1>0, <2>1, <2>2, <2>3, <2>4, <2>5, <2>6, SameLog DEF Done, MonoInv, TypeInv, TypeOK
  <2> QED
    BY <2>7, <2>8
<1>7. ASSUME NEW p \in Process, NEW a, Mint(p, a) PROVE MonoInv' /\ NotOlder
  BY SMTT(60), <1>0, <1>7, SameLog DEF Mint, MonoInv, NotOlder, TypeInv, TypeOK
<1>8. ASSUME NEW p \in Process, Write(p) PROVE MonoInv' /\ NotOlder
  <2>1. \A k \in Key : Places(k, Len(log)) \subseteq Places(k, Len(log))'
    BY <1>8, WriteGrows
  <2>2. mine' = [mine EXCEPT ![p] = Len(log) + 1]
    BY <1>8 DEF Write
  <2>3. faults = 0 => \A q \in Process, k \in Key : seen[q][k] < Len(log) + 1
    BY <1>0 DEF MonoInv
  <2>4. seen' = seen /\ cache' = cache /\ lastSize' = lastSize /\ faults' = faults
    BY <1>8 DEF Write
  <2>5. NotOlder
    BY <1>0, <2>4 DEF NotOlder
  <2>6. \A q \in Process : q # p => mine'[q] = mine[q] /\ pc'[q] = pc[q] /\ size'[q] = size[q]
    BY <1>8 DEF Write, TypeInv, TypeOK
  <2>7. pc'[p] = "stat"
    BY <1>8 DEF Write, TypeInv, TypeOK
  <2>8. mine'[p] = Len(log) + 1
    BY <2>2 DEF TypeInv, TypeOK
  <2>9. MonoInv'
    BY SMTT(60), <1>0, <2>1, <2>3, <2>4, <2>6, <2>7, <2>8 DEF MonoInv
  <2> QED
    BY <2>5, <2>9
<1>9. ASSUME NEW p \in Process, WriteFails(p) PROVE MonoInv' /\ NotOlder
  BY <1>0, <1>9, SameLog DEF WriteFails, Done, MonoInv, NotOlder, TypeInv, TypeOK
<1>10. ASSUME NEW p \in Process, Restat(p) PROVE MonoInv' /\ NotOlder
  <2>1. /\ \A q \in Process : q # p => seen'[q] = seen[q] /\ cache'[q] = cache[q]
        /\ \A k \in Key : seen'[p][k] = IF k = op[p].key THEN mine[p] ELSE seen[p][k]
        /\ \A k \in Key : cache'[p][k] = IF k = op[p].key THEN mine[p] ELSE cache[p][k]
    BY <1>0, <1>10 DEF Restat, Answer, TypeInv, TypeOK
  <2>2. mine[p] # 0 /\ mine[p] \in Places(op[p].key, Len(log)) /\ mine[p] \in Nat
    BY <1>10 DEF Restat, CacheInv, TypeInv, TypeOK
  <2>3. faults = 0 => /\ \A k \in Key : seen[p][k] <= cache[p][k]
                      /\ \A k \in Key : seen[p][k] < mine[p]
    BY <1>10, <2>2 DEF Restat, MonoInv
  <2>4. NotOlder
    BY <1>0, <1>10, <2>1, <2>2, <2>3 DEF Restat, NotOlder
  <2>5. MonoInv'
    BY <1>0, <1>10, <2>1, <2>2, <2>3, SameLog
       DEF Restat, Answer, Done, MonoInv, TypeInv, TypeOK
  <2> QED
    BY <2>4, <2>5
<1>11. ASSUME NEW p \in Process, Crash(p) PROVE MonoInv' /\ NotOlder
  <2>1. \A q \in Process : q # p => cache'[q] = cache[q] /\ lastSize'[q] = lastSize[q]
    BY <1>11 DEF Crash, TypeInv, TypeOK
  <2>2. lastSize'[p] = Unloaded
    BY <1>11 DEF Crash, TypeInv, TypeOK
  <2> QED
    BY <1>0, <1>11, <2>1, <2>2, SameLog DEF Crash, Done, MonoInv, NotOlder, TypeInv, TypeOK
<1>12. ASSUME NEW p \in Process, StatFails(p) \/ RestatFails(p)
       PROVE  MonoInv' /\ NotOlder
  BY <1>12 DEF StatFails, RestatFails, MonoInv, NotOlder, TypeInv, TypeOK
<1>13. CASE UNCHANGED vars
  BY <1>0, <1>13, SameLog DEF MonoInv, NotOlder, vars
<1> QED
  BY <1>2, <1>3, <1>4, <1>5, <1>6, <1>7, <1>8, <1>9, <1>10, <1>11, <1>12, <1>13
     DEF Next

\* MonoInv holds in every state.
LEMMA MonoInductive == Spec => []MonoInv
<1>1. Init => MonoInv
  <2> SUFFICES ASSUME Init PROVE MonoInv
    OBVIOUS
  <2>1. \A p \in Process, k \in Key : seen[p][k] = 0 /\ 0 \in Places(k, Len(log))
    BY DEF Init, Empty, Places
  <2>2. \A p \in Process : lastSize[p] = Unloaded /\ pc[p] = "idle" /\ mine[p] = 0
    BY DEF Init
  <2> QED
    BY <2>1, <2>2 DEF MonoInv
<1>2. TypeInv /\ CacheInv /\ MonoInv /\ [Next]_vars => MonoInv'
  BY MonoStep
<1> QED
  BY <1>1, <1>2, TypeInductive, CacheInductive, PTL DEF Spec

\* No process is answered from an older binding than it was before, unless a
\* stat or a read has failed: for every number of writers and whatever crashes.
THEOREM AnswersAreMonotonic == Spec => MonotonicAnswers
<1>1. TypeInv /\ CacheInv /\ MonoInv /\ [Next]_vars => [NotOlder]_vars
  BY MonoStep
<1>2. Spec => [][NotOlder]_vars
  BY <1>1, TypeInductive, CacheInductive, MonoInductive, PTL DEF Spec
<1> QED
  BY <1>2 DEF MonotonicAnswers, NotOlder

-----------------------------------------------------------------------------
(***************************************************************************)
(* Look-ups that rest on the file                                          *)
(***************************************************************************)

\* What holds of process p while its copy rests on the file: the copy is at
\* least as new as the size it is filed under, the size a load took is not
\* before the look-up's beginning, and at the decision the copy has what the
\* file had at the beginning.
FreshAt(p) ==
    /\ start[p] <= Len(log)
    /\ pc[p] = "read" => start[p] <= size[p] /\ size[p] <= Len(log)
    /\ basis[p] = "file" =>
          /\ lastSize[p] # Unloaded =>
                /\ lastSize[p] <= Len(log)
                /\ \A k \in Key : Latest(k, lastSize[p]) <= cache[p][k]
          /\ pc[p] = "decide" => \A k \in Key : Latest(k, start[p]) <= cache[p][k]

FreshInv == \A p \in Process : FreshAt(p)

\* A step that changes neither the file nor q's variables keeps FreshAt(q).
LEMMA FreshFrame ==
    ASSUME NEW q, FreshAt(q), UNCHANGED log,
           cache'[q] = cache[q], lastSize'[q] = lastSize[q], pc'[q] = pc[q],
           size'[q] = size[q], start'[q] = start[q], basis'[q] = basis[q]
    PROVE  FreshAt(q)'
BY SameLog DEF FreshAt

\* Every step keeps FreshInv, of however many writers.
LEMMA FreshStep ==
    ASSUME TypeInv, FreshInv, [Next]_vars
    PROVE  FreshInv'
<1>0. /\ Len(log) \in Nat
      /\ \A k \in Key, n \in Nat : Latest(k, n) \in 0..n
      /\ \A q \in Process : /\ start[q] \in Nat /\ size[q] \in Nat
                            /\ lastSize[q] \in Nat \cup {Unloaded}
      /\ \A q \in Process, k \in Key : cache[q][k] \in Nat
      /\ \A n \in Nat : n # Unloaded
  BY LatestIsNewest DEF TypeInv, TypeOK, Places, Unloaded
<1>1. ASSUME NEW p \in Process, NEW o, NEW at \in {"stat", "write"}, Begin(p, o, at)
      PROVE  FreshInv'
  <2>1. ASSUME NEW q \in Process, q # p PROVE FreshAt(q)'
    BY <1>1, <2>1, FreshFrame DEF Begin, FreshInv, TypeInv, TypeOK
  <2>2. /\ start'[p] \in {0, Len(log)} /\ pc'[p] = at
        /\ UNCHANGED <<log, cache, lastSize, basis>>
    BY <1>1 DEF Begin, TypeInv, TypeOK
  <2>3. FreshAt(p)'
    BY <1>0, <1>1, <2>2, SameLog DEF FreshInv, FreshAt
  <2> QED
    BY <2>1, <2>3 DEF FreshInv
<1>2. ASSUME NEW p \in Process, NEW k, NEW a,
             StartResolve(p, k) \/ StartEnsure(p, k) \/ StartAppend(p, k, a)
      PROVE  FreshInv'
  BY <1>1, <1>2 DEF StartResolve, StartEnsure, StartAppend
<1>3. ASSUME NEW p \in Process, Stat(p) PROVE FreshInv'
  <2>1. ASSUME NEW q \in Process, q # p PROVE FreshAt(q)'
    BY <1>3, <2>1, FreshFrame DEF Stat, FreshInv, TypeInv, TypeOK
  <2>2. /\ \/ lastSize[p] = Len(log) /\ pc'[p] \in {"decide", "restat"}
           \/ size'[p] = Len(log) /\ pc'[p] = "read"
        /\ UNCHANGED <<log, cache, lastSize, start, basis>>
    BY <1>3 DEF Stat, Loaded, TypeInv, TypeOK
  <2>3. FreshAt(p)
    BY DEF FreshInv
  <2>4. ASSUME Len(log) = lastSize[p], basis[p] = "file", NEW k \in Key
        PROVE  Latest(k, start[p]) <= cache[p][k]
    <3>1. Latest(k, Len(log)) <= cache[p][k] /\ start[p] <= Len(log)
      BY <1>0, <2>3, <2>4 DEF FreshAt
    <3>2. Latest(k, start[p]) <= Latest(k, Len(log))
      BY <1>0, <3>1, LatestGrows
    <3>3. Latest(k, start[p]) \in Int /\ Latest(k, Len(log)) \in Int /\ cache[p][k] \in Int
      BY <1>0
    <3> QED
      BY <3>1, <3>2, <3>3
  <2>5. FreshAt(p)'
    BY <1>0, <2>2, <2>3, <2>4, SameLog DEF FreshAt
  <2> QED
    BY <2>1, <2>5 DEF FreshInv
<1>4. ASSUME NEW p \in Process, Read(p) PROVE FreshInv'
  <2> DEFINE copy == IF size[p] = 0 THEN Empty ELSE Replay(Len(log))
  <2>1. ASSUME NEW q \in Process, q # p PROVE FreshAt(q)'
    BY <1>4, <2>1, FreshFrame DEF Read, Rebuild, FreshInv, TypeInv, TypeOK
  <2>2. /\ pc[p] = "read" /\ cache'[p] = copy
        /\ lastSize'[p] = size[p] /\ pc'[p] \in {"decide", "restat"}
        /\ UNCHANGED <<log, start>>
    BY <1>4 DEF Read, Rebuild, Loaded, TypeInv, TypeOK
  <2>3. start[p] <= size[p] /\ size[p] <= Len(log)
    BY <2>2 DEF FreshInv, FreshAt
  <2>4. ASSUME NEW k \in Key, NEW n \in Nat, n <= size[p]
        PROVE  Latest(k, n) <= copy[k]
    <3>1. CASE size[p] = 0
      <4>1. Latest(k, n) = 0 /\ copy[k] = 0
        BY <1>0, <2>4, <3>1 DEF Empty
      <4> QED
        BY <4>1
    <3>2. CASE size[p] # 0
      <4>1. copy[k] = Latest(k, Len(log)) /\ n <= Len(log)
        BY <1>0, <2>3, <2>4, <3>2 DEF Replay
      <4> HIDE DEF copy
      <4> QED
        BY <1>0, <4>1, LatestGrows
    <3> QED
      BY <3>1, <3>2
  <2> HIDE DEF copy
  <2>5. FreshAt(p)'
    BY <1>0, <2>2, <2>3, <2>4, SameLog DEF FreshInv, FreshAt
  <2> QED
    BY <2>1, <2>5 DEF FreshInv
<1>5. ASSUME NEW p \in Process, UNCHANGED log,
             \A q \in Process : q # p =>
                 /\ cache'[q] = cache[q] /\ lastSize'[q] = lastSize[q]
                 /\ pc'[q] = pc[q] /\ size'[q] = size[q]
                 /\ start'[q] = start[q] /\ basis'[q] = basis[q],
             start'[p] \in {0, start[p]}, pc'[p] # "read",
             \/ basis'[p] # "file"
             \/ pc'[p] # "decide" /\ lastSize'[p] = Unloaded
             \/ pc'[p] # "decide" /\ UNCHANGED <<cache, lastSize, basis>>
      PROVE  FreshInv'
  <2>1. ASSUME NEW q \in Process, q # p PROVE FreshAt(q)'
    BY <1>5, <2>1, FreshFrame DEF FreshInv
  <2>2. FreshAt(p)'
    BY <1>0, <1>5, SameLog DEF FreshInv, FreshAt
  <2> QED
    BY <2>1, <2>2 DEF FreshInv
<1>6. ASSUME NEW p \in Process, StatFails(p) PROVE FreshInv'
  BY <1>5, <1>6 DEF StatFails, Loaded, TypeInv, TypeOK
<1>7. ASSUME NEW p \in Process, ReadFails(p) PROVE FreshInv'
  BY <1>5, <1>7 DEF ReadFails, Rebuild, Loaded, TypeInv, TypeOK
<1>8. ASSUME NEW p \in Process, AnswerFromCache(p) \/ WriteFails(p) PROVE FreshInv'
  BY <1>5, <1>8 DEF AnswerFromCache, WriteFails, Answer, Done, TypeInv, TypeOK
<1>9. ASSUME NEW p \in Process, NEW a, Mint(p, a) PROVE FreshInv'
  BY <1>5, <1>9 DEF Mint, TypeInv, TypeOK
<1>10. ASSUME NEW p \in Process, Restat(p) \/ RestatFails(p) PROVE FreshInv'
  BY <1>5, <1>10 DEF Restat, RestatFails, Answer, Done, TypeInv, TypeOK
<1>11. ASSUME NEW p \in Process, Crash(p) PROVE FreshInv'
  BY <1>5, <1>11 DEF Crash, Done, TypeInv, TypeOK
<1>12. ASSUME NEW p \in Process, Write(p) PROVE FreshInv'
  <2>1. /\ Len(log') = Len(log) + 1
        /\ \A k \in Key : \A n \in 0..Len(log) : Latest(k, n)' = Latest(k, n)
    BY <1>12, WriteGrows
  <2>2. /\ pc'[p] = "stat" /\ \A q \in Process : q # p => pc'[q] = pc[q]
        /\ UNCHANGED <<cache, lastSize, size, start, basis>>
    BY <1>12 DEF Write, TypeInv, TypeOK
  <2>3. ASSUME NEW q \in Process PROVE FreshAt(q)'
    <3>1. FreshAt(q)
      BY DEF FreshInv
    <3>2. \A k \in Key : Latest(k, start[q])' = Latest(k, start[q])
      BY <1>0, <2>1, <2>2, <3>1 DEF FreshAt
    <3>3. lastSize[q] # Unloaded /\ lastSize[q] <= Len(log) =>
              \A k \in Key : Latest(k, lastSize[q])' = Latest(k, lastSize[q])
      BY <1>0, <2>1, <2>2
    <3> QED
      BY <1>0, <2>1, <2>2, <3>1, <3>2, <3>3 DEF FreshAt
  <2> QED
    BY <2>3 DEF FreshInv
<1>13. CASE UNCHANGED vars
  BY <1>13, FreshFrame DEF FreshInv, vars
<1> QED
  BY <1>2, <1>3, <1>4, <1>6, <1>7, <1>8, <1>9, <1>10, <1>11, <1>12, <1>13 DEF Next

\* A look-up whose copy rests on the file misses no binding that was there when
\* it began: for every number of writers, whatever crashes, stats or reads fail.
THEOREM LookupsAreFresh == Spec => []FreshAnswers
<1>1. Init => FreshInv
  BY DEF Init, FreshInv, FreshAt
<1>2. TypeInv /\ FreshInv /\ [Next]_vars => FreshInv'
  BY FreshStep
<1>3. TypeInv /\ FreshInv => FreshAnswers
  <2> SUFFICES ASSUME TypeInv, FreshInv, NEW p \in Process,
                      pc[p] = "decide", basis[p] = "file"
               PROVE  cache[p][op[p].key] >= Latest(op[p].key, start[p])
    BY DEF FreshAnswers
  <2>1. op[p].key \in Key
    BY DEF TypeInv, TypeOK, Operation
  <2> QED
    BY <2>1 DEF FreshInv, FreshAt
<1> QED
  BY <1>1, <1>2, <1>3, TypeInductive, PTL DEF Spec

-----------------------------------------------------------------------------
(***************************************************************************)
(* No process mints twice for a key                                        *)
(***************************************************************************)

\* The places of the records p has minted anchors in.
Own(p) == {i \in 1..Len(log) : log[i].by = p /\ log[i].fresh}

\* What keeps process p from minting twice, as long as no stat or read fails:
\* its loaded copy, however stale, knows each key it has minted for, unless it
\* is still in the operation that did; a load under way sees them all; and what
\* it is about to mint for is none of them.
MintAt(p) ==
    /\ lastSize[p] # Unloaded =>
          \A i \in Own(p) : i = mine[p] \/ cache[p][log[i].key] # 0
    /\ pc[p] = "read" => \A i \in Own(p) : i <= size[p]
    /\ pc[p] \in {"decide", "write"} => mine[p] = 0
    /\ pc[p] = "write" /\ op[p].kind = "ensure" =>
          \A i \in Own(p) : log[i].key # op[p].key
    /\ \A i, j \in Own(p) : log[i].key = log[j].key => i = j

MintInv == faults = 0 => \A p \in Process : MintAt(p)

\* The lines of the file are records.
LEMMA RecordTypes ==
    ASSUME TypeInv
    PROVE  \A i \in 1..Len(log) : log[i].key \in Key /\ log[i].by \in Process
<1>1. \A i \in 1..Len(log) : log[i] \in Record
  BY DEF TypeInv, TypeOK
<1>2. \A r \in Record : r.key \in Key /\ r.by \in Process
  BY Zenon DEF Record
<1> QED
  BY <1>1, <1>2

\* A step that changes neither the file nor q's variables keeps MintAt(q).
LEMMA MintFrame ==
    ASSUME NEW q, MintAt(q), UNCHANGED log,
           cache'[q] = cache[q], lastSize'[q] = lastSize[q], pc'[q] = pc[q],
           op'[q] = op[q], size'[q] = size[q], mine'[q] = mine[q]
    PROVE  MintAt(q)'
BY DEF MintAt, Own

\* Every step that leaves the file alone keeps MintInv.
LEMMA MintQuiet ==
    ASSUME TypeInv, CacheInv, MonoInv, MintInv, faults' = 0, faults = 0,
           UNCHANGED log, [Next]_vars
    PROVE  MintInv'
<1>0. /\ Len(log) \in Nat
      /\ \A q \in Process : /\ op[q].key \in Key
                            /\ mine[q] \in Nat /\ size[q] \in Nat
                            /\ lastSize[q] \in Nat \cup {Unloaded}
      /\ \A q \in Process, k \in Key : cache[q][k] \in Nat
      /\ \A q : Own(q) \subseteq 1..Len(log) /\ \A i \in Own(q) : log[i].key \in Key
      /\ \A q : Own(q)' = Own(q)
      /\ \A n \in Nat : n # Unloaded
  <2>1. \A i \in 1..Len(log) : log[i].key \in Key
    BY RecordTypes
  <2> QED
    BY <2>1 DEF Own, TypeInv, TypeOK, Operation, Unloaded
<1>1. \A q \in Process : MintAt(q)
  BY DEF MintInv
<1>2. ASSUME NEW p \in Process, NEW o, NEW at \in {"stat", "write"}, Begin(p, o, at),
             at = "write" => o.kind = "append"
      PROVE  MintInv'
  <2>1. ASSUME NEW q \in Process, q # p PROVE MintAt(q)'
    BY <1>1, <1>2, <2>1, MintFrame DEF Begin, TypeInv, TypeOK
  <2>2. /\ pc'[p] = at /\ op'[p] = o /\ mine'[p] = 0 /\ mine[p] = 0
        /\ UNCHANGED <<log, cache, lastSize>>
    BY <1>2 DEF Begin, CacheInv, TypeInv, TypeOK
  <2>3. at # "read" /\ at # "decide" /\ "append" # "ensure"
    OBVIOUS
  <2>4. MintAt(p)'
    BY <1>0, <1>1, <1>2, <2>2, <2>3 DEF MintAt
  <2> QED
    BY <2>1, <2>4 DEF MintInv
<1>3. ASSUME NEW p \in Process, NEW k, NEW a,
             StartResolve(p, k) \/ StartEnsure(p, k) \/ StartAppend(p, k, a)
      PROVE  MintInv'
  BY <1>2, <1>3 DEF StartResolve, StartEnsure, StartAppend, AppendAlias
<1>4. ASSUME NEW p \in Process, Stat(p) PROVE MintInv'
  <2>1. ASSUME NEW q \in Process, q # p PROVE MintAt(q)'
    BY <1>1, <1>4, <2>1, MintFrame DEF Stat, TypeInv, TypeOK
  <2>2. /\ \/ pc'[p] = Loaded(p)
           \/ size'[p] = Len(log) /\ pc'[p] = "read"
        /\ UNCHANGED <<log, cache, lastSize, op, mine>>
    BY <1>4 DEF Stat, TypeInv, TypeOK
  <2>3. MintAt(p)'
    BY <1>0, <1>1, <2>2 DEF MintAt, Loaded
  <2> QED
    BY <2>1, <2>3 DEF MintInv
<1>5. ASSUME NEW p \in Process, Read(p) PROVE MintInv'
  <2> DEFINE copy == IF size[p] = 0 THEN Empty ELSE Replay(Len(log))
  <2>1. ASSUME NEW q \in Process, q # p PROVE MintAt(q)'
    BY <1>1, <1>5, <2>1, MintFrame DEF Read, Rebuild, TypeInv, TypeOK
  <2>2. /\ pc[p] = "read" /\ cache'[p] = copy /\ pc'[p] = Loaded(p)
        /\ UNCHANGED <<log, op, mine>>
    BY <1>5 DEF Read, Rebuild, TypeInv, TypeOK
  <2>3. ASSUME NEW i \in Own(p) PROVE copy[log[i].key] # 0
    <3>1. i \in Places(log[i].key, Len(log)) /\ i > 0 /\ log[i].key \in Key
      BY <1>0, <2>3 DEF Places
    <3>2. size[p] # 0
      BY <1>0, <1>1, <2>2, <2>3, <3>1 DEF MintAt
    <3>3. copy[log[i].key] = Latest(log[i].key, Len(log))
      BY <3>1, <3>2 DEF Replay
    <3>4. /\ Latest(log[i].key, Len(log)) >= i
          /\ Latest(log[i].key, Len(log)) \in Nat
      BY <1>0, <3>1, LatestIsNewest DEF Places
    <3> HIDE DEF copy
    <3> QED
      BY <1>0, <3>1, <3>3, <3>4
  <2> HIDE DEF copy
  <2>4. MintAt(p)'
    BY <1>0, <1>1, <2>2, <2>3 DEF MintAt, Loaded
  <2> QED
    BY <2>1, <2>4 DEF MintInv
<1>6. ASSUME NEW p \in Process, Done(p),
             \A q \in Process : q # p => cache'[q] = cache[q] /\ lastSize'[q] = lastSize[q],
             lastSize'[p] # Unloaded => \A i \in Own(p) : cache'[p][log[i].key] # 0
      PROVE  MintInv'
  <2>1. ASSUME NEW q \in Process, q # p PROVE MintAt(q)'
    BY <1>1, <1>6, <2>1, MintFrame DEF Done, TypeInv, TypeOK
  <2>2. pc'[p] = "idle" /\ mine'[p] = 0
    BY <1>6 DEF Done, TypeInv, TypeOK
  <2>3. MintAt(p)'
    BY <1>0, <1>1, <1>6, <2>2 DEF MintAt
  <2> QED
    BY <2>1, <2>3 DEF MintInv
<1>7. ASSUME NEW p \in Process, AnswerFromCache(p) \/ WriteFails(p) PROVE MintInv'
  <2>1. Done(p) /\ UNCHANGED <<cache, lastSize>> /\ mine[p] = 0
    BY <1>1, <1>7 DEF AnswerFromCache, WriteFails, Answer, MintAt
  <2>2. lastSize[p] # Unloaded => \A i \in Own(p) : cache[p][log[i].key] # 0
    BY <1>0, <1>1, <2>1 DEF MintAt
  <2> QED
    BY <1>6, <2>1, <2>2
<1>8. ASSUME NEW p \in Process, NEW a, Mint(p, a) PROVE MintInv'
  <2>1. ASSUME NEW q \in Process, q # p PROVE MintAt(q)'
    BY <1>1, <1>8, <2>1, MintFrame DEF Mint, TypeInv, TypeOK
  <2>2. /\ pc[p] = "decide" /\ cache[p][op[p].key] = 0 /\ pc'[p] = "write"
        /\ op'[p].key = op[p].key
        /\ UNCHANGED <<log, cache, lastSize, mine>>
    BY <1>8 DEF Mint, TypeInv, TypeOK, Operation
  <2>3. mine[p] = 0 /\ lastSize[p] # Unloaded
    BY <1>1, <2>2 DEF MintAt, MonoInv
  <2>4. \A i \in Own(p) : log[i].key # op[p].key
    BY <1>0, <1>1, <2>2, <2>3 DEF MintAt
  <2>5. MintAt(p)'
    BY <1>0, <1>1, <2>2, <2>3, <2>4 DEF MintAt
  <2> QED
    BY <2>1, <2>5 DEF MintInv
<1>9. ASSUME NEW p \in Process, Restat(p) PROVE MintInv'
  <2>1. /\ Done(p) /\ mine[p] # 0 /\ mine[p] \in Places(op[p].key, Len(log))
        /\ \A q \in Process : q # p => cache'[q] = cache[q] /\ lastSize'[q] = lastSize[q]
        /\ \A k \in Key : cache'[p][k] = IF k = op[p].key THEN mine[p] ELSE cache[p][k]
    BY <1>0, <1>9 DEF Restat, Answer, CacheInv, TypeInv, TypeOK
  <2>2. lastSize[p] # Unloaded
    BY <1>9 DEF Restat, MonoInv
  <2>3. ASSUME NEW i \in Own(p) PROVE cache'[p][log[i].key] # 0
    <3>1. CASE i = mine[p]
      BY <1>0, <2>1, <3>1 DEF Places
    <3>2. CASE i # mine[p]
      BY <1>0, <1>1, <2>1, <2>2, <3>2 DEF MintAt
    <3> QED
      BY <3>1, <3>2
  <2> QED
    BY <1>6, <2>1, <2>3
<1>10. ASSUME NEW p \in Process, Crash(p) PROVE MintInv'
  <2>1. /\ Done(p) /\ lastSize'[p] = Unloaded
        /\ \A q \in Process : q # p => cache'[q] = cache[q] /\ lastSize'[q] = lastSize[q]
    BY <1>10 DEF Crash, TypeInv, TypeOK
  <2> QED
    BY <1>6, <2>1
<1>11. ASSUME NEW p \in Process, ReadFails(p) \/ StatFails(p) \/ RestatFails(p)
       PROVE  FALSE
  BY <1>11 DEF ReadFails, StatFails, RestatFails
<1>12. ASSUME NEW p \in Process, Write(p) PROVE FALSE
  <2>1. Len(log') = Len(log) + 1
    BY <1>12, WriteGrows
  <2> QED
    BY <1>0, <2>1
<1>13. CASE UNCHANGED vars
  BY <1>1, <1>13, MintFrame DEF MintInv, vars
<1> QED
  BY <1>3, <1>4, <1>5, <1>7, <1>8, <1>9, <1>10, <1>11, <1>12, <1>13 DEF Next

\* So does an append.
LEMMA MintWrite ==
    ASSUME TypeInv, MintInv, faults = 0, NEW p \in Process, Write(p)
    PROVE  MintInv'
<1>0. /\ Len(log) \in Nat
      /\ \A q : Own(q) \subseteq 1..Len(log)
  BY DEF Own, TypeInv, TypeOK
<1>1. /\ Len(log') = Len(log) + 1
      /\ \A i \in 1..Len(log) : log'[i] = log[i]
      /\ log'[Len(log) + 1].key = op[p].key
      /\ log'[Len(log) + 1].by = p
      /\ log'[Len(log) + 1].fresh <=> op[p].kind = "ensure"
  BY WriteGrows
<1>2. /\ pc[p] = "write" /\ pc'[p] = "stat" /\ mine'[p] = Len(log) + 1
      /\ \A q \in Process : q # p => pc'[q] = pc[q] /\ mine'[q] = mine[q]
      /\ UNCHANGED <<cache, lastSize, size, op>>
  BY DEF Write, TypeInv, TypeOK
<1>3. \A q \in Process : MintAt(q)
  BY DEF MintInv
<1>4. ASSUME NEW q \in Process, q # p PROVE MintAt(q)'
  <2>1. Own(q)' = Own(q)
    BY <1>0, <1>1, <1>4 DEF Own
  <2>2. \A i \in Own(q) : log'[i] = log[i]
    BY <1>0, <1>1
  <2> QED
    BY <1>2, <1>3, <1>4, <2>1, <2>2 DEF MintAt
<1>5. MintAt(p)'
  <2>1. /\ Own(p)' \subseteq Own(p) \cup {Len(log) + 1}
        /\ Len(log) + 1 \in Own(p)' => op[p].kind = "ensure"
    BY <1>0, <1>1 DEF Own
  <2>2. \A i \in Own(p) : log'[i] = log[i] /\ i # Len(log) + 1
    BY <1>0, <1>1
  <2>3. mine[p] = 0 /\ \A i \in Own(p) : i # 0
    BY <1>0, <1>2, <1>3 DEF MintAt
  <2>4. op[p].kind = "ensure" => \A i \in Own(p) : log[i].key # op[p].key
    BY <1>2, <1>3 DEF MintAt
  <2>5. \A i, j \in Own(p) : log[i].key = log[j].key => i = j
    BY <1>3 DEF MintAt
  <2>6. \A i, j \in Own(p)' : log'[i].key = log'[j].key => i = j
    BY <1>1, <2>1, <2>2, <2>4, <2>5
  <2>7. lastSize[p] # Unloaded =>
            \A i \in Own(p)' : i = mine'[p] \/ cache[p][log'[i].key] # 0
    BY <1>2, <1>3, <2>1, <2>2, <2>3 DEF MintAt
  <2> QED
    BY <1>2, <2>6, <2>7 DEF MintAt
<1> QED
  BY <1>4, <1>5 DEF MintInv

\* For every number of writers, wherever processes crash and appends fail: as
\* long as stats and reads succeed, a process that is told to bind a key mints
\* an anchor for it at most once.
THEOREM ProcessMintsOnce == Spec => []MintsOnce
<1>1. Init => MintInv
  BY DEF Init, MintInv, MintAt, Own
<1>2. ASSUME TypeInv, CacheInv, MonoInv, MintInv, [Next]_vars PROVE MintInv'
  <2>1. faults' = 0 => faults = 0
    <3>1. faults \in Nat
      BY <1>2 DEF TypeInv, TypeOK
    <3>2. faults' = faults \/ faults' = faults + 1
      BY <1>2 DEF Next, vars, StartResolve, StartEnsure, StartAppend, Begin, Stat, StatFails,
                  Read, ReadFails, Rebuild, AnswerFromCache, Mint, Write,
                  WriteFails, Restat, RestatFails, Crash
    <3> QED
      BY <3>1, <3>2
  <2>2. UNCHANGED log \/ \E p \in Process : Write(p)
    BY <1>2 DEF Next, vars, StartResolve, StartEnsure, StartAppend, Begin, Stat, StatFails,
                Read, ReadFails, Rebuild, AnswerFromCache, Mint,
                WriteFails, Restat, RestatFails, Crash
  <2>3. CASE faults' # 0
    BY <2>3 DEF MintInv
  <2>4. CASE faults' = 0 /\ UNCHANGED log
    BY <1>2, <2>1, <2>4, MintQuiet
  <2>5. CASE faults' = 0 /\ \E p \in Process : Write(p)
    BY <1>2, <2>1, <2>5, MintWrite
  <2> QED
    BY <2>2, <2>3, <2>4, <2>5
<1>3. TypeInv /\ MintInv => MintsOnce
  <2> SUFFICES ASSUME TypeInv, MintInv, faults = 0,
                      NEW i \in 1..Len(log), NEW j \in 1..Len(log),
                      log[i].fresh, log[j].fresh, log[i].by = log[j].by,
                      log[i].key = log[j].key
               PROVE  i = j
    BY DEF MintsOnce
  <2>1. log[i].by \in Process
    BY RecordTypes
  <2>2. i \in Own(log[i].by) /\ j \in Own(log[i].by)
    BY DEF Own
  <2> QED
    BY <2>1, <2>2 DEF MintInv, MintAt
<1> QED
  BY <1>1, <1>2, <1>3, TypeInductive, CacheInductive, MonoInductive, PTL DEF Spec

=============================================================================
