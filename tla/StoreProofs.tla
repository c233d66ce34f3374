---------------------------- MODULE StoreProofs ----------------------------
(***************************************************************************)
(* Proofs about Store, for any number of processes, keys, values and       *)
(* counters, any map of keys to counters and any set of failures:          *)
(*   TypeCorrect  the state is well typed, counters are even outside a lock *)
(*   Coherent     a cache hit is the value in the segment                   *)
(*   Unstranded   no write is left in memory unflagged                      *)
(* Each is an inductive invariant of Store (TypeOK; CacheInv; CommitInv)    *)
(* shown to hold initially and to be kept by every action of Next.          *)
(***************************************************************************)
EXTENDS Store, TLAPS

\* next_even moves a counter forward, to an even value, from either parity.
LEMMA NextEvenFacts ==
  ASSUME NEW v \in Nat
  PROVE  NextEven(v) \in Nat /\ NextEven(v) > v /\ NextEven(v) % 2 = 0
BY DEF NextEven

\* next_odd moves a counter forward.
LEMMA NextOddFacts ==
  ASSUME NEW v \in Nat
  PROVE  NextOdd(v) \in Nat /\ NextOdd(v) > v
BY DEF NextOdd

\* A whole update (seq_begin to seq_end) leaves its key's counter even and strictly
\* larger, and every other counter alone.
LEMMA BumpFacts ==
  ASSUME TypeOK, NEW k \in Key
  PROVE  /\ Bump(SlotOf[k]) \in [Slot -> Nat]
         /\ \A s \in Slot : Bump(SlotOf[k])[s] % 2 = 0
         /\ Bump(SlotOf[k])[SlotOf[k]] > slots[SlotOf[k]]
         /\ \A s \in Slot : s # SlotOf[k] => Bump(SlotOf[k])[s] = slots[s]
<1>1. SlotOf[k] \in Slot /\ slots[SlotOf[k]] \in Nat
  BY SlotAssumption DEF TypeOK
<1> DEFINE v == slots[SlotOf[k]]
<1>2. /\ NextOdd(v) \in Nat /\ NextOdd(v) > v
      /\ NextEven(NextOdd(v)) \in Nat /\ NextEven(NextOdd(v)) > NextOdd(v)
      /\ NextEven(NextOdd(v)) % 2 = 0
  BY <1>1, NextOddFacts, NextEvenFacts
<1>3. NextEven(NextOdd(v)) > v
  BY <1>1, <1>2
<1> QED
  BY <1>1, <1>2, <1>3 DEF Bump, TypeOK

-----------------------------------------------------------------------------
(* Type correctness.                                                       *)

\* A store that nvram_init has just loaded is well typed.
LEMMA TypeInit == Init => TypeOK
<1> SUFFICES ASSUME Init PROVE TypeOK
  OBVIOUS
<1> USE DEF Init, Content, Value, Pending, Phases
<1>1. file \in [Key -> Content]
  OBVIOUS
<1>2. seg \in [Key -> [val : Content, dirty : BOOLEAN]]
  BY <1>1 DEF Clean
<1>3. dur \in [Key -> SUBSET Content] /\ hist \in [Key -> SUBSET Content]
  BY <1>1 DEF Only
<1>4. cache \in [Proc -> [Key -> [value : Content, seen : Nat, valid : BOOLEAN]]]
  BY DEF EmptyCaches, EmptyEntry
<1>5. tmp \in [Proc -> [Key -> {"none", "cached", "flushed"}]]
  BY DEF TempsGone
<1>6. slots \in [Slot -> Nat] /\ \A s \in Slot : slots[s] % 2 = 0
  OBVIOUS
<1> QED
  BY <1>1, <1>2, <1>3, <1>4, <1>5, <1>6 DEF TypeOK, Nothing

\* A set or an unset keeps the state well typed.
LEMMA TypeUpdate ==
  ASSUME TypeOK, NEW p \in Proc, NEW k \in Key, NEW v \in Value, Update(p, k, v)
  PROVE  TypeOK'
<1> USE SlotAssumption DEF Content, Value
<1>1. \A x \in Nat : Install(p, k, v, x)
        \in [Proc -> [Key -> [value : Content, seen : Nat, valid : BOOLEAN]]]
  BY DEF TypeOK, Install
<1>2. SlotOf[k] \in Slot /\ slots[SlotOf[k]] \in Nat
  BY DEF TypeOK
<1>3. CASE seg[k].val = v
  BY <1>1, <1>2, <1>3 DEF Update, TypeOK, diskVars, commitVars, segVars
<1>4. CASE seg[k].val # v
  <2>1. /\ slots' \in [Slot -> Nat] /\ \A s \in Slot : slots'[s] % 2 = 0
    BY <1>4, BumpFacts DEF Update
  <2>2. cache' \in [Proc -> [Key -> [value : Content, seen : Nat, valid : BOOLEAN]]]
    BY <1>1, <1>2, <1>4, <2>1 DEF Update
  <2>3. seg' \in [Key -> [val : Content, dirty : BOOLEAN]]
    <3>1. seg \in [Key -> [val : Content, dirty : BOOLEAN]]
      BY DEF TypeOK
    <3>2. seg' = [seg EXCEPT ![k] = [val |-> v, dirty |-> TRUE]]
      BY <1>4 DEF Update
    <3>3. [val |-> v, dirty |-> TRUE] \in [val : Content, dirty : BOOLEAN]
      OBVIOUS
    <3> QED
      BY <3>1, <3>2, <3>3
  <2>4. hist' \in [Key -> SUBSET Content] /\ histc' \in [Key -> SUBSET Content]
    <3>1. hist \in [Key -> SUBSET Content] /\ histc \in [Key -> SUBSET Content]
      BY DEF TypeOK
    <3>2. hist' = Record(hist, k, v) /\ (histc' = histc \/ histc' = Record(histc, k, v))
      BY <1>4 DEF Update
    <3>3. \A h \in [Key -> SUBSET Content] : Record(h, k, v) \in [Key -> SUBSET Content]
      BY DEF Record
    <3> QED
      BY <3>1, <3>2, <3>3
  <2> QED
    BY <2>1, <2>2, <2>3, <2>4 DEF Update, TypeOK, diskVars, commitVars
<1> QED
  BY <1>3, <1>4

\* Every step of every caller, and every failure, keeps the state well typed.
LEMMA TypeNext == TypeOK /\ [Next]_vars => TypeOK'
<1> SUFFICES ASSUME TypeOK, [Next]_vars PROVE TypeOK'
  OBVIOUS
<1> USE SlotAssumption, ValueAssumption
    DEF TypeOK, Content, Value, Pending, Phases, segVars, diskVars, commitVars, ghostVars
<1>1. ASSUME NEW p \in Proc, NEW k \in Key, Get(p, k) PROVE TypeOK'
  BY <1>1 DEF Get
<1>2. ASSUME NEW p \in Proc, ReadValue(p) PROVE TypeOK'
  BY <1>2 DEF ReadValue, GetReturn, Install
<1>3. ASSUME NEW p \in Proc, ReadLocked(p) PROVE TypeOK'
  BY <1>3 DEF ReadLocked, GetReturn, Install
<1>4. ASSUME NEW p \in Proc, GetDegraded(p) PROVE TypeOK'
  BY <1>4 DEF GetDegraded, GetReturn
<1>5. ASSUME NEW p \in Proc, NEW k \in Key, NEW v \in Val, Set(p, k, v) PROVE TypeOK'
  BY <1>5, TypeUpdate DEF Set
<1>6. ASSUME NEW p \in Proc, NEW k \in Key, Unset(p, k) PROVE TypeOK'
  BY <1>6, TypeUpdate DEF Unset
<1>7. ASSUME NEW p \in Proc, CommitBegin(p) PROVE TypeOK'
  BY <1>7 DEF CommitBegin, At
<1>8. ASSUME NEW p \in Proc, Snapshot(p) PROVE TypeOK'
  BY <1>8 DEF Snapshot, At, Owed
<1>9. ASSUME NEW p \in Proc, Stage(p) PROVE TypeOK'
  <2>1. PICK r \in pending[p] : Stage(p)!2!(r)
    BY <1>9 DEF Stage
  <2>2. r \in Pending /\ pending' \in [Proc -> SUBSET Pending]
    BY <2>1
  <2>3. CASE StageOk(p, r)
    BY <1>9, <2>2, <2>3 DEF Stage, StageOk
  <2>4. CASE StageFails(p, r)
    BY <1>9, <2>2, <2>4 DEF Stage, StageFails
  <2> QED
    BY <2>1, <2>3, <2>4
<1>10. ASSUME NEW p \in Proc, FlushStaged(p) PROVE TypeOK'
  BY <1>10 DEF FlushStaged, At, SyncStore
<1>11. ASSUME NEW p \in Proc, FlushFails(p) PROVE TypeOK'
  BY <1>11 DEF FlushFails, At, NoTemps, Return
<1>12. ASSUME NEW p \in Proc, Publish(p) PROVE TypeOK'
  <2>1. PICK r \in staged[p] : Publish(p)!2!(r)
    BY <1>12 DEF Publish
  <2>2. r \in Pending /\ staged' \in [Proc -> SUBSET Pending]
    BY <2>1
  <2>3. CASE PublishOk(p, r)
    <3>1. file' = [file EXCEPT ![r.key] = r.val]
      BY <2>3 DEF PublishOk, Unlink, Rename
    <3>2. \E S \in SUBSET Content : dur' = [dur EXCEPT ![r.key] = @ \cup S]
      <4>1. CASE r.val = Absent
        BY <2>3, <4>1 DEF PublishOk, Unlink
      <4>2. CASE r.val # Absent
        <5> DEFINE S == {r.val} \cup (IF tmp[p][r.key] = "flushed" THEN {} ELSE {Torn})
        <5>1. S \in SUBSET Content
          BY <2>2
        <5>2. dur[r.key] \cup {r.val} \cup (IF tmp[p][r.key] = "flushed" THEN {} ELSE {Torn})
                = dur[r.key] \cup S
          OBVIOUS
        <5>3. dur' = [dur EXCEPT ![r.key] = @ \cup S]
          BY <2>3, <4>2, <5>2 DEF PublishOk, Rename
        <5> QED
          BY <5>1, <5>3
      <4> QED
        BY <4>1, <4>2
    <3>3. tmp' = tmp \/ tmp' = [tmp EXCEPT ![p][r.key] = "none"]
      BY <2>3 DEF PublishOk, Rename
    <3>4. file' \in [Key -> Content] /\ dur' \in [Key -> SUBSET Content]
      BY <2>2, <3>1, <3>2
    <3>5. tmp' \in [Proc -> [Key -> {"none", "cached", "flushed"}]]
      <4>1. CASE tmp' = tmp
        BY <4>1
      <4>2. CASE tmp' = [tmp EXCEPT ![p][r.key] = "none"]
        BY <2>2, <4>2
      <4> QED
        BY <3>3, <4>1, <4>2
    <3>6. /\ done' \in [Proc -> SUBSET Pending] /\ allOk' \in [Proc -> BOOLEAN]
          /\ drift' \subseteq Key
      BY <2>2, <2>3 DEF PublishOk
    <3> QED
      BY <1>12, <2>2, <3>4, <3>5, <3>6 DEF Publish
  <2>4. CASE PublishFails(p, r)
    BY <1>12, <2>2, <2>4 DEF Publish, PublishFails
  <2> QED
    BY <2>1, <2>3, <2>4
<1>13. ASSUME NEW p \in Proc, Writeback(p) PROVE TypeOK'
  BY <1>13 DEF Writeback, At, Retired
<1>14. ASSUME NEW p \in Proc, CommitReturn(p) PROVE TypeOK'
  BY <1>14 DEF CommitReturn, At, SyncStore, Return
<1>15. ASSUME NEW p \in Proc, CommitNoSem(p) PROVE TypeOK'
  BY <1>15 DEF CommitNoSem, At, Return
<1>16. ASSUME NEW p \in Proc, ClearBegin(p) PROVE TypeOK'
  BY <1>16 DEF ClearBegin, At
<1>17. ASSUME NEW p \in Proc, ClearNoSem(p) PROVE TypeOK'
  BY <1>17 DEF ClearNoSem, At, Return
<1>18. ASSUME NEW p \in Proc, ClearSegment(p) PROVE TypeOK'
  BY <1>18, NextEvenFacts DEF ClearSegment, At
<1>19. ASSUME NEW p \in Proc, WipeFile(p) PROVE TypeOK'
  BY <1>19 DEF WipeFile, Unlink
<1>20. ASSUME NEW p \in Proc, WipeEnd(p) PROVE TypeOK'
  <2>1. cache' \in [Proc -> [Key -> [value : Content, seen : Nat, valid : BOOLEAN]]]
    BY <1>20 DEF WipeEnd, EmptyEntry
  <2>2. tmp' = TempsGone \/ tmp' = tmp
    BY <1>20 DEF WipeEnd
  <2>3. allOk' = allOk \/ allOk' = [allOk EXCEPT ![p] = FALSE]
    BY <1>20 DEF WipeEnd
  <2>4. tmp' \in [Proc -> [Key -> {"none", "cached", "flushed"}]]
    BY <2>2 DEF TempsGone
  <2>5. allOk' \in [Proc -> BOOLEAN]
    BY <2>3
  <2> QED
    BY <1>20, <2>1, <2>4, <2>5 DEF WipeEnd, At
<1>21. ASSUME NEW p \in Proc, ClearReturn(p) PROVE TypeOK'
  BY <1>21 DEF ClearReturn, At, SyncStore, Return
<1>22. ASSUME NEW p \in Proc, Kill(p) PROVE TypeOK'
  BY <1>22 DEF Kill, EmptyEntry, Return
<1>23. ASSUME NEW k \in Key, NEW v \in Value, Edit(k, v) PROVE TypeOK'
  BY <1>23 DEF Edit, Record
<1>24. CASE PowerLoss
  BY <1>24 DEF PowerLoss, Clean, Only, EmptyCaches, EmptyEntry, TempsGone, Nothing
<1>25. CASE UNCHANGED vars
  BY <1>25 DEF vars
<1>26. CASE Sweep
  BY <1>26 DEF Sweep, TempsGone
<1> QED
  BY <1>1, <1>2, <1>3, <1>4, <1>5, <1>6, <1>7, <1>8, <1>9, <1>10, <1>11, <1>12, <1>13, <1>14, <1>15, <1>16, <1>17, <1>18, <1>19, <1>20, <1>21, <1>22, <1>23, <1>24, <1>25, <1>26 DEF Next, Call, Step

\* Every reachable state is well typed, and outside the writer semaphore every
\* seqlock counter is even.
THEOREM TypeCorrect == Spec => []TypeOK
BY TypeInit, TypeNext, PTL DEF Spec

-----------------------------------------------------------------------------
(* Cache coherence.                                                        *)

\* The other counters a process may have recorded stay where they were or fall
\* behind; Update changes one key and moves the counter of that key.
LEMMA CacheUpdate ==
  ASSUME TypeOK, CacheInv,
         NEW p \in Proc, NEW k \in Key, NEW v \in Value, Update(p, k, v)
  PROVE  CacheInv'
<1> USE SlotAssumption
<1>1. CASE seg[k].val = v
  <2>1. UNCHANGED <<slots, seg, want>>
    BY <1>1 DEF Update, segVars
  <2>2. cache' = [cache EXCEPT ![p][k] =
                    [value |-> v, seen |-> slots[SlotOf[k]], valid |-> TRUE]]
    BY <1>1 DEF Update, Install
  <2>3. ASSUME NEW q \in Proc, NEW j \in Key, cache'[q][j].valid
        PROVE  /\ cache'[q][j].seen <= slots[SlotOf[j]]
               /\ cache'[q][j].seen = slots[SlotOf[j]] => cache'[q][j].value = seg[j].val
    <3>1. CASE q = p /\ j = k
      <4>1. cache'[q][j] = [value |-> v, seen |-> slots[SlotOf[k]], valid |-> TRUE]
        BY <2>2, <3>1 DEF TypeOK
      <4>2. slots[SlotOf[k]] \in Nat
        BY DEF TypeOK
      <4> QED
        BY <1>1, <3>1, <4>1, <4>2
    <3>2. CASE ~(q = p /\ j = k)
      <4>1. cache'[q][j] = cache[q][j]
        BY <2>2, <3>2 DEF TypeOK
      <4> QED
        BY <2>3, <4>1 DEF CacheInv
    <3> QED
      BY <3>1, <3>2
  <2> QED
    BY <2>1, <2>3 DEF CacheInv
<1>2. CASE seg[k].val # v
  <2> DEFINE new == slots'[SlotOf[k]]
  <2>1. /\ slots' \in [Slot -> Nat]
        /\ new > slots[SlotOf[k]]
        /\ \A s \in Slot : s # SlotOf[k] => slots'[s] = slots[s]
    BY <1>2, BumpFacts DEF Update
  <2>2. cache' = [cache EXCEPT ![p][k] = [value |-> v, seen |-> new, valid |-> TRUE]]
    BY <1>2 DEF Update, Install
  <2>3. seg' = [seg EXCEPT ![k] = [val |-> v, dirty |-> TRUE]] /\ want' = want
    BY <1>2 DEF Update
  <2>4. ASSUME NEW s \in Slot
        PROVE  slots[s] \in Nat /\ slots'[s] \in Nat /\ slots[s] <= slots'[s]
    <3>1. slots[s] \in Nat /\ slots'[s] \in Nat
      BY <2>1 DEF TypeOK
    <3> QED
      BY <2>1, <3>1
  <2>5. ASSUME NEW q \in Proc, NEW j \in Key, cache'[q][j].valid
        PROVE  /\ cache'[q][j].seen <= slots'[SlotOf[j]]
               /\ cache'[q][j].seen = slots'[SlotOf[j]] => cache'[q][j].value = seg'[j].val
    <3>1. CASE q = p /\ j = k
      <4>1. cache'[q][j] = [value |-> v, seen |-> new, valid |-> TRUE]
        BY <2>2, <3>1 DEF TypeOK
      <4>2. seg'[k].val = v
        BY <2>3 DEF TypeOK
      <4> QED
        BY <2>4, <3>1, <4>1, <4>2
    <3>2. CASE ~(q = p /\ j = k)
      <4>1. cache'[q][j] = cache[q][j]
        BY <2>2, <3>2 DEF TypeOK
      <4>2. /\ cache[q][j].seen \in Nat
            /\ cache[q][j].seen <= slots[SlotOf[j]]
            /\ cache[q][j].seen = slots[SlotOf[j]] => cache[q][j].value = seg[j].val
        BY <2>5, <4>1 DEF CacheInv, TypeOK
      <4>3. CASE SlotOf[j] = SlotOf[k]
        <5>1. cache[q][j].seen < slots'[SlotOf[j]]
          BY <2>1, <2>4, <4>2, <4>3
        <5> QED
          BY <2>4, <4>1, <4>2, <5>1
      <4>4. CASE SlotOf[j] # SlotOf[k]
        <5>1. seg'[j] = seg[j] /\ slots'[SlotOf[j]] = slots[SlotOf[j]]
          BY <2>1, <2>3, <4>4 DEF TypeOK
        <5> QED
          BY <4>1, <4>2, <5>1
      <4> QED
        BY <4>3, <4>4
    <3> QED
      BY <3>1, <3>2
  <2>6. ASSUME NEW q \in Proc, NEW g \in want'[q] PROVE g.seen <= slots'[SlotOf[g.key]]
    BY <2>3, <2>4 DEF CacheInv, TypeOK
  <2> QED
    BY <2>5, <2>6 DEF CacheInv
<1> QED
  BY <1>1, <1>2

\* Empty caches have nothing recorded.
LEMMA CacheInit == Init => CacheInv
BY DEF Init, CacheInv, EmptyCaches, EmptyEntry, Nothing

\* A get that installs v with a counter that is not ahead of the segment's, and
\* with the segment's value if it is the same.
LEMMA CacheInstall ==
  ASSUME TypeOK, CacheInv, NEW p \in Proc, NEW k \in Key, NEW e,
         e.valid => /\ e.seen <= slots[SlotOf[k]]
                    /\ e.seen = slots[SlotOf[k]] => e.value = seg[k].val,
         GetReturn(p, [cache EXCEPT ![p][k] = e])
  PROVE  CacheInv'
<1>1. UNCHANGED <<seg, slots>> /\ want' = [want EXCEPT ![p] = {}]
  BY DEF GetReturn, segVars
<1>2. ASSUME NEW q \in Proc, NEW j \in Key, cache'[q][j].valid
      PROVE  /\ cache'[q][j].seen <= slots[SlotOf[j]]
             /\ cache'[q][j].seen = slots[SlotOf[j]] => cache'[q][j].value = seg[j].val
  <2>1. CASE q = p /\ j = k
    <3>1. cache'[q][j] = e
      BY <2>1 DEF GetReturn, TypeOK
    <3> QED
      BY <1>2, <2>1, <3>1
  <2>2. CASE ~(q = p /\ j = k)
    <3>1. cache'[q][j] = cache[q][j]
      BY <2>2 DEF GetReturn, TypeOK
    <3> QED
      BY <1>2, <3>1 DEF CacheInv
  <2> QED
    BY <2>1, <2>2
<1>3. ASSUME NEW q \in Proc, NEW g \in want'[q] PROVE g.seen <= slots[SlotOf[g.key]]
  BY <1>1 DEF CacheInv, TypeOK
<1> QED
  BY <1>1, <1>2, <1>3 DEF CacheInv

\* Every step keeps the caches' recorded counters behind the segment's, and equal
\* to them only with the segment's value.
LEMMA CacheNext == TypeOK /\ CacheInv /\ [Next]_vars => CacheInv'
<1> SUFFICES ASSUME TypeOK, CacheInv, [Next]_vars PROVE CacheInv'
  OBVIOUS
<1> USE SlotAssumption
<1>0. ASSUME UNCHANGED <<slots, cache, want>>, \A k \in Key : seg'[k].val = seg[k].val
      PROVE  CacheInv'
  BY <1>0 DEF CacheInv
<1>1. ASSUME NEW p \in Proc, NEW k \in Key, Get(p, k) PROVE CacheInv'
  <2>1. UNCHANGED <<seg, slots, cache>>
    BY <1>1 DEF Get, segVars
  <2>2. want' = [want EXCEPT ![p] = {[key |-> k, seen |-> slots[SlotOf[k]]]}]
    BY <1>1 DEF Get
  <2>3. slots[SlotOf[k]] \in Nat
    BY DEF TypeOK
  <2>4. ASSUME NEW q \in Proc, NEW g \in want'[q] PROVE g.seen <= slots[SlotOf[g.key]]
    <3>1. CASE q = p
      <4>1. g = [key |-> k, seen |-> slots[SlotOf[k]]]
        BY <2>2, <2>4, <3>1 DEF TypeOK
      <4> QED
        BY <2>3, <4>1
    <3>2. CASE q # p
      BY <2>2, <3>2 DEF CacheInv, TypeOK
    <3> QED
      BY <3>1, <3>2
  <2> QED
    BY <2>1, <2>4 DEF CacheInv
<1>2. ASSUME NEW p \in Proc, ReadValue(p) PROVE CacheInv'
  <2>1. PICK g \in want[p] : GetReturn(p, Install(p, g.key, seg[g.key].val, g.seen))
    BY <1>2 DEF ReadValue
  <2>2. g.key \in Key /\ g.seen <= slots[SlotOf[g.key]]
    BY DEF TypeOK, CacheInv
  <2> QED
    BY <2>1, <2>2, CacheInstall DEF Install
<1>3. ASSUME NEW p \in Proc, ReadLocked(p) PROVE CacheInv'
  <2>1. PICK g \in want[p] :
          GetReturn(p, Install(p, g.key, seg[g.key].val, slots[SlotOf[g.key]]))
    BY <1>3 DEF ReadLocked
  <2>2. g.key \in Key /\ slots[SlotOf[g.key]] <= slots[SlotOf[g.key]]
    BY DEF TypeOK
  <2> QED
    BY <2>1, <2>2, CacheInstall DEF Install
<1>4. ASSUME NEW p \in Proc, GetDegraded(p) PROVE CacheInv'
  <2>1. PICK g \in want[p] : GetReturn(p, [cache EXCEPT ![p][g.key] =
                                [value |-> file[g.key], seen |-> 0, valid |-> FALSE]])
    BY <1>4 DEF GetDegraded
  <2>2. g.key \in Key
    BY DEF TypeOK
  <2> QED
    BY <2>1, <2>2, CacheInstall
<1>5. ASSUME NEW p \in Proc, NEW k \in Key, NEW v \in Val, Set(p, k, v) PROVE CacheInv'
  BY <1>5, CacheUpdate DEF Set, Value
<1>6. ASSUME NEW p \in Proc, NEW k \in Key, Unset(p, k) PROVE CacheInv'
  BY <1>6, CacheUpdate DEF Unset, Value
<1>7. ASSUME NEW p \in Proc, Writeback(p) PROVE CacheInv'
  BY <1>0, <1>7 DEF Writeback
<1>8. ASSUME NEW p \in Proc, ClearSegment(p) PROVE CacheInv'
  <2>1. ASSUME NEW s \in Slot PROVE slots[s] \in Nat /\ slots'[s] \in Nat /\ slots[s] < slots'[s]
    <3>1. slots[s] \in Nat
      BY DEF TypeOK
    <3>2. slots'[s] = NextEven(slots[s])
      BY <1>8 DEF ClearSegment
    <3> QED
      BY <3>1, <3>2, NextEvenFacts
  <2>2. UNCHANGED <<cache, want>>
    BY <1>8 DEF ClearSegment
  <2>3. ASSUME NEW q \in Proc, NEW j \in Key, cache[q][j].valid
        PROVE  cache[q][j].seen <= slots'[SlotOf[j]] /\ cache[q][j].seen # slots'[SlotOf[j]]
    <3>1. cache[q][j].seen \in Nat /\ cache[q][j].seen <= slots[SlotOf[j]]
      BY <2>3 DEF CacheInv, TypeOK
    <3> QED
      BY <2>1, <3>1
  <2>4. ASSUME NEW q \in Proc, NEW g \in want[q] PROVE g.seen <= slots'[SlotOf[g.key]]
    <3>1. g.key \in Key /\ g.seen \in Nat /\ g.seen <= slots[SlotOf[g.key]]
      BY DEF CacheInv, TypeOK
    <3> QED
      BY <2>1, <3>1
  <2> QED
    BY <2>2, <2>3, <2>4 DEF CacheInv
<1>9. ASSUME NEW p \in Proc, WipeEnd(p) PROVE CacheInv'
  <2>1. UNCHANGED <<seg, slots, want>>
    BY <1>9 DEF WipeEnd, segVars
  <2>2. cache' = [cache EXCEPT ![p] = [k \in Key |-> EmptyEntry]]
    BY <1>9 DEF WipeEnd
  <2>3. ASSUME NEW q \in Proc, NEW j \in Key, cache'[q][j].valid
        PROVE cache'[q][j] = cache[q][j]
    BY <2>2, <2>3 DEF TypeOK, EmptyEntry
  <2> QED
    BY <2>1, <2>3 DEF CacheInv
<1>10. ASSUME NEW p \in Proc, Kill(p) PROVE CacheInv'
  <2>1. UNCHANGED <<seg, slots>>
    BY <1>10 DEF Kill, segVars
  <2>2. /\ cache' = [cache EXCEPT ![p] = [k \in Key |-> EmptyEntry]]
        /\ want' = [want EXCEPT ![p] = {}]
    BY <1>10 DEF Kill
  <2>3. ASSUME NEW q \in Proc, NEW j \in Key, cache'[q][j].valid
        PROVE cache'[q][j] = cache[q][j]
    BY <2>2, <2>3 DEF TypeOK, EmptyEntry
  <2>4. ASSUME NEW q \in Proc, NEW g \in want'[q] PROVE g \in want[q]
    BY <2>2, <2>4 DEF TypeOK
  <2> QED
    BY <2>1, <2>3, <2>4 DEF CacheInv
<1>11. CASE PowerLoss
  BY <1>11 DEF PowerLoss, CacheInv, EmptyCaches, EmptyEntry, Nothing
<1>12. ASSUME NEW p \in Proc,
              \/ CommitBegin(p) \/ Snapshot(p) \/ Stage(p) \/ FlushStaged(p)
              \/ FlushFails(p) \/ Publish(p) \/ CommitReturn(p) \/ CommitNoSem(p)
              \/ ClearBegin(p) \/ ClearNoSem(p) \/ WipeFile(p) \/ ClearReturn(p)
       PROVE  CacheInv'
  <2>1. UNCHANGED <<seg, slots, cache, want>>
    BY <1>12 DEF CommitBegin, Snapshot, Stage, FlushStaged, FlushFails, Publish,
         CommitReturn, CommitNoSem, ClearBegin, ClearNoSem, WipeFile, ClearReturn, segVars
  <2> QED
    BY <1>0, <2>1
<1>13. ASSUME NEW k \in Key, NEW v \in Value, Edit(k, v) PROVE CacheInv'
  BY <1>0, <1>13 DEF Edit, segVars
<1>14. CASE UNCHANGED vars
  BY <1>0, <1>14 DEF vars
<1>15. CASE Sweep
  BY <1>0, <1>15 DEF Sweep, segVars
<1> QED
  BY <1>1, <1>2, <1>3, <1>4, <1>5, <1>6, <1>7, <1>8, <1>9, <1>10, <1>11, <1>12, <1>13,
     <1>14, <1>15 DEF Next, Call, Step

\* A value served from a process's cache is the one the segment holds, however
\* many processes, keys and counters there are and whatever fails.
THEOREM Coherent == Spec => []CacheCoherent
<1>1. TypeOK /\ CacheInv => CacheCoherent
  BY DEF CacheInv, CacheCoherent, Hit
<1> QED
  BY <1>1, TypeInit, TypeNext, CacheInit, CacheNext, PTL DEF Spec

-----------------------------------------------------------------------------
(* One commit or clear at a time.                                          *)

\* The commit semaphore: two processes inside commit or clear are the same one.
LEMMA Alone ==
  ASSUME CommitLocked, NEW p \in Proc, NEW q \in Proc, pc[p] \in Busy,
         pc[q] \in Busy \/ Records(q) # {}
  PROVE  p = q
BY DEF CommitLocked, Busy

\* Nobody is inside a commit or a clear to begin with.
LEMMA LockedInit == Init => CommitLocked /\ WipeLocked
BY DEF Init, CommitLocked, WipeLocked, Busy, Records, Nothing

\* Every step keeps commits and clears apart, and records with the commit that
\* took them.
LEMMA LockedNext == TypeOK /\ CommitLocked /\ [Next]_vars => CommitLocked'
<1> SUFFICES ASSUME TypeOK, CommitLocked, [Next]_vars PROVE CommitLocked'
  OBVIOUS
<1>0. /\ pc \in [Proc -> Phases]
      /\ pending \in [Proc -> SUBSET Pending]
      /\ staged \in [Proc -> SUBSET Pending]
      /\ done \in [Proc -> SUBSET Pending]
  BY DEF TypeOK
<1> USE <1>0, ProcAssumption DEF CommitLocked, Busy, Records, commitVars
<1>1. ASSUME NEW p \in Proc, CommitBegin(p) PROVE CommitLocked'
  BY <1>1 DEF CommitBegin, At
<1>2. ASSUME NEW p \in Proc, Snapshot(p) PROVE CommitLocked'
  BY <1>2 DEF Snapshot, At
<1>3. ASSUME NEW p \in Proc, Stage(p) PROVE CommitLocked'
  BY <1>3 DEF Stage, StageOk, StageFails
<1>4. ASSUME NEW p \in Proc, FlushStaged(p) PROVE CommitLocked'
  BY <1>4 DEF FlushStaged, At
<1>5. ASSUME NEW p \in Proc, FlushFails(p) PROVE CommitLocked'
  BY <1>5 DEF FlushFails, At, Return
<1>6. ASSUME NEW p \in Proc, Publish(p) PROVE CommitLocked'
  BY <1>6 DEF Publish, PublishOk, PublishFails
<1>7. ASSUME NEW p \in Proc, Writeback(p) PROVE CommitLocked'
  BY <1>7 DEF Writeback, At
<1>8. ASSUME NEW p \in Proc, CommitReturn(p) PROVE CommitLocked'
  BY <1>8 DEF CommitReturn, At, Return
<1>9. ASSUME NEW p \in Proc, CommitNoSem(p) PROVE CommitLocked'
  BY <1>9 DEF CommitNoSem, At, Return
<1>10. ASSUME NEW p \in Proc, ClearBegin(p) PROVE CommitLocked'
  BY <1>10 DEF ClearBegin, At
<1>11. ASSUME NEW p \in Proc, ClearNoSem(p) PROVE CommitLocked'
  BY <1>11 DEF ClearNoSem, At, Return
<1>12. ASSUME NEW p \in Proc, ClearSegment(p) PROVE CommitLocked'
  BY <1>12 DEF ClearSegment, At
<1>13. ASSUME NEW p \in Proc, WipeFile(p) PROVE CommitLocked'
  BY <1>13 DEF WipeFile
<1>14. ASSUME NEW p \in Proc, WipeEnd(p) PROVE CommitLocked'
  BY <1>14 DEF WipeEnd, At
<1>15. ASSUME NEW p \in Proc, ClearReturn(p) PROVE CommitLocked'
  BY <1>15 DEF ClearReturn, At, Return
<1>16. ASSUME NEW p \in Proc, Kill(p) PROVE CommitLocked'
  BY <1>16 DEF Kill, Return
<1>17. ASSUME NEW p \in Proc, NEW k \in Key, Get(p, k) PROVE CommitLocked'
  BY <1>17 DEF Get
<1>18. ASSUME NEW p \in Proc, ReadValue(p) \/ ReadLocked(p) \/ GetDegraded(p)
       PROVE CommitLocked'
  <2>1. pc' = [pc EXCEPT ![p] = "idle"] /\ pc[p] = "get" /\ UNCHANGED <<clock, commitVars>>
    BY <1>18 DEF ReadValue, ReadLocked, GetDegraded, GetReturn
  <2> QED
    BY <2>1
<1>19. CASE PowerLoss
  BY <1>19 DEF PowerLoss, Nothing
<1>20. ASSUME NEW p \in Proc, NEW k \in Key,
              Unset(p, k) \/ (\E v \in Val : Set(p, k, v))
       PROVE CommitLocked'
  <2>1. UNCHANGED <<clock, pc, commitVars>>
    BY <1>20 DEF Set, Unset, Update
  <2> QED
    BY <2>1
<1>21. ASSUME NEW k \in Key, NEW v \in Value, Edit(k, v) PROVE CommitLocked'
  BY <1>21 DEF Edit
<1>22. CASE UNCHANGED vars
  BY <1>22 DEF vars
<1>23. CASE Sweep
  BY <1>23 DEF Sweep
<1> QED
  BY <1>1, <1>2, <1>3, <1>4, <1>5, <1>6, <1>7, <1>8, <1>9, <1>10, <1>11, <1>12, <1>13,
     <1>14, <1>15, <1>16, <1>17, <1>18, <1>19, <1>20, <1>21, <1>22, <1>23 DEF Next, Call, Step

\* While a clear unlinks files no set or unset puts anything into memory.
LEMMA WipeNext == TypeOK /\ CommitLocked /\ WipeLocked /\ [Next]_vars => WipeLocked'
<1> SUFFICES ASSUME TypeOK, CommitLocked, WipeLocked, [Next]_vars PROVE WipeLocked'
  OBVIOUS
<1>0. pc \in [Proc -> Phases] /\ seg \in [Key -> [val : Content, dirty : BOOLEAN]]
  BY DEF TypeOK
<1>a. ASSUME NEW p \in Proc, NEW k \in Key, NEW v \in Value, Update(p, k, v)
      PROVE WipeLocked'
  BY <1>a, ProcAssumption DEF Update, WipeLocked
<1>b. ASSUME UNCHANGED <<seg, wlock>>,
             \A q \in Proc : pc'[q] = "wipe" => pc[q] = "wipe"
      PROVE WipeLocked'
  BY <1>b DEF WipeLocked
<1>1. ASSUME NEW p \in Proc, NEW k \in Key, Get(p, k) PROVE WipeLocked'
  BY <1>0, <1>b, <1>1 DEF Get, segVars
<1>2. ASSUME NEW p \in Proc, ReadValue(p) \/ ReadLocked(p) \/ GetDegraded(p)
      PROVE WipeLocked'
  <2>1. pc' = [pc EXCEPT ![p] = "idle"] /\ UNCHANGED <<seg, wlock>>
    BY <1>2 DEF ReadValue, ReadLocked, GetDegraded, GetReturn, segVars
  <2> QED
    BY <1>0, <1>b, <2>1
<1>3. ASSUME NEW p \in Proc, NEW k \in Key,
             Unset(p, k) \/ (\E v \in Val : Set(p, k, v))
      PROVE WipeLocked'
  BY <1>a, <1>3 DEF Set, Unset, Value
<1>4. ASSUME NEW p \in Proc,
             \/ CommitBegin(p) \/ Snapshot(p) \/ FlushStaged(p) \/ FlushFails(p)
             \/ CommitReturn(p) \/ CommitNoSem(p) \/ ClearBegin(p) \/ ClearNoSem(p)
             \/ ClearReturn(p)
      PROVE WipeLocked'
  <2>1. UNCHANGED <<seg, wlock>>
    BY <1>4 DEF CommitBegin, Snapshot, FlushStaged, FlushFails, CommitReturn,
         CommitNoSem, ClearBegin, ClearNoSem, ClearReturn, segVars
  <2>2. \E there \in Phases \ {"wipe"} : pc' = [pc EXCEPT ![p] = there]
    BY <1>4 DEF CommitBegin, Snapshot, FlushStaged, FlushFails, CommitReturn,
         CommitNoSem, ClearBegin, ClearNoSem, ClearReturn, At, Phases
  <2> QED
    BY <1>0, <1>b, <2>1, <2>2
<1>5. ASSUME NEW p \in Proc, Stage(p) \/ Publish(p) \/ WipeFile(p) PROVE WipeLocked'
  BY <1>b, <1>5 DEF Stage, Publish, WipeFile, segVars
<1>6. ASSUME NEW p \in Proc, Writeback(p) PROVE WipeLocked'
  BY <1>0, <1>6 DEF Writeback, At, WipeLocked
<1>7. ASSUME NEW p \in Proc, ClearSegment(p) PROVE WipeLocked'
  <2>1. ASSUME NEW q \in Proc, pc'[q] = "wipe" PROVE q = p
    BY <1>0, <1>7, <2>1, Alone DEF ClearSegment, At, Busy
  <2> QED
    BY <1>7, <2>1 DEF ClearSegment, WipeLocked
<1>8. ASSUME NEW p \in Proc, WipeEnd(p) PROVE WipeLocked'
  <2>1. ASSUME NEW q \in Proc PROVE pc'[q] # "wipe"
    BY <1>0, <1>8, Alone DEF WipeEnd, At, Busy
  <2> QED
    BY <2>1 DEF WipeLocked
<1>9. ASSUME NEW p \in Proc, Kill(p) PROVE WipeLocked'
  BY <1>0, <1>9 DEF Kill, WipeLocked, segVars
<1>10. CASE PowerLoss
  BY <1>10 DEF PowerLoss, WipeLocked
<1>11. ASSUME NEW k \in Key, NEW v \in Value, Edit(k, v) PROVE WipeLocked'
  BY <1>b, <1>11 DEF Edit, segVars
<1>12. CASE UNCHANGED vars
  BY <1>b, <1>12 DEF vars
<1>13. CASE Sweep
  BY <1>b, <1>13 DEF Sweep, segVars
<1> QED
  BY <1>1, <1>2, <1>3, <1>4, <1>5, <1>6, <1>7, <1>8, <1>9, <1>10, <1>11, <1>12, <1>13
     DEF Next, Call, Step

-----------------------------------------------------------------------------
(* No write is stranded.                                                   *)

\* To begin with nobody has a record and the files are what memory holds.
LEMMA RecordsInit == Init => RecordsOk /\ NothingStranded
BY DEF Init, RecordsOk, Records, Nothing, NothingStranded, Clean

\* A set or an unset in the middle of a commit: the counter of the key moves, so
\* the records of every key on it are known to be old, and the key is dirty.
LEMMA RecordsUpdate ==
  ASSUME TypeOK, RecordsOk,
         NEW p \in Proc, NEW k \in Key, NEW v \in Value, Update(p, k, v)
  PROVE  RecordsOk'
<1> USE SlotAssumption
<1>0. UNCHANGED <<pending, staged, done, file, drift>>
  BY DEF Update, diskVars, commitVars
<1>1. CASE seg[k].val = v
  <2>1. UNCHANGED <<seg, slots>>
    BY <1>1 DEF Update, segVars
  <2> QED
    BY <1>0, <2>1 DEF RecordsOk, RecordOk, Records
<1>2. CASE seg[k].val # v
  <2>1. /\ slots' \in [Slot -> Nat]
        /\ slots'[SlotOf[k]] > slots[SlotOf[k]]
        /\ \A s \in Slot : s # SlotOf[k] => slots'[s] = slots[s]
    BY <1>2, BumpFacts DEF Update
  <2>2. seg' = [seg EXCEPT ![k] = [val |-> v, dirty |-> TRUE]]
    BY <1>2 DEF Update
  <2>3. ASSUME NEW q \in Proc, NEW r \in Records(q) PROVE RecordOk(q, r)'
    <3>1. r \in Pending /\ r.key \in Key /\ r.seen \in Nat /\ slots[SlotOf[r.key]] \in Nat
      BY DEF TypeOK, Records, Pending
    <3>2. RecordOk(q, r)
      BY DEF RecordsOk
    <3>3. \A x \in Records(q)' : x.key = r.key => x = r
      BY <1>0, <3>2 DEF RecordOk, Records
    <3>4. CASE SlotOf[r.key] = SlotOf[k]
      <4>1. r.seen <= slots'[SlotOf[r.key]] /\ r.seen # slots'[SlotOf[r.key]]
        BY <2>1, <3>1, <3>2, <3>4 DEF RecordOk
      <4>2. r \in pending[q] \cup staged[q] => seg'[r.key].dirty \/ r.val = seg'[r.key].val
        BY <2>2, <3>1, <3>2 DEF RecordOk, TypeOK
      <4> QED
        BY <1>0, <3>3, <4>1, <4>2 DEF RecordOk
    <3>5. CASE SlotOf[r.key] # SlotOf[k]
      <4>1. seg'[r.key] = seg[r.key] /\ slots'[SlotOf[r.key]] = slots[SlotOf[r.key]]
        BY <2>1, <2>2, <3>1, <3>5 DEF TypeOK
      <4> QED
        BY <1>0, <3>2, <3>3, <4>1 DEF RecordOk
    <3> QED
      BY <3>4, <3>5
  <2> QED
    BY <1>0, <2>3 DEF RecordsOk, Records
<1> QED
  BY <1>1, <1>2

\* Publishing a record that is no longer current: its key is dirty again.
LEMMA PublishStep ==
  ASSUME TypeOK, CommitLocked, RecordsOk, NothingStranded, NEW p \in Proc, Publish(p)
  PROVE  RecordsOk' /\ NothingStranded'
<1>1. PICK r \in staged[p] : Publish(p)!2!(r)
  BY DEF Publish
<1>2. /\ r \in Records(p) /\ r.key \in Key /\ RecordOk(p, r)
      /\ pc[p] = "publish" /\ UNCHANGED <<seg, slots, pending>>
  BY DEF Records, RecordsOk, TypeOK, Pending, Publish, segVars
<1>3. ASSUME NEW q \in Proc, q # p PROVE Records(q) = {} /\ Records(q)' = {}
  <2>1. Records(q) = {}
    BY <1>2, <1>3, Alone DEF Busy
  <2>2. done'[q] = done[q] /\ staged'[q] = staged[q] /\ pending'[q] = pending[q]
    BY <1>1, <1>2, <1>3 DEF PublishOk, PublishFails, TypeOK
  <2> QED
    BY <2>1, <2>2 DEF Records
<1>4. staged'[p] = staged[p] \ {r} /\ done'[p] \subseteq done[p] \cup {r}
  BY <1>1 DEF PublishOk, PublishFails, TypeOK
<1>5. CASE PublishOk(p, r)
  <2>1. file' = [file EXCEPT ![r.key] = r.val] /\ drift' = drift \ {r.key}
    BY <1>5 DEF PublishOk, Unlink, Rename
  <2>2. ASSUME NEW x \in Records(p)' PROVE RecordOk(p, x)'
    <3>1. x \in Records(p) /\ RecordOk(p, x) /\ x.key \in Key
      BY <1>2, <1>4 DEF Records, RecordsOk, TypeOK, Pending
    <3>2. x \in pending'[p] \cup staged'[p] => x \in pending[p] \cup staged[p]
      BY <1>2, <1>4
    <3>3. \A y \in Records(p)' : y \in Records(p)
      BY <1>2, <1>4 DEF Records
    <3>4. x \in done'[p] /\ x.seen = slots[SlotOf[x.key]]
            => x.key \in drift' \/ file'[x.key] = x.val
      <4>1. CASE x.key = r.key
        BY <1>2, <2>1, <3>1, <4>1 DEF RecordOk, TypeOK
      <4>2. CASE x.key # r.key
        BY <1>4, <2>1, <3>1, <4>2 DEF RecordOk, TypeOK
      <4> QED
        BY <4>1, <4>2
    <3> QED
      BY <1>2, <3>1, <3>2, <3>3, <3>4 DEF RecordOk
  <2>3. ASSUME NEW k \in Key PROVE seg[k].dirty \/ k \in drift' \/ file'[k] = seg[k].val
    <3>1. CASE k = r.key
      BY <1>2, <2>1, <3>1 DEF RecordOk, TypeOK
    <3>2. CASE k # r.key
      BY <2>1, <3>2 DEF NothingStranded, TypeOK
    <3> QED
      BY <3>1, <3>2
  <2> QED
    BY <1>2, <1>3, <2>2, <2>3 DEF RecordsOk, NothingStranded
<1>6. CASE PublishFails(p, r)
  <2>1. UNCHANGED <<file, drift, done>>
    BY <1>6 DEF PublishFails
  <2>2. ASSUME NEW x \in Records(p)' PROVE RecordOk(p, x)'
    <3>1. x \in Records(p) /\ RecordOk(p, x)
      BY <1>2, <1>4, <2>1 DEF Records, RecordsOk
    <3>2. \A y \in Records(p)' : y \in Records(p)
      BY <1>2, <1>4, <2>1 DEF Records
    <3> QED
      BY <1>2, <1>4, <2>1, <3>1, <3>2 DEF RecordOk
  <2> QED
    BY <1>2, <1>3, <2>1, <2>2 DEF RecordsOk, NothingStranded
<1> QED
  BY <1>1, <1>5, <1>6

\* The snapshot: every record is current, and there is one per key.
LEMMA SnapshotStep ==
  ASSUME TypeOK, CommitLocked, RecordsOk, NEW p \in Proc, Snapshot(p)
  PROVE  RecordsOk'
<1> USE SlotAssumption
<1> DEFINE Rec(k) == [key |-> k, val |-> seg[k].val, seen |-> slots[SlotOf[k]]]
<1>1. /\ pc[p] = "snapshot" /\ UNCHANGED <<seg, slots, staged, done, file, drift>>
      /\ pending' = [pending EXCEPT ![p] = {Rec(k) : k \in Owed}]
  BY DEF Snapshot, At, segVars, diskVars
<1>2. ASSUME NEW q \in Proc, q # p PROVE Records(q)' = {}
  <2>1. Records(q) = {} /\ pending'[q] = pending[q]
    BY <1>1, <1>2, Alone DEF Busy, TypeOK
  <2> QED
    BY <1>1, <2>1 DEF Records
<1>3. staged[p] = {} /\ done[p] = {} /\ pending'[p] = {Rec(k) : k \in Owed}
  BY <1>1 DEF CommitLocked, Records, TypeOK
<1>4. ASSUME NEW r \in Records(p)' PROVE RecordOk(p, r)'
  <2>1. PICK k \in Key : r = Rec(k)
    BY <1>1, <1>3 DEF Records, Owed
  <2>2. r.key = k /\ r.val = seg[k].val /\ r.seen = slots[SlotOf[k]] /\ r.seen \in Nat
    BY <2>1 DEF TypeOK
  <2>3. \A x \in Records(p)' : x.key = r.key => x = r
    BY <1>1, <1>3, <2>1 DEF Records
  <2>4. r.seen <= slots[SlotOf[r.key]]
    BY <2>2
  <2>5. r \notin done'[p]
    BY <1>1, <1>3
  <2> QED
    BY <1>1, <2>2, <2>3, <2>4, <2>5 DEF RecordOk
<1> QED
  BY <1>2, <1>4 DEF RecordsOk

\* Every step keeps the records of the running commit good, and strands no write.
LEMMA StrandedNext == TypeOK /\ CommitInv /\ [Next]_vars => RecordsOk' /\ NothingStranded'
<1> SUFFICES ASSUME TypeOK, CommitInv, [Next]_vars PROVE RecordsOk' /\ NothingStranded'
  OBVIOUS
<1>0. CommitLocked /\ WipeLocked /\ RecordsOk /\ NothingStranded
  BY DEF CommitInv
\* Steps that leave the segment and the files alone, and add no record.
<1>a. ASSUME UNCHANGED <<seg, slots, file, drift>>,
             \A q \in Proc : /\ pending'[q] \subseteq pending[q] /\ done'[q] \subseteq done[q]
                             /\ staged'[q] \subseteq staged[q] \cup pending[q]
      PROVE  RecordsOk' /\ NothingStranded'
  <2>1. NothingStranded'
    BY <1>0, <1>a DEF NothingStranded
  <2>2. ASSUME NEW q \in Proc, NEW r \in Records(q)' PROVE RecordOk(q, r)'
    <3>1. r \in Records(q) /\ RecordOk(q, r)
      BY <1>0, <1>a DEF Records, RecordsOk
    <3>2. \A x \in Records(q)' : x \in Records(q)
      BY <1>a DEF Records
    <3> QED
      BY <1>a, <3>1, <3>2 DEF RecordOk
  <2> QED
    BY <2>1, <2>2 DEF RecordsOk
\* Steps in which nobody has a record.
<1>b. ASSUME \A q \in Proc : Records(q)' = {} PROVE RecordsOk'
  BY <1>b DEF RecordsOk
\* A process that is past taking the commit semaphore and has no record of its own.
<1>c. ASSUME NEW p \in Proc, pc[p] \in {"clear", "wipe"}, UNCHANGED <<pending, staged, done>>
      PROVE \A q \in Proc : Records(q)' = {}
  BY <1>0, <1>c, Alone DEF CommitLocked, Busy, Records
<1>1. ASSUME NEW p \in Proc, NEW k \in Key, Get(p, k)
      PROVE  RecordsOk' /\ NothingStranded'
  <2>1. UNCHANGED <<seg, slots, file, drift, pending, staged, done>>
    BY <1>1 DEF Get, segVars, diskVars, commitVars, ghostVars
  <2> QED
    BY <1>a, <2>1
<1>2. ASSUME NEW p \in Proc, NEW k \in Key, NEW v \in Value, Update(p, k, v)
      PROVE  RecordsOk' /\ NothingStranded'
  <2>1. CASE seg[k].val = v
    <3>1. UNCHANGED <<seg, file, drift>>
      BY <1>2, <2>1 DEF Update, segVars, diskVars
    <3> QED
      BY <1>0, <1>2, <3>1, RecordsUpdate DEF NothingStranded
  <2>2. CASE seg[k].val # v
    <3>1. /\ seg' = [seg EXCEPT ![k] = [val |-> v, dirty |-> TRUE]]
          /\ UNCHANGED <<file, drift>>
      BY <1>2, <2>2 DEF Update, diskVars
    <3>2. NothingStranded'
      BY <1>0, <3>1 DEF NothingStranded, TypeOK
    <3> QED
      BY <1>0, <1>2, <3>2, RecordsUpdate
  <2> QED
    BY <2>1, <2>2
<1>3. ASSUME NEW p \in Proc, Snapshot(p) PROVE RecordsOk' /\ NothingStranded'
  <2>1. NothingStranded'
    BY <1>0, <1>3 DEF NothingStranded, Snapshot, segVars, diskVars
  <2> QED
    BY <1>0, <1>3, <2>1, SnapshotStep
<1>4. ASSUME NEW p \in Proc, Stage(p) PROVE RecordsOk' /\ NothingStranded'
  <2>1. UNCHANGED <<seg, slots, file, drift, done>>
    BY <1>4 DEF Stage, segVars, ghostVars
  <2>2. PICK r \in pending[p] : Stage(p)!2!(r)
    BY <1>4 DEF Stage
  <2>3. ASSUME NEW q \in Proc
        PROVE  pending'[q] \subseteq pending[q] /\ staged'[q] \subseteq staged[q] \cup pending[q]
    BY <2>2 DEF StageOk, StageFails, TypeOK
  <2> QED
    BY <1>a, <2>1, <2>3
<1>5. ASSUME NEW p \in Proc, Publish(p) PROVE RecordsOk' /\ NothingStranded'
  BY <1>0, <1>5, PublishStep
<1>6. ASSUME NEW p \in Proc, Writeback(p) PROVE RecordsOk' /\ NothingStranded'
  <2>1. /\ pc[p] = "publish" /\ staged[p] = {}
        /\ UNCHANGED <<slots, file, drift, pending, staged, done>>
    BY <1>6 DEF Writeback, At, diskVars, commitVars, ghostVars
  <2>2. \A k \in Key : /\ seg'[k].val = seg[k].val
                       /\ seg'[k].dirty <=> seg[k].dirty /\ k \notin Retired(p)
    BY <1>6 DEF Writeback
  <2>3. pending[p] = {} /\ \A q \in Proc : q # p => Records(q) = {}
    BY <1>0, <2>1, Alone DEF CommitLocked, Busy
  <2>4. ASSUME NEW q \in Proc, NEW r \in Records(q)' PROVE RecordOk(q, r)'
    <3>1. q = p /\ r \in Records(p) /\ RecordOk(p, r) /\ r.key \in Key
      BY <1>0, <2>1, <2>3 DEF Records, RecordsOk, TypeOK, Pending
    <3> QED
      BY <2>1, <2>2, <2>3, <3>1 DEF RecordOk, Records
  <2>5. ASSUME NEW k \in Key PROVE seg'[k].dirty \/ k \in drift \/ file[k] = seg'[k].val
    <3>1. CASE k \in Retired(p)
      <4>1. PICK r \in done[p] : r.key = k /\ r.seen = slots[SlotOf[k]]
        BY <3>1 DEF Retired
      <4>2. RecordOk(p, r)
        BY <1>0 DEF RecordsOk, Records
      <4> QED
        BY <2>2, <4>1, <4>2 DEF RecordOk
    <3>2. CASE k \notin Retired(p)
      BY <1>0, <2>2, <3>2 DEF NothingStranded
    <3> QED
      BY <3>1, <3>2
  <2> QED
    BY <2>1, <2>4, <2>5 DEF RecordsOk, NothingStranded
<1>7. ASSUME NEW p \in Proc,
             \/ FlushFails(p) \/ CommitReturn(p) \/ CommitNoSem(p) \/ ClearNoSem(p)
             \/ ClearReturn(p)
      PROVE  RecordsOk' /\ NothingStranded'
  <2>1. UNCHANGED <<seg, slots, file, drift>>
    BY <1>7 DEF FlushFails, CommitReturn, CommitNoSem, ClearNoSem, ClearReturn,
         segVars, diskVars
  <2>2. Return(p)
    BY <1>7 DEF FlushFails, CommitReturn, CommitNoSem, ClearNoSem, ClearReturn
  <2> QED
    BY <1>a, <2>1, <2>2 DEF Return, TypeOK
<1>8. ASSUME NEW p \in Proc, ClearSegment(p) PROVE RecordsOk' /\ NothingStranded'
  <2>1. RecordsOk'
    BY <1>b, <1>c, <1>8 DEF ClearSegment, At, commitVars
  <2>2. NothingStranded'
    BY <1>8 DEF ClearSegment, NothingStranded, diskVars
  <2> QED
    BY <2>1, <2>2
<1>9. ASSUME NEW p \in Proc, WipeFile(p) PROVE RecordsOk' /\ NothingStranded'
  <2>1. RecordsOk'
    BY <1>b, <1>c, <1>9 DEF WipeFile, commitVars
  <2>2. PICK k \in Key : Unlink(k) /\ drift' = drift \ {k}
    BY <1>9 DEF WipeFile
  <2>3. seg' = seg /\ seg[k].val = Absent
    BY <1>0, <1>9 DEF WipeFile, WipeLocked, segVars
  <2>4. NothingStranded'
    BY <1>0, <2>2, <2>3 DEF NothingStranded, Unlink, TypeOK
  <2> QED
    BY <2>1, <2>4
<1>10. ASSUME NEW p \in Proc, Kill(p) PROVE RecordsOk' /\ NothingStranded'
  <2>1. UNCHANGED <<seg, slots, file, drift>>
    BY <1>10 DEF Kill, segVars, diskVars
  <2>2. CASE clock = p
    <3>1. /\ pending' = [pending EXCEPT ![p] = {}]
          /\ staged' = [staged EXCEPT ![p] = {}]
          /\ done' = [done EXCEPT ![p] = {}]
      BY <1>10, <2>2 DEF Kill, Return
    <3>2. ASSUME NEW q \in Proc
          PROVE  /\ pending'[q] \subseteq pending[q] /\ done'[q] \subseteq done[q]
                 /\ staged'[q] \subseteq staged[q] \cup pending[q]
      BY <3>1 DEF TypeOK
    <3> QED
      BY <1>a, <2>1, <3>2
  <2>3. CASE clock # p
    <3>1. UNCHANGED <<pending, staged, done>>
      BY <1>10, <2>3 DEF Kill, commitVars
    <3> QED
      BY <1>a, <2>1, <3>1
  <2> QED
    BY <2>2, <2>3
<1>11. ASSUME NEW k \in Key, NEW v \in Value, Edit(k, v) PROVE RecordsOk' /\ NothingStranded'
  <2>1. /\ UNCHANGED <<seg, slots, pending, staged, done>>
        /\ file' = [file EXCEPT ![k] = v] /\ drift' = drift \cup {k}
    BY <1>11 DEF Edit, segVars, commitVars
  <2>2. ASSUME NEW q \in Proc, NEW r \in Records(q) PROVE RecordOk(q, r)'
    <3>1. RecordOk(q, r) /\ r.key \in Key
      BY <1>0 DEF RecordsOk, Records, TypeOK, Pending
    <3> QED
      BY <2>1, <3>1 DEF RecordOk, Records, TypeOK
  <2>3. NothingStranded'
    BY <1>0, <2>1 DEF NothingStranded, TypeOK
  <2> QED
    BY <2>1, <2>2, <2>3 DEF RecordsOk, Records
<1>12. CASE PowerLoss
  BY <1>12 DEF PowerLoss, RecordsOk, Records, Nothing, NothingStranded, Clean
<1>13. CASE UNCHANGED vars
  BY <1>a, <1>13 DEF vars
<1>14. ASSUME NEW p \in Proc, NEW k \in Key, Unset(p, k) \/ (\E v \in Val : Set(p, k, v))
       PROVE  RecordsOk' /\ NothingStranded'
  BY <1>2, <1>14 DEF Set, Unset, Value
<1>15. ASSUME NEW p \in Proc,
              \/ ReadValue(p) \/ ReadLocked(p) \/ GetDegraded(p) \/ CommitBegin(p)
              \/ FlushStaged(p) \/ ClearBegin(p) \/ WipeEnd(p)
       PROVE  RecordsOk' /\ NothingStranded'
  <2>1. UNCHANGED <<seg, slots, file, drift, pending, staged, done>>
    BY <1>15 DEF ReadValue, ReadLocked, GetDegraded, GetReturn, CommitBegin,
         FlushStaged, ClearBegin, WipeEnd, segVars, diskVars, commitVars, ghostVars
  <2> QED
    BY <1>a, <2>1
<1>16. CASE Sweep
  <2>1. UNCHANGED <<seg, slots, file, drift, pending, staged, done>>
    BY <1>16 DEF Sweep, segVars, commitVars, ghostVars
  <2> QED
    BY <1>a, <2>1
<1> QED
  BY <1>1, <1>3, <1>4, <1>5, <1>6, <1>7, <1>8, <1>9, <1>10, <1>11, <1>12, <1>13, <1>14,
     <1>15, <1>16 DEF Next, Call, Step

\* No write is stranded in memory: whatever sets, unsets, commits, clears, kills
\* and failures come in which order, a key whose file is not what memory holds is
\* still flagged, unless the file was touched from outside or by a clear cut short.
THEOREM Unstranded == Spec => []NothingStranded
<1>1. Init => TypeOK /\ CommitInv
  BY TypeInit, LockedInit, RecordsInit DEF CommitInv
<1>2. TypeOK /\ CommitInv /\ [Next]_vars => TypeOK' /\ CommitInv'
  BY TypeNext, LockedNext, WipeNext, StrandedNext DEF CommitInv
<1>3. CommitInv => NothingStranded
  BY DEF CommitInv
<1> QED
  BY <1>1, <1>2, <1>3, PTL DEF Spec
=============================================================================
