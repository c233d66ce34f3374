-------------------------- MODULE StoreDurability --------------------------
(***************************************************************************)
(* Proofs about what commit and clear leave on the device, for any number  *)
(* of processes, keys, values and counters, and any set of failures:       *)
(*   NoLeak     a commit leaves no temporary behind unless it was killed   *)
(*   Heals      a commit in which nothing failed has repaired the files    *)
(*   Emptied    a clear that reports success has left no file              *)
(*   Durable    what a power cut leaves is from after the last barrier     *)
(* The last two need that unlink does not fail: remove_all passes over a   *)
(* file it could not remove, and reports success.                          *)
(***************************************************************************)
EXTENDS StoreProofs

\* A commit's temporaries: one per staged value, and gone when it has ended.
TempInv ==
  \A p \in Proc, k \in Key : tmp[p][k] # "none" =>
    \/ pc[p] = "dead"
    \/ /\ pc[p] \in {"stage", "publish"}
       /\ \E r \in staged[p] : r.key = k /\ r.val # Absent

\* No temporary is renamed before its bytes were flushed, and none is left to
\* be renamed at the end.
FlushInv ==
  \A p \in Proc :
    /\ pc[p] = "publish" =>
         \A r \in staged[p] : r.val # Absent => tmp[p][r.key] # "cached"
    /\ pc[p] = "flush" => staged[p] = {}

\* What a power cut may leave, and what memory and the files hold now, are whole
\* values since the last barrier.
HistoryInv ==
  \A k \in Key :
    /\ hist[k] \subseteq Value
    /\ seg[k].val \in hist[k]
    /\ file[k] \in dur[k]
    /\ dur[k] \subseteq hist[k]

After == {"stage", "publish", "flush", "wipe", "unlock"}

\* What is still to be published of k.
Coming(p, k) == \E r \in pending[p] \cup staged[p] : r.key = k

\* The running barrier p, if nothing fails from now on, ends with every file
\* holding a value from after it looked at memory.
BarrierInv ==
  \A p \in Proc : pc[p] \in After => \A k \in Key :
    /\ histc[k] \subseteq hist[k]
    /\ seg[k].val \in histc[k]
    /\ \A r \in Records(p) : r.val \in histc[r.key]
    /\ pc[p] # "wipe" /\ allOk[p] => file[k] \in histc[k] \/ Coming(p, k)
    /\ pc[p] = "wipe" /\ k \in late => file[k] \in histc[k]

\* The running commit, as far as its own work goes: a file it has published and
\* nobody has touched is what it published, and a live, clean key that is not
\* still to come has a file of the right length.
HealInv ==
  \A p \in Proc : pc[p] \in {"stage", "publish", "flush"} =>
    /\ \A r \in done[p] : r.key \in late \/ file[r.key] = r.val
    /\ allOk[p] => \A k \in Key :
         \/ k \in late \/ Coming(p, k) \/ seg[k].dirty \/ seg[k].val = Absent
         \/ ~DiffersOnDisk(k, seg[k].val)

-----------------------------------------------------------------------------
(* Temporaries.                                                            *)

\* Every step keeps temporaries with the staged values they are for.
LEMMA TempNext == TypeOK /\ CommitInv /\ TempInv /\ [Next]_vars => TempInv'
<1> SUFFICES ASSUME TypeOK, CommitInv, TempInv, [Next]_vars PROVE TempInv'
  OBVIOUS
<1>0. /\ pc \in [Proc -> Phases] /\ tmp \in [Proc -> [Key -> {"none", "cached", "flushed"}]]
      /\ pending \in [Proc -> SUBSET Pending] /\ staged \in [Proc -> SUBSET Pending]
      /\ CommitLocked /\ RecordsOk
  BY DEF TypeOK, CommitInv
<1> DEFINE Same(q) == pc'[q] = pc[q] /\ staged'[q] = staged[q]
           Free(q) == pc[q] # "dead" /\ (pc[q] \in {"stage", "publish"} => staged[q] = {})
           Fewer == \A q \in Proc, k \in Key : tmp'[q][k] # "none" => tmp[q][k] # "none"
\* A process that has no temporary, or keeps what it has staged for each.
<1>a. ASSUME Fewer,
             \A q \in Proc : \/ Same(q) \/ Free(q) \/ pc'[q] = "dead"
                             \/ /\ pc'[q] = "publish" /\ pc[q] # "dead"
                                /\ staged'[q] = staged[q]
      PROVE  TempInv'
  <2>1. ASSUME NEW q \in Proc, NEW k \in Key, tmp'[q][k] # "none", pc'[q] # "dead"
        PROVE  pc'[q] \in {"stage", "publish"} /\ \E r \in staged'[q] : r.key = k /\ r.val # Absent
    <3>1. tmp[q][k] # "none"
      BY <1>a, <2>1
    <3>2. pc[q] # "dead" => pc[q] \in {"stage", "publish"} /\ \E r \in staged[q] : r.key = k /\ r.val # Absent
      BY <3>1 DEF TempInv
    <3>3. ~Free(q)
      BY <3>2
    <3> QED
      BY <1>a, <2>1, <3>2, <3>3
  <2> QED
    BY <2>1 DEF TempInv
<1>b. ASSUME tmp' = TempsGone PROVE TempInv'
  BY <1>b DEF TempInv, TempsGone
<1>1. ASSUME NEW p \in Proc, NEW k \in Key, NEW v \in Value, Update(p, k, v) PROVE TempInv'
  BY <1>1, <1>a DEF Update, diskVars, commitVars
<1>2. ASSUME NEW p \in Proc, NEW k \in Key,
             Get(p, k) \/ Unset(p, k) \/ (\E v \in Val : Set(p, k, v))
      PROVE  TempInv'
  <2>1. CASE Get(p, k)
    <3>1. UNCHANGED <<tmp, staged>> /\ pc[p] = "idle" /\ pc' = [pc EXCEPT ![p] = "get"]
      BY <2>1 DEF Get, diskVars, commitVars
    <3> QED
      BY <1>0, <1>a, <3>1
  <2> QED
    BY <1>1, <1>2, <2>1 DEF Set, Unset, Value
<1>3. ASSUME NEW p \in Proc,
             \/ ReadValue(p) \/ ReadLocked(p) \/ GetDegraded(p) \/ CommitBegin(p)
             \/ Snapshot(p) \/ ClearBegin(p) \/ ClearSegment(p) \/ WipeFile(p) \/ Writeback(p)
      PROVE  TempInv'
  <2>1. UNCHANGED <<tmp, staged>>
    BY <1>3 DEF ReadValue, ReadLocked, GetDegraded, GetReturn, CommitBegin, Snapshot,
         ClearBegin, ClearSegment, WipeFile, Writeback, diskVars, commitVars
  <2>2. Free(p) /\ \A q \in Proc : q # p => pc'[q] = pc[q]
    BY <1>0, <1>3 DEF ReadValue, ReadLocked, GetDegraded, GetReturn, CommitBegin, Snapshot,
         ClearBegin, ClearSegment, WipeFile, Writeback, At
  <2> QED
    BY <1>a, <2>1, <2>2
<1>4. ASSUME NEW p \in Proc, Stage(p) PROVE TempInv'
  <2>1. PICK r \in pending[p] : Stage(p)!2!(r)
    BY <1>4 DEF Stage
  <2>2. pc' = pc /\ pc[p] = "stage" /\ r.key \in Key
    BY <1>0, <1>4 DEF Stage, Pending
  <2>3. CASE StageOk(p, r)
    <3>1. staged' = [staged EXCEPT ![p] = @ \cup {r}]
      BY <2>3 DEF StageOk
    <3>2. CASE r.val = Absent
      BY <1>0, <2>2, <2>3, <3>1, <3>2 DEF StageOk, TempInv
    <3>3. CASE r.val # Absent
      <4>1. tmp' = [tmp EXCEPT ![p][r.key] = "cached"]
        BY <2>3, <3>3 DEF StageOk
      <4> QED
        BY <1>0, <2>2, <3>1, <3>3, <4>1 DEF TempInv
    <3> QED
      BY <3>2, <3>3
  <2>4. CASE StageFails(p, r)
    <3>1. staged' = staged /\ tmp' = [tmp EXCEPT ![p][r.key] = "none"]
      BY <2>4 DEF StageFails
    <3> QED
      BY <1>0, <1>a, <2>2, <3>1
  <2> QED
    BY <2>1, <2>3, <2>4
<1>5. ASSUME NEW p \in Proc, FlushStaged(p) PROVE TempInv'
  <2>1. Fewer
    BY <1>0, <1>5 DEF FlushStaged, SyncStore
  <2>2. staged' = staged /\ pc[p] = "stage" /\ pc' = [pc EXCEPT ![p] = "publish"]
    BY <1>5 DEF FlushStaged, At, commitVars
  <2> QED
    BY <1>0, <1>a, <2>1, <2>2
<1>6. ASSUME NEW p \in Proc, FlushFails(p) PROVE TempInv'
  <2>1. /\ tmp' = [tmp EXCEPT ![p] = [k \in Key |-> "none"]]
        /\ pc' = [pc EXCEPT ![p] = "idle"] /\ staged' = [staged EXCEPT ![p] = {}]
    BY <1>6 DEF FlushFails, At, NoTemps, Return
  <2> QED
    BY <1>0, <2>1 DEF TempInv
<1>7. ASSUME NEW p \in Proc, Publish(p) PROVE TempInv'
  <2>1. PICK r \in staged[p] : Publish(p)!2!(r)
    BY <1>7 DEF Publish
  <2>2. /\ pc' = pc /\ pc[p] = "publish" /\ r.key \in Key
        /\ staged' = [staged EXCEPT ![p] = @ \ {r}]
    <3>1. r \in Pending
      BY <1>0
    <3> QED
      BY <1>7, <2>1, <3>1 DEF Publish, Pending
  <2>3. \A x \in staged[p] : x.key = r.key => x = r
    BY <1>0 DEF RecordsOk, RecordOk, Records
  <2>4. CASE tmp' = [tmp EXCEPT ![p][r.key] = "none"]
    <3>1. ASSUME NEW q \in Proc, NEW k \in Key, tmp'[q][k] # "none", pc[q] # "dead"
          PROVE  pc[q] \in {"stage", "publish"} /\ \E x \in staged'[q] : x.key = k /\ x.val # Absent
      <4>1. tmp[q][k] # "none" /\ ~(q = p /\ k = r.key)
        BY <1>0, <2>2, <2>4, <3>1
      <4>2. PICK x \in staged[q] : x.key = k /\ x.val # Absent
        BY <3>1, <4>1 DEF TempInv
      <4>3. x \in staged'[q]
        BY <1>0, <2>2, <4>1, <4>2
      <4> QED
        BY <3>1, <4>1, <4>2, <4>3 DEF TempInv
    <3> QED
      BY <2>2, <3>1 DEF TempInv
  <2>5. CASE tmp' = tmp /\ r.val = Absent
    <3>1. ASSUME NEW q \in Proc, NEW k \in Key, tmp[q][k] # "none", pc[q] # "dead"
          PROVE  pc[q] \in {"stage", "publish"} /\ \E x \in staged'[q] : x.key = k /\ x.val # Absent
      <4>1. PICK x \in staged[q] : x.key = k /\ x.val # Absent
        BY <3>1 DEF TempInv
      <4>2. x \in staged'[q]
        BY <1>0, <2>2, <2>5, <4>1
      <4> QED
        BY <3>1, <4>1, <4>2 DEF TempInv
    <3> QED
      BY <2>2, <2>5, <3>1 DEF TempInv
  <2> QED
    BY <2>1, <2>4, <2>5 DEF PublishOk, PublishFails, Rename
<1>8. ASSUME NEW p \in Proc, CommitReturn(p) \/ ClearReturn(p) PROVE TempInv'
  <2>1. Fewer
    BY <1>0, <1>8 DEF CommitReturn, ClearReturn, SyncStore
  <2>2. Free(p) /\ pc' = [pc EXCEPT ![p] = "idle"] /\ staged' = [staged EXCEPT ![p] = {}]
    BY <1>8 DEF CommitReturn, ClearReturn, At, Return
  <2> QED
    BY <1>0, <1>a, <2>1, <2>2
<1>9. ASSUME NEW p \in Proc, CommitNoSem(p) \/ ClearNoSem(p) PROVE TempInv'
  <2>1. /\ Free(p) /\ tmp' = tmp
        /\ pc' = [pc EXCEPT ![p] = "idle"] /\ staged' = [staged EXCEPT ![p] = {}]
    BY <1>9 DEF CommitNoSem, ClearNoSem, At, Return, diskVars
  <2> QED
    BY <1>0, <1>a, <2>1
<1>10. ASSUME NEW p \in Proc, WipeEnd(p) PROVE TempInv'
  <2>1. tmp' = TempsGone \/ tmp' = tmp
    BY <1>10 DEF WipeEnd
  <2>2. Free(p) /\ pc' = [pc EXCEPT ![p] = "unlock"] /\ staged' = staged
    BY <1>10 DEF WipeEnd, At
  <2> QED
    BY <1>0, <1>a, <1>b, <2>1, <2>2
<1>11. ASSUME NEW p \in Proc, Kill(p) PROVE TempInv'
  <2>1. /\ tmp' = tmp /\ pc' = [pc EXCEPT ![p] = "dead"]
        /\ staged' = staged \/ staged' = [staged EXCEPT ![p] = {}]
    BY <1>11 DEF Kill, Return, diskVars, commitVars
  <2> QED
    BY <1>0, <1>a, <2>1
<1>12. CASE PowerLoss \/ Sweep
  BY <1>b, <1>12 DEF PowerLoss, Sweep
<1>13. ASSUME NEW k \in Key, NEW v \in Value, Edit(k, v) PROVE TempInv'
  BY <1>a, <1>13 DEF Edit, commitVars
<1>14. CASE UNCHANGED vars
  BY <1>a, <1>14 DEF vars
<1> QED
  BY <1>2, <1>3, <1>4, <1>5, <1>6, <1>7, <1>8, <1>9, <1>10, <1>11, <1>12, <1>13, <1>14
     DEF Next, Call, Step

\* The lock discipline and the records of a running commit hold throughout.
LEMMA CommitInvariant == Spec => [](TypeOK /\ CommitInv)
<1>1. Init => TypeOK /\ CommitInv
  BY TypeInit, LockedInit, RecordsInit DEF CommitInv
<1>2. TypeOK /\ CommitInv /\ [Next]_vars => TypeOK' /\ CommitInv'
  BY TypeNext, LockedNext, WipeNext, StrandedNext DEF CommitInv
<1> QED
  BY <1>1, <1>2, PTL DEF Spec

\* A temporary .tmp.<pid>.<key> never outlives the commit that made it, however
\* staging, flushing or publishing failed, unless its process was killed.
THEOREM NoLeak == Spec => []NoTempLeak
<1>1. Init => TempInv
  BY DEF Init, TempInv, TempsGone
<1>2. TempInv => NoTempLeak
  BY DEF TempInv, NoTempLeak
<1> QED
  BY <1>1, <1>2, TempNext, CommitInvariant, PTL DEF Spec

-----------------------------------------------------------------------------
(* A clear empties the disk.                                               *)

\* While one process is inside a commit or a clear, no other is, nor has records.
LEMMA OthersOut ==
  ASSUME CommitLocked, NEW p \in Proc, pc[p] \in Busy, NEW q \in Proc, q # p
  PROVE  pc[q] \notin Busy /\ Records(q) = {}
BY Alone

\* Every step keeps the directory empty between remove_all and the return.
LEMMA EmptyNext ==
  ASSUME "unlink" \notin Fault
  PROVE  TypeOK /\ CommitInv /\ ClearEmptiesDisk /\ [Next]_vars => ClearEmptiesDisk'
<1> SUFFICES ASSUME TypeOK, CommitInv, ClearEmptiesDisk, [Next]_vars
             PROVE  ClearEmptiesDisk'
  OBVIOUS
<1>0. /\ pc \in [Proc -> Phases] /\ allOk \in [Proc -> BOOLEAN] /\ file \in [Key -> Content]
      /\ CommitLocked
  BY DEF TypeOK, CommitInv
<1>a. ASSUME UNCHANGED <<file, late>>,
             \A q \in Proc : pc'[q] = "unlock" => pc[q] = "unlock" /\ allOk'[q] = allOk[q]
      PROVE  ClearEmptiesDisk'
  BY <1>a DEF ClearEmptiesDisk
\* A step of the one process inside a commit or a clear, to anywhere else.
<1>b. ASSUME NEW p \in Proc, pc[p] \in Busy, pc'[p] # "unlock",
             \A q \in Proc : q # p => pc'[q] = pc[q]
      PROVE  ClearEmptiesDisk'
  BY <1>0, <1>b, OthersOut DEF ClearEmptiesDisk, Busy
<1>1. ASSUME NEW p \in Proc, NEW k \in Key,
             Get(p, k) \/ Unset(p, k) \/ (\E v \in Val : Set(p, k, v))
      PROVE  ClearEmptiesDisk'
  <2>1. UNCHANGED <<file, late, allOk>> /\ (pc' = pc \/ pc' = [pc EXCEPT ![p] = "get"])
    BY <1>1 DEF Get, Unset, Set, Update, diskVars, commitVars, ghostVars
  <2> QED
    BY <1>0, <1>a, <2>1
<1>2. ASSUME NEW p \in Proc,
             \/ ReadValue(p) \/ ReadLocked(p) \/ GetDegraded(p)
             \/ CommitBegin(p) \/ ClearBegin(p)
      PROVE  ClearEmptiesDisk'
  <2>1. UNCHANGED <<file, late, allOk>> /\ \E x \in {"idle", "snapshot", "clear"} : pc' = [pc EXCEPT ![p] = x]
    BY <1>2 DEF ReadValue, ReadLocked, GetDegraded, GetReturn, CommitBegin, ClearBegin, At,
         diskVars, commitVars, ghostVars
  <2> QED
    BY <1>0, <1>a, <2>1
<1>3. ASSUME NEW p \in Proc,
             \/ Snapshot(p) \/ FlushStaged(p) \/ FlushFails(p) \/ Writeback(p)
             \/ CommitReturn(p) \/ CommitNoSem(p) \/ ClearNoSem(p) \/ ClearSegment(p)
             \/ ClearReturn(p) \/ Stage(p) \/ Publish(p) \/ WipeFile(p)
      PROVE  ClearEmptiesDisk'
  <2>1. /\ pc[p] \in Busy
        /\ \/ pc' = pc /\ pc[p] \in {"stage", "publish", "wipe"}
           \/ \E x \in {"stage", "publish", "idle", "flush", "wipe"} : pc' = [pc EXCEPT ![p] = x]
    BY <1>3 DEF Snapshot, FlushStaged, FlushFails, Writeback, CommitReturn, CommitNoSem,
         ClearNoSem, ClearSegment, ClearReturn, Stage, Publish, WipeFile, At, Busy
  <2> QED
    BY <1>0, <1>b, <2>1
<1>4. ASSUME NEW p \in Proc, WipeEnd(p) PROVE ClearEmptiesDisk'
  <2>1. /\ pc[p] = "wipe" /\ pc' = [pc EXCEPT ![p] = "unlock"] /\ UNCHANGED <<file, late>>
        /\ \/ \A k \in Key : k \in late \/ file[k] = Absent
           \/ allOk' = [allOk EXCEPT ![p] = FALSE]
    BY <1>4 DEF WipeEnd, At, ghostVars
  <2>2. \A q \in Proc : pc'[q] = "unlock" => q = p
    BY <1>0, <2>1, OthersOut DEF Busy
  <2> QED
    BY <1>0, <2>1, <2>2 DEF ClearEmptiesDisk
<1>5. ASSUME NEW p \in Proc, Kill(p) PROVE ClearEmptiesDisk'
  <2>1. /\ UNCHANGED <<file, late>> /\ pc' = [pc EXCEPT ![p] = "dead"]
        /\ allOk' = allOk \/ allOk' = [allOk EXCEPT ![p] = TRUE]
    BY <1>5 DEF Kill, Return, diskVars, commitVars
  <2> QED
    BY <1>0, <1>a, <2>1
<1>6. ASSUME NEW k \in Key, NEW v \in Value, Edit(k, v) PROVE ClearEmptiesDisk'
  <2>1. /\ UNCHANGED <<pc, allOk>> /\ file' = [file EXCEPT ![k] = v]
        /\ late' = late \cup {k}
    BY <1>6 DEF Edit, commitVars
  <2> QED
    BY <1>0, <2>1 DEF ClearEmptiesDisk
<1>7. CASE PowerLoss
  BY <1>7 DEF PowerLoss, ClearEmptiesDisk
<1>8. CASE Sweep
  BY <1>a, <1>8 DEF Sweep, commitVars, ghostVars
<1>9. CASE UNCHANGED vars
  BY <1>a, <1>9 DEF vars
<1> QED
  BY <1>1, <1>2, <1>3, <1>4, <1>5, <1>6, <1>7, <1>8, <1>9 DEF Next, Call, Step

\* nvram_clear: when remove_all has reported success there is no file that the next
\* boot would turn into a variable, whatever commits ran before it and whatever
\* sets waited for it.
THEOREM Emptied == ASSUME "unlink" \notin Fault PROVE Spec => []ClearEmptiesDisk
<1>1. Init => ClearEmptiesDisk
  BY DEF Init, ClearEmptiesDisk
<1> QED
  BY <1>1, EmptyNext, CommitInvariant, PTL DEF Spec

-----------------------------------------------------------------------------
(* A commit repairs the files.                                             *)

\* Every step keeps what the running commit has repaired, and what it has to.
LEMMA HealNext == TypeOK /\ CommitInv /\ HealInv /\ [Next]_vars => HealInv'
<1> SUFFICES ASSUME TypeOK, CommitInv, HealInv, [Next]_vars PROVE HealInv'
  OBVIOUS
<1>0. /\ pc \in [Proc -> Phases] /\ allOk \in [Proc -> BOOLEAN] /\ file \in [Key -> Content]
      /\ pending \in [Proc -> SUBSET Pending] /\ staged \in [Proc -> SUBSET Pending]
      /\ done \in [Proc -> SUBSET Pending]
      /\ seg \in [Key -> [val : Content, dirty : BOOLEAN]]
      /\ CommitLocked /\ RecordsOk
  BY DEF TypeOK, CommitInv
<1> DEFINE Writing == {"stage", "publish", "flush"}
           Good(k) == seg[k].val = Absent \/ ~DiffersOnDisk(k, seg[k].val)
\* Steps that leave memory and the files alone and publish nothing.
<1>a. ASSUME UNCHANGED <<seg, file, late>>,
             \A q \in Proc : pc'[q] \in Writing =>
               /\ pc[q] \in Writing /\ done'[q] = done[q]
               /\ allOk'[q] => allOk[q] /\ pending[q] \cup staged[q] \subseteq pending'[q] \cup staged'[q]
      PROVE  HealInv'
  <2> SUFFICES ASSUME NEW q \in Proc, pc'[q] \in Writing
               PROVE  /\ \A r \in done'[q] : r.key \in late' \/ file'[r.key] = r.val
                      /\ allOk'[q] => \A k \in Key :
                           \/ k \in late' \/ Coming(q, k)' \/ seg'[k].dirty \/ Good(k)'
    BY DEF HealInv
  <2>2. \A k \in Key : Good(k)' <=> Good(k)
    BY <1>a DEF DiffersOnDisk
  <2>3. \A k \in Key : allOk'[q] /\ Coming(q, k) => Coming(q, k)'
    BY <1>a DEF Coming
  <2> QED
    BY <1>a, <2>2, <2>3 DEF HealInv
\* Steps after which nobody is between a snapshot and the return.
<1>b. ASSUME NEW p \in Proc, pc[p] \in Busy, pc'[p] \notin Writing,
             \A q \in Proc : q # p => pc'[q] = pc[q]
      PROVE  HealInv'
  BY <1>0, <1>b, OthersOut DEF HealInv, Busy
\* A file that holds its key's value does not differ from it.
<1>c. ASSUME NEW k \in Key, file[k] = seg[k].val PROVE Good(k)
  BY <1>c DEF DiffersOnDisk
<1>1. ASSUME NEW p \in Proc, NEW k \in Key, NEW v \in Value, Update(p, k, v) PROVE HealInv'
  <2>1. UNCHANGED <<pc, file, late, done, allOk, pending, staged>>
    BY <1>1 DEF Update, diskVars, commitVars
  <2>2. CASE seg' = seg
    BY <1>a, <2>1, <2>2
  <2>3. CASE seg' = [seg EXCEPT ![k] = [val |-> v, dirty |-> TRUE]]
    <3>1. seg'[k].dirty /\ \A j \in Key : j # k => seg'[j] = seg[j]
      BY <1>0, <2>3
    <3>2. \A j \in Key : j # k /\ Good(j) => Good(j)'
      BY <2>1, <3>1 DEF DiffersOnDisk
    <3>3. \A q \in Proc, j \in Key : Coming(q, j) => Coming(q, j)'
      BY <2>1 DEF Coming
    <3>4. ASSUME NEW q \in Proc, NEW j \in Key, pc[q] \in Writing, allOk[q]
          PROVE  j \in late \/ Coming(q, j)' \/ seg'[j].dirty \/ Good(j)'
      BY <3>1, <3>2, <3>3, <3>4 DEF HealInv
    <3> QED
      BY <2>1, <3>4 DEF HealInv
  <2> QED
    BY <1>1, <2>2, <2>3 DEF Update, segVars
<1>2. ASSUME NEW p \in Proc, NEW k \in Key,
             Get(p, k) \/ Unset(p, k) \/ (\E v \in Val : Set(p, k, v))
      PROVE  HealInv'
  <2>1. CASE Get(p, k)
    <3>1. /\ UNCHANGED <<seg, file, late, done, allOk, pending, staged>>
          /\ pc' = [pc EXCEPT ![p] = "get"]
      BY <2>1 DEF Get, segVars, diskVars, commitVars, ghostVars
    <3> QED
      BY <1>0, <1>a, <3>1
  <2> QED
    BY <1>1, <1>2, <2>1 DEF Set, Unset, Value
<1>3. ASSUME NEW p \in Proc,
             \/ ReadValue(p) \/ ReadLocked(p) \/ GetDegraded(p)
             \/ CommitBegin(p) \/ ClearBegin(p) \/ FlushStaged(p)
      PROVE  HealInv'
  <2>1. UNCHANGED <<seg, file, late, done, allOk, pending, staged>>
    BY <1>3 DEF ReadValue, ReadLocked, GetDegraded, GetReturn, CommitBegin, ClearBegin,
         FlushStaged, segVars, diskVars, commitVars, ghostVars
  <2>2. \/ \E x \in {"idle", "snapshot", "clear"} : pc' = [pc EXCEPT ![p] = x]
        \/ pc[p] = "stage" /\ pc' = [pc EXCEPT ![p] = "publish"]
    BY <1>3 DEF ReadValue, ReadLocked, GetDegraded, GetReturn, CommitBegin, ClearBegin,
         FlushStaged, At
  <2> QED
    BY <1>0, <1>a, <2>1, <2>2
<1>4. ASSUME NEW p \in Proc, Snapshot(p) PROVE HealInv'
  <2> DEFINE Rec(k) == [key |-> k, val |-> seg[k].val, seen |-> slots[SlotOf[k]]]
  <2>1. /\ pc[p] = "snapshot" /\ pc' = [pc EXCEPT ![p] = "stage"]
        /\ UNCHANGED <<seg, file, done>>
        /\ pending' = [pending EXCEPT ![p] = {Rec(k) : k \in Owed}]
    BY <1>4 DEF Snapshot, At, segVars, diskVars
  <2>2. ASSUME NEW q \in Proc, pc'[q] \in Writing PROVE q = p
    BY <1>0, <2>1, <2>2, OthersOut DEF Busy
  <2>3. done'[p] = {}
    BY <1>0, <2>1 DEF CommitLocked, Records
  <2>4. ASSUME NEW k \in Key PROVE Coming(p, k)' \/ Good(k)'
    <3>1. CASE k \in Owed
      <4>1. Rec(k) \in pending'[p] /\ Rec(k).key = k
        BY <1>0, <2>1, <3>1
      <4> QED
        BY <4>1 DEF Coming
    <3>2. CASE k \notin Owed
      BY <2>1, <3>2 DEF Owed, DiffersOnDisk
    <3> QED
      BY <3>1, <3>2
  <2> QED
    BY <2>2, <2>3, <2>4 DEF HealInv
<1>5. ASSUME NEW p \in Proc, Stage(p) PROVE HealInv'
  <2>1. PICK r \in pending[p] : Stage(p)!2!(r)
    BY <1>5 DEF Stage
  <2>2. UNCHANGED <<pc, seg, file, late, done>>
    BY <1>5 DEF Stage, segVars, ghostVars
  <2>3. pending' = [pending EXCEPT ![p] = @ \ {r}]
    BY <2>1
  <2>4. CASE StageOk(p, r)
    <3>1. staged' = [staged EXCEPT ![p] = @ \cup {r}] /\ allOk' = allOk
      BY <2>4 DEF StageOk
    <3> QED
      BY <1>0, <1>a, <2>2, <2>3, <3>1
  <2>5. CASE StageFails(p, r)
    <3>1. staged' = staged /\ allOk' = [allOk EXCEPT ![p] = FALSE]
      BY <2>5 DEF StageFails
    <3> QED
      BY <1>0, <1>a, <2>2, <2>3, <3>1
  <2> QED
    BY <2>1, <2>4, <2>5
<1>6. ASSUME NEW p \in Proc, Publish(p) PROVE HealInv'
  <2>1. PICK r \in staged[p] : Publish(p)!2!(r)
    BY <1>6 DEF Publish
  <2>2. /\ pc[p] = "publish" /\ UNCHANGED <<pc, seg, late, pending>>
        /\ staged' = [staged EXCEPT ![p] = @ \ {r}]
    BY <1>6, <2>1 DEF Publish, segVars
  <2>3. r \in Pending /\ RecordOk(p, r)
    BY <1>0 DEF RecordsOk, Records
  <2>4. CASE PublishFails(p, r)
    <3>1. UNCHANGED <<file, done>> /\ allOk' = [allOk EXCEPT ![p] = FALSE]
      BY <2>4 DEF PublishFails
    <3> QED
      BY <1>0, <1>a, <2>2, <3>1
  <2>5. CASE PublishOk(p, r)
    <3>1. /\ file' = [file EXCEPT ![r.key] = r.val] /\ allOk' = allOk
          /\ done' = [done EXCEPT ![p] = @ \cup {r}]
      BY <2>5 DEF PublishOk, Unlink, Rename
    <3>2. ASSUME NEW q \in Proc, pc'[q] \in Writing PROVE q = p
      BY <1>0, <2>2, <3>2, OthersOut DEF Busy
    <3>3. ASSUME NEW x \in done'[p] PROVE x.key \in late \/ file'[x.key] = x.val
      <4>1. x \in Records(p) /\ x.key \in Key /\ (x.key = r.key => x = r)
        BY <1>0, <2>3, <3>1 DEF Records, RecordOk, Pending
      <4> QED
        BY <1>0, <2>2, <2>3, <3>1, <4>1 DEF HealInv
    <3>4. ASSUME NEW k \in Key, allOk[p]
          PROVE  k \in late \/ Coming(p, k)' \/ seg[k].dirty \/ Good(k)'
      <4>1. CASE k = r.key
        <5>1. seg[k].dirty \/ file'[k] = seg[k].val
          BY <1>0, <2>3, <3>1, <4>1 DEF RecordOk
        <5> QED
          BY <2>2, <5>1 DEF DiffersOnDisk
      <4>2. CASE k # r.key
        <5>1. file'[k] = file[k]
          BY <1>0, <3>1, <4>2
        <5>2. Coming(p, k) => Coming(p, k)'
          BY <1>0, <2>2, <4>2 DEF Coming
        <5>3. Good(k) => Good(k)'
          BY <2>2, <5>1 DEF DiffersOnDisk
        <5> QED
          BY <2>2, <3>4, <5>2, <5>3 DEF HealInv
      <4> QED
        BY <4>1, <4>2
    <3> QED
      BY <2>2, <3>1, <3>2, <3>3, <3>4 DEF HealInv
  <2> QED
    BY <2>1, <2>4, <2>5
<1>7. ASSUME NEW p \in Proc, Writeback(p) PROVE HealInv'
  <2>1. /\ pc[p] = "publish" /\ pc' = [pc EXCEPT ![p] = "flush"]
        /\ UNCHANGED <<slots, file, late, done, allOk, pending, staged>>
    BY <1>7 DEF Writeback, At, diskVars, commitVars, ghostVars
  <2>2. \A k \in Key : /\ seg'[k].val = seg[k].val
                       /\ seg'[k].dirty <=> seg[k].dirty /\ k \notin Retired(p)
    BY <1>7 DEF Writeback
  <2>3. ASSUME NEW q \in Proc, pc'[q] \in Writing PROVE q = p
    BY <1>0, <2>1, <2>3, OthersOut DEF Busy
  <2>4. ASSUME NEW k \in Key PROVE (Good(k)' <=> Good(k)) /\ (Coming(p, k)' <=> Coming(p, k))
    BY <2>1, <2>2 DEF DiffersOnDisk, Coming
  <2>5. ASSUME NEW k \in Key, allOk[p]
        PROVE  k \in late \/ Coming(p, k)' \/ seg'[k].dirty \/ Good(k)'
    <3>1. CASE k \in Retired(p)
      <4>1. PICK r \in done[p] : r.key = k /\ r.seen = slots[SlotOf[k]]
        BY <3>1 DEF Retired
      <4>2. r.val = seg[k].val
        BY <1>0, <4>1 DEF RecordsOk, RecordOk, Records
      <4>3. k \in late \/ file[k] = seg[k].val
        BY <2>1, <4>1, <4>2 DEF HealInv
      <4> QED
        BY <1>c, <2>4, <4>3
    <3>2. CASE k \notin Retired(p)
      BY <2>1, <2>2, <2>4, <2>5, <3>2 DEF HealInv
    <3> QED
      BY <3>1, <3>2
  <2> QED
    BY <2>1, <2>3, <2>5 DEF HealInv
<1>8. ASSUME NEW p \in Proc,
             \/ FlushFails(p) \/ CommitReturn(p) \/ CommitNoSem(p) \/ ClearNoSem(p)
             \/ ClearSegment(p) \/ WipeFile(p) \/ WipeEnd(p) \/ ClearReturn(p)
      PROVE  HealInv'
  <2>1. /\ pc[p] \in Busy
        /\ \/ pc[p] = "wipe" /\ pc' = pc
           \/ \E x \in {"idle", "wipe", "unlock"} : pc' = [pc EXCEPT ![p] = x]
    BY <1>8 DEF FlushFails, CommitReturn, CommitNoSem, ClearNoSem, ClearSegment, WipeFile,
         WipeEnd, ClearReturn, At, Busy
  <2> QED
    BY <1>0, <1>b, <2>1
<1>9. ASSUME NEW p \in Proc, Kill(p) PROVE HealInv'
  <2>1. pc' = [pc EXCEPT ![p] = "dead"]
    BY <1>9 DEF Kill
  <2>2. CASE pc[p] \in Busy
    BY <1>0, <1>b, <2>1, <2>2
  <2>3. CASE pc[p] \notin Busy
    <3>1. UNCHANGED <<seg, file, late>>
      BY <1>9 DEF Kill, segVars, diskVars
    <3>2. ASSUME NEW q \in Proc, q # p
          PROVE  /\ pc'[q] = pc[q] /\ done'[q] = done[q] /\ allOk'[q] = allOk[q]
                 /\ pending'[q] = pending[q] /\ staged'[q] = staged[q]
      BY <1>0, <1>9, <3>2 DEF Kill, Return, commitVars
    <3> QED
      BY <1>0, <1>a, <2>1, <3>1, <3>2
  <2> QED
    BY <2>2, <2>3
<1>10. ASSUME NEW k \in Key, NEW v \in Value, Edit(k, v) PROVE HealInv'
  <2>1. /\ UNCHANGED <<pc, seg, done, allOk, pending, staged>>
        /\ file' = [file EXCEPT ![k] = v] /\ late' = late \cup {k}
    BY <1>10 DEF Edit, segVars, commitVars
  <2>2. ASSUME NEW q \in Proc, NEW r \in done[q], pc[q] \in Writing
        PROVE  r.key \in late' \/ file'[r.key] = r.val
    <3>1. r.key \in Key
      BY <1>0 DEF Pending
    <3> QED
      BY <1>0, <2>1, <2>2, <3>1 DEF HealInv
  <2>3. ASSUME NEW q \in Proc, NEW j \in Key, pc[q] \in Writing, allOk[q]
        PROVE  j \in late' \/ Coming(q, j)' \/ seg[j].dirty \/ Good(j)'
    <3>1. CASE j = k
      BY <2>1, <3>1
    <3>2. CASE j # k
      <4>1. (Good(j) => Good(j)') /\ (Coming(q, j) => Coming(q, j)')
        BY <1>0, <2>1, <3>2 DEF DiffersOnDisk, Coming
      <4> QED
        BY <2>1, <2>3, <4>1 DEF HealInv
    <3> QED
      BY <3>1, <3>2
  <2> QED
    BY <2>1, <2>2, <2>3 DEF HealInv
<1>11. CASE PowerLoss
  BY <1>11 DEF PowerLoss, HealInv
<1>12. CASE Sweep
  BY <1>a, <1>12 DEF Sweep, segVars, commitVars, ghostVars
<1>13. CASE UNCHANGED vars
  BY <1>a, <1>13 DEF vars
<1> QED
  BY <1>2, <1>3, <1>4, <1>5, <1>6, <1>7, <1>8, <1>9, <1>10, <1>11, <1>12, <1>13
     DEF Next, Call, Step

-----------------------------------------------------------------------------
(* What has been flushed.                                                  *)

\* Every step keeps unflushed temporaries from being renamed.
LEMMA FlushNext == TypeOK /\ CommitInv /\ FlushInv /\ [Next]_vars => FlushInv'
<1> SUFFICES ASSUME TypeOK, CommitInv, FlushInv, [Next]_vars PROVE FlushInv'
  OBVIOUS
<1>0. /\ pc \in [Proc -> Phases] /\ tmp \in [Proc -> [Key -> {"none", "cached", "flushed"}]]
      /\ staged \in [Proc -> SUBSET Pending] /\ CommitLocked
  BY DEF TypeOK, CommitInv
<1> DEFINE NoneCached(q) == \A k \in Key : tmp'[q][k] = "cached" => tmp[q][k] = "cached"
\* Steps that take nobody to the publishing or past it.
<1>a. ASSUME \A q \in Proc : pc'[q] \in {"publish", "flush"} =>
               pc'[q] = pc[q] /\ staged'[q] \subseteq staged[q] /\ NoneCached(q)
      PROVE  FlushInv'
  <2> SUFFICES ASSUME NEW q \in Proc, pc'[q] \in {"publish", "flush"}
               PROVE  /\ pc'[q] = "publish" =>
                           \A r \in staged'[q] : r.val # Absent => tmp'[q][r.key] # "cached"
                      /\ pc'[q] = "flush" => staged'[q] = {}
    BY DEF FlushInv
  <2>1. \A r \in staged[q] : r.key \in Key
    BY <1>0 DEF Pending
  <2> QED
    BY <1>a, <2>1 DEF FlushInv
<1>b. ASSUME NEW p \in Proc, pc[p] \in Busy, pc'[p] \notin {"publish", "flush"},
             \A q \in Proc : q # p => pc'[q] = pc[q]
      PROVE  FlushInv'
  BY <1>0, <1>b, OthersOut DEF FlushInv, Busy
<1>1. ASSUME NEW p \in Proc, NEW k \in Key,
             Get(p, k) \/ Unset(p, k) \/ (\E v \in Val : Set(p, k, v))
      PROVE  FlushInv'
  <2>1. UNCHANGED <<tmp, staged>> /\ (pc' = pc \/ pc' = [pc EXCEPT ![p] = "get"])
    BY <1>1 DEF Get, Unset, Set, Update, diskVars, commitVars
  <2> QED
    BY <1>0, <1>a, <2>1
<1>2. ASSUME NEW p \in Proc,
             \/ ReadValue(p) \/ ReadLocked(p) \/ GetDegraded(p)
             \/ CommitBegin(p) \/ ClearBegin(p)
      PROVE  FlushInv'
  <2>1. UNCHANGED <<tmp, staged>> /\ \E x \in {"idle", "snapshot", "clear"} : pc' = [pc EXCEPT ![p] = x]
    BY <1>2 DEF ReadValue, ReadLocked, GetDegraded, GetReturn, CommitBegin, ClearBegin, At,
         diskVars, commitVars
  <2> QED
    BY <1>0, <1>a, <2>1
<1>3. ASSUME NEW p \in Proc,
             \/ Snapshot(p) \/ Stage(p) \/ FlushFails(p) \/ CommitReturn(p) \/ CommitNoSem(p)
             \/ ClearNoSem(p) \/ ClearSegment(p) \/ WipeFile(p) \/ WipeEnd(p) \/ ClearReturn(p)
      PROVE  FlushInv'
  <2>1. /\ pc[p] \in Busy
        /\ \/ pc[p] \in {"stage", "wipe"} /\ pc' = pc
           \/ \E x \in {"idle", "stage", "wipe", "unlock"} : pc' = [pc EXCEPT ![p] = x]
    BY <1>3 DEF Snapshot, Stage, FlushFails, CommitReturn, CommitNoSem, ClearNoSem,
         ClearSegment, WipeFile, WipeEnd, ClearReturn, At, Busy
  <2> QED
    BY <1>0, <1>b, <2>1
<1>4. ASSUME NEW p \in Proc, FlushStaged(p) PROVE FlushInv'
  <2>1. pc[p] = "stage" /\ pc' = [pc EXCEPT ![p] = "publish"] /\ staged' = staged
    BY <1>4 DEF FlushStaged, At, commitVars
  <2>2. \A q \in Proc : pc'[q] \in {"publish", "flush"} => q = p
    BY <1>0, <2>1, OthersOut DEF Busy
  <2>3. ASSUME NEW r \in staged[p], r.val # Absent PROVE tmp'[p][r.key] # "cached"
    <3>1. SyncStore /\ r.key \in Key
      BY <1>0, <1>4, <2>3 DEF FlushStaged, AnyStaged, Pending
    <3> QED
      BY <1>0, <3>1 DEF SyncStore
  <2> QED
    BY <1>0, <2>1, <2>2, <2>3 DEF FlushInv
<1>5. ASSUME NEW p \in Proc, Publish(p) PROVE FlushInv'
  <2>1. PICK r \in staged[p] : Publish(p)!2!(r)
    BY <1>5 DEF Publish
  <2>2. pc' = pc /\ staged' = [staged EXCEPT ![p] = @ \ {r}]
    BY <1>5, <2>1 DEF Publish
  <2>3. tmp' = tmp \/ tmp' = [tmp EXCEPT ![p][r.key] = "none"]
    BY <2>1 DEF PublishOk, PublishFails, Rename
  <2>4. r.key \in Key
    BY <1>0 DEF Pending
  <2>5. ASSUME NEW q \in Proc PROVE staged'[q] \subseteq staged[q] /\ NoneCached(q)
    BY <1>0, <2>2, <2>3, <2>4
  <2> QED
    BY <1>a, <2>2, <2>5
<1>6. ASSUME NEW p \in Proc, Writeback(p) PROVE FlushInv'
  <2>1. /\ pc[p] = "publish" /\ pc' = [pc EXCEPT ![p] = "flush"] /\ staged' = staged
        /\ staged[p] = {}
    BY <1>6 DEF Writeback, At, commitVars
  <2>2. \A q \in Proc : pc'[q] \in {"publish", "flush"} => q = p
    BY <1>0, <2>1, OthersOut DEF Busy
  <2> QED
    BY <1>0, <2>1, <2>2 DEF FlushInv
<1>7. ASSUME NEW p \in Proc, Kill(p) PROVE FlushInv'
  <2>1. /\ tmp' = tmp /\ pc' = [pc EXCEPT ![p] = "dead"]
        /\ staged' = staged \/ staged' = [staged EXCEPT ![p] = {}]
    BY <1>7 DEF Kill, Return, diskVars, commitVars
  <2> QED
    BY <1>0, <1>a, <2>1
<1>8. CASE PowerLoss
  BY <1>8 DEF PowerLoss, FlushInv
<1>9. CASE Sweep
  BY <1>0, <1>a, <1>9 DEF Sweep, TempsGone, commitVars
<1>10. ASSUME NEW k \in Key, NEW v \in Value, Edit(k, v) PROVE FlushInv'
  BY <1>a, <1>10 DEF Edit, commitVars
<1>11. CASE UNCHANGED vars
  BY <1>a, <1>11 DEF vars
<1> QED
  BY <1>1, <1>2, <1>3, <1>4, <1>5, <1>6, <1>7, <1>8, <1>9, <1>10, <1>11 DEF Next, Call, Step

\* The store heals itself: a commit in which nothing failed returns with every live,
\* clean key's file there and of the right length, unless the file was touched, or
\* the key set, after its snapshot.
THEOREM Heals == Spec => []HealsItself
<1>1. Init => HealInv /\ FlushInv
  BY DEF Init, HealInv, FlushInv
<1>2. TypeOK /\ CommitInv /\ HealInv /\ FlushInv => HealsItself
  BY DEF HealInv, FlushInv, HealsItself, CommitInv, CommitLocked, Coming
<1> QED
  BY <1>1, <1>2, HealNext, FlushNext, CommitInvariant, PTL DEF Spec

-----------------------------------------------------------------------------
(* What a power cut leaves.                                                *)

\* Every step keeps what may be on the device within the values since the last
\* barrier; the returns of commit and clear are where the barrier moves.
LEMMA HistoryNext ==
  TypeOK /\ CommitInv /\ FlushInv /\ HistoryInv /\ BarrierInv /\ [Next]_vars => HistoryInv'
<1> SUFFICES ASSUME TypeOK, CommitInv, FlushInv, HistoryInv, BarrierInv, [Next]_vars
             PROVE  HistoryInv'
  OBVIOUS
<1>0. /\ pc \in [Proc -> Phases] /\ file \in [Key -> Content] /\ dur \in [Key -> SUBSET Content]
      /\ tmp \in [Proc -> [Key -> {"none", "cached", "flushed"}]]
      /\ hist \in [Key -> SUBSET Content] /\ histc \in [Key -> SUBSET Content]
      /\ seg \in [Key -> [val : Content, dirty : BOOLEAN]]
      /\ staged \in [Proc -> SUBSET Pending]
      /\ CommitLocked /\ WipeLocked
  BY DEF TypeOK, CommitInv
<1>a. ASSUME UNCHANGED <<file, hist>>, \A k \in Key : seg'[k].val = seg[k].val,
             dur' = dur \/ dur' = [k \in Key |-> {file[k]}]
      PROVE  HistoryInv'
  BY <1>a DEF HistoryInv
<1>1. ASSUME NEW p \in Proc, NEW k \in Key, NEW v \in Value, Update(p, k, v)
      PROVE  HistoryInv'
  <2>1. UNCHANGED <<file, dur>>
    BY <1>1 DEF Update, diskVars
  <2>2. CASE seg[k].val = v
    BY <1>1, <1>a, <2>1, <2>2 DEF Update, segVars
  <2>3. CASE seg[k].val # v
    <3>1. /\ seg' = [seg EXCEPT ![k] = [val |-> v, dirty |-> TRUE]]
          /\ hist' = [hist EXCEPT ![k] = @ \cup {v}]
      BY <1>1, <2>3 DEF Update, Record
    <3> QED
      BY <1>0, <2>1, <3>1 DEF HistoryInv
  <2> QED
    BY <2>2, <2>3
<1>2. ASSUME NEW p \in Proc, NEW k \in Key,
             Get(p, k) \/ Unset(p, k) \/ (\E v \in Val : Set(p, k, v))
      PROVE  HistoryInv'
  <2>1. CASE Get(p, k)
    BY <1>a, <2>1 DEF Get, segVars, diskVars, ghostVars
  <2> QED
    BY <1>1, <1>2, <2>1 DEF Set, Unset, Value
<1>3. ASSUME NEW p \in Proc,
             \/ ReadValue(p) \/ ReadLocked(p) \/ GetDegraded(p) \/ CommitBegin(p)
             \/ Snapshot(p) \/ Stage(p) \/ FlushFails(p) \/ CommitNoSem(p) \/ ClearBegin(p)
             \/ ClearNoSem(p) \/ WipeEnd(p) \/ Kill(p)
      PROVE  HistoryInv'
  <2>1. UNCHANGED <<seg, file, dur, hist>>
    BY <1>3 DEF ReadValue, ReadLocked, GetDegraded, GetReturn, CommitBegin, Snapshot, Stage,
         FlushFails, CommitNoSem, ClearBegin, ClearNoSem, WipeEnd, Kill, segVars, diskVars,
         ghostVars
  <2> QED
    BY <1>a, <2>1
<1>4. ASSUME NEW p \in Proc, FlushStaged(p) PROVE HistoryInv'
  BY <1>a, <1>4 DEF FlushStaged, SyncStore, segVars, ghostVars
<1>5. ASSUME NEW p \in Proc, Publish(p) PROVE HistoryInv'
  <2>1. PICK r \in staged[p] : Publish(p)!2!(r)
    BY <1>5 DEF Publish
  <2>2. /\ pc[p] = "publish" /\ UNCHANGED <<seg, hist>>
    BY <1>5 DEF Publish, segVars
  <2>3. r.key \in Key /\ r.val \in hist[r.key]
    <3>1. r \in Records(p) /\ r.key \in Key
      BY <1>0 DEF Records, Pending
    <3> QED
      BY <2>2, <3>1 DEF BarrierInv, After
  <2>4. CASE PublishFails(p, r)
    BY <1>a, <2>2, <2>4 DEF PublishFails
  <2>5. CASE PublishOk(p, r)
    <3>1. file' = [file EXCEPT ![r.key] = r.val]
      BY <2>5 DEF PublishOk, Unlink, Rename
    <3>2. dur' = [dur EXCEPT ![r.key] = @ \cup {r.val}]
      <4>1. CASE r.val = Absent
        BY <2>5, <4>1 DEF PublishOk, Unlink
      <4>2. CASE r.val # Absent
        <5>1. tmp[p][r.key] = "flushed"
          BY <1>0, <2>2, <2>3, <2>5, <4>2 DEF FlushInv, PublishOk, CanPublish
        <5>2. dur[r.key] \cup {r.val} \cup {} = dur[r.key] \cup {r.val}
          OBVIOUS
        <5> QED
          BY <2>5, <4>2, <5>1, <5>2 DEF PublishOk, Rename
      <4> QED
        BY <4>1, <4>2
    <3> QED
      BY <1>0, <2>2, <2>3, <3>1, <3>2 DEF HistoryInv
  <2> QED
    BY <2>1, <2>4, <2>5
<1>6. ASSUME NEW p \in Proc, Writeback(p) PROVE HistoryInv'
  BY <1>a, <1>6 DEF Writeback, diskVars, ghostVars
<1>7. ASSUME NEW p \in Proc, CommitReturn(p) \/ ClearReturn(p) PROVE HistoryInv'
  <2>1. UNCHANGED <<seg, file>> /\ pc[p] \in {"flush", "unlock"}
    BY <1>7 DEF CommitReturn, ClearReturn, At, segVars
  <2>2. CASE hist' = hist
    BY <1>7, <1>a, <2>1, <2>2 DEF CommitReturn, ClearReturn, SyncStore
  <2>3. CASE allOk[p] /\ hist' = histc /\ SyncStore
    <3>1. ASSUME NEW k \in Key
          PROVE  file[k] \in histc[k] /\ histc[k] \subseteq hist[k] /\ seg[k].val \in histc[k]
      <4>1. ~Coming(p, k)
        <5>1. pending[p] = {} /\ staged[p] = {}
          BY <1>0, <2>1 DEF CommitLocked, Records, FlushInv
        <5> QED
          BY <5>1 DEF Coming
      <4> QED
        BY <2>1, <2>3, <4>1 DEF BarrierInv, After
    <3> QED
      BY <2>1, <2>3, <3>1 DEF HistoryInv, SyncStore
  <2> QED
    BY <1>7, <2>2, <2>3 DEF CommitReturn, ClearReturn
<1>8. ASSUME NEW p \in Proc, ClearSegment(p) PROVE HistoryInv'
  <2>1. /\ UNCHANGED <<file, dur>>
        /\ \A k \in Key : seg'[k].val = Absent /\ hist'[k] = hist[k] \cup {Absent}
    BY <1>8 DEF ClearSegment, diskVars
  <2> QED
    BY <2>1 DEF HistoryInv, Value
<1>9. ASSUME NEW p \in Proc, WipeFile(p) PROVE HistoryInv'
  <2>1. PICK k \in Key : Unlink(k)
    BY <1>9 DEF WipeFile
  <2>2. UNCHANGED <<seg, hist>> /\ seg[k].val = Absent
    BY <1>0, <1>9 DEF WipeFile, WipeLocked, segVars
  <2> QED
    BY <1>0, <2>1, <2>2 DEF HistoryInv, Unlink
<1>10. ASSUME NEW k \in Key, NEW v \in Value, Edit(k, v) PROVE HistoryInv'
  <2>1. /\ seg' = seg /\ file' = [file EXCEPT ![k] = v]
        /\ dur' = [dur EXCEPT ![k] = @ \cup {v}] /\ hist' = [hist EXCEPT ![k] = @ \cup {v}]
    BY <1>10 DEF Edit, Record, segVars
  <2> QED
    BY <1>0, <2>1 DEF HistoryInv
<1>11. CASE PowerLoss
  <2>1. \A k \in Key : file'[k] \in dur[k]
    BY <1>11 DEF PowerLoss
  <2>2. \A k \in Key : /\ dur'[k] = {file'[k]} /\ hist'[k] = {file'[k]}
                       /\ seg'[k].val = file'[k]
    BY <1>11 DEF PowerLoss, Only, Clean
  <2> QED
    BY <2>1, <2>2 DEF HistoryInv
<1>12. CASE Sweep
  BY <1>a, <1>12 DEF Sweep, segVars, ghostVars
<1>13. CASE UNCHANGED vars
  BY <1>a, <1>13 DEF vars
<1> QED
  BY <1>2, <1>3, <1>4, <1>5, <1>6, <1>7, <1>8, <1>9, <1>10, <1>11, <1>12, <1>13
     DEF Next, Call, Step

\* Every step keeps the running barrier on its way to files that are newer than it.
LEMMA BarrierNext ==
  ASSUME "unlink" \notin Fault
  PROVE  TypeOK /\ CommitInv /\ HistoryInv /\ BarrierInv /\ [Next]_vars => BarrierInv'
<1> SUFFICES ASSUME TypeOK, CommitInv, HistoryInv, BarrierInv, [Next]_vars
             PROVE  BarrierInv'
  OBVIOUS
<1>0. /\ pc \in [Proc -> Phases] /\ allOk \in [Proc -> BOOLEAN] /\ file \in [Key -> Content]
      /\ pending \in [Proc -> SUBSET Pending] /\ staged \in [Proc -> SUBSET Pending]
      /\ done \in [Proc -> SUBSET Pending]
      /\ hist \in [Key -> SUBSET Content] /\ histc \in [Key -> SUBSET Content]
      /\ seg \in [Key -> [val : Content, dirty : BOOLEAN]]
      /\ CommitLocked /\ WipeLocked /\ RecordsOk /\ NothingStranded
  BY DEF TypeOK, CommitInv
<1> USE DEF After
<1> DEFINE Part(q, k) ==
             /\ histc[k] \subseteq hist[k]
             /\ seg[k].val \in histc[k]
             /\ \A r \in Records(q) : r.val \in histc[r.key]
             /\ pc[q] # "wipe" /\ allOk[q] => file[k] \in histc[k] \/ Coming(q, k)
             /\ pc[q] = "wipe" /\ k \in late => file[k] \in histc[k]
<1>p. ASSUME \A q \in Proc, k \in Key : pc'[q] \in After => Part(q, k)' PROVE BarrierInv'
  BY <1>p DEF BarrierInv
<1>q. ASSUME NEW q \in Proc, NEW k \in Key, pc[q] \in After PROVE Part(q, k)
  BY <1>q DEF BarrierInv
\* Steps that touch neither memory nor the files, and publish nothing.
<1>a. ASSUME UNCHANGED <<file, late, hist, histc>>, \A k \in Key : seg'[k].val = seg[k].val,
             \A q \in Proc : pc'[q] \in After =>
               /\ pc[q] \in After /\ (pc'[q] = "wipe" <=> pc[q] = "wipe")
               /\ Records(q)' \subseteq Records(q)
               /\ allOk'[q] => /\ allOk[q]
                               /\ pending[q] \cup staged[q] \subseteq pending'[q] \cup staged'[q]
      PROVE  BarrierInv'
  <2>1. ASSUME NEW q \in Proc, NEW k \in Key, pc'[q] \in After PROVE Part(q, k)'
    <3>1. Part(q, k)
      BY <1>a, <1>q, <2>1
    <3>2. allOk'[q] /\ Coming(q, k) => Coming(q, k)'
      BY <1>a, <2>1 DEF Coming
    <3> QED
      BY <1>a, <2>1, <3>1, <3>2
  <2> QED
    BY <1>p, <2>1
\* Steps that take the only process inside a commit or a clear out of it.
<1>b. ASSUME NEW p \in Proc, pc[p] \in Busy, pc'[p] \notin After,
             \A q \in Proc : q # p => pc'[q] = pc[q]
      PROVE  BarrierInv'
  BY <1>0, <1>b, OthersOut DEF BarrierInv, Busy
\* Steps of that process which keep it inside.
<1>c. ASSUME NEW p \in Proc, pc[p] \in Busy, \A q \in Proc : q # p => pc'[q] = pc[q],
             \A k \in Key : Part(p, k)'
      PROVE  BarrierInv'
  <2>1. \A q \in Proc : pc'[q] \in After => q = p
    BY <1>0, <1>c, OthersOut DEF Busy
  <2> QED
    BY <1>c, <1>p, <2>1
\* Steps of others, which add v to the values of k.
<1>d. ASSUME NEW k \in Key, NEW v,
             UNCHANGED <<pc, allOk, pending, staged, done, clock>>,
             hist' = Record(hist, k, v),
             histc' = (IF clock = NoProc THEN histc ELSE Record(histc, k, v)),
             \A j \in Key : seg'[j].val = seg[j].val \/ (j = k /\ seg'[j].val = v),
             \A j \in Key : file'[j] = file[j] \/ (j = k /\ file'[j] = v),
             late' \subseteq late \cup {k}, k \in late' => k \in late \/ file'[k] = v
      PROVE  BarrierInv'
  <2>1. ASSUME NEW q \in Proc, NEW j \in Key, pc[q] \in After PROVE Part(q, j)'
    <3>1. clock # NoProc
      BY <1>0, <2>1, ProcAssumption DEF CommitLocked, Busy
    <3>2. /\ hist'[k] = hist[k] \cup {v} /\ histc'[k] = histc[k] \cup {v}
          /\ \A i \in Key : i # k => hist'[i] = hist[i] /\ histc'[i] = histc[i]
      BY <1>0, <1>d, <3>1 DEF Record
    <3>3. Part(q, j)
      BY <1>q, <2>1
    <3>4. Coming(q, j) <=> Coming(q, j)'
      BY <1>d DEF Coming
    <3>5. \A r \in Records(q) : r.key \in Key
      BY <1>0 DEF Records, Pending
    <3>6. \A r \in Records(q)' : r.val \in histc'[r.key]
      BY <1>d, <3>2, <3>3, <3>5 DEF Records
    <3> QED
      BY <1>d, <3>2, <3>3, <3>4, <3>6
  <2> QED
    BY <1>d, <1>p, <2>1
<1>1. ASSUME NEW p \in Proc, NEW k \in Key, NEW v \in Value, Update(p, k, v)
      PROVE  BarrierInv'
  <2>1. UNCHANGED <<file, late, pc, allOk, pending, staged, done, clock>>
    BY <1>1 DEF Update, diskVars, commitVars
  <2>2. CASE seg[k].val = v
    BY <1>1, <1>a, <2>1, <2>2 DEF Update, segVars, Records
  <2>3. CASE seg[k].val # v
    <3>1. /\ hist' = Record(hist, k, v)
          /\ histc' = (IF clock = NoProc THEN histc ELSE Record(histc, k, v))
          /\ seg' = [seg EXCEPT ![k] = [val |-> v, dirty |-> TRUE]]
      BY <1>1, <2>3 DEF Update
    <3>2. \A j \in Key : seg'[j].val = seg[j].val \/ (j = k /\ seg'[j].val = v)
      BY <1>0, <3>1
    <3> QED
      BY <1>d, <2>1, <3>1, <3>2
  <2> QED
    BY <2>2, <2>3
<1>2. ASSUME NEW p \in Proc, NEW k \in Key,
             Get(p, k) \/ Unset(p, k) \/ (\E v \in Val : Set(p, k, v))
      PROVE  BarrierInv'
  <2>1. CASE Get(p, k)
    <3>1. /\ UNCHANGED <<seg, file, late, hist, histc, done, allOk, pending, staged>>
          /\ pc' = [pc EXCEPT ![p] = "get"]
      BY <2>1 DEF Get, segVars, diskVars, commitVars, ghostVars
    <3> QED
      BY <1>0, <1>a, <3>1 DEF Records
  <2> QED
    BY <1>1, <1>2, <2>1 DEF Set, Unset, Value
<1>3. ASSUME NEW p \in Proc,
             \/ ReadValue(p) \/ ReadLocked(p) \/ GetDegraded(p)
             \/ CommitBegin(p) \/ ClearBegin(p) \/ FlushStaged(p)
      PROVE  BarrierInv'
  <2>1. UNCHANGED <<seg, file, late, hist, histc, done, allOk, pending, staged>>
    BY <1>3 DEF ReadValue, ReadLocked, GetDegraded, GetReturn, CommitBegin, ClearBegin,
         FlushStaged, segVars, diskVars, commitVars, ghostVars
  <2>2. \/ \E x \in {"idle", "snapshot", "clear"} : pc' = [pc EXCEPT ![p] = x]
        \/ pc[p] = "stage" /\ pc' = [pc EXCEPT ![p] = "publish"]
    BY <1>3 DEF ReadValue, ReadLocked, GetDegraded, GetReturn, CommitBegin, ClearBegin,
         FlushStaged, At
  <2> QED
    BY <1>0, <1>a, <2>1, <2>2 DEF Records
<1>4. ASSUME NEW p \in Proc, Snapshot(p) PROVE BarrierInv'
  <2> DEFINE Rec(k) == [key |-> k, val |-> seg[k].val, seen |-> slots[SlotOf[k]]]
  <2>1. /\ pc[p] = "snapshot" /\ pc' = [pc EXCEPT ![p] = "stage"]
        /\ UNCHANGED <<seg, file, hist, staged, done>>
        /\ pending' = [pending EXCEPT ![p] = {Rec(k) : k \in Owed}]
        /\ histc' = [k \in Key |-> {seg[k].val} \cup (IF k \in drift THEN {file[k]} ELSE {})]
    BY <1>4 DEF Snapshot, At, segVars, diskVars
  <2>2. pc'[p] = "stage" /\ pending'[p] = {Rec(k) : k \in Owed} /\ staged'[p] = {} /\ done'[p] = {}
    BY <1>0, <2>1 DEF CommitLocked, Records
  <2>3. \A r \in Records(p)' : r.val \in histc'[r.key]
    <3>1. \A k \in Owed : k \in Key
      BY DEF Owed
    <3> QED
      BY <2>1, <2>2, <3>1 DEF Records
  <2>4. ASSUME NEW k \in Key PROVE Part(p, k)'
    <3>1. histc'[k] = {seg[k].val} \cup (IF k \in drift THEN {file[k]} ELSE {})
      BY <2>1
    <3>2. histc'[k] \subseteq hist[k] /\ seg[k].val \in histc'[k]
      BY <3>1 DEF HistoryInv
    <3>3. CASE k \in Owed
      <4>1. Rec(k) \in pending'[p] /\ Rec(k).key = k
        BY <2>2, <3>3
      <4>2. Coming(p, k)'
        BY <4>1 DEF Coming
      <4> QED
        BY <2>1, <2>2, <2>3, <3>2, <4>2
    <3>4. CASE k \notin Owed
      <4>1. file[k] \in histc'[k]
        BY <1>0, <3>1, <3>4 DEF Owed, NothingStranded
      <4> QED
        BY <2>1, <2>2, <2>3, <3>2, <4>1
    <3> QED
      BY <3>3, <3>4
  <2> QED
    BY <1>0, <1>c, <2>1, <2>4 DEF Busy
<1>5. ASSUME NEW p \in Proc, Stage(p) PROVE BarrierInv'
  <2>1. PICK r \in pending[p] : Stage(p)!2!(r)
    BY <1>5 DEF Stage
  <2>2. UNCHANGED <<pc, seg, file, late, hist, histc, done>>
    BY <1>5 DEF Stage, segVars, ghostVars
  <2>3. pending' = [pending EXCEPT ![p] = @ \ {r}]
    BY <2>1
  <2>4. CASE StageOk(p, r)
    <3>1. staged' = [staged EXCEPT ![p] = @ \cup {r}] /\ allOk' = allOk
      BY <2>4 DEF StageOk
    <3>2. ASSUME NEW q \in Proc
          PROVE  /\ pending'[q] \cup staged'[q] = pending[q] \cup staged[q]
                 /\ Records(q)' \subseteq Records(q)
      BY <1>0, <2>2, <2>3, <3>1 DEF Records
    <3> QED
      BY <1>a, <2>2, <3>1, <3>2
  <2>5. CASE StageFails(p, r)
    <3>1. staged' = staged /\ allOk' = [allOk EXCEPT ![p] = FALSE]
      BY <2>5 DEF StageFails
    <3> QED
      BY <1>0, <1>a, <2>2, <2>3, <3>1 DEF Records
  <2> QED
    BY <2>1, <2>4, <2>5
<1>6. ASSUME NEW p \in Proc, Publish(p) PROVE BarrierInv'
  <2>1. PICK r \in staged[p] : Publish(p)!2!(r)
    BY <1>6 DEF Publish
  <2>2. /\ pc[p] = "publish" /\ UNCHANGED <<pc, seg, late, hist, histc, pending>>
        /\ staged' = [staged EXCEPT ![p] = @ \ {r}]
    BY <1>6, <2>1 DEF Publish, segVars
  <2>3. r \in Pending
    BY <1>0
  <2>4. CASE PublishFails(p, r)
    <3>1. UNCHANGED <<file, done>> /\ allOk' = [allOk EXCEPT ![p] = FALSE]
      BY <2>4 DEF PublishFails
    <3> QED
      BY <1>0, <1>a, <2>2, <3>1 DEF Records
  <2>5. CASE PublishOk(p, r)
    <3>1. /\ file' = [file EXCEPT ![r.key] = r.val] /\ allOk' = allOk
          /\ done' = [done EXCEPT ![p] = @ \cup {r}]
      BY <2>5 DEF PublishOk, Unlink, Rename
    <3>2. Records(p)' \subseteq Records(p) /\ r \in Records(p)
      BY <1>0, <2>2, <3>1 DEF Records
    <3>3. ASSUME NEW k \in Key PROVE Part(p, k)'
      <4>1. Part(p, k)
        BY <1>q, <2>2
      <4>2. \/ k = r.key /\ file'[k] = r.val /\ r.val \in histc[k]
            \/ k # r.key /\ file'[k] = file[k]
        BY <1>0, <2>3, <3>1, <3>2, <4>1 DEF Pending
      <4>3. k # r.key /\ Coming(p, k) => Coming(p, k)'
        BY <1>0, <2>2 DEF Coming
      <4> QED
        BY <2>2, <3>1, <3>2, <4>1, <4>2, <4>3
    <3> QED
      BY <1>c, <2>2, <3>3 DEF Busy
  <2> QED
    BY <2>1, <2>4, <2>5
<1>7. ASSUME NEW p \in Proc, Writeback(p) PROVE BarrierInv'
  <2>1. /\ pc[p] = "publish" /\ pc' = [pc EXCEPT ![p] = "flush"]
        /\ UNCHANGED <<file, late, hist, histc, done, allOk, pending, staged>>
        /\ \A k \in Key : seg'[k].val = seg[k].val
    BY <1>7 DEF Writeback, At, diskVars, commitVars, ghostVars
  <2> QED
    BY <1>0, <1>a, <2>1 DEF Records
<1>8. ASSUME NEW p \in Proc,
             \/ FlushFails(p) \/ CommitReturn(p) \/ CommitNoSem(p) \/ ClearNoSem(p)
             \/ ClearReturn(p)
      PROVE  BarrierInv'
  <2>1. pc[p] \in Busy /\ pc' = [pc EXCEPT ![p] = "idle"]
    BY <1>8 DEF FlushFails, CommitReturn, CommitNoSem, ClearNoSem, ClearReturn, At, Busy
  <2> QED
    BY <1>0, <1>b, <2>1
<1>9. ASSUME NEW p \in Proc, ClearSegment(p) PROVE BarrierInv'
  <2>1. /\ pc[p] = "clear" /\ pc' = [pc EXCEPT ![p] = "wipe"] /\ late' = {}
        /\ UNCHANGED <<pending, staged, done>>
        /\ \A k \in Key : /\ seg'[k].val = Absent /\ hist'[k] = hist[k] \cup {Absent}
                          /\ histc'[k] = {Absent}
    BY <1>9 DEF ClearSegment, At, commitVars
  <2>2. Records(p)' = {}
    BY <1>0, <2>1 DEF CommitLocked, Records
  <2>3. \A k \in Key : Part(p, k)'
    BY <1>0, <2>1, <2>2
  <2> QED
    BY <1>0, <1>c, <2>1, <2>3 DEF Busy
<1>10. ASSUME NEW p \in Proc, WipeFile(p) PROVE BarrierInv'
  <2>1. PICK k \in Key : Unlink(k)
    BY <1>10 DEF WipeFile
  <2>2. /\ pc[p] = "wipe" /\ seg[k].val = Absent
        /\ UNCHANGED <<pc, seg, late, hist, histc, done, allOk, pending, staged>>
    BY <1>0, <1>10 DEF WipeFile, WipeLocked, segVars, commitVars
  <2>3. ASSUME NEW j \in Key PROVE Part(p, j)'
    <3>1. Part(p, j) /\ Part(p, k)
      BY <1>q, <2>2
    <3>2. file'[j] = file[j] \/ (file'[j] = Absent /\ j = k)
      BY <1>0, <2>1 DEF Unlink
    <3>3. Records(p)' = Records(p)
      BY <2>2 DEF Records
    <3> QED
      BY <2>2, <3>1, <3>2, <3>3
  <2> QED
    BY <1>c, <2>2, <2>3 DEF Busy
<1>11. ASSUME NEW p \in Proc, WipeEnd(p) PROVE BarrierInv'
  <2>1. /\ pc[p] = "wipe" /\ pc' = [pc EXCEPT ![p] = "unlock"]
        /\ UNCHANGED <<seg, file, late, hist, histc, done, pending, staged>>
        /\ \/ \A k \in Key : k \in late \/ file[k] = Absent
           \/ allOk' = [allOk EXCEPT ![p] = FALSE]
    BY <1>11 DEF WipeEnd, At, segVars, ghostVars
  <2>2. Records(p)' = Records(p) /\ \A k \in Key : seg[k].val = Absent
    BY <1>0, <2>1 DEF Records, WipeLocked
  <2>3. ASSUME NEW k \in Key PROVE Part(p, k)'
    <3>1. Part(p, k)
      BY <1>q, <2>1
    <3>2. pc'[p] = "unlock" /\ (allOk'[p] => k \in late \/ file[k] = Absent)
      BY <1>0, <2>1
    <3> QED
      BY <2>1, <2>2, <3>1, <3>2
  <2> QED
    BY <1>0, <1>c, <2>1, <2>3 DEF Busy
<1>12. ASSUME NEW p \in Proc, Kill(p) PROVE BarrierInv'
  <2>1. pc' = [pc EXCEPT ![p] = "dead"]
    BY <1>12 DEF Kill
  <2>2. CASE clock = p
    <3>1. \A q \in Proc : pc'[q] \notin After
      BY <1>0, <2>1, <2>2 DEF CommitLocked, Busy
    <3> QED
      BY <1>p, <3>1
  <2>3. CASE clock # p
    <3>1. UNCHANGED <<seg, file, late, hist, histc, done, allOk, pending, staged>>
      BY <1>12, <2>3 DEF Kill, segVars, diskVars, commitVars
    <3> QED
      BY <1>0, <1>a, <2>1, <3>1 DEF Records
  <2> QED
    BY <2>2, <2>3
<1>13. ASSUME NEW k \in Key, NEW v \in Value, Edit(k, v) PROVE BarrierInv'
  <2>1. /\ UNCHANGED <<seg, pc, allOk, pending, staged, done, clock>>
        /\ file' = [file EXCEPT ![k] = v] /\ late' = late \cup {k}
        /\ hist' = Record(hist, k, v)
        /\ histc' = (IF clock = NoProc THEN histc ELSE Record(histc, k, v))
    BY <1>13 DEF Edit, segVars, commitVars
  <2>2. \A j \in Key : file'[j] = file[j] \/ (j = k /\ file'[j] = v)
    BY <1>0, <2>1
  <2>3. file'[k] = v
    BY <1>0, <2>1
  <2> QED
    BY <1>d, <2>1, <2>2, <2>3
<1>14. CASE PowerLoss
  BY <1>14 DEF PowerLoss, BarrierInv
<1>15. CASE Sweep
  BY <1>a, <1>15 DEF Sweep, segVars, commitVars, ghostVars, Records
<1>16. CASE UNCHANGED vars
  BY <1>a, <1>16 DEF vars, Records
<1> QED
  BY <1>2, <1>3, <1>4, <1>5, <1>6, <1>7, <1>8, <1>9, <1>10, <1>11, <1>12, <1>13, <1>14,
     <1>15, <1>16 DEF Next, Call, Step

\* The three invariants about what is on the device, together.
LEMMA DurableInvariant ==
  ASSUME "unlink" \notin Fault
  PROVE  Spec => [](TypeOK /\ CommitInv /\ FlushInv /\ HistoryInv /\ BarrierInv)
<1>1. Init => FlushInv /\ HistoryInv /\ BarrierInv
  BY DEF Init, FlushInv, HistoryInv, BarrierInv, After, Only, Clean
<1> QED
  BY <1>1, FlushNext, HistoryNext, BarrierNext, CommitInvariant, PTL DEF Spec

\* Power may go at any moment: what it leaves of a file is a whole value, set or
\* edited since the last commit or clear that reported success took its snapshot.
THEOREM Durable == ASSUME "unlink" \notin Fault PROVE Spec => []NoRollback
<1>1. HistoryInv => NoRollback
  BY DEF HistoryInv, NoRollback
<1> QED
  BY <1>1, DurableInvariant, PTL
=============================================================================
