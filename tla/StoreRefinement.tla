-------------------------- MODULE StoreRefinement --------------------------
(***************************************************************************)
(* Store implements Nvram: the segment, the caches and the files together  *)
(* keep the contract of src/src/lib.rs, for any number of processes, keys, *)
(* values and counters and any set of failures but a failing unlink.       *)
(*                                                                         *)
(* The mapping is Store's own (Promise): mem is what the segment holds,    *)
(* since and running are its two histories, running counting only while a  *)
(* barrier has looked at memory, foreign is drift, and the copy a process  *)
(* may use is its cache entry if it would be a hit.  Every step of Store   *)
(* is one step of Nvram; most are Settle.                                  *)
(***************************************************************************)
EXTENDS StoreDurability

\* The state that nvram_init has just loaded keeps the contract to begin with.
LEMMA PromiseInit == Init => Promise!Init
<1> SUFFICES ASSUME Init PROVE Promise!Init
  OBVIOUS
<1>1. ~Looked
  BY DEF Init, Looked
<1>2. file \in [Key -> Value] /\ \A k \in Key : seg[k].val = file[k]
  BY DEF Init, Clean
<1>3. [k \in Key |-> seg[k].val] = file
  BY <1>2
<1>4. \A p \in Proc, k \in Key : ~Hit(p, k)
  BY DEF Init, Hit, EmptyCaches, EmptyEntry
<1>5. hist = [k \in Key |-> {seg[k].val}] /\ drift = {}
  BY <1>2 DEF Init, Only
<1> QED
  BY <1>1, <1>2, <1>3, <1>4, <1>5 DEF Promise!Init, Promise!NoBarrier, Promise!CopiesCurrent

\* What may be served from a cache after a step is what memory holds then.
LEMMA CopiesNext == TypeOK /\ CacheInv /\ [Next]_vars => Promise!CopiesCurrent'
<1> SUFFICES ASSUME TypeOK, CacheInv, [Next]_vars PROVE Promise!CopiesCurrent'
  OBVIOUS
<1>1. TypeOK' /\ CacheInv'
  BY TypeNext, CacheNext
<1>2. \A p \in Proc, k \in Key : Hit(p, k)' => cache'[p][k].value = seg'[k].val
  BY <1>1 DEF CacheInv, Hit
<1> QED
  BY <1>2 DEF Promise!CopiesCurrent

\* Every step of Store is a step of Nvram.
LEMMA PromiseNext ==
  /\ TypeOK /\ CacheInv /\ CommitInv /\ FlushInv /\ HistoryInv /\ BarrierInv
  /\ [Next]_vars
  => [Promise!Next]_Promise!vars
<1> SUFFICES ASSUME TypeOK, CacheInv, CommitInv, FlushInv, HistoryInv, BarrierInv,
                    [Next]_vars
             PROVE  Promise!Next
  OBVIOUS
<1>0. /\ pc \in [Proc -> Phases]
      /\ hist \in [Key -> SUBSET Content] /\ histc \in [Key -> SUBSET Content]
      /\ seg \in [Key -> [val : Content, dirty : BOOLEAN]]
      /\ CommitLocked
  BY DEF TypeOK, CommitInv
<1> DEFINE Moves == \/ \E k \in Key, v \in Value : Promise!Assign(k, v) \/ Promise!Outside(k, v)
                    \/ Promise!Begin \/ Promise!Clear \/ Promise!Succeed \/ Promise!GiveUp
                    \/ Promise!Settle \/ Promise!Crash
           mem == [k \in Key |-> seg[k].val]
           running == IF Looked THEN histc ELSE [k \in Key |-> {}]
<1>m. ASSUME \A k \in Key : seg'[k].val = seg[k].val PROVE mem' = mem
  BY <1>m
\* Copies come and go, a file is the library's again.
<1>a. ASSUME mem' = mem, hist' = hist, running' = running, drift' \subseteq drift PROVE Moves
  BY <1>a DEF Promise!Settle
\* The barrier is over and did not succeed.
<1>b. ASSUME mem' = mem, hist' = hist, ~Looked', drift' = drift PROVE Moves
  BY <1>b DEF Promise!GiveUp, Promise!NoBarrier
\* Whether some barrier has looked depends on where the processes are only.
<1>l. ASSUME \A q \in Proc : pc'[q] \in After <=> pc[q] \in After PROVE Looked' <=> Looked
  BY <1>l DEF Looked, After
<1>n. ASSUME NEW p \in Proc, pc[p] \in Busy, pc'[p] \notin After,
             \A q \in Proc : q # p => pc'[q] = pc[q]
      PROVE  ~Looked'
  BY <1>0, <1>n, OthersOut DEF Looked, After, Busy
\* A barrier that has looked has a value of every name.
<1>k. ASSUME NEW k \in Key, Looked PROVE running # Promise!NoBarrier /\ clock # NoProc
  <2>1. PICK p \in Proc : pc[p] \in After
    BY <1>k DEF Looked, After
  <2>2. seg[k].val \in histc[k] /\ clock = p
    BY <1>0, <2>1 DEF BarrierInv, CommitLocked, After, Busy
  <2> QED
    BY <1>k, <2>2, ProcAssumption DEF Promise!NoBarrier
<1>r. ASSUME NEW k \in Key, NEW v, Looked' <=> Looked,
             histc' = (IF clock = NoProc THEN histc ELSE Record(histc, k, v))
      PROVE  Promise!RecordRunning(k, v)
  BY <1>k, <1>r DEF Promise!RecordRunning, Promise!NoBarrier, Promise!Record, Record
<1>1. ASSUME NEW p \in Proc, NEW k \in Key, NEW v \in Value, Update(p, k, v) PROVE Moves
  <2>1. UNCHANGED <<pc, clock, drift>>
    BY <1>1 DEF Update
  <2>2. Looked' <=> Looked
    BY <1>l, <2>1
  <2>3. CASE seg[k].val = v
    <3>1. UNCHANGED <<seg, hist, histc>>
      BY <1>1, <2>3 DEF Update, segVars
    <3> QED
      BY <1>a, <1>m, <2>1, <2>2, <3>1
  <2>4. CASE seg[k].val # v
    <3>1. /\ hist' = Record(hist, k, v)
          /\ histc' = (IF clock = NoProc THEN histc ELSE Record(histc, k, v))
          /\ seg' = [seg EXCEPT ![k] = [val |-> v, dirty |-> TRUE]]
      BY <1>1, <2>4 DEF Update
    <3>2. mem' = [mem EXCEPT ![k] = v]
      BY <1>0, <3>1
    <3>3. Promise!RecordRunning(k, v)
      BY <1>r, <2>2, <3>1
    <3>4. Promise!Assign(k, v)
      BY <2>1, <3>1, <3>2, <3>3 DEF Promise!Assign, Promise!Record, Record
    <3> QED
      BY <3>4
  <2> QED
    BY <2>3, <2>4
<1>2. ASSUME NEW p \in Proc, NEW k \in Key,
             Get(p, k) \/ Unset(p, k) \/ (\E v \in Val : Set(p, k, v))
      PROVE  Moves
  <2>1. CASE Get(p, k)
    <3>1. /\ UNCHANGED <<seg, hist, histc, drift>> /\ pc[p] = "idle"
          /\ pc' = [pc EXCEPT ![p] = "get"]
      BY <2>1 DEF Get, segVars, ghostVars
    <3>2. Looked' <=> Looked
      BY <1>0, <1>l, <3>1 DEF After
    <3> QED
      BY <1>a, <1>m, <3>1, <3>2
  <2> QED
    BY <1>1, <1>2, <2>1 DEF Set, Unset, Value
<1>3. ASSUME NEW p \in Proc,
             \/ ReadValue(p) \/ ReadLocked(p) \/ GetDegraded(p) \/ CommitBegin(p)
             \/ ClearBegin(p) \/ FlushStaged(p) \/ WipeEnd(p)
      PROVE  Moves
  <2>1. UNCHANGED <<seg, hist, histc, drift>>
    BY <1>3 DEF ReadValue, ReadLocked, GetDegraded, GetReturn, CommitBegin, ClearBegin,
         FlushStaged, WipeEnd, segVars, ghostVars
  <2>2. \/ /\ pc[p] \in {"get", "idle"}
           /\ \E x \in {"idle", "snapshot", "clear"} : pc' = [pc EXCEPT ![p] = x]
        \/ /\ pc[p] \in {"stage", "wipe"}
           /\ \E x \in {"publish", "unlock"} : pc' = [pc EXCEPT ![p] = x]
    BY <1>3 DEF ReadValue, ReadLocked, GetDegraded, GetReturn, CommitBegin, ClearBegin,
         FlushStaged, WipeEnd, At
  <2>3. Looked' <=> Looked
    BY <1>0, <1>l, <2>2 DEF After
  <2> QED
    BY <1>a, <1>m, <2>1, <2>3
<1>4. ASSUME NEW p \in Proc, Stage(p) \/ Publish(p) \/ WipeFile(p) PROVE Moves
  <2>1. UNCHANGED <<pc, seg, hist, histc>>
    BY <1>4 DEF Stage, Publish, WipeFile, segVars, ghostVars
  <2>2. drift' \subseteq drift
    BY <1>4 DEF Stage, Publish, PublishOk, PublishFails, WipeFile, ghostVars
  <2>3. Looked' <=> Looked
    BY <1>l, <2>1
  <2> QED
    BY <1>a, <1>m, <2>1, <2>2, <2>3
<1>5. ASSUME NEW p \in Proc, Writeback(p) PROVE Moves
  <2>1. /\ UNCHANGED <<hist, histc, drift>> /\ \A k \in Key : seg'[k].val = seg[k].val
        /\ pc[p] = "publish" /\ pc' = [pc EXCEPT ![p] = "flush"]
    BY <1>5 DEF Writeback, At, ghostVars
  <2>2. Looked' <=> Looked
    BY <1>0, <1>l, <2>1 DEF After
  <2> QED
    BY <1>a, <1>m, <2>1, <2>2
<1>6. ASSUME NEW p \in Proc, Snapshot(p) PROVE Moves
  <2>1. /\ UNCHANGED <<seg, hist, drift>>
        /\ pc' = [pc EXCEPT ![p] = "stage"]
        /\ histc' = [k \in Key |-> {seg[k].val} \cup (IF k \in drift THEN {file[k]} ELSE {})]
    BY <1>6 DEF Snapshot, At, segVars
  <2>2. Looked'
    BY <1>0, <2>1 DEF Looked
  <2>3. ASSUME NEW k \in Key
        PROVE  /\ seg[k].val \in histc'[k] /\ histc'[k] \subseteq hist[k]
               /\ k \notin drift => histc'[k] = {seg[k].val}
               /\ histc'[k] \in SUBSET Value
    BY <2>1 DEF HistoryInv
  <2>4. running' = histc' /\ histc' \in [Key -> SUBSET Value]
    BY <2>1, <2>2, <2>3
  <2>5. Promise!Begin
    BY <1>m, <2>1, <2>3, <2>4 DEF Promise!Begin
  <2> QED
    BY <2>5
<1>7. ASSUME NEW p \in Proc,
             \/ FlushFails(p) \/ CommitNoSem(p) \/ ClearNoSem(p)
             \/ CommitReturn(p) \/ ClearReturn(p)
      PROVE  Moves
  <2>1. /\ UNCHANGED <<seg, drift>> /\ pc[p] \in Busy /\ pc' = [pc EXCEPT ![p] = "idle"]
    BY <1>7 DEF FlushFails, CommitNoSem, ClearNoSem, CommitReturn, ClearReturn, At, Busy,
         segVars
  <2>2. ~Looked'
    BY <1>0, <1>n, <2>1 DEF After
  <2>3. CASE hist' = hist
    BY <1>b, <1>m, <2>1, <2>2, <2>3
  <2>4. CASE hist' = histc /\ pc[p] \in {"flush", "unlock"}
    <3>1. Looked
      BY <2>4 DEF Looked
    <3>2. CASE Key = {}
      BY <1>0, <2>3, <2>4, <3>2
    <3>3. CASE Key # {}
      <4>1. running # Promise!NoBarrier
        BY <1>k, <3>1, <3>3
      <4>2. Promise!Succeed
        BY <1>m, <2>1, <2>2, <2>4, <3>1, <4>1 DEF Promise!Succeed, Promise!NoBarrier
      <4> QED
        BY <4>2
    <3> QED
      BY <3>2, <3>3
  <2> QED
    BY <1>7, <2>3, <2>4 DEF FlushFails, CommitNoSem, ClearNoSem, CommitReturn, ClearReturn, At
<1>8. ASSUME NEW p \in Proc, ClearSegment(p) PROVE Moves
  <2>1. /\ pc' = [pc EXCEPT ![p] = "wipe"] /\ drift' \subseteq Key
        /\ hist' = [k \in Key |-> hist[k] \cup {Absent}] /\ histc' = [k \in Key |-> {Absent}]
        /\ \A k \in Key : seg'[k].val = Absent
    BY <1>8 DEF ClearSegment, At
  <2>2. Looked'
    BY <1>0, <2>1 DEF Looked
  <2>3. Promise!Clear
    BY <2>1, <2>2 DEF Promise!Clear
  <2> QED
    BY <2>3
<1>9. ASSUME NEW p \in Proc, Kill(p) PROVE Moves
  <2>1. UNCHANGED <<seg, drift, hist>> /\ pc' = [pc EXCEPT ![p] = "dead"]
    BY <1>9 DEF Kill, segVars
  <2>2. CASE clock = p
    <3>1. ~Looked'
      BY <1>0, <2>1, <2>2 DEF CommitLocked, Busy, Looked
    <3> QED
      BY <1>b, <1>m, <2>1, <3>1
  <2>3. CASE clock # p
    <3>1. histc' = histc /\ pc[p] \notin After
      BY <1>0, <1>9, <2>3 DEF Kill, CommitLocked, Busy, After
    <3>2. Looked' <=> Looked
      BY <1>0, <1>l, <2>1, <3>1 DEF After
    <3> QED
      BY <1>a, <1>m, <2>1, <3>1, <3>2
  <2> QED
    BY <2>2, <2>3
<1>10. ASSUME NEW k \in Key, NEW v \in Value, Edit(k, v) PROVE Moves
  <2>1. /\ UNCHANGED <<seg, pc>> /\ drift' = drift \cup {k}
        /\ hist' = Record(hist, k, v)
        /\ histc' = (IF clock = NoProc THEN histc ELSE Record(histc, k, v))
    BY <1>10 DEF Edit, segVars
  <2>2. Promise!RecordRunning(k, v)
    BY <1>l, <1>r, <2>1
  <2>3. Promise!Outside(k, v)
    BY <1>m, <2>1, <2>2 DEF Promise!Outside, Promise!Record, Record
  <2> QED
    BY <2>3
<1>11. ASSUME PowerLoss PROVE Moves
  <2>1. /\ \A k \in Key : file'[k] \in dur[k] /\ seg'[k].val = file'[k]
        /\ hist' = [k \in Key |-> {file'[k]}] /\ drift' = {}
    BY <1>11 DEF PowerLoss, Clean, Only
  <2>2. ~Looked'
    BY <1>11 DEF PowerLoss, Looked
  <2>3. \A k \in Key : seg'[k].val \in hist[k] /\ seg'[k].val \in Value
    BY <2>1 DEF HistoryInv
  <2>4. Promise!Crash
    BY <2>1, <2>2, <2>3 DEF Promise!Crash, Promise!NoBarrier
  <2> QED
    BY <2>4
<1>12. ASSUME Sweep \/ UNCHANGED vars PROVE Moves
  <2>1. UNCHANGED <<pc, seg, hist, histc, drift>>
    BY <1>12 DEF Sweep, vars, segVars, ghostVars
  <2>2. Looked' <=> Looked
    BY <1>l, <2>1
  <2> QED
    BY <1>a, <1>m, <2>1, <2>2
<1>13. Moves
  BY <1>2, <1>3, <1>4, <1>5, <1>6, <1>7, <1>8, <1>9, <1>10, <1>11, <1>12 DEF Next, Call, Step
<1> QED
  BY <1>13, CopiesNext DEF Promise!Next

\* The three tiers keep the contract of the library: a set is visible to every
\* process at once, what a power cut brings back of a name is a value it has had
\* since the last commit or clear that reported success looked at it, and a commit
\* that fails, or whose process is killed, takes nothing back.
THEOREM Refinement == ASSUME "unlink" \notin Fault PROVE Spec => KeepsPromise
BY PromiseInit, PromiseNext, TypeInit, TypeNext, CacheInit, CacheNext, DurableInvariant, PTL
   DEF Spec, KeepsPromise, Promise!Spec
=============================================================================
