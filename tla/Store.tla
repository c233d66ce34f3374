------------------------------- MODULE Store -------------------------------
(***************************************************************************)
(* The three tiers of libnvram as src/src/store.rs drives them: the shared *)
(* segment, the private cache of each process, and the files of /nvram.    *)
(*                                                                         *)
(* Every section the code runs under the writer semaphore is one action,   *)
(* because every other section under that semaphore waits for it; what a   *)
(* section looks like from inside, to a lock-free reader or when the       *)
(* writer is killed half way, is module Segment.  nvram_commit() and       *)
(* nvram_clear() give the writer semaphore up between their steps, so each *)
(* of those steps is an action of its own.                                 *)
(*                                                                         *)
(* Every process here is attached to the segment, and rc calls nvram_init  *)
(* right after a boot; attaching, detached operation and mounts are not    *)
(* part of this module.                                                    *)
(***************************************************************************)
EXTENDS Naturals

CONSTANTS
  Proc,     \* processes linked with the library
  Key,      \* variable names that disk::valid_key accepts
  Val,      \* values (byte strings)
  Absent,   \* no such variable / no such file
  Torn,     \* what a file holds when its name outlived its bytes
  Slot,     \* seqlock counters
  SlotOf,   \* [Key -> Slot]: hash & (SLOTS - 1)
  Len,      \* [Val -> Nat]: the length of a value
  NoProc,   \* a semaphore nobody holds
  Fault,    \* the failures the environment may produce
  MaxSeq,   \* bound: no write starts on a counter that has reached it
  MaxEdits  \* bound: direct edits of /nvram behind the library's back

Faults == {"sem", "stage", "sync", "publish", "list", "unlink", "sweep", "kill", "power"}

ASSUME ValueAssumption == Absent \notin Val /\ Torn \notin Val /\ Absent # Torn
ASSUME SlotAssumption  == SlotOf \in [Key -> Slot]
ASSUME LenAssumption   == Len \in [Val -> Nat]
ASSUME ProcAssumption  == NoProc \notin Proc
ASSUME FaultAssumption == Fault \subseteq Faults
ASSUME BoundAssumption == MaxSeq \in Nat /\ MaxEdits \in Nat

Value   == Val \cup {Absent}
Content == Value \cup {Torn}
Pending == [key : Key, val : Content, seen : Nat]

VARIABLES
  seg,      \* tier 1: the value and FL_DIRTY of every key
  slots,    \* tier 1: the seqlock counters
  cache,    \* tier 2: the Entry each process has for each key
  file,     \* tier 3: what /nvram shows, per key
  dur,      \* tier 3: what a power loss may leave of it, per key
  tmp,      \* tier 3: the temporary .tmp.<pid>.<key> of each process and key
  wlock,    \* holder of the writer semaphore
  clock,    \* holder of the commit semaphore
  pc,       \* where each process is
  want,     \* get: the key, and the counter loaded before its data
  pending,  \* commit: snapshot entries still to be staged
  staged,   \* commit: entries staged, to be published
  done,     \* commit: entries published, whose flags are to be retired
  allOk,    \* commit: nothing has failed so far
  edits,    \* how many outside edits there have been
  drift,    \* ghost: keys whose file something other than set, unset and
            \*   commit made differ from memory
  late,     \* ghost: keys edited since the latest snapshot
  hist,     \* ghost: values of a key since the last successful barrier
  histc     \* ghost: values of a key since the running barrier's snapshot

segVars    == <<seg, slots>>
diskVars   == <<file, dur, tmp>>
commitVars == <<pending, staged, done, allOk>>
ghostVars  == <<edits, drift, late, hist, histc>>
vars == <<seg, slots, cache, file, dur, tmp, wlock, clock, pc, want,
          pending, staged, done, allOk, edits, drift, late, hist, histc>>

-----------------------------------------------------------------------------
(* Building blocks of the segment and of the cache.                        *)

\* Mutant: a plain increment, which keeps the parity of a counter only as long
\* as begin and end come in pairs.
PlainIncrement(v) == v + 1

\* The counter derives its parity from the old value: always odd, or always
\* even, and always strictly larger.
NextOdd(v)  == IF v % 2 = 0 THEN v + 1 ELSE v + 2
NextEven(v) == IF v % 2 = 0 THEN v + 2 ELSE v + 1

\* seq_begin ... seq_end around one update, seen from outside the lock.
Bump(s) == [slots EXCEPT ![s] = NextEven(NextOdd(@))]

EmptyEntry == [value |-> Absent, seen |-> 0, valid |-> FALSE]

\* Entry::install, with the pointer bookkeeping left out.
Install(p, k, v, s) ==
  [cache EXCEPT ![p][k] = [value |-> v, seen |-> s, valid |-> TRUE]]

\* The test of a cache hit in Store::get and in value_matches.
Hit(p, k) == cache[p][k].valid /\ cache[p][k].seen = slots[SlotOf[k]]

\* A key is set to v (or removed, v = Absent) in the history of its values.
Record(h, k, v) == [h EXCEPT ![k] = @ \cup {v}]

-----------------------------------------------------------------------------
(* Building blocks of the disk.                                            *)

\* disk::differs_on_disk: the file is missing or has another length.
DiffersOnDisk(k, v) ==
  \/ file[k] = Absent
  \/ file[k] \in Val /\ Len[file[k]] # Len[v]

\* A successful syncfs: names and bytes are on the device.
SyncStore ==
  /\ dur' = [k \in Key |-> {file[k]}]
  /\ tmp' = [p \in Proc |-> [k \in Key |->
               IF tmp[p][k] = "cached" THEN "flushed" ELSE tmp[p][k]]]

\* rename of p's temporary over k: atomic for the name; the bytes are those of
\* the temporary only if they had reached the device.
Rename(p, k, v) ==
  /\ file' = [file EXCEPT ![k] = v]
  /\ dur'  = [dur EXCEPT ![k] = @ \cup {v} \cup
               (IF tmp[p][k] = "flushed" THEN {} ELSE {Torn})]
  /\ tmp'  = [tmp EXCEPT ![p][k] = "none"]

Unlink(k) ==
  /\ file' = [file EXCEPT ![k] = Absent]
  /\ dur'  = [dur EXCEPT ![k] = @ \cup {Absent}]

NoTemps(p) == [tmp EXCEPT ![p] = [k \in Key |-> "none"]]

-----------------------------------------------------------------------------
(* nvram_init() has just loaded the files d into a new segment.            *)

Clean(d)    == [k \in Key |-> [val |-> d[k], dirty |-> FALSE]]
Only(d)     == [k \in Key |-> {d[k]}]
EmptyCaches == [p \in Proc |-> [k \in Key |-> EmptyEntry]]
TempsGone   == [p \in Proc |-> [k \in Key |-> "none"]]
Nothing     == [p \in Proc |-> {}]

Init ==
  /\ file \in [Key -> Value]
  /\ dur = Only(file) /\ hist = Only(file) /\ histc = [k \in Key |-> {}]
  /\ seg = Clean(file)
  /\ slots = [s \in Slot |-> 0]
  /\ cache = EmptyCaches /\ tmp = TempsGone
  /\ wlock = NoProc /\ clock = NoProc
  /\ pc = [p \in Proc |-> "idle"]
  /\ want = Nothing
  /\ pending = Nothing /\ staged = Nothing /\ done = Nothing
  /\ allOk = [p \in Proc |-> TRUE]
  /\ edits = 0 /\ drift = {} /\ late = {}

-----------------------------------------------------------------------------
(* nvram_get.  A hit changes nothing; a miss loads the counter first.      *)

Get(p, k) ==
  /\ pc[p] = "idle" /\ ~Hit(p, k)
  /\ pc' = [pc EXCEPT ![p] = "get"]
  /\ want' = [want EXCEPT ![p] = {[key |-> k, seen |-> slots[SlotOf[k]]]}]
  /\ UNCHANGED <<segVars, cache, diskVars, wlock, clock, commitVars, ghostVars>>

GetReturn(p, c) ==
  /\ cache' = c
  /\ pc' = [pc EXCEPT ![p] = "idle"]
  /\ want' = [want EXCEPT ![p] = {}]
  /\ UNCHANGED <<segVars, diskVars, wlock, clock, commitVars, ghostVars>>

\* Mutant: the data first and the counter after it.
ReadValueCounterLast(p) ==
  /\ pc[p] = "get"
  /\ \E w \in want[p] :
       IF "val" \in DOMAIN w
       THEN GetReturn(p, Install(p, w.key, w.val, slots[SlotOf[w.key]]))
       ELSE /\ want' = [want EXCEPT ![p] = {[key |-> w.key, val |-> seg[w.key].val]}]
            /\ UNCHANGED <<segVars, cache, diskVars, wlock, clock, pc, commitVars,
                           ghostVars>>

\* A read that validated: the bytes are those of one moment, and the counter
\* recorded with them is the one loaded before.
ReadValue(p) ==
  /\ pc[p] = "get"
  /\ \E w \in want[p] : GetReturn(p, Install(p, w.key, seg[w.key].val, w.seen))

\* MAX_SEQ_RETRIES torn reads: read again holding the writer semaphore.
ReadLocked(p) ==
  /\ pc[p] = "get" /\ wlock = NoProc
  /\ \E w \in want[p] :
       GetReturn(p, Install(p, w.key, seg[w.key].val, slots[SlotOf[w.key]]))

\* The semaphore cannot be had either: serve the file, and keep the entry
\* from ever being a hit.
GetDegraded(p) ==
  /\ pc[p] = "get" /\ "sem" \in Fault
  /\ \E w \in want[p] :
       GetReturn(p, [cache EXCEPT ![p][w.key] =
                       [value |-> file[w.key], seen |-> 0, valid |-> FALSE]])

-----------------------------------------------------------------------------
(* nvram_set and nvram_unset.                                              *)

\* Segment::put / Segment::remove of the whole update, then the install.  A
\* value the segment holds already changes nothing there; removing a variable
\* that does not exist leaves no tombstone.
Update(p, k, v) ==
  /\ pc[p] = "idle" /\ wlock = NoProc
  /\ slots[SlotOf[k]] < MaxSeq
  /\ IF seg[k].val = v
     THEN /\ UNCHANGED <<segVars, hist, histc>>
          /\ cache' = Install(p, k, v, slots[SlotOf[k]])
     ELSE /\ seg' = [seg EXCEPT ![k] = [val |-> v, dirty |-> TRUE]]
          /\ slots' = Bump(SlotOf[k])
          /\ cache' = Install(p, k, v, slots'[SlotOf[k]])
          /\ hist' = Record(hist, k, v)
          /\ histc' = IF clock = NoProc THEN histc ELSE Record(histc, k, v)
  /\ UNCHANGED <<diskVars, wlock, clock, pc, want, commitVars, edits, drift, late>>

\* value_matches: the private copy is current and equal, so nothing is done.
ValueMatches(p, k, v) == Hit(p, k) /\ cache[p][k].value = v

Set(p, k, v) == ~ValueMatches(p, k, v) /\ Update(p, k, v)

Unset(p, k) == Update(p, k, Absent)

-----------------------------------------------------------------------------
(* nvram_commit.  The commit semaphore is held from CommitBegin to the      *)
(* return; the writer semaphore only inside Snapshot and Writeback.         *)

At(p, here, there) == pc[p] = here /\ pc' = [pc EXCEPT ![p] = there]

CommitBegin(p) ==
  /\ At(p, "idle", "snapshot")
  /\ clock = NoProc /\ clock' = p
  /\ UNCHANGED <<segVars, cache, diskVars, wlock, want, commitVars, ghostVars>>

\* Mutant: only what is flagged, no look at the disk.
OwedDirtyOnly == {k \in Key : seg[k].dirty}

\* Phase 1, commit_snapshot: every dirty entry, and every clean live one whose
\* file is missing or has the wrong length.
Owed ==
  {k \in Key : \/ seg[k].dirty
               \/ seg[k].val # Absent /\ DiffersOnDisk(k, seg[k].val)}

Snapshot(p) ==
  /\ At(p, "snapshot", "stage")
  /\ wlock = NoProc
  /\ pending' = [pending EXCEPT ![p] =
       {[key |-> k, val |-> seg[k].val, seen |-> slots[SlotOf[k]]] : k \in Owed}]
  /\ late' = {}
  /\ histc' = [k \in Key |-> {seg[k].val} \cup (IF k \in drift THEN {file[k]} ELSE {})]
  /\ UNCHANGED <<segVars, cache, diskVars, wlock, clock, want, staged, done,
                 allOk, edits, drift, hist>>

\* Phase 2a: a value goes into its temporary, a deletion stages nothing.
StageOk(p, r) ==
  /\ staged' = [staged EXCEPT ![p] = @ \cup {r}]
  /\ tmp' = IF r.val = Absent THEN tmp ELSE [tmp EXCEPT ![p][r.key] = "cached"]
  /\ UNCHANGED allOk

StageFails(p, r) ==
  /\ "stage" \in Fault /\ r.val # Absent
  /\ allOk' = [allOk EXCEPT ![p] = FALSE]
  /\ tmp' = [tmp EXCEPT ![p][r.key] = "none"]
  /\ UNCHANGED staged

Stage(p) ==
  /\ pc[p] = "stage"
  /\ \E r \in pending[p] :
       /\ pending' = [pending EXCEPT ![p] = @ \ {r}]
       /\ StageOk(p, r) \/ StageFails(p, r)
  /\ UNCHANGED <<segVars, cache, file, dur, wlock, clock, pc, want, done, ghostVars>>

AnyStaged(p) == \E r \in staged[p] : r.val # Absent

\* The Drop of the commit guard, and the locals going out of scope.
Return(p) ==
  /\ clock' = NoProc
  /\ pending' = [pending EXCEPT ![p] = {}]
  /\ staged' = [staged EXCEPT ![p] = {}]
  /\ done' = [done EXCEPT ![p] = {}]
  /\ allOk' = [allOk EXCEPT ![p] = TRUE]
  /\ histc' = [k \in Key |-> {}]

\* Mutant: publish without flushing the temporaries.
FlushNothing(p) ==
  /\ At(p, "stage", "publish")
  /\ pending[p] = {}
  /\ UNCHANGED <<segVars, cache, diskVars, wlock, clock, want, commitVars, ghostVars>>

\* Phase 2b: one flush for all the temporaries, none if there are none.
FlushStaged(p) ==
  /\ At(p, "stage", "publish")
  /\ pending[p] = {}
  /\ IF AnyStaged(p) THEN SyncStore ELSE UNCHANGED <<dur, tmp>>
  /\ UNCHANGED <<segVars, cache, file, wlock, clock, want, commitVars, ghostVars>>

\* Mutant: return without discarding the temporaries.
FlushFailsKeeping(p) ==
  /\ At(p, "stage", "idle")
  /\ "sync" \in Fault /\ pending[p] = {} /\ AnyStaged(p)
  /\ Return(p)
  /\ UNCHANGED <<segVars, cache, diskVars, wlock, want, edits, drift, late, hist>>

\* The flush failed: discard the temporaries, publish nothing.
FlushFails(p) ==
  /\ At(p, "stage", "idle")
  /\ "sync" \in Fault /\ pending[p] = {} /\ AnyStaged(p)
  /\ tmp' = NoTemps(p)
  /\ Return(p)
  /\ UNCHANGED <<segVars, cache, file, dur, wlock, want, edits, drift, late, hist>>

\* The rename of r needs its temporary.
CanPublish(p, r) == r.val = Absent \/ tmp[p][r.key] # "none"

\* Phase 2c: rename a temporary into place, or unlink.
PublishOk(p, r) ==
  /\ CanPublish(p, r)
  /\ IF r.val = Absent THEN Unlink(r.key) /\ UNCHANGED tmp ELSE Rename(p, r.key, r.val)
  /\ done' = [done EXCEPT ![p] = @ \cup {r}]
  /\ drift' = drift \ {r.key}
  /\ UNCHANGED allOk

PublishFails(p, r) ==
  /\ "publish" \in Fault \/ ~CanPublish(p, r)
  /\ allOk' = [allOk EXCEPT ![p] = FALSE]
  /\ tmp' = [tmp EXCEPT ![p][r.key] = "none"]
  /\ UNCHANGED <<file, dur, done, drift>>

Publish(p) ==
  /\ pc[p] = "publish"
  /\ \E r \in staged[p] :
       /\ staged' = [staged EXCEPT ![p] = @ \ {r}]
       /\ PublishOk(p, r) \/ PublishFails(p, r)
  /\ UNCHANGED <<segVars, cache, wlock, clock, pc, want, pending, edits, late,
                 hist, histc>>

\* Mutant: retire the flag of everything published.
RetiredUnchecked(p) == {r.key : r \in done[p]}

\* Phase 3, commit_writeback: an entry whose counter moved since the snapshot
\* keeps its flag.
Retired(p) == {k \in Key :
  \E r \in done[p] : r.key = k /\ r.seen = slots[SlotOf[k]]}

Writeback(p) ==
  /\ At(p, "publish", "flush")
  /\ staged[p] = {}
  /\ done[p] # {} => wlock = NoProc
  /\ seg' = [k \in Key |->
       [val |-> seg[k].val, dirty |-> seg[k].dirty /\ k \notin Retired(p)]]
  /\ UNCHANGED <<slots, cache, diskVars, wlock, clock, want, commitVars, ghostVars>>

\* Mutant: success whatever failed on the way.
CommitReturnCareless(p) ==
  /\ At(p, "flush", "idle")
  /\ SyncStore
  /\ hist' = histc
  /\ Return(p)
  /\ UNCHANGED <<segVars, cache, file, wlock, want, edits, drift, late>>

\* The final flush; commit reports success if nothing failed.
CommitReturn(p) ==
  /\ At(p, "flush", "idle")
  /\ \/ /\ SyncStore
        /\ hist' = IF allOk[p] THEN histc ELSE hist
     \/ "sync" \in Fault /\ UNCHANGED <<dur, tmp, hist>>
  /\ Return(p)
  /\ UNCHANGED <<segVars, cache, file, wlock, want, edits, drift, late>>

\* The writer semaphore cannot be had in phase 1 or in phase 3.
CommitNoSem(p) ==
  /\ "sem" \in Fault
  /\ \/ At(p, "snapshot", "idle")
     \/ At(p, "publish", "idle") /\ staged[p] = {} /\ done[p] # {}
  /\ Return(p)
  /\ UNCHANGED <<segVars, cache, diskVars, wlock, want, edits, drift, late, hist>>

-----------------------------------------------------------------------------
(* nvram_clear: both semaphores, in the order commit takes them.           *)

\* Mutant: a clear that does not take the commit semaphore.
ClearBeginUnlocked(p) ==
  /\ At(p, "idle", "clear")
  /\ \A s \in Slot : slots[s] < MaxSeq
  /\ UNCHANGED <<segVars, cache, diskVars, wlock, clock, want, commitVars, ghostVars>>

ClearBegin(p) ==
  /\ At(p, "idle", "clear")
  /\ \A s \in Slot : slots[s] < MaxSeq
  /\ clock = NoProc /\ clock' = p
  /\ UNCHANGED <<segVars, cache, diskVars, wlock, want, commitVars, ghostVars>>

ClearNoSem(p) ==
  /\ "sem" \in Fault
  /\ At(p, "clear", "idle")
  /\ Return(p)
  /\ UNCHANGED <<segVars, cache, diskVars, wlock, want, edits, drift, late, hist>>

\* Segment::clear: no entry is left, not even a tombstone, and every counter
\* moves.
ClearSegment(p) ==
  /\ At(p, "clear", "wipe")
  /\ wlock = NoProc /\ wlock' = p
  /\ seg' = [k \in Key |-> [val |-> Absent, dirty |-> FALSE]]
  /\ slots' = [s \in Slot |-> NextEven(slots[s])]
  /\ drift' = {k \in Key : file[k] # Absent}
  /\ hist' = [k \in Key |-> hist[k] \cup {Absent}]
  /\ histc' = [k \in Key |-> {Absent}]
  /\ late' = {}
  /\ UNCHANGED <<cache, diskVars, clock, want, commitVars, edits>>

\* disk::remove_all, a file at a time; a file that cannot be removed is passed
\* over.
WipeFile(p) ==
  /\ pc[p] = "wipe"
  /\ \E k \in Key : file[k] # Absent /\ Unlink(k) /\ drift' = drift \ {k}
  /\ UNCHANGED <<segVars, cache, tmp, wlock, clock, pc, want, commitVars, edits,
                 late, hist, histc>>

\* remove_all is through its listing (a file made since it began may be missed),
\* or could not list at all; the writer semaphore goes, and this process's cache
\* with it.  Every regular file is deleted, so a dead process's temporaries too.
WipeEnd(p) ==
  /\ At(p, "wipe", "unlock")
  /\ wlock' = NoProc
  /\ cache' = [cache EXCEPT ![p] = [k \in Key |-> EmptyEntry]]
  /\ \/ /\ \A k \in Key : "unlink" \in Fault \/ k \in late \/ file[k] = Absent
        /\ tmp' = TempsGone \/ ("unlink" \in Fault /\ tmp' = tmp)
        /\ UNCHANGED allOk
     \/ /\ "list" \in Fault
        /\ allOk' = [allOk EXCEPT ![p] = FALSE]
        /\ UNCHANGED tmp
  /\ UNCHANGED <<segVars, file, dur, clock, want, pending, staged, done, ghostVars>>

ClearReturn(p) ==
  /\ At(p, "unlock", "idle")
  /\ \/ SyncStore /\ hist' = IF allOk[p] THEN histc ELSE hist
     \/ "sync" \in Fault /\ UNCHANGED <<dur, tmp, hist>>
  /\ Return(p)
  /\ UNCHANGED <<segVars, cache, file, wlock, want, edits, drift, late>>

-----------------------------------------------------------------------------
(* The environment.                                                        *)

\* Something edits /nvram directly.
Edit(k, v) ==
  /\ edits < MaxEdits /\ edits' = edits + 1
  /\ file[k] # v
  /\ file' = [file EXCEPT ![k] = v]
  /\ dur' = [dur EXCEPT ![k] = @ \cup {v}]
  /\ drift' = drift \cup {k}
  /\ late' = late \cup {k}
  /\ hist' = Record(hist, k, v)
  /\ histc' = IF clock = NoProc THEN histc ELSE Record(histc, k, v)
  /\ UNCHANGED <<segVars, cache, tmp, wlock, clock, pc, want, commitVars>>

\* A process without this segment walks /nvram (getall, or nvram_init): load_all
\* takes every temporary for the leftover of a crash, a running commit's too.
Sweep ==
  /\ "sweep" \in Fault
  /\ tmp # TempsGone /\ tmp' = TempsGone
  /\ UNCHANGED <<segVars, cache, file, dur, wlock, clock, pc, want, commitVars, ghostVars>>

\* Mutant: no SEM_UNDO on the writer semaphore.
KillNoUndo(p) ==
  /\ "kill" \in Fault
  /\ pc[p] # "dead" /\ pc' = [pc EXCEPT ![p] = "dead"]
  /\ cache' = [cache EXCEPT ![p] = [k \in Key |-> EmptyEntry]]
  /\ want' = [want EXCEPT ![p] = {}]
  /\ IF clock = p THEN Return(p) ELSE UNCHANGED <<clock, commitVars, histc>>
  /\ UNCHANGED <<segVars, diskVars, wlock, edits, drift, late, hist>>

\* A process is killed; SEM_UNDO gives its semaphores back.
Kill(p) ==
  /\ "kill" \in Fault
  /\ pc[p] # "dead" /\ pc' = [pc EXCEPT ![p] = "dead"]
  /\ cache' = [cache EXCEPT ![p] = [k \in Key |-> EmptyEntry]]
  /\ want' = [want EXCEPT ![p] = {}]
  /\ wlock' = IF wlock = p THEN NoProc ELSE wlock
  /\ IF clock = p THEN Return(p) ELSE UNCHANGED <<clock, commitVars, histc>>
  /\ UNCHANGED <<segVars, diskVars, edits, drift, late, hist>>

\* Power is lost: the segment and every process are gone, each file is one of
\* the versions that may have reached the device, and rc brings the store up
\* again.
PowerLoss ==
  /\ "power" \in Fault
  /\ file' \in {d \in [Key -> Content] : \A k \in Key : d[k] \in dur[k]}
  /\ dur' = Only(file') /\ hist' = Only(file') /\ histc' = [k \in Key |-> {}]
  /\ seg' = Clean(file')
  /\ slots' = [s \in Slot |-> 0]
  /\ cache' = EmptyCaches /\ tmp' = TempsGone
  /\ wlock' = NoProc /\ clock' = NoProc
  /\ pc' = [p \in Proc |-> "idle"]
  /\ want' = Nothing
  /\ pending' = Nothing /\ staged' = Nothing /\ done' = Nothing
  /\ allOk' = [p \in Proc |-> TRUE]
  /\ drift' = {} /\ late' = {}
  /\ UNCHANGED edits

-----------------------------------------------------------------------------
\* The steps a process takes once it has entered nvram_get, nvram_commit or
\* nvram_clear.
Step(p) ==
  \/ ReadValue(p) \/ ReadLocked(p) \/ GetDegraded(p)
  \/ Snapshot(p) \/ Stage(p) \/ FlushStaged(p) \/ FlushFails(p)
  \/ Publish(p) \/ Writeback(p) \/ CommitReturn(p) \/ CommitNoSem(p)
  \/ ClearNoSem(p) \/ ClearSegment(p) \/ WipeFile(p) \/ WipeEnd(p)
  \/ ClearReturn(p)

Call(p) ==
  \/ \E k \in Key : Get(p, k) \/ Unset(p, k) \/ \E v \in Val : Set(p, k, v)
  \/ CommitBegin(p) \/ ClearBegin(p)

Next ==
  \/ \E p \in Proc : Call(p) \/ Step(p) \/ Kill(p)
  \/ \E k \in Key, v \in Value : Edit(k, v)
  \/ Sweep \/ PowerLoss

Spec == Init /\ [][Next]_vars

\* A process inside the library is scheduled until its call returns.
FairSpec == Spec /\ \A p \in Proc : WF_vars(Step(p))

-----------------------------------------------------------------------------
(* Properties.                                                             *)

Phases == {"idle", "get", "snapshot", "stage", "publish", "flush",
           "clear", "wipe", "unlock", "dead"}

TypeOK ==
  /\ seg \in [Key -> [val : Content, dirty : BOOLEAN]]
  /\ slots \in [Slot -> Nat] /\ \A s \in Slot : slots[s] % 2 = 0
  /\ cache \in [Proc -> [Key -> [value : Content, seen : Nat, valid : BOOLEAN]]]
  /\ file \in [Key -> Content]
  /\ dur \in [Key -> SUBSET Content]
  /\ tmp \in [Proc -> [Key -> {"none", "cached", "flushed"}]]
  /\ wlock \in Proc \cup {NoProc}
  /\ clock \in Proc \cup {NoProc}
  /\ pc \in [Proc -> Phases]
  /\ want \in [Proc -> SUBSET [key : Key, seen : Nat]]
  /\ pending \in [Proc -> SUBSET Pending]
  /\ staged \in [Proc -> SUBSET Pending]
  /\ done \in [Proc -> SUBSET Pending]
  /\ allOk \in [Proc -> BOOLEAN]
  /\ edits \in Nat
  /\ drift \subseteq Key
  /\ late \subseteq Key
  /\ hist \in [Key -> SUBSET Content]
  /\ histc \in [Key -> SUBSET Content]

\* A cached value that would be served as a hit is the value the segment holds,
\* whatever other process wrote it and whichever keys share its counter
\* ("a cached value stays valid while that counter is unchanged").
CacheCoherent ==
  \A p \in Proc, k \in Key : Hit(p, k) => cache[p][k].value = seg[k].val

\* No write is stranded in memory: a key whose file is not what memory holds is
\* still flagged dirty, unless something other than the library's own sets and
\* unsets made them differ.  In particular a set that lands between a commit's
\* snapshot and its write-back keeps its flag.
NothingStranded ==
  \A k \in Key : seg[k].dirty \/ k \in drift \/ file[k] = seg[k].val

\* Power may go at any moment: what it leaves of a key's file is a whole value
\* that the key, or an edit of its file, has given it since the last successful
\* commit or clear took its snapshot; never a torn file, never a value from
\* before that barrier.
NoRollback == \A k \in Key : dur[k] \subseteq hist[k]

\* The store heals itself: when a commit in which nothing failed is about to
\* return, a live key whose file had gone missing or changed length has it back,
\* unless something touched the file, or set the key, after the snapshot.
HealsItself ==
  \A p \in Proc, k \in Key :
    pc[p] = "flush" /\ allOk[p] /\ k \notin late /\ ~seg[k].dirty
    => seg[k].val = Absent \/ ~DiffersOnDisk(k, seg[k].val)

\* No temporary outlives the commit that made it, unless its process was killed.
NoTempLeak ==
  \A p \in Proc, k \in Key : tmp[p][k] # "none" =>
    \/ pc[p] = "dead"
    \/ pc[p] = "stage" \/ (pc[p] = "publish" /\ \E r \in staged[p] : r.key = k)

\* nvram_clear empties the on-disk store: when remove_all has reported success
\* no file is left that the next boot would turn back into a variable, not even
\* one a running commit was about to publish.  (Where unlinks fail it does not
\* hold: remove_all passes over them.)
ClearEmptiesDisk ==
  \A p \in Proc : pc[p] = "unlock" /\ allOk[p]
    => \A k \in Key : file[k] = Absent \/ k \in late

\* A commit or a clear that has begun comes to an end, however the processes
\* contend for the two semaphores.
CallsReturn == \A p \in Proc : pc[p] # "idle" ~> pc[p] \in {"idle", "dead"}

-----------------------------------------------------------------------------
(* The contract of the library, and what of this module it is about.       *)

\* A commit or a clear has looked at memory and not come back yet.
Looked == \E p \in Proc : pc[p] \in {"stage", "publish", "flush", "wipe", "unlock"}

Promise == INSTANCE Nvram WITH
  mem     <- [k \in Key |-> seg[k].val],
  since   <- hist,
  running <- IF Looked THEN histc ELSE [k \in Key |-> {}],
  foreign <- drift,
  copy    <- [p \in Proc |-> [k \in Key |->
                IF Hit(p, k) THEN {cache[p][k].value} ELSE {}]]

\* The three tiers together keep the contract of module Nvram: a set is visible
\* to every process at once, what a power cut brings back of a key is a value it
\* has had since the last commit or clear that reported success looked at it,
\* and a commit that fails, or whose process dies, takes nothing back.
KeepsPromise == Promise!Spec

-----------------------------------------------------------------------------
(* What makes CacheCoherent and NothingStranded inductive.                 *)

\* A counter recorded with a value is never ahead of the segment's, so a counter
\* that has moved on never comes back to it.
CacheInv ==
  /\ \A p \in Proc, k \in Key : cache[p][k].valid =>
       /\ cache[p][k].seen <= slots[SlotOf[k]]
       /\ cache[p][k].seen = slots[SlotOf[k]] => cache[p][k].value = seg[k].val
  /\ \A p \in Proc : \A g \in want[p] : g.seen <= slots[SlotOf[g.key]]

Busy == {"snapshot", "stage", "publish", "flush", "clear", "wipe", "unlock"}
Records(p) == pending[p] \cup staged[p] \cup done[p]

\* One commit or clear at a time, and only a commit past its snapshot has records.
CommitLocked ==
  \A p \in Proc :
    /\ pc[p] \in Busy => clock = p
    /\ Records(p) # {} => pc[p] \in {"stage", "publish", "flush"}
    /\ pc[p] \in {"publish", "flush"} => pending[p] = {}

\* While a clear wipes the disk it keeps every set out.
WipeLocked ==
  \A p \in Proc : pc[p] = "wipe" => wlock = p /\ \A k \in Key : seg[k].val = Absent

\* What a snapshot record still says about memory and about the disk.
RecordOk(p, r) ==
  /\ r.seen <= slots[SlotOf[r.key]]
  /\ r.seen = slots[SlotOf[r.key]] => r.val = seg[r.key].val
  /\ r \in pending[p] \cup staged[p] => seg[r.key].dirty \/ r.val = seg[r.key].val
  /\ r \in done[p] /\ r.seen = slots[SlotOf[r.key]]
       => r.key \in drift \/ file[r.key] = r.val
  /\ \A q \in Records(p) : q.key = r.key => q = r

RecordsOk == \A p \in Proc : \A r \in Records(p) : RecordOk(p, r)

\* The four together: a commit's records stay good enough, from its snapshot to
\* its write-back, for it to retire a flag only when the file is right.
CommitInv == CommitLocked /\ WipeLocked /\ RecordsOk /\ NothingStranded
=============================================================================
