---------------------------- MODULE SegmentReads ----------------------------
(***************************************************************************)
(* Proofs about the lock-free reads of the shared segment, for any number  *)
(* of readers, keys, values and counters and any size of index:            *)
(*   Linearizable  a read that validates returns a value its key had while *)
(*                 the read was under way                                  *)
(*   Current       a cached value whose counter has not moved is current   *)
(*   Registered    the segment implements Registers                        *)
(*                                                                         *)
(* They hold of the behaviours in which                                    *)
(*   - no put claims the tombstone of a key that is behind another counter *)
(*     (CrossReclaim; MCSegment_reclaim shows the read that goes wrong),   *)
(*   - a compaction finds room for every entry it puts back (HasRoom), and *)
(*   - no writer is killed inside a compaction or a clear.                 *)
(***************************************************************************)
EXTENDS SegmentIndex

-----------------------------------------------------------------------------
(* The index and the writer.                                               *)

\* A put claims a tombstone whose key is behind another counter.
CrossReclaim ==
  /\ SeqBegin
  /\ LET e == idx[Target(idx, w.key)]
     IN  e.state # "empty" /\ e.key \in Key /\ SlotOf[e.key] # SlotOf[w.key]

\* No entry is behind an empty cell of its window.
Reachable(ix) ==
  \A k \in Key, t \in Window :
    ix[CellAt(k, t)].state # "empty" /\ ix[CellAt(k, t)].key = k =>
      \A i \in Window : i < t => ix[CellAt(k, i)].state # "empty"

\* The cell a writer fills can be reached, and is no other counter's.
ChainInv ==
  /\ w.pc # "wipe" => Reachable(idx)
  /\ w.pc = "wipe" => \A c \in Cell : c < w.at => idx[c] = Wiped
  /\ w.pc = "bump" => w.op = "clear"
  /\ w.pc \in Writing =>
       /\ Within(idx, w.key, w.cell)
       /\ \/ idx[w.cell].state = "empty"
          \/ idx[w.cell].key \notin Key
          \/ SlotOf[idx[w.cell].key] = SlotOf[w.key]

\* Nobody is writing behind the counter of k.
Quiet(k) ==
  \/ w.pc \in {"idle", "bump", "begin"}
  \/ w.pc \in Writing /\ SlotOf[w.key] # SlotOf[k]

StableInv == \A k \in Key : Quiet(k) => stable[k] = Lookup(idx, k)

SegInv == TypeInv /\ ChainInv /\ StableInv

-----------------------------------------------------------------------------
(* The readers.  x is a reader's record and h what its key has held.       *)

\* A clear has still to move this counter.
Pending(s) == w.pc = "bump" /\ s \in w.left

\* A value v of k recorded with the counter `seen`: current as long as the counter
\* stays.
Fresh(k, v, seen) ==
  /\ seen <= slots[SlotOf[k]]
  /\ seen = slots[SlotOf[k]] /\ ~Pending(SlotOf[k]) =>
       ~Odd(seen) /\ v = stable[k]

\* The counters a reader compares have not moved.
Same(x) == slots[SlotOf[x.key]] = x.s1 /\ arena = x.a1

\* How far a read whose counters have not moved has come.
Passed(x) == \A i \in Window : i < x.j => i \notin Stops(idx, x.key)

At(x) == idx[CellAt(x.key, x.j)]

Progress(x) ==
  /\ x.pc \in {"probe", "match", "state", "off", "bytes"} => Passed(x)
  /\ x.pc \in {"match", "state", "off", "bytes"} => At(x).state # "empty"
  /\ x.pc \in {"state", "off", "bytes"} => At(x).key = x.key
  /\ x.pc \in {"off", "bytes"} => At(x).state = "live"
  /\ x.pc = "bytes" => x.off = At(x).off
  /\ x.pc = "s2" => x.val = Lookup(idx, x.key)

ReadOK(x, h) ==
  /\ x.pc # "idle" => stable[x.key] \in h
  /\ x.pc \in {"s1", "a1"} \cup Data => x.before <= slots[SlotOf[x.key]]
  /\ x.pc \in {"a1"} \cup Data => x.before <= x.s1 /\ x.s1 <= slots[SlotOf[x.key]]
  /\ x.pc \in Data =>
       /\ ~Odd(x.s1) /\ ~Odd(x.a1) /\ x.a1 <= arena
       /\ Same(x) => Progress(x)
  /\ x.pc = "a2" =>
       /\ x.a1 <= arena
       /\ arena = x.a1 => x.val \in h /\ Fresh(x.key, x.val, x.before)
  /\ x.pc = "done" => x.val \in h /\ Fresh(x.key, x.val, x.before)

ReadInv == \A r \in Reader : ReadOK(rd[r], held[r])

CacheInv ==
  \A r \in Reader, k \in Key : \A e \in cache[r][k] : Fresh(k, e.val, e.seen)

Inv == SegInv /\ ReadInv /\ CacheInv

\* A probe only looks at state and key, and a read at offset and length.
LEMMA LookupSame ==
  ASSUME NEW ix, NEW iy, NEW k \in Key,
         \A c \in Cell : /\ iy[c].state = ix[c].state /\ iy[c].key = ix[c].key
                         /\ iy[c].off = ix[c].off /\ iy[c].len = ix[c].len
  PROVE  Lookup(iy, k) = Lookup(ix, k) /\ Stops(iy, k) = Stops(ix, k)
<1>1. Stops(iy, k) = Stops(ix, k)
  BY CellAtFacts DEF Stops
<1>2. CASE Stops(ix, k) = {}
  BY <1>1, <1>2, LookupNowhere
<1>3. CASE Stops(ix, k) # {}
  <2>1. PICK t \in Window : First(ix, k, t)
    BY <1>3, FirstExists
  <2>2. First(iy, k, t)
    BY <1>1, <2>1 DEF First
  <2> QED
    BY <1>1, <2>1, <2>2, LookupFirst, CellAtFacts
<1> QED
  BY <1>1, <1>2, <1>3

\* A store into a cell that is not k's, and is not emptied, changes nothing for k:
\* a cell that stops being empty uncovers no entry of k, for there is none behind.
LEMMA OtherStore ==
  ASSUME NEW ix, NEW iy, NEW c \in Cell, NEW k \in Key, Reachable(ix),
         \A d \in Cell \ {c} : iy[d] = ix[d],
         ix[c].state = "empty" \/ ix[c].key # k,
         iy[c].state = "empty" \/ iy[c].key # k,
         ix[c].state # "empty" => iy[c].state # "empty"
  PROVE  /\ Lookup(iy, k) = Lookup(ix, k)
         /\ Stops(iy, k) \subseteq Stops(ix, k)
<1>1. \A t \in Window : CellAt(k, t) # c => iy[CellAt(k, t)] = ix[CellAt(k, t)]
  BY CellAtFacts
<1>2. \A t \in Window : CellAt(k, t) = c =>
        /\ t \in Stops(ix, k) <=> ix[c].state = "empty"
        /\ t \in Stops(iy, k) <=> iy[c].state = "empty"
  BY StopsFacts
<1>3. \A t \in Window : CellAt(k, t) # c => (t \in Stops(ix, k) <=> t \in Stops(iy, k))
  BY <1>1, StopsFacts
<1>4. Stops(iy, k) \subseteq Stops(ix, k)
  <2> SUFFICES ASSUME NEW t \in Stops(iy, k) PROVE t \in Stops(ix, k)
    OBVIOUS
  <2>1. t \in Window
    BY DEF Stops
  <2> QED
    BY <1>2, <1>3, <2>1
<1>5. CASE Stops(ix, k) = {}
  BY <1>4, <1>5, LookupNowhere
<1>6. ASSUME NEW t \in Window, First(ix, k, t), CellAt(k, t) # c
      PROVE  Lookup(iy, k) = Lookup(ix, k)
  <2>1. t \in Stops(iy, k)
    BY <1>3, <1>6 DEF First
  <2>2. First(iy, k, t)
    BY <1>4, <1>6, <2>1 DEF First
  <2> QED
    BY <1>1, <1>6, <2>2, LookupFirst
<1>7. ASSUME NEW t \in Window, First(ix, k, t), CellAt(k, t) = c
      PROVE  Lookup(iy, k) = Lookup(ix, k)
  <2>1. ix[c].state = "empty"
    BY <1>2, <1>7 DEF First
  <2>2. Lookup(ix, k) = Absent
    BY <1>7, <2>1, LookupFirst
  <2>3. CASE Stops(iy, k) = {}
    BY <2>2, <2>3, LookupNowhere
  <2>4. CASE Stops(iy, k) # {}
    <3>1. PICK u \in Window : First(iy, k, u)
      BY <2>4, FirstExists
    <3>2. iy[CellAt(k, u)].state = "empty"
      <4>1. CASE CellAt(k, u) = c
        BY <1>2, <3>1, <4>1 DEF First
      <4>2. CASE CellAt(k, u) # c
        <5> SUFFICES ASSUME iy[CellAt(k, u)].state # "empty" PROVE FALSE
          OBVIOUS
        <5>1. iy[CellAt(k, u)] = ix[CellAt(k, u)] /\ u \in Stops(ix, k)
          BY <1>1, <1>4, <3>1, <4>2 DEF First
        <5>2. ix[CellAt(k, u)].state # "empty" /\ ix[CellAt(k, u)].key = k
          BY <5>1, StopsFacts
        <5>3. ~ (u < t) /\ u # t
          BY <1>7, <4>2, <5>1 DEF First
        <5>4. t < u
          BY <5>3, WindowFacts
        <5>5. ix[CellAt(k, t)].state # "empty"
          BY <5>2, <5>4 DEF Reachable
        <5> QED
          BY <1>7, <2>1, <5>5
      <4> QED
        BY <4>1, <4>2
    <3> QED
      BY <2>2, <3>1, <3>2, LookupFirst
  <2> QED
    BY <2>3, <2>4
<1> QED
  BY <1>4, <1>5, <1>6, <1>7, FirstExists


-----------------------------------------------------------------------------
(* What a step of the writer is to a reader.                               *)

\* Nothing a read of k depends on has changed.
Untouched(k) ==
  /\ Lookup(idx', k) = Lookup(idx, k)
  /\ Stops(idx', k) \subseteq Stops(idx, k)
  /\ \A t \in Window : idx[CellAt(k, t)].state # "empty" =>
       /\ idx'[CellAt(k, t)].state # "empty"
       /\ idx[CellAt(k, t)].key = k =>
            /\ idx'[CellAt(k, t)].state = idx[CellAt(k, t)].state
            /\ idx'[CellAt(k, t)].key = k
            /\ idx'[CellAt(k, t)].off = idx[CellAt(k, t)].off

\* The counters only grow; while k's and the arena's are even and stay, a read of k
\* can go on; while k's is even and stays, the value of k does.
Guarded ==
  /\ \A s \in Slot : slots[s] <= slots'[s]
  /\ arena <= arena'
  /\ \A k \in Key :
       slots'[SlotOf[k]] = slots[SlotOf[k]] =>
         /\ ~Odd(slots[SlotOf[k]]) /\ arena' = arena /\ ~Odd(arena) => Untouched(k)
         /\ ~Pending(SlotOf[k])' =>
              /\ ~Pending(SlotOf[k])
              /\ ~Odd(slots[SlotOf[k]]) => stable'[k] = stable[k]

\* Even counters mean that nobody is writing.
LEMMA EvenIsQuiet ==
  ASSUME TypeInv, NEW k \in Key, ~Odd(slots[SlotOf[k]]), ~Odd(arena)
  PROVE  Quiet(k)
<1>1. w \in WriterRec
  BY DEF TypeInv, WriterType
<1>2. w.pc \in {"idle", "begin", "bump"} \cup Writing \cup Wiping
  BY <1>1 DEF WriterRec
<1>3. /\ w.pc \in Writing => Odd(slots[SlotOf[w.key]])
      /\ w.pc \in Wiping => Odd(arena)
  BY DEF TypeInv, ParityInv
<1> QED
  BY <1>2, <1>3 DEF Quiet

LEMMA UntouchedSame ==
  ASSUME idx' = idx, NEW k \in Key
  PROVE  Untouched(k)
<1>1. Lookup(idx', k) = Lookup(idx, k) /\ Stops(idx', k) = Stops(idx, k)
  OBVIOUS
<1> QED
  BY <1>1 DEF Untouched

\* A store into one cell adds at most an entry that can be reached.
LEMMA ReachableStore ==
  ASSUME NEW ix, NEW iy, NEW c \in Cell, NEW j \in Key, Reachable(ix), Within(ix, j, c),
         \A d \in Cell \ {c} : iy[d] = ix[d],
         ix[c].state # "empty" => iy[c].state # "empty",
         iy[c].key \in Key => iy[c].key = j
  PROVE  Reachable(iy) /\ Within(iy, j, c)
<1>1. \A k \in Key, t \in Window :
        /\ CellAt(k, t) \in Cell
        /\ ix[CellAt(k, t)].state # "empty" => iy[CellAt(k, t)].state # "empty"
  BY CellAtFacts
<1>2. Within(iy, j, c)
  BY <1>1 DEF Within
<1>3. ASSUME NEW k \in Key, NEW t \in Window, NEW i \in Window, i < t,
             iy[CellAt(k, t)].state # "empty", iy[CellAt(k, t)].key = k
      PROVE  iy[CellAt(k, i)].state # "empty"
  <2>1. CASE CellAt(k, t) = c
    <3>1. k = j
      BY <1>3, <2>1
    <3>2. PICK u \in Window :
            /\ c = CellAt(j, u)
            /\ \A n \in Window : n < u => iy[CellAt(j, n)].state # "empty"
      BY <1>2 DEF Within
    <3>3. u = t
      BY <2>1, <3>1, <3>2, CellAtFacts
    <3> QED
      BY <1>3, <3>1, <3>2, <3>3
  <2>2. CASE CellAt(k, t) # c
    <3>1. iy[CellAt(k, t)] = ix[CellAt(k, t)]
      BY <1>1, <2>2
    <3>2. ix[CellAt(k, i)].state # "empty"
      BY <1>3, <3>1 DEF Reachable
    <3> QED
      BY <1>1, <3>2
  <2> QED
    BY <2>1, <2>2
<1>4. Reachable(iy)
  BY <1>3 DEF Reachable
<1> QED
  BY <1>2, <1>4

\* The index and the counters stay, or only grow; the writer leaves.
LEMMA GuardedSame ==
  ASSUME TypeInv, TypeInv', idx' = idx,
         \A s \in Slot : slots[s] <= slots'[s], arena <= arena',
         \A k \in Key : slots'[SlotOf[k]] = slots[SlotOf[k]] /\ ~Pending(SlotOf[k])' =>
           ~Pending(SlotOf[k]) /\ (~Odd(slots[SlotOf[k]]) => stable'[k] = stable[k])
  PROVE  Guarded
BY UntouchedSame DEF Guarded

-----------------------------------------------------------------------------
(* The steps of the writer.                                                *)

LEMMA BeginGuarded ==
  ASSUME SegInv,
         \/ \E k \in Key : Remove(k) \/ \E v \in Val : Put(k, v)
         \/ Clear
  PROVE  SegInv' /\ Guarded /\ WriterStep
<1>1. /\ TypeInv' /\ idx' = idx /\ slots' = slots /\ WriterStep /\ w.pc = "idle"
      /\ \/ w'.pc = "begin" /\ arena' = arena
         \/ w'.pc = "wipe" /\ arena' = NextOdd(arena) /\ w'.at = 0
  BY BeginType DEF SegInv
<1>2. slots \in [Slot -> Nat] /\ arena \in Nat /\ arena <= arena'
  <2>1. slots \in [Slot -> Nat] /\ arena \in Nat
    BY DEF SegInv, TypeInv, SegmentType
  <2>2. NextOdd(arena) \in Nat /\ NextOdd(arena) > arena
    BY <2>1, CounterFacts
  <2> QED
    BY <1>1, <2>1, <2>2
<1>3. stable' = stable
  BY <1>1, ObserveFacts DEF WriterStep, SegInv
<1>4. Guarded
  <2>1. \A s \in Slot : slots[s] <= slots'[s]
    BY <1>1, <1>2
  <2>2. \A s : ~Pending(s)
    BY <1>1 DEF Pending
  <2> QED
    BY <1>1, <1>2, <1>3, <2>1, <2>2, GuardedSame DEF SegInv
<1>5. ChainInv'
  <2>1. Reachable(idx)
    BY <1>1 DEF SegInv, ChainInv
  <2>2. \A c \in Cell : ~ (c < 0)
    BY IndexAssumption DEF Cell
  <2>3. Reachable(idx')
    BY <1>1, <2>1
  <2> QED
    BY <1>1, <2>2, <2>3 DEF ChainInv, Writing
<1>6. StableInv'
  <2>1. \A k \in Key : stable[k] = Lookup(idx, k)
    BY <1>1 DEF SegInv, StableInv, Quiet
  <2> QED
    BY <1>1, <1>3, <2>1 DEF StableInv
<1> QED
  BY <1>1, <1>4, <1>5, <1>6 DEF SegInv

LEMMA StoreGuarded ==
  ASSUME SegInv, Stores
  PROVE  SegInv' /\ Guarded /\ WriterStep
<1>1. Stored /\ TypeInv'
  BY StoreFacts, StoreType DEF SegInv
<1>2. /\ WriterStep /\ slots' = slots /\ arena' = arena
      /\ w.pc \in Writing /\ w'.pc \in Writing /\ w'.key = w.key /\ w'.cell = w.cell
      /\ \A d \in Cell \ {w.cell} : idx'[d] = idx[d]
  BY <1>1 DEF Stored
<1>3. /\ w.key \in Key /\ w.cell \in Cell /\ Odd(slots[SlotOf[w.key]])
      /\ slots \in [Slot -> Nat] /\ arena \in Nat
  BY <1>2 DEF SegInv, TypeInv, WriterType, WriterRec, ParityInv, SegmentType
<1>4. idx'[w.cell].key \in {NoKey, w.key}
  BY <1>1 DEF Stored, SegInv, TypeInv, KeyedInv
<1>5. idx[w.cell].state # "empty" => idx'[w.cell].state # "empty"
  BY <1>1 DEF Stored
<1>6. /\ Reachable(idx) /\ Within(idx, w.key, w.cell)
      /\ \/ idx[w.cell].state = "empty"
         \/ idx[w.cell].key \notin Key
         \/ SlotOf[idx[w.cell].key] = SlotOf[w.key]
  BY <1>2 DEF SegInv, ChainInv, Writing
<1>7. NoKey \notin Key
  BY BytesAssumption
<1>8. Reachable(idx') /\ Within(idx', w.key, w.cell)
  BY <1>2, <1>3, <1>4, <1>5, <1>6, <1>7, ReachableStore
<1>9. ChainInv'
  BY <1>2, <1>4, <1>7, <1>8 DEF ChainInv, Writing
<1>10. stable' = stable
  BY <1>2, ObserveFacts DEF WriterStep, SegInv, Writing
<1>11. ASSUME NEW k \in Key, SlotOf[w.key] # SlotOf[k]
       PROVE  Untouched(k)
  <2>1. idx[w.cell].state = "empty" \/ idx[w.cell].key # k
    BY <1>6, <1>11
  <2>2. idx'[w.cell].key # k
    BY <1>4, <1>7, <1>11
  <2>3. Lookup(idx', k) = Lookup(idx, k) /\ Stops(idx', k) \subseteq Stops(idx, k)
    BY <1>2, <1>3, <1>5, <1>6, <2>1, <2>2, OtherStore
  <2>4. ASSUME NEW t \in Window, idx[CellAt(k, t)].state # "empty"
        PROVE  /\ idx'[CellAt(k, t)].state # "empty"
               /\ idx[CellAt(k, t)].key = k => idx'[CellAt(k, t)] = idx[CellAt(k, t)]
    <3>1. CellAt(k, t) \in Cell
      BY CellAtFacts
    <3> QED
      BY <1>2, <1>5, <2>1, <2>4, <3>1
  <2> QED
    BY <2>3, <2>4 DEF Untouched
<1>12. StableInv'
  <2> SUFFICES ASSUME NEW k \in Key, Quiet(k)' PROVE stable'[k] = Lookup(idx', k)
    BY DEF StableInv
  <2>1. SlotOf[w.key] # SlotOf[k]
    BY <1>2 DEF Quiet, Writing
  <2>2. Lookup(idx', k) = Lookup(idx, k)
    BY <1>11, <2>1 DEF Untouched
  <2>3. stable[k] = Lookup(idx, k)
    BY <1>2, <2>1 DEF SegInv, StableInv, Quiet
  <2> QED
    BY <1>10, <2>2, <2>3
<1>13. Guarded
  <2>1. \A s : ~Pending(s)
    BY <1>2 DEF Pending, Writing
  <2>2. (\A s \in Slot : slots[s] <= slots'[s]) /\ arena <= arena'
    BY <1>2, <1>3
  <2>3. ASSUME NEW k \in Key, ~Odd(slots[SlotOf[k]])
        PROVE  Untouched(k)
    BY <1>3, <1>11, <2>3
  <2> QED
    BY <1>10, <2>1, <2>2, <2>3 DEF Guarded
<1> QED
  BY <1>1, <1>2, <1>9, <1>12, <1>13 DEF SegInv

LEMMA SeqBeginGuarded ==
  ASSUME SegInv, SeqBegin, ~CrossReclaim
  PROVE  SegInv' /\ Guarded /\ WriterStep
<1>1. /\ TypeInv' /\ WriterStep /\ idx' = idx /\ arena' = arena
      /\ w.pc = "begin" /\ w'.pc \in Writing /\ w'.key = w.key /\ w.key \in Key
      /\ w'.cell = Target(idx, w.key) /\ CanClaim(idx, w.key)
      /\ slots' = [slots EXCEPT ![SlotOf[w.key]] = NextOdd(@)]
  BY SeqBeginType DEF SegInv
<1>2. /\ slots \in [Slot -> Nat] /\ arena \in Nat /\ idx \in [Cell -> Entry]
      /\ SlotOf[w.key] \in Slot
  BY <1>1, IndexAssumption DEF SegInv, TypeInv, SegmentType
<1>3. NextOdd(slots[SlotOf[w.key]]) \in Nat /\ NextOdd(slots[SlotOf[w.key]]) > slots[SlotOf[w.key]]
  BY <1>2, CounterFacts
<1>4. (\A s \in Slot : slots[s] <= slots'[s]) /\ arena <= arena'
  BY <1>1, <1>2, <1>3
<1>5. stable' = stable
  BY <1>1, ObserveFacts DEF WriterStep, SegInv, Writing
<1>6. Guarded
  <2>1. \A s : ~Pending(s)
    BY <1>1 DEF Pending
  <2> QED
    BY <1>1, <1>4, <1>5, <2>1, GuardedSame DEF SegInv
<1>7. ChainInv'
  <2>1. Reachable(idx)
    BY <1>1 DEF SegInv, ChainInv
  <2>2. Within(idx, w.key, Target(idx, w.key))
    BY <1>1, <1>2, TargetFacts DEF Within
  <2>3. \/ idx[Target(idx, w.key)].state = "empty"
        \/ idx[Target(idx, w.key)].key \notin Key
        \/ SlotOf[idx[Target(idx, w.key)].key] = SlotOf[w.key]
    BY DEF CrossReclaim
  <2>4. Reachable(idx') /\ Within(idx', w'.key, w'.cell)
    BY <1>1, <2>1, <2>2
  <2>5. \/ idx'[w'.cell].state = "empty"
        \/ idx'[w'.cell].key \notin Key
        \/ SlotOf[idx'[w'.cell].key] = SlotOf[w'.key]
    BY <1>1, <2>3
  <2> QED
    BY <1>1, <2>4, <2>5 DEF ChainInv, Writing
<1>8. StableInv'
  <2>1. \A k \in Key : stable[k] = Lookup(idx, k)
    BY <1>1 DEF SegInv, StableInv, Quiet
  <2> QED
    BY <1>1, <1>5, <2>1 DEF StableInv
<1> QED
  BY <1>1, <1>6, <1>7, <1>8 DEF SegInv

\* The writer goes away or on to the counters of a clear: every key has the value
\* that is found.
LEMMA LeaveGuarded ==
  ASSUME SegInv, TypeInv', Observe, rd' = rd, cache' = cache, idx' = idx,
         w'.pc \in {"idle", "bump"}, w'.pc = "bump" => w'.op = "clear", w.pc # "wipe",
         \A s \in Slot : slots[s] <= slots'[s], arena <= arena',
         \A k \in Key : slots'[SlotOf[k]] = slots[SlotOf[k]] /\ ~Pending(SlotOf[k])' =>
           /\ ~Pending(SlotOf[k])
           /\ ~Odd(slots[SlotOf[k]]) => stable[k] = Lookup(idx, k)
  PROVE  SegInv' /\ Guarded
<1>1. \A k \in Key : stable'[k] = Lookup(idx, k)
  <2>1. \A k \in Key : stable'[k] = Lookup(idx', k)
    BY ObserveFacts DEF SegInv
  <2> QED
    BY <2>1
<1>2. Guarded
  BY <1>1, GuardedSame DEF SegInv
<1>3. StableInv'
  BY <1>1 DEF StableInv
<1>4. ChainInv'
  <2>1. Reachable(idx')
    BY DEF SegInv, ChainInv
  <2> QED
    BY <2>1 DEF ChainInv, Writing
<1> QED
  BY <1>2, <1>3, <1>4 DEF SegInv

LEMMA SeqEndGuarded ==
  ASSUME SegInv, SeqEnd
  PROVE  SegInv' /\ Guarded /\ WriterStep
<1>1. /\ TypeInv' /\ WriterStep /\ idx' = idx /\ arena' = arena
      /\ w.pc \in Writing /\ w.key \in Key /\ w'.pc = "idle"
      /\ slots' = [slots EXCEPT ![SlotOf[w.key]] = NextEven(@)]
  BY SeqEndType DEF SegInv
<1>2. /\ slots \in [Slot -> Nat] /\ arena \in Nat /\ SlotOf[w.key] \in Slot
      /\ \A k \in Key : SlotOf[k] \in Slot
  BY <1>1, IndexAssumption DEF SegInv, TypeInv, SegmentType
<1>3. NextEven(slots[SlotOf[w.key]]) \in Nat /\ NextEven(slots[SlotOf[w.key]]) > slots[SlotOf[w.key]]
  BY <1>2, CounterFacts
<1>4. (\A s \in Slot : slots[s] <= slots'[s]) /\ arena <= arena'
  BY <1>1, <1>2, <1>3
<1>5. ASSUME NEW k \in Key, slots'[SlotOf[k]] = slots[SlotOf[k]]
      PROVE  ~Pending(SlotOf[k]) /\ stable[k] = Lookup(idx, k)
  <2>1. SlotOf[k] # SlotOf[w.key]
    BY <1>1, <1>2, <1>3, <1>5
  <2> QED
    BY <1>1, <2>1 DEF SegInv, StableInv, Quiet, Pending, Writing
<1>6. SegInv' /\ Guarded
  BY <1>1, <1>4, <1>5, LeaveGuarded DEF WriterStep, Writing
<1> QED
  BY <1>1, <1>6

\* A writer that may be killed has only its own counter to leave odd.
LEMMA DiesGuarded ==
  ASSUME SegInv, WriterDies, DiesIn \subseteq {"put", "remove"}
  PROVE  SegInv' /\ Guarded /\ Observe /\ rd' = rd /\ cache' = cache
<1>1. /\ TypeInv' /\ Observe /\ UNCHANGED <<idx, slots, arena, rd, cache>>
      /\ w'.pc = "idle"
  BY DiesType DEF SegInv
<1>2. Inside \in {"put", "remove"} /\ w.pc # "idle"
  BY DEF WriterDies
<1>3. w.pc \notin Wiping
  BY <1>2 DEF SegInv, TypeInv, WriterType, Inside, Wiping
<1>4. w.pc # "bump"
  BY <1>2, <1>3 DEF SegInv, ChainInv, Inside, Wiping
<1>5. slots \in [Slot -> Nat] /\ arena \in Nat
  BY DEF SegInv, TypeInv, SegmentType
<1>6. ASSUME NEW k \in Key, ~Odd(slots[SlotOf[k]])
      PROVE  stable[k] = Lookup(idx, k)
  <2>1. w.pc \in {"idle", "begin", "bump"} \cup Writing \cup Wiping
    BY DEF SegInv, TypeInv, WriterType, WriterRec
  <2>2. w.pc \in Writing => SlotOf[w.key] # SlotOf[k]
    BY <1>6 DEF SegInv, TypeInv, ParityInv
  <2>3. Quiet(k)
    BY <1>3, <2>1, <2>2 DEF Quiet
  <2> QED
    BY <2>3 DEF SegInv, StableInv
<1>7. (\A s \in Slot : slots[s] <= slots'[s]) /\ arena <= arena'
  BY <1>1, <1>5
<1>8. \A s : ~Pending(s)
  BY <1>4 DEF Pending
<1>9. SegInv' /\ Guarded
  BY <1>1, <1>3, <1>6, <1>7, <1>8, LeaveGuarded DEF Wiping
<1> QED
  BY <1>1, <1>9

LEMMA BumpGuarded ==
  ASSUME SegInv, BumpSlot
  PROVE  SegInv' /\ Guarded /\ Observe /\ rd' = rd /\ cache' = cache
<1>1. /\ TypeInv' /\ Observe /\ UNCHANGED <<idx, arena, rd, cache>>
      /\ w.pc = "bump"
  BY BumpType DEF SegInv
<1>2. PICK s \in Slot : /\ s \in w.left
                        /\ slots' = [slots EXCEPT ![s] = NextEven(@)]
                        /\ \/ w'.pc = "idle" /\ w.left = {s}
                           \/ w'.pc = "bump" /\ w'.left = w.left \ {s} /\ w'.op = w.op
  BY BumpType DEF SegInv
<1>3. slots \in [Slot -> Nat] /\ arena \in Nat /\ \A k \in Key : SlotOf[k] \in Slot
  BY IndexAssumption DEF SegInv, TypeInv, SegmentType
<1>4. NextEven(slots[s]) \in Nat /\ NextEven(slots[s]) > slots[s]
  BY <1>3, CounterFacts
<1>5. (\A q \in Slot : slots[q] <= slots'[q]) /\ arena <= arena'
  BY <1>1, <1>2, <1>3, <1>4
<1>6. \A k \in Key : stable[k] = Lookup(idx, k)
  BY <1>1 DEF SegInv, StableInv, Quiet
<1>7. ASSUME NEW k \in Key, slots'[SlotOf[k]] = slots[SlotOf[k]], ~Pending(SlotOf[k])'
      PROVE  ~Pending(SlotOf[k])
  <2>1. SlotOf[k] # s
    BY <1>2, <1>3, <1>4, <1>7
  <2> QED
    BY <1>2, <1>7, <2>1 DEF Pending
<1>8. w.op = "clear"
  BY <1>1 DEF SegInv, ChainInv
<1>9. SegInv' /\ Guarded
  BY <1>1, <1>2, <1>5, <1>6, <1>7, <1>8, LeaveGuarded
<1> QED
  BY <1>1, <1>9

LEMMA ArenaEndGuarded ==
  ASSUME SegInv, ArenaEnd, CompactionKeeps
  PROVE  SegInv' /\ Guarded /\ WriterStep
<1>1. /\ TypeInv' /\ WriterStep /\ idx' = idx /\ slots' = slots /\ arena' = NextEven(arena)
      /\ w.pc = "settle"
      /\ \/ w.op = "clear" /\ w'.op = "clear" /\ w'.pc = "bump" /\ w'.left = Slot
         \/ w.op = "put" /\ w'.pc \in {"begin", "idle"}
  BY ArenaEndType DEF SegInv
<1>2. slots \in [Slot -> Nat] /\ arena \in Nat /\ \A k \in Key : SlotOf[k] \in Slot
  BY IndexAssumption DEF SegInv, TypeInv, SegmentType
<1>3. (\A s \in Slot : slots[s] <= slots'[s]) /\ arena <= arena'
  BY <1>1, <1>2, CounterFacts
<1>4. \A s : ~Pending(s)
  BY <1>1 DEF Pending
<1>5. CASE w'.pc = "bump"
  <2>1. \A k \in Key : Pending(SlotOf[k])'
    BY <1>1, <1>2, <1>5 DEF Pending
  <2>2. SegInv' /\ Guarded
    BY <1>1, <1>3, <1>5, <2>1, LeaveGuarded DEF WriterStep
  <2> QED
    BY <1>1, <2>2
<1>6. ASSUME w.op = "put" PROVE \A k \in Key : stable[k] = Lookup(idx, k)
  BY <1>1, <1>6 DEF CompactionKeeps
<1>7. CASE w'.pc = "idle"
  <2>1. SegInv' /\ Guarded
    BY <1>1, <1>3, <1>4, <1>6, <1>7, LeaveGuarded DEF WriterStep
  <2> QED
    BY <1>1, <2>1
<1>8. CASE w'.pc = "begin"
  <2>1. stable' = stable
    BY <1>1, <1>8, ObserveFacts DEF WriterStep, SegInv
  <2>2. Guarded
    BY <1>1, <1>3, <1>4, <2>1, GuardedSame DEF SegInv
  <2>3. StableInv'
    BY <1>1, <1>6, <1>8, <2>1 DEF StableInv
  <2>4. Reachable(idx')
    BY <1>1 DEF SegInv, ChainInv
  <2>5. ChainInv'
    BY <1>8, <2>4 DEF ChainInv, Writing
  <2> QED
    BY <1>1, <2>2, <2>3, <2>5 DEF SegInv
<1> QED
  BY <1>1, <1>5, <1>7, <1>8

\* While the index is wiped and filled again the arena's counter is odd.
LEMMA SweepGuarded ==
  ASSUME SegInv, TypeInv', WriterStep, slots' = slots, arena' = arena,
         w.pc \in Wiping, w'.pc \in Wiping,
         w'.pc # "wipe" => Reachable(idx'),
         w'.pc = "wipe" => \A c \in Cell : c < w'.at => idx'[c] = Wiped
  PROVE  SegInv' /\ Guarded
<1>1. stable' = stable
  BY ObserveFacts DEF WriterStep, SegInv, Wiping
<1>2. slots \in [Slot -> Nat] /\ arena \in Nat /\ Odd(arena)
  BY DEF SegInv, TypeInv, SegmentType, ParityInv
<1>3. (\A s \in Slot : slots[s] <= slots'[s]) /\ arena <= arena'
  BY <1>2
<1>4. \A s : ~Pending(s)
  BY DEF Pending, Wiping
<1>5. Guarded
  BY <1>1, <1>2, <1>3, <1>4 DEF Guarded
<1>6. ChainInv'
  BY DEF ChainInv, Wiping, Writing
<1>7. StableInv'
  BY DEF StableInv, Quiet, Wiping, Writing
<1> QED
  BY <1>5, <1>6, <1>7 DEF SegInv

LEMMA WipeGuarded ==
  ASSUME SegInv, WipeCell
  PROVE  SegInv' /\ Guarded /\ WriterStep
<1>1. /\ TypeInv' /\ WriterStep /\ slots' = slots /\ arena' = arena
      /\ w.pc = "wipe" /\ w.at \in Cell /\ idx' = [idx EXCEPT ![w.at] = Wiped]
      /\ w'.pc \in Wiping
      /\ \/ w'.pc = "wipe" /\ w'.at = w.at + 1
         \/ w'.pc # "wipe" /\ w.at + 1 = N
  BY WipeType DEF SegInv
<1>2. idx \in [Cell -> Entry] /\ \A c \in Cell : c < w.at => idx[c] = Wiped
  BY <1>1 DEF SegInv, TypeInv, SegmentType, ChainInv
<1>3. \A c \in Cell : c < w.at + 1 => idx'[c] = Wiped
  <2>1. \A c \in Cell : c < w.at + 1 => c = w.at \/ c < w.at
    BY <1>1, IndexAssumption DEF Cell
  <2> QED
    BY <1>1, <1>2, <2>1
<1>4. ASSUME w'.pc # "wipe" PROVE Reachable(idx')
  <2>1. \A c \in Cell : c < N
    BY IndexAssumption DEF Cell
  <2>2. \A c \in Cell : idx'[c].state = "empty"
    BY <1>1, <1>3, <1>4, <2>1 DEF Wiped
  <2> QED
    BY <2>2, CellAtFacts DEF Reachable
<1>5. SegInv' /\ Guarded
  BY <1>1, <1>3, <1>4, SweepGuarded DEF Wiping
<1> QED
  BY <1>1, <1>5

LEMMA RefillGuarded ==
  ASSUME SegInv, Refill
  PROVE  SegInv' /\ Guarded /\ WriterStep
<1>1. /\ TypeInv' /\ WriterStep /\ slots' = slots /\ arena' = arena
      /\ w.pc = "refill" /\ w'.pc \in {"refill", "settle"}
      /\ \/ idx' = idx
         \/ \E e \in Entry : /\ e.key \in Key /\ e.state # "empty" /\ CanClaim(idx, e.key)
                             /\ idx' = [idx EXCEPT ![Target(idx, e.key)] = e]
  BY RefillType DEF SegInv
<1>2. Reachable(idx) /\ idx \in [Cell -> Entry]
  BY <1>1 DEF SegInv, ChainInv, TypeInv, SegmentType
<1>3. Reachable(idx')
  <2>1. CASE idx' = idx
    BY <1>2, <2>1
  <2>2. ASSUME NEW e \in Entry, e.key \in Key, e.state # "empty", CanClaim(idx, e.key),
               idx' = [idx EXCEPT ![Target(idx, e.key)] = e]
        PROVE  Reachable(idx')
    <3>1. Target(idx, e.key) \in Cell /\ Within(idx, e.key, Target(idx, e.key))
      BY <1>2, <2>2, TargetFacts DEF Within
    <3>2. /\ \A d \in Cell \ {Target(idx, e.key)} : idx'[d] = idx[d]
          /\ idx'[Target(idx, e.key)] = e
      BY <1>2, <2>2, <3>1
    <3> QED
      BY <1>2, <2>2, <3>1, <3>2, ReachableStore
  <2> QED
    BY <1>1, <2>1, <2>2
<1>4. SegInv' /\ Guarded
  BY <1>1, <1>3, SweepGuarded DEF Wiping
<1> QED
  BY <1>1, <1>4

LEMMA CommitGuarded ==
  ASSUME SegInv, Commit
  PROVE  SegInv' /\ Guarded /\ UNCHANGED <<rd, cache, stable, held>>
<1>1. /\ TypeInv' /\ UNCHANGED <<slots, arena, w, rd, cache, stable, held>>
      /\ w.pc = "idle"
      /\ \A c \in Cell : /\ idx'[c].state = idx[c].state /\ idx'[c].key = idx[c].key
                         /\ idx'[c].off = idx[c].off /\ idx'[c].len = idx[c].len
  BY CommitType DEF SegInv
<1>2. \A k \in Key : Lookup(idx', k) = Lookup(idx, k) /\ Stops(idx', k) = Stops(idx, k)
  BY <1>1, LookupSame
<1>3. \A k \in Key : Untouched(k)
  BY <1>1, <1>2, CellAtFacts DEF Untouched
<1>4. slots \in [Slot -> Nat] /\ arena \in Nat
  BY DEF SegInv, TypeInv, SegmentType
<1>5. Guarded
  <2>1. (\A s \in Slot : slots[s] <= slots'[s]) /\ arena <= arena'
    BY <1>1, <1>4
  <2>2. \A s : ~Pending(s)
    BY <1>1 DEF Pending
  <2> QED
    BY <1>1, <1>3, <2>1, <2>2 DEF Guarded
<1>6. StableInv'
  <2>1. \A k \in Key : stable[k] = Lookup(idx, k)
    BY <1>1 DEF SegInv, StableInv, Quiet
  <2> QED
    BY <1>1, <1>2, <2>1 DEF StableInv
<1>7. ChainInv'
  <2>1. Reachable(idx)
    BY <1>1 DEF SegInv, ChainInv
  <2>2. Reachable(idx')
    BY <1>1, <2>1, CellAtFacts DEF Reachable
  <2> QED
    BY <1>1, <2>2 DEF ChainInv, Writing
<1> QED
  BY <1>1, <1>5, <1>6, <1>7 DEF SegInv

-----------------------------------------------------------------------------
(* The readers.                                                            *)

LEMMA FreshKept ==
  ASSUME TypeInv, TypeInv', Guarded, NEW k \in Key, NEW v, NEW n \in Nat, Fresh(k, v, n)
  PROVE  Fresh(k, v, n)'
<1>1. /\ SlotOf[k] \in Slot /\ slots[SlotOf[k]] \in Nat /\ slots'[SlotOf[k]] \in Nat
      /\ slots[SlotOf[k]] <= slots'[SlotOf[k]]
  BY IndexAssumption DEF TypeInv, SegmentType, Guarded
<1>2. n <= slots[SlotOf[k]] /\ n <= slots'[SlotOf[k]]
  BY <1>1 DEF Fresh
<1>3. ASSUME n = slots'[SlotOf[k]], ~Pending(SlotOf[k])'
      PROVE  ~Odd(n) /\ v = stable'[k]
  <2>1. slots'[SlotOf[k]] = slots[SlotOf[k]] /\ n = slots[SlotOf[k]]
    BY <1>1, <1>2, <1>3
  <2>2. ~Pending(SlotOf[k]) /\ (~Odd(n) => stable'[k] = stable[k])
    BY <1>3, <2>1 DEF Guarded
  <2> QED
    BY <2>1, <2>2 DEF Fresh
<1> QED
  BY <1>2, <1>3 DEF Fresh

LEMMA ProgressKept ==
  ASSUME TypeInv, NEW r \in Reader, rd[r].pc \in Data, rd'[r] = rd[r],
         Untouched(rd[r].key), Progress(rd[r])
  PROVE  Progress(rd[r])'
<1>1. rd[r].key \in Key /\ rd[r].j \in Window
  BY ReaderFields DEF Data
<1> DEFINE c == CellAt(rd[r].key, rd[r].j)
<1>2. /\ Lookup(idx', rd[r].key) = Lookup(idx, rd[r].key)
      /\ Stops(idx', rd[r].key) \subseteq Stops(idx, rd[r].key)
      /\ idx[c].state # "empty" =>
           /\ idx'[c].state # "empty"
           /\ idx[c].key = rd[r].key =>
                /\ idx'[c].state = idx[c].state
                /\ idx'[c].key = rd[r].key
                /\ idx'[c].off = idx[c].off
  BY <1>1 DEF Untouched
<1>3. Passed(rd[r]) => Passed(rd[r])'
  BY <1>2 DEF Passed
<1>4. At(rd[r]) = idx[c] /\ At(rd[r])' = idx'[c]
  BY DEF At
<1> HIDE DEF c
<1> QED
  BY <1>2, <1>3, <1>4 DEF Progress

\* A step that is guarded leaves every reader that does not move as good as it was.
LEMMA ReadKept ==
  ASSUME TypeInv, TypeInv', Guarded, NEW r \in Reader, ReadOK(rd[r], held[r]),
         rd'[r] = rd[r], held[r] \subseteq held'[r],
         rd[r].pc # "idle" => stable'[rd[r].key] \in held'[r]
  PROVE  ReadOK(rd[r], held[r])'
<1>0. CASE rd[r].pc = "idle"
  BY <1>0 DEF ReadOK, Data
<1>1. CASE rd[r].pc # "idle"
  <2> DEFINE s == SlotOf[rd[r].key]
  <2>1. /\ rd[r].key \in Key /\ s \in Slot /\ rd[r].before \in Nat /\ rd[r].s1 \in Nat
        /\ rd[r].a1 \in Nat /\ slots[s] \in Nat /\ slots'[s] \in Nat
        /\ arena \in Nat /\ arena' \in Nat /\ slots[s] <= slots'[s] /\ arena <= arena'
    <3>1. /\ rd[r].key \in Key /\ s \in Slot /\ rd[r].before \in Nat /\ rd[r].s1 \in Nat
          /\ rd[r].a1 \in Nat
      BY <1>1, ReaderFields
    <3>2. /\ slots \in [Slot -> Nat] /\ slots' \in [Slot -> Nat] /\ arena \in Nat /\ arena' \in Nat
      BY DEF TypeInv, SegmentType
    <3> QED
      BY <3>1, <3>2 DEF Guarded
  <2>2. Fresh(rd[r].key, rd[r].val, rd[r].before) => Fresh(rd[r].key, rd[r].val, rd[r].before)'
    <3>1. PICK v, n : v = rd[r].val /\ n = rd[r].before
      OBVIOUS
    <3>2. PICK k : k = rd[r].key
      OBVIOUS
    <3>3. Fresh(k, v, n) => Fresh(k, v, n)'
      BY <2>1, <3>1, <3>2, FreshKept
    <3>4. /\ Fresh(k, v, n) <=> Fresh(rd[r].key, rd[r].val, rd[r].before)
          /\ Fresh(k, v, n)' <=> Fresh(rd[r].key, rd[r].val, rd[r].before)'
      BY <3>1, <3>2 DEF Fresh, Pending
    <3> QED
      BY <3>3, <3>4
  <2>3. ASSUME rd[r].pc \in Data, Same(rd[r])'
        PROVE  Progress(rd[r])'
    <3>1. /\ ~Odd(rd[r].s1) /\ ~Odd(rd[r].a1) /\ rd[r].a1 <= arena /\ rd[r].s1 <= slots[s]
          /\ Same(rd[r]) => Progress(rd[r])
      BY <2>3 DEF ReadOK
    <3>2. slots'[s] = rd[r].s1 /\ arena' = rd[r].a1
      BY <2>3 DEF Same
    <3>3. slots[s] = rd[r].s1 /\ arena = rd[r].a1
      BY <2>1, <3>1, <3>2
    <3>4. Progress(rd[r])
      BY <3>1, <3>3 DEF Same
    <3>5. Untouched(rd[r].key)
      BY <2>1, <3>1, <3>2, <3>3 DEF Guarded
    <3> QED
      BY <2>3, <3>4, <3>5, ProgressKept
  <2>4. CASE rd[r].pc \in {"s1", "a1"} \cup Data
    <3>1. /\ rd[r].before <= slots[s]
          /\ rd[r].pc \in {"a1"} \cup Data => rd[r].before <= rd[r].s1 /\ rd[r].s1 <= slots[s]
          /\ rd[r].pc \in Data => ~Odd(rd[r].s1) /\ ~Odd(rd[r].a1) /\ rd[r].a1 <= arena
      BY <2>4 DEF ReadOK
    <3>2. /\ rd[r].before <= slots'[s]
          /\ rd[r].pc \in {"a1"} \cup Data => rd[r].before <= rd[r].s1 /\ rd[r].s1 <= slots'[s]
          /\ rd[r].pc \in Data => ~Odd(rd[r].s1) /\ ~Odd(rd[r].a1) /\ rd[r].a1 <= arena'
      BY <2>1, <3>1
    <3> QED
      BY <1>1, <2>3, <2>4, <3>2 DEF ReadOK, Data
  <2>5. CASE rd[r].pc = "a2"
    <3>1. rd[r].a1 <= arena /\ (arena = rd[r].a1 =>
            rd[r].val \in held[r] /\ Fresh(rd[r].key, rd[r].val, rd[r].before))
      BY <2>5 DEF ReadOK
    <3>2. rd[r].a1 <= arena' /\ (arena' = rd[r].a1 => arena = rd[r].a1)
      BY <2>1, <3>1
    <3>3. rd[r].a1 <= arena' /\ (arena' = rd[r].a1 =>
            rd[r].val \in held'[r] /\ Fresh(rd[r].key, rd[r].val, rd[r].before)')
      BY <2>2, <3>1, <3>2
    <3> QED
      BY <2>5, <3>3 DEF ReadOK, Data
  <2>6. CASE rd[r].pc = "done"
    <3>1. rd[r].val \in held'[r] /\ Fresh(rd[r].key, rd[r].val, rd[r].before)'
      BY <2>2, <2>6 DEF ReadOK
    <3> QED
      BY <2>6, <3>1 DEF ReadOK, Data
  <2>7. CASE rd[r].pc \notin {"s1", "a1", "a2", "done"} \cup Data
    BY <1>1, <2>7 DEF ReadOK
  <2> QED
    BY <2>4, <2>5, <2>6, <2>7
<1> QED
  BY <1>0, <1>1

LEMMA CacheKept ==
  ASSUME TypeInv, TypeInv', Guarded, CacheInv, cache' = cache
  PROVE  CacheInv'
<1> SUFFICES ASSUME NEW r \in Reader, NEW k \in Key, NEW e \in cache[r][k]
             PROVE  Fresh(k, e.val, e.seen)'
  BY DEF CacheInv
<1>1. e.seen \in Nat
  BY DEF TypeInv, ReaderType
<1>2. Fresh(k, e.val, e.seen)
  BY DEF CacheInv
<1> QED
  BY <1>1, <1>2, FreshKept

\* The writer's step is guarded, so the readers and their caches are as good as before.
LEMMA WriterKept ==
  ASSUME Inv, SegInv', Guarded, rd' = rd, cache' = cache,
         Observe \/ UNCHANGED <<stable, held>>
  PROVE  Inv'
<1>0. TypeInv /\ TypeInv'
  BY DEF Inv, SegInv
<1>1. \A r \in Reader : /\ held[r] \subseteq held'[r]
                        /\ rd[r].pc # "idle" => stable'[rd[r].key] \in held'[r]
  <2>1. CASE Observe
    BY <1>0, <2>1, ObserveFacts
  <2>2. CASE UNCHANGED <<stable, held>>
    BY <2>2 DEF Inv, ReadInv, ReadOK
  <2> QED
    BY <2>1, <2>2
<1>2. ReadInv'
  <2> SUFFICES ASSUME NEW r \in Reader PROVE ReadOK(rd[r], held[r])'
    BY DEF ReadInv
  <2>1. ReadOK(rd[r], held[r]) /\ rd'[r] = rd[r]
    BY DEF Inv, ReadInv
  <2> QED
    BY <1>0, <1>1, <2>1, ReadKept
<1>3. CacheInv'
  BY <1>0, CacheKept DEF Inv
<1> QED
  BY <1>2, <1>3 DEF Inv

\* A read whose counters are even and have not moved is one cell further, or has
\* what a read with nobody writing returns.
LEMMA ProgressMade ==
  ASSUME TypeInv, NEW r \in Reader, rd[r].pc \in Data, Progress(rd[r]), Same(rd[r]),
         NEW x, x.key = rd[r].key, x.pc \in Data, Advance(r, x)
  PROVE  Progress(x)
<1> DEFINE k == rd[r].key
           t == rd[r].j
           c == CellAt(k, t)
<1>1. k \in Key /\ t \in Window /\ idx[c] \in Entry
  BY ReaderFields DEF Data, CellNow
<1>2. CellNow(r) = idx[c] /\ At(rd[r]) = idx[c]
  BY DEF CellNow, At
<1>3. /\ rd[r].pc \in {"probe", "match", "state", "off", "bytes"} =>
           \A i \in Window : i < t => i \notin Stops(idx, k)
      /\ rd[r].pc \in {"match", "state", "off", "bytes"} => idx[c].state # "empty"
      /\ rd[r].pc \in {"state", "off", "bytes"} => idx[c].key = k
      /\ rd[r].pc \in {"off", "bytes"} => idx[c].state = "live"
      /\ rd[r].pc = "bytes" => rd[r].off = idx[c].off
  BY <1>2 DEF Progress, Passed
<1>4. t \in Stops(idx, k) <=> idx[c].state = "empty" \/ idx[c].key = k
  BY <1>1, StopsFacts
<1>5. ASSUME rd[r].pc \in {"probe", "match", "state", "off", "bytes"}, t \in Stops(idx, k)
      PROVE  Lookup(idx, k) = IF idx[c].state = "live" THEN Bytes(idx[c].off, idx[c].len)
                              ELSE Absent
  <2>1. First(idx, k, t)
    BY <1>3, <1>5 DEF First
  <2> QED
    BY <1>1, <2>1, LookupFirst
<1>6. arena = rd[r].a1
  BY DEF Same
<1>7. x.j = t => At(x) = idx[c]
  BY DEF At
<1> HIDE DEF c
<1>8. CASE rd[r].pc = "probe" /\ idx[c].state = "empty" /\ Ends(r, x, Absent)
  BY <1>4, <1>5, <1>8 DEF Progress, Ends
<1>9. CASE /\ rd[r].pc = "probe" /\ idx[c].state # "empty"
           /\ x.pc = "match" /\ x.j = t
  BY <1>3, <1>7, <1>9 DEF Progress, Passed
<1>10. CASE /\ rd[r].pc = "match" /\ idx[c].key = k
            /\ x.pc = "state" /\ x.j = t
  BY <1>3, <1>7, <1>10 DEF Progress, Passed
<1>11. CASE /\ rd[r].pc = "match" /\ idx[c].key # k
            /\ x.pc = "probe" /\ x.j = t + 1
  <2>1. t \notin Stops(idx, k)
    BY <1>3, <1>4, <1>11
  <2>2. \A i \in Window : i < t + 1 => i < t \/ i = t
    BY <1>1, IndexAssumption DEF Window
  <2>3. Passed(x)
    BY <1>3, <1>11, <2>1, <2>2 DEF Passed
  <2> QED
    BY <1>11, <2>3 DEF Progress
<1>12. CASE /\ rd[r].pc = "match" /\ idx[c].key # k /\ t + 1 = MaxProbes
            /\ Ends(r, x, Absent)
  <2>1. t \notin Stops(idx, k)
    BY <1>3, <1>4, <1>12
  <2>2. \A i \in Window : i < t \/ i = t
    BY <1>1, <1>12, IndexAssumption DEF Window
  <2>3. Stops(idx, k) = {}
    BY <1>3, <1>12, <2>1, <2>2 DEF Stops
  <2>4. Lookup(idx, k) = Absent
    BY <2>3, LookupNowhere
  <2> QED
    BY <1>12, <2>4 DEF Progress, Ends
<1>13. CASE /\ rd[r].pc = "state" /\ idx[c].state = "live"
            /\ x.pc = "off" /\ x.j = t
  BY <1>3, <1>7, <1>13 DEF Progress, Passed
<1>14. CASE rd[r].pc = "state" /\ idx[c].state # "live" /\ Ends(r, x, Absent)
  BY <1>3, <1>4, <1>5, <1>14 DEF Progress, Ends
<1>15. CASE rd[r].pc = "off" /\ x.pc = "bytes" /\ x.off = idx[c].off /\ x.j = t
  BY <1>3, <1>7, <1>15 DEF Progress, Passed
<1>16. CASE rd[r].pc = "bytes" /\ Ends(r, x, Bytes(rd[r].off, idx[c].len))
  BY <1>3, <1>4, <1>5, <1>16 DEF Progress, Ends
<1> QED
  BY <1>2, <1>6, <1>8, <1>9, <1>10, <1>11, <1>12, <1>13, <1>14, <1>15, <1>16
  DEF Advance, Data

\* A reader's next look.
LEMMA ReadMade ==
  ASSUME TypeInv, StableInv, NEW r \in Reader, ReadOK(rd[r], held[r]), rd[r].pc # "idle",
         NEW x \in ReaderRec, x.key = rd[r].key, x.pc # "idle", Advance(r, x)
  PROVE  ReadOK(x, held[r])
<1> DEFINE k == rd[r].key
           s == SlotOf[k]
<1>1. /\ k \in Key /\ SlotNow(r) = slots[s] /\ slots[s] \in Nat /\ arena \in Nat
      /\ rd[r].before \in Nat /\ rd[r].s1 \in Nat /\ rd[r].a1 \in Nat
  BY ReaderFields DEF SlotNow, TypeInv, SegmentType
<1>2. stable[k] \in held[r]
  BY DEF ReadOK
<1> HIDE DEF s
<1>3. CASE rd[r].pc = "before" /\ x.pc = "s1" /\ x.before = SlotNow(r)
  BY <1>1, <1>2, <1>3 DEF ReadOK, Data, s
<1>4. CASE rd[r].pc = "s1" /\ x.pc = "a1" /\ x.before = rd[r].before /\ x.s1 = SlotNow(r)
  <2>1. rd[r].before <= slots[s]
    BY <1>4 DEF ReadOK, s
  <2> QED
    BY <1>1, <1>2, <1>4, <2>1 DEF ReadOK, Data, s
<1>5. CASE x.pc \in {"before", "lock"}
  BY <1>2, <1>5 DEF ReadOK, Data
<1>6. CASE /\ rd[r].pc = "a1" /\ ~Odd(rd[r].s1) /\ ~Odd(arena)
           /\ x.pc = "probe" /\ x.j = 0 /\ x.a1 = arena
           /\ x.before = rd[r].before /\ x.s1 = rd[r].s1
  <2>1. rd[r].before <= rd[r].s1 /\ rd[r].s1 <= slots[s] /\ rd[r].before <= slots[s]
    BY <1>6 DEF ReadOK, s
  <2>2. Progress(x)
    <3>1. Passed(x)
      BY <1>6, WindowFacts DEF Passed
    <3> QED
      BY <1>6, <3>1 DEF Progress
  <2> QED
    BY <1>1, <1>2, <1>6, <2>1, <2>2 DEF ReadOK, Data, s
<1>7. CASE rd[r].pc \in Data /\ x.pc \in Data
  <2>1. Counters(r, x)
    BY <1>7 DEF Advance, Ends, Data
  <2>2. /\ rd[r].before <= slots[s]
        /\ rd[r].before <= rd[r].s1 /\ rd[r].s1 <= slots[s]
        /\ ~Odd(rd[r].s1) /\ ~Odd(rd[r].a1) /\ rd[r].a1 <= arena
        /\ Same(rd[r]) => Progress(rd[r])
    BY <1>7 DEF ReadOK, s
  <2>3. Same(x) => Progress(x)
    <3>1. Same(x) => Same(rd[r])
      BY <2>1 DEF Same, Counters
    <3> QED
      BY <1>7, <2>2, <3>1, ProgressMade
  <2>4. x.before = rd[r].before /\ x.s1 = rd[r].s1 /\ x.a1 = rd[r].a1
    BY <2>1 DEF Counters
  <2> QED
    BY <1>2, <1>7, <2>2, <2>3, <2>4 DEF ReadOK, Data, s
<1>8. CASE /\ rd[r].pc = "s2" /\ SlotNow(r) = rd[r].s1 /\ x.pc = "a2"
           /\ x.val = rd[r].val /\ x.before = rd[r].before /\ x.a1 = rd[r].a1
  <2>1. /\ rd[r].before <= slots[s] /\ ~Odd(rd[r].s1) /\ ~Odd(rd[r].a1) /\ rd[r].a1 <= arena
        /\ Same(rd[r]) => Progress(rd[r])
    BY <1>8 DEF ReadOK, Data, s
  <2>2. ASSUME arena = rd[r].a1
        PROVE  rd[r].val = stable[k] /\ ~Odd(slots[s])
    <3>1. Same(rd[r])
      BY <1>1, <1>8, <2>2 DEF Same, s
    <3>2. rd[r].val = Lookup(idx, k)
      BY <1>8, <2>1, <3>1 DEF Progress
    <3>3. ~Odd(slots[s]) /\ ~Odd(arena)
      BY <1>1, <1>8, <2>1, <2>2
    <3>4. Quiet(k)
      BY <1>1, <3>3, EvenIsQuiet DEF s
    <3> QED
      BY <1>1, <3>2, <3>3, <3>4 DEF StableInv
  <2>3. arena = x.a1 => x.val \in held[r] /\ Fresh(x.key, x.val, x.before)
    BY <1>2, <1>8, <2>1, <2>2 DEF Fresh, s
  <2> QED
    BY <1>2, <1>8, <2>1, <2>3 DEF ReadOK, Data
<1>9. CASE /\ rd[r].pc = "a2" /\ arena = rd[r].a1 /\ x.pc = "done"
           /\ x.val = rd[r].val /\ x.before = rd[r].before
  <2>1. rd[r].val \in held[r] /\ Fresh(rd[r].key, rd[r].val, rd[r].before)
    BY <1>9 DEF ReadOK
  <2> QED
    BY <1>2, <1>9, <2>1 DEF ReadOK, Data
<1> QED
  BY <1>3, <1>4, <1>5, <1>6, <1>7, <1>8, <1>9 DEF Advance, Ends, Data

\* Only readers move: the others, the writer and the caches have lost nothing.
LEMMA ReaderFrame ==
  ASSUME Inv, TypeInv', UNCHANGED <<idx, w, stable>>,
         \A s \in Slot : slots[s] <= slots'[s], arena <= arena'
  PROVE  SegInv' /\ Guarded
<1>1. \A s : Pending(s)' <=> Pending(s)
  BY DEF Pending
<1>2. Guarded
  BY <1>1, GuardedSame DEF Inv, SegInv
<1>3. ChainInv'
  BY DEF Inv, SegInv, ChainInv, Reachable, Within
<1>4. StableInv'
  <2>1. \A k \in Key : Lookup(idx', k) = Lookup(idx, k) /\ (Quiet(k)' => Quiet(k))
    BY DEF Quiet
  <2> QED
    BY <2>1 DEF Inv, SegInv, StableInv
<1> QED
  BY <1>2, <1>3, <1>4 DEF SegInv

LEMMA OthersKept ==
  ASSUME Inv, SegInv', Guarded, stable' = stable, NEW q \in Reader,
         rd'[q] = rd[q], held'[q] = held[q]
  PROVE  ReadOK(rd[q], held[q])'
<1>1. ReadOK(rd[q], held[q]) /\ TypeInv /\ TypeInv'
  BY DEF Inv, SegInv, ReadInv
<1>2. rd[q].pc # "idle" => stable'[rd[q].key] \in held'[q]
  BY <1>1 DEF ReadOK
<1> QED
  BY <1>1, <1>2, ReadKept

LEMMA LooksKept ==
  ASSUME Inv, NEW r \in Reader, Looks(r)
  PROVE  Inv'
<1>1. PICK x : Becomes(r, x) /\ Advance(r, x)
  BY LooksFacts DEF Inv, SegInv
<1>2. TypeInv' /\ rd'[r] = x /\ \A q \in Reader \ {r} : rd'[q] = rd[q]
  BY <1>1, LooksType DEF Inv, SegInv
<1>3. /\ x \in ReaderRec /\ x.key = rd[r].key /\ rd[r].pc # "idle" /\ x.pc # "idle"
      /\ UNCHANGED <<idx, slots, arena, w, cache, stable, held>>
  BY <1>1 DEF Becomes
<1>4. slots \in [Slot -> Nat] /\ arena \in Nat /\ TypeInv
  BY DEF Inv, SegInv, TypeInv, SegmentType
<1>5. SegInv' /\ Guarded
  <2>1. (\A s \in Slot : slots[s] <= slots'[s]) /\ arena <= arena'
    BY <1>3, <1>4
  <2> QED
    BY <1>2, <1>3, <2>1, ReaderFrame
<1>6. ReadOK(x, held[r])
  <2>1. StableInv /\ ReadOK(rd[r], held[r])
    BY DEF Inv, SegInv, ReadInv
  <2> QED
    BY <1>1, <1>3, <1>4, <2>1, ReadMade
<1>7. ReadOK(rd[r], held[r])'
  <2>1. /\ Lookup(idx', x.key) = Lookup(idx, x.key) /\ Stops(idx', x.key) = Stops(idx, x.key)
        /\ idx' = idx /\ slots' = slots /\ arena' = arena /\ stable' = stable /\ w' = w
        /\ held' = held
    BY <1>3
  <2>2. (Progress(rd[r])' <=> Progress(x)) /\ (Same(rd[r])' <=> Same(x))
    BY <1>2, <2>1 DEF Progress, Passed, At, Same
  <2>3. Fresh(rd[r].key, rd[r].val, rd[r].before)' <=> Fresh(x.key, x.val, x.before)
    BY <1>2, <2>1 DEF Fresh, Pending
  <2> QED
    BY <1>2, <1>6, <2>1, <2>2, <2>3 DEF ReadOK
<1>8. ReadInv'
  <2> SUFFICES ASSUME NEW q \in Reader PROVE ReadOK(rd[q], held[q])'
    BY DEF ReadInv
  <2>1. CASE q = r
    BY <1>7, <2>1
  <2>2. CASE q # r
    <3>1. rd'[q] = rd[q] /\ held'[q] = held[q] /\ stable' = stable
      BY <1>2, <1>3, <2>2
    <3> QED
      BY <1>5, <3>1, OthersKept
  <2> QED
    BY <2>1, <2>2
<1>9. CacheInv'
  BY <1>2, <1>3, <1>4, <1>5, CacheKept DEF Inv
<1> QED
  BY <1>5, <1>8, <1>9 DEF Inv

LEMMA BeginReadKept ==
  ASSUME Inv, NEW r \in Reader, NEW k \in Key, ReadBegin(r, k)
  PROVE  Inv'
<1>1. /\ TypeInv' /\ rd'[r].pc = "before" /\ rd'[r].key = k /\ held'[r] = {stable[k]}
      /\ \A q \in Reader \ {r} : rd'[q] = rd[q] /\ held'[q] = held[q]
      /\ UNCHANGED <<idx, slots, arena, w, cache, stable>>
  BY BeginReadType DEF Inv, SegInv
<1>2. slots \in [Slot -> Nat] /\ arena \in Nat /\ TypeInv
  BY DEF Inv, SegInv, TypeInv, SegmentType
<1>3. SegInv' /\ Guarded
  <2>1. (\A s \in Slot : slots[s] <= slots'[s]) /\ arena <= arena'
    BY <1>1, <1>2
  <2> QED
    BY <1>1, <2>1, ReaderFrame
<1>4. ReadOK(rd[r], held[r])'
  BY <1>1 DEF ReadOK, Data
<1>5. ReadInv'
  BY <1>1, <1>3, <1>4, OthersKept DEF ReadInv
<1>6. CacheInv'
  BY <1>1, <1>2, <1>3, CacheKept DEF Inv
<1> QED
  BY <1>3, <1>5, <1>6 DEF Inv

\* The read under the semaphore: nobody is writing, and the counter is even at last.
LEMMA LockedKept ==
  ASSUME Inv, NEW r \in Reader, ReadLocked(r)
  PROVE  Inv'
<1> DEFINE k == rd[r].key
           s == SlotOf[k]
<1>1. /\ TypeInv' /\ w.pc = "idle" /\ rd[r].pc = "lock" /\ k \in Key
      /\ slots' = [slots EXCEPT ![s] = Repaired(@)]
      /\ arena' = Repaired(arena)
      /\ rd'[r].pc = "done" /\ rd'[r].key = k
      /\ rd'[r].val = Lookup(idx, k)
      /\ rd'[r].before = slots'[s]
      /\ \A q \in Reader \ {r} : rd'[q] = rd[q]
      /\ UNCHANGED <<idx, w, cache, stable, held>>
  BY LockedType DEF Inv, SegInv
<1>2. slots \in [Slot -> Nat] /\ arena \in Nat /\ TypeInv /\ s \in Slot
  BY <1>1, IndexAssumption DEF Inv, SegInv, TypeInv, SegmentType
<1>3. /\ Repaired(slots[s]) \in Nat /\ ~Odd(Repaired(slots[s])) /\ slots[s] <= Repaired(slots[s])
      /\ Repaired(arena) \in Nat /\ arena <= Repaired(arena)
  BY <1>2, CounterFacts
<1>4. /\ \A q \in Slot : slots[q] <= slots'[q]
      /\ arena <= arena' /\ ~Odd(slots'[s]) /\ slots'[s] \in Nat
  BY <1>1, <1>2, <1>3
<1>5. SegInv' /\ Guarded
  BY <1>1, <1>4, ReaderFrame
<1>6. stable[k] = Lookup(idx, k) /\ stable[k] \in held[r]
  BY <1>1 DEF Inv, SegInv, StableInv, Quiet, ReadInv, ReadOK
<1>7. ReadOK(rd[r], held[r])'
  <2>1. Fresh(rd[r].key, rd[r].val, rd[r].before)'
    BY <1>1, <1>4, <1>6 DEF Fresh
  <2> QED
    BY <1>1, <1>6, <2>1 DEF ReadOK, Data
<1>8. ReadInv'
  BY <1>1, <1>5, <1>7, OthersKept DEF ReadInv
<1>9. CacheInv'
  BY <1>1, <1>2, <1>5, CacheKept DEF Inv
<1> QED
  BY <1>5, <1>8, <1>9 DEF Inv

LEMMA ReturnKept ==
  ASSUME Inv, NEW r \in Reader, ReadReturn(r)
  PROVE  Inv'
<1> DEFINE k == rd[r].key
<1>1. /\ TypeInv' /\ rd[r].pc = "done" /\ rd'[r].pc = "idle" /\ k \in Key
      /\ cache'[r][k] = {[val |-> rd[r].val, seen |-> rd[r].before]}
      /\ \A j \in Key \ {k} : cache'[r][j] = cache[r][j]
      /\ \A q \in Reader \ {r} :
           rd'[q] = rd[q] /\ held'[q] = held[q] /\ cache'[q] = cache[q]
      /\ UNCHANGED <<idx, slots, arena, w, stable>>
  BY ReturnType DEF Inv, SegInv
<1>2. slots \in [Slot -> Nat] /\ arena \in Nat /\ TypeInv
  BY DEF Inv, SegInv, TypeInv, SegmentType
<1>3. SegInv' /\ Guarded
  <2>1. (\A q \in Slot : slots[q] <= slots'[q]) /\ arena <= arena'
    BY <1>1, <1>2
  <2> QED
    BY <1>1, <2>1, ReaderFrame
<1>4. ReadOK(rd[r], held[r])'
  BY <1>1 DEF ReadOK, Data
<1>5. ReadInv'
  BY <1>1, <1>3, <1>4, OthersKept DEF ReadInv
<1>6. CacheInv'
  <2> SUFFICES ASSUME NEW q \in Reader, NEW j \in Key, NEW e \in cache'[q][j]
               PROVE  Fresh(j, e.val, e.seen)'
    BY DEF CacheInv
  <2>1. Fresh(j, e.val, e.seen)
    <3>1. CASE q = r /\ j = k
      <4>1. e.val = rd[r].val /\ e.seen = rd[r].before
        BY <1>1, <3>1
      <4>2. Fresh(k, rd[r].val, rd[r].before)
        BY <1>1 DEF Inv, ReadInv, ReadOK
      <4> QED
        BY <3>1, <4>1, <4>2
    <3>2. CASE ~ (q = r /\ j = k)
      <4>1. e \in cache[q][j]
        BY <1>1, <3>2
      <4> QED
        BY <4>1 DEF Inv, CacheInv
    <3> QED
      BY <3>1, <3>2
  <2> QED
    BY <1>1, <2>1 DEF Fresh, Pending
<1> QED
  BY <1>3, <1>5, <1>6 DEF Inv

-----------------------------------------------------------------------------
(* The theorems.                                                           *)

\* nvram_init has loaded at most one variable: its entry is in its home cell.
LEMMA InitInv == Init => Inv
<1> SUFFICES ASSUME Init PROVE Inv
  OBVIOUS
<1>0. TypeInv /\ w.pc = "idle"
  BY InitType, IdleTypes DEF Init
<1>1. /\ saved \in [Key -> Val \cup {Absent}] /\ stable = saved
      /\ \A i, k \in Loaded(saved) : i = k
  BY DEF Init
<1> DEFINE L == Loaded(saved)
           k0 == CHOOSE i \in L : TRUE
           e0 == [state |-> "live", key |-> k0, off |-> saved[k0], len |-> Length[saved[k0]],
                  dirty |-> FALSE]
<1>2. idx = [c \in Cell |-> IF \E k \in L : Home[k] = c THEN e0 ELSE Wiped]
  BY DEF Init
<1>3. ASSUME NEW k \in L PROVE k0 = k
  BY <1>1, <1>3
<1>4. L \subseteq Key /\ Home \in [Key -> Cell] /\ N \in Nat \ {0}
  BY IndexAssumption DEF Loaded
<1>5. \A k \in Key : CellAt(k, 0) = Home[k] /\ (First(idx, k, 0) <=> 0 \in Stops(idx, k))
  <2> SUFFICES ASSUME NEW k \in Key
               PROVE  CellAt(k, 0) = Home[k] /\ (First(idx, k, 0) <=> 0 \in Stops(idx, k))
    OBVIOUS
  <2>1. Home[k] \in 0 .. N - 1
    BY <1>4 DEF Cell
  <2>2. (Home[k] + 0) % N = Home[k]
    BY <1>4, <2>1
  <2>3. \A i \in Window : ~ (i < 0)
    BY WindowFacts
  <2> QED
    BY <2>2, <2>3 DEF CellAt, First
<1>6. ASSUME NEW c \in Cell, idx[c].state # "empty"
      PROVE  k0 \in L /\ Home[k0] = c /\ idx[c] = e0
  <2>1. \E k \in L : Home[k] = c
    BY <1>2, <1>6 DEF Wiped
  <2> QED
    BY <1>2, <1>3, <2>1
<1>7. e0.state = "live" /\ e0.key = k0 /\ e0.off = saved[k0] /\ e0.len = Length[saved[k0]]
  OBVIOUS
<1> HIDE DEF e0, k0
<1>8. Reachable(idx)
  <2> SUFFICES ASSUME NEW k \in Key, NEW t \in Window, idx[CellAt(k, t)].state # "empty",
                      idx[CellAt(k, t)].key = k, NEW i \in Window, i < t
               PROVE  FALSE
    BY DEF Reachable
  <2>1. CellAt(k, t) \in Cell
    BY CellAtFacts
  <2>2. k0 = k /\ Home[k0] = CellAt(k, t)
    BY <1>6, <1>7, <2>1
  <2>3. CellAt(k, 0) = CellAt(k, t)
    BY <1>5, <2>2
  <2>4. t = 0
    BY <2>3, CellAtFacts, WindowFacts
  <2> QED
    BY <2>4, WindowFacts
<1>9. ASSUME NEW k \in Key PROVE Lookup(idx, k) = saved[k]
  <2>1. CASE k \in L
    <3>1. idx[CellAt(k, 0)] = e0 /\ k0 = k
      BY <1>2, <1>3, <1>4, <1>5, <2>1
    <3>2. First(idx, k, 0)
      BY <1>5, <1>7, <3>1, StopsFacts, WindowFacts
    <3>3. Lookup(idx, k) = Bytes(saved[k], Length[saved[k]])
      BY <1>7, <3>1, <3>2, LookupFirst, WindowFacts
    <3>4. saved[k] \in Val
      BY <1>1, <2>1 DEF Loaded
    <3>5. Length[saved[k]] \in Nat \ {0}
      BY <3>4, BytesAssumption
    <3> QED
      BY <3>3, <3>4, <3>5 DEF Bytes
  <2>2. CASE k \notin L
    <3>1. saved[k] = Absent
      BY <2>2 DEF Loaded
    <3>2. CASE Stops(idx, k) = {}
      BY <3>1, <3>2, LookupNowhere
    <3>3. CASE Stops(idx, k) # {}
      <4>1. PICK t \in Window : First(idx, k, t)
        BY <3>3, FirstExists
      <4>2. idx[CellAt(k, t)].state = "empty" \/ idx[CellAt(k, t)].key = k
        BY <4>1, StopsFacts DEF First
      <4>3. idx[CellAt(k, t)].state = "empty"
        BY <1>6, <1>7, <2>2, <4>2, CellAtFacts
      <4> QED
        BY <3>1, <4>1, <4>3, LookupFirst
    <3> QED
      BY <3>2, <3>3
  <2> QED
    BY <2>1, <2>2
<1>10. SegInv
  BY <1>0, <1>1, <1>8, <1>9 DEF SegInv, ChainInv, StableInv, Writing
<1>11. ReadInv
  <2>1. \A r \in Reader : rd[r].pc = "idle"
    BY IdleTypes DEF Init
  <2> QED
    BY <2>1 DEF ReadInv, ReadOK, Data
<1>12. CacheInv
  BY DEF Init, CacheInv
<1> QED
  BY <1>10, <1>11, <1>12 DEF Inv

LEMMA NextInv ==
  ASSUME Inv, CompactionKeeps, [Next]_vars, [~CrossReclaim]_vars,
         DiesIn \subseteq {"put", "remove"}
  PROVE  Inv'
<1>0. SegInv
  BY DEF Inv
<1>1. CASE UNCHANGED vars
  <2>1. TypeInv'
    BY <1>0, NextType DEF SegInv
  <2>2. /\ UNCHANGED <<idx, slots, arena, w, rd, cache, stable, held>>
        /\ slots \in [Slot -> Nat] /\ arena \in Nat
    BY <1>0, <1>1 DEF vars, SegInv, TypeInv, SegmentType
  <2>3. (\A s \in Slot : slots[s] <= slots'[s]) /\ arena <= arena'
    BY <2>2
  <2>4. SegInv' /\ Guarded
    BY <2>1, <2>2, <2>3, ReaderFrame
  <2> QED
    BY <2>2, <2>4, WriterKept
<1>2. ASSUME SegInv', Guarded, WriterStep PROVE Inv'
  BY <1>2, WriterKept DEF WriterStep
<1>3. CASE \/ \E k \in Key : Remove(k) \/ \E v \in Val : Put(k, v)
           \/ Clear
  BY <1>0, <1>2, <1>3, BeginGuarded
<1>4. CASE Commit
  BY <1>0, <1>4, CommitGuarded, WriterKept
<1>5. CASE Stores
  BY <1>0, <1>2, <1>5, StoreGuarded
<1>6. CASE SeqBegin
  <2>1. CASE UNCHANGED vars
    BY <1>1, <2>1
  <2>2. CASE ~CrossReclaim
    BY <1>0, <1>2, <1>6, <2>2, SeqBeginGuarded
  <2> QED
    BY <2>1, <2>2
<1>7. CASE SeqEnd \/ WipeCell \/ Refill \/ ArenaEnd
  BY <1>0, <1>2, <1>7, SeqEndGuarded, WipeGuarded, RefillGuarded, ArenaEndGuarded
<1>8. CASE BumpSlot \/ WriterDies
  BY <1>0, <1>8, BumpGuarded, DiesGuarded, WriterKept
<1>9. ASSUME NEW r \in Reader, Looks(r) \/ ReadLocked(r) \/ ReadReturn(r) PROVE Inv'
  BY <1>9, LooksKept, LockedKept, ReturnKept
<1>10. ASSUME NEW r \in Reader, NEW k \in Key, ReadBegin(r, k) PROVE Inv'
  BY <1>10, BeginReadKept
<1> QED
  BY <1>1, <1>3, <1>4, <1>5, <1>6, <1>7, <1>8, <1>9, <1>10
  DEF Next, Writer, WriterGoesOn, ReaderGoesOn, Stores, Looks

\* A lock-free read that validates returns a value its key had, with no write of it
\* under way, at some moment since the read began: never bytes of two writes, never
\* another key's value, never a half-built index, however often it was torn and
\* whoever was killed inside a put or a remove.  (read_value, Store::get)
THEOREM Linearizable ==
  ASSUME DiesIn \subseteq {"put", "remove"}
  PROVE  Spec /\ [][~CrossReclaim]_vars /\ []HasRoom => []ReadsLinearize
<1>0. Spec /\ []HasRoom => []CompactionKeeps
  BY Compacts
<1>1. Inv => ReadsLinearize
  BY DEF Inv, ReadInv, ReadOK, ReadsLinearize
<1>2. Inv /\ CompactionKeeps /\ [Next]_vars /\ [~CrossReclaim]_vars => Inv'
  BY NextInv
<1> QED
  BY <1>0, <1>1, <1>2, InitInv, PTL DEF Spec

\* A cached value whose counter has not moved is the value of its key, even while a
\* writer is inside and after one has been killed in a put or a remove; only a clear
\* that is still moving the counters has cached values to catch up with.
\* (Cache::get, Store::get)
THEOREM Current ==
  ASSUME DiesIn \subseteq {"put", "remove"}
  PROVE  Spec /\ [][~CrossReclaim]_vars /\ []HasRoom => []HitsCurrent
<1>0. Spec /\ []HasRoom => []CompactionKeeps
  BY Compacts
<1>1. Inv => HitsCurrent
  BY DEF Inv, CacheInv, Fresh, Pending, HitsCurrent
<1>2. Inv /\ CompactionKeeps /\ [Next]_vars /\ [~CrossReclaim]_vars => Inv'
  BY NextInv
<1> QED
  BY <1>0, <1>1, <1>2, InitInv, PTL DEF Spec


-----------------------------------------------------------------------------
(* The segment is the registers of module Registers.  Calls and reads that  *)
(* are under way map to steps of their own; all other steps are Forget.    *)

\* No step of a writer takes anything from what a read may return, and one that
\* changes no variable adds nothing to it.
LEMMA SeenByReads ==
  ASSUME Inv, Observe, rd' = rd
  PROVE  Atomic!WriteStep /\ (stable' = stable => held' = held)
<1>1. held \in [Reader -> SUBSET Values] /\ \A r \in Reader : rd[r].pc # "idle" => stable[rd[r].key] \in held[r]
  BY DEF Inv, SegInv, TypeInv, ReaderType, ReadInv, ReadOK
<1>2. held' = [r \in Reader |-> IF rd[r].pc = "idle" THEN held[r]
                                ELSE held[r] \cup {stable'[rd[r].key]}]
  BY DEF Observe
<1> DEFINE asked == [r \in Reader |-> IF rd[r].pc = "idle" THEN {} ELSE {rd[r].key}]
<1>3. ASSUME NEW r \in Reader
      PROVE  held'[r] = held[r] \cup {stable'[k] : k \in asked[r]}
  <2>1. CASE rd[r].pc = "idle"
    <3>1. asked[r] = {} /\ held'[r] = held[r]
      BY <1>2, <2>1
    <3> QED
      BY <3>1
  <2>2. CASE rd[r].pc # "idle"
    <3>1. asked[r] = {rd[r].key} /\ held'[r] = held[r] \cup {stable'[rd[r].key]}
      BY <1>2, <2>2
    <3> QED
      BY <3>1
  <2> QED
    BY <2>1, <2>2
<1>4. held' = [r \in Reader |-> held[r] \cup {stable'[k] : k \in asked[r]}]
  <2>1. held' = [r \in Reader |-> held'[r]]
    BY <1>2
  <2> QED
    BY <1>3, <2>1
<1>5. Atomic!WriteStep
  BY <1>4 DEF Atomic!WriteStep
<1>6. ASSUME stable' = stable PROVE held' = held
  BY <1>1, <1>2, <1>6
<1> QED
  BY <1>5, <1>6

\* Counters only move forward, so an old copy is not current again; a new one is what
\* its reader was told.
LEMMA CopiesFollow ==
  ASSUME Inv, Inv', \A s \in Slot : slots[s] <= slots'[s],
         \/ cache' = cache
         \/ \E r \in Reader : ReadReturn(r)
  PROVE  Atomic!Copies
<1> DEFINE copy == [r \in Reader |-> [k \in Key |->
                      {e.val : e \in {d \in cache[r][k] : d.seen = slots[SlotOf[k]]}}]]
           asked == [r \in Reader |-> IF rd[r].pc = "idle" THEN {} ELSE {rd[r].key}]
           answer == [r \in Reader |-> IF rd[r].pc = "done" THEN {rd[r].val} ELSE {}]
<1>1. ASSUME NEW r \in Reader, NEW k \in Key
      PROVE  copy'[r][k] \subseteq copy[r][k] \cup Atomic!Given(r, k)
  <2> SUFFICES ASSUME NEW e \in cache'[r][k], e.seen = slots'[SlotOf[k]]
               PROVE  e.val \in copy[r][k] \cup Atomic!Given(r, k)
    OBVIOUS
  <2>1. /\ SlotOf[k] \in Slot /\ slots[SlotOf[k]] \in Nat /\ slots'[SlotOf[k]] \in Nat
        /\ slots[SlotOf[k]] <= slots'[SlotOf[k]]
    BY IndexAssumption DEF Inv, SegInv, TypeInv, SegmentType
  <2>2. CASE e \in cache[r][k]
    <3>1. e.seen <= slots[SlotOf[k]]
      BY <2>2 DEF Inv, CacheInv, Fresh
    <3>2. e.seen = slots[SlotOf[k]]
      BY <2>1, <3>1
    <3> QED
      BY <2>2, <3>2
  <2>3. CASE e \notin cache[r][k]
    <3>1. PICK q \in Reader : ReadReturn(q)
      BY <2>3
    <3>2. /\ rd[q].pc = "done" /\ rd'[q].pc = "idle"
          /\ cache'[q][rd[q].key] = {[val |-> rd[q].val, seen |-> rd[q].before]}
          /\ \A i \in Key \ {rd[q].key} : cache'[q][i] = cache[q][i]
          /\ \A p \in Reader \ {q} : cache'[p] = cache[p]
      BY <3>1, ReturnType DEF Inv, SegInv
    <3>3. r = q /\ k = rd[r].key
      BY <2>3, <3>2
    <3>4. e.val = rd[r].val
      BY <3>2, <3>3
    <3>5. asked[r] = {k} /\ asked'[r] = {} /\ answer[r] = {e.val}
      BY <3>2, <3>3, <3>4
    <3>6. e.val \in Atomic!Given(r, k)
      BY <3>5 DEF Atomic!Given
    <3> QED
      BY <3>6
  <2> QED
    BY <2>2, <2>3
<1>2. ASSUME w'.pc # "bump", NEW r \in Reader, NEW k \in Key
      PROVE  copy'[r][k] \subseteq {stable'[k]}
  <2>1. \A e \in cache'[r][k] : e.seen = slots'[SlotOf[k]] => e.val = stable'[k]
    BY <1>2 DEF Inv, CacheInv, Fresh, Pending
  <2> QED
    BY <2>1
<1>3. w'.pc = "bump" => Stage' = "cleared"
  BY DEF Inv, SegInv, ChainInv, Stage
<1> QED
  BY <1>1, <1>2, <1>3 DEF Atomic!Copies

\* Where a call is to its caller depends on where its writer is only.
LEMMA SameCall ==
  ASSUME w'.key = w.key, w'.val = w.val, w'.op = w.op,
         w.pc # "idle", w'.pc # "idle",
         w'.pc = "bump" <=> w.pc = "bump", w'.pc \in Wiping <=> w.pc \in Wiping
  PROVE  Stage' = Stage
BY DEF Stage, Wiping

\* A step that changes neither a variable nor a call.
LEMMA ForgetStep ==
  ASSUME Inv, Observe \/ held' = held, rd' = rd, stable' = stable, deaths' = deaths,
         \/ w' = w
         \/ /\ w'.key = w.key /\ w'.val = w.val /\ w'.op = w.op
            /\ w.pc # "idle" /\ w'.pc # "idle"
            /\ w'.pc = "bump" <=> w.pc = "bump"
            /\ w'.pc \in Wiping <=> w.pc \in Wiping
  PROVE  Atomic!Forget
<1>1. held' = held
  BY SeenByReads
<1>2. CASE w' = w
  <2>1. Stage' = Stage
    BY <1>2 DEF Stage
  <2> QED
    BY <1>1, <1>2, <2>1 DEF Atomic!Forget
<1>3. CASE w' # w
  <2>1. Stage' = Stage
    BY <1>3, SameCall
  <2> QED
    BY <1>1, <1>3, <2>1 DEF Atomic!Forget
<1> QED
  BY <1>2, <1>3

\* A put or a remove that returns has done what it was asked to.
LEMMA ReturnMaps ==
  ASSUME IndexInv, SeqEnd
  PROVE  /\ stable' = [stable EXCEPT ![w.key] = w.val]
         /\ w.pc = "end" /\ w'.pc = "idle" /\ w.op \in {"put", "remove"}
<1>1. /\ Observe /\ rd' = rd /\ cache' = cache /\ idx' = idx
      /\ w.pc = "end" /\ w'.pc = "idle" /\ w.key \in Key
  BY SeqEndType DEF IndexInv, WriterStep, SeqEnd
<1>2. /\ stable \in [Key -> Values] /\ stable' \in [Key -> Values]
      /\ \A k \in Key : stable'[k] = Lookup(idx, k)
  BY <1>1, ObserveFacts DEF IndexInv, TypeInv, SegmentType
<1>3. \A k \in Key \ {w.key} : stable'[k] = stable[k]
  BY <1>1, <1>2 DEF IndexInv, RestInv, Writing
<1>4. /\ w.op \in {"put", "remove"} /\ (w.op = "put" => w.val \in Val)
      /\ w.op = "remove" => w.val = Absent
  BY <1>1 DEF IndexInv, CallInv, Writing
<1>5. /\ IF w.op = "put" THEN idx[w.cell].off = w.val /\ idx[w.cell].len = LenOf(w.val)
         ELSE idx[w.cell].len = 0
      /\ idx[w.cell].state = IF w.op = "put" THEN "live" ELSE "tomb"
  BY <1>1 DEF IndexInv, EntryInv, Writing
<1>6. Lookup(idx, w.key) = IF idx[w.cell].state = "live"
                           THEN Bytes(idx[w.cell].off, idx[w.cell].len) ELSE Absent
  BY <1>1, WriterEntry DEF Writing
<1>7. stable'[w.key] = w.val
  BY <1>1, <1>2, <1>4, <1>5, <1>6, BytesFacts
<1> QED
  BY <1>1, <1>2, <1>3, <1>4, <1>7

LEMMA KilledMaps ==
  ASSUME IndexInv, WriterDies, DiesIn \subseteq {"put", "remove"}
  PROVE  /\ \E v \in {stable[w.key], w.val, Empty} : stable' = [stable EXCEPT ![w.key] = v]
         /\ w.pc \in {"begin"} \cup Writing /\ w'.pc = "idle" /\ w.op \in {"put", "remove"}
         /\ deaths' = deaths + 1
<1>0. deaths' = deaths + 1
  BY DEF WriterDies
<1>1. /\ Observe /\ rd' = rd /\ cache' = cache /\ idx' = idx /\ w'.pc = "idle"
  BY DiesType DEF IndexInv
<1>2. w.pc \in {"begin"} \cup Writing /\ w.op \in {"put", "remove"}
  BY DiesOutside
<1>3. w.key \in Key
  BY <1>2 DEF IndexInv, TypeInv, WriterType
<1>4. /\ stable \in [Key -> Values] /\ stable' \in [Key -> Values]
      /\ \A k \in Key : stable'[k] = Lookup(idx, k)
  BY <1>1, ObserveFacts DEF IndexInv, TypeInv, SegmentType
<1>5. /\ \A k \in Key \ {w.key} : stable'[k] = stable[k]
      /\ stable'[w.key] \in {stable[w.key], w.val, Empty}
  BY <1>3, <1>4, KilledLeaves
<1>6. stable' = [stable EXCEPT ![w.key] = stable'[w.key]]
  BY <1>3, <1>4, <1>5
<1> QED
  BY <1>0, <1>1, <1>2, <1>5, <1>6

\* The end of the arena window: a compaction has changed no variable, a clear all.
LEMMA ArenaEndMaps ==
  ASSUME IndexInv, ArenaEnd
  PROVE  /\ w.pc = "settle" /\ Observe /\ rd' = rd /\ cache' = cache
         /\ \/ /\ w.op = "clear" /\ w'.op = "clear" /\ w'.pc = "bump"
               /\ w'.key = w.key /\ w'.val = w.val
               /\ stable' = [k \in Key |-> Absent]
            \/ /\ w.op = "put" /\ w'.op = "put" /\ w'.pc = "begin"
               /\ w'.key = w.key /\ w'.val = w.val /\ stable' = stable
            \/ w.op = "put" /\ w'.pc = "idle" /\ stable' = stable
<1>1. /\ WriterStep /\ idx' = idx /\ w.pc = "settle"
      /\ \/ w.op = "clear" /\ w'.op = "clear" /\ w'.pc = "bump"
         \/ w.op = "put" /\ w'.pc \in {"begin", "idle"}
  BY ArenaEndType DEF IndexInv
<1>2. Observe /\ rd' = rd /\ cache' = cache
  BY <1>1 DEF WriterStep
<1>3. w \in WriterRec
  BY DEF IndexInv, TypeInv, WriterType
<1>4. w'.pc # "idle" => w'.key = w.key /\ w'.val = w.val /\ w'.op = w.op
  BY <1>3, IdleTypes DEF ArenaEnd, WriterRec
<1>5. /\ stable \in [Key -> Values] /\ stable' \in [Key -> Values]
      /\ w'.pc \in {"idle", "bump"} => \A k \in Key : stable'[k] = Lookup(idx, k)
      /\ w'.pc = "begin" => stable' = stable
  BY <1>1, <1>2, ObserveFacts DEF IndexInv, TypeInv, SegmentType
<1>6. CASE w.op = "clear"
  <2>1. \A c \in Cell : idx[c].state = "empty"
    BY <1>1, <1>6 DEF IndexInv, OrderInv
  <2>2. \A k \in Key : stable'[k] = Absent
    BY <1>1, <1>5, <1>6, <2>1, EmptyIndex
  <2>3. stable' = [k \in Key |-> Absent]
    BY <1>5, <2>2
  <2> QED
    BY <1>1, <1>2, <1>4, <1>6, <2>3
<1>7. CASE w.op = "put" /\ w'.pc = "idle"
  <2>1. \A k \in Key : stable'[k] = stable[k]
    BY <1>1, <1>5, <1>7, SettledSame
  <2> QED
    BY <1>1, <1>2, <1>5, <1>7, <2>1
<1>8. CASE w.op = "put" /\ w'.pc = "begin"
  BY <1>1, <1>2, <1>4, <1>5, <1>8
<1> QED
  BY <1>1, <1>6, <1>7, <1>8

LEMMA BumpMaps ==
  ASSUME IndexInv, BumpSlot
  PROVE  /\ stable' = stable /\ w.pc = "bump" /\ w.op = "clear"
         /\ \/ w'.pc = "idle"
            \/ w'.pc = "bump" /\ w'.op = w.op /\ w'.key = w.key /\ w'.val = w.val
<1>1. /\ Observe /\ UNCHANGED <<idx, rd, cache>> /\ w.pc = "bump"
      /\ w'.pc = "idle" \/ (w'.pc = "bump" /\ w'.op = w.op)
  BY BumpType DEF IndexInv
<1>2. /\ stable \in [Key -> Values] /\ stable' \in [Key -> Values]
      /\ \A k \in Key : stable'[k] = Lookup(idx, k)
  BY <1>1, ObserveFacts DEF IndexInv, TypeInv, SegmentType
<1>3. stable' = stable /\ w.op = "clear"
  <2>1. \A k \in Key : stable'[k] = stable[k]
    BY <1>1, <1>2 DEF IndexInv, RestInv
  <2> QED
    BY <1>1, <1>2, <2>1 DEF IndexInv, OrderInv
<1>4. w'.pc # "idle" => w'.key = w.key /\ w'.val = w.val
  <2>1. w \in WriterRec
    BY DEF IndexInv, TypeInv, WriterType
  <2>2. PICK s \in w.left : w' = IF w.left = {s} THEN IdleWriter ELSE [w EXCEPT !.left = @ \ {s}]
    BY DEF BumpSlot
  <2> QED
    BY <2>1, <2>2, IdleTypes DEF WriterRec
<1> QED
  BY <1>1, <1>3, <1>4

\* What a step of the registers does besides the copies.
RegisterStep ==
  \/ /\ \/ \E k \in Key, v \in Val \cup {Absent} : Atomic!Write(k, v, "granted")
        \/ \E k \in Key, v \in Val : Atomic!Write(k, v, "asked")
        \/ Atomic!Begins([key |-> NoKey, val |-> Absent, stage |-> "clearing"])
        \/ w.pc # "idle" /\ LET c == [key |-> w.key, val |-> w.val, stage |-> Stage]
                            IN  \/ Atomic!Grant(c) \/ Atomic!Refuse(c) \/ Atomic!Return(c)
                                \/ Atomic!Killed(c) \/ Atomic!Empties(c) \/ Atomic!Cleared(c)
     /\ Atomic!WriteStep
  \/ \E r \in Reader : \/ \E k \in Key : Atomic!Ask(r, k)
                       \/ \E v \in held[r] : Atomic!Answer(r, v)
                       \/ Atomic!Told(r)
  \/ Atomic!Forget

\* A write begins.
LEMMA BeginMaps ==
  ASSUME Inv, \/ \E k \in Key : Remove(k) \/ \E v \in Val : Put(k, v)
              \/ Clear
  PROVE  RegisterStep
<1>1. WriterStep /\ w.pc = "idle" /\ w'.pc \in {"begin", "wipe"}
  BY BeginType DEF Inv, SegInv
<1>2. Observe /\ rd' = rd /\ cache' = cache /\ deaths' = deaths
  BY <1>1 DEF WriterStep
<1>3. Atomic!WriteStep /\ stable' = stable /\ deaths' = deaths
  BY <1>1, <1>2, SeenByReads, ObserveFacts DEF Inv, SegInv
<1> DEFINE call == IF w.pc = "idle" THEN {} ELSE {[key |-> w.key, val |-> w.val, stage |-> Stage]}
<1>4. call = {} /\ call' = {[key |-> w'.key, val |-> w'.val, stage |-> Stage']}
  BY <1>1
<1>5. ASSUME NEW k \in Key, NEW v \in Val, Put(k, v) PROVE RegisterStep
  <2>1. CASE Starting("put", k, v, "begin")
    <3>1. w'.key = k /\ w'.val = v /\ Stage' = "granted"
      BY <2>1, StartingFacts DEF Inv, SegInv, Stage
    <3>2. Atomic!Write(k, v, "granted")
      BY <1>3, <1>4, <3>1 DEF Atomic!Write, Atomic!Begins
    <3> QED
      BY <1>3, <3>2 DEF RegisterStep
  <2>2. CASE Starting("put", k, v, "wipe")
    <3>1. w'.key = k /\ w'.val = v /\ Stage' = "asked"
      BY <2>2, StartingFacts DEF Inv, SegInv, Stage
    <3>2. Atomic!Write(k, v, "asked")
      BY <1>3, <1>4, <3>1 DEF Atomic!Write, Atomic!Begins
    <3> QED
      BY <1>3, <3>2 DEF RegisterStep
  <2> QED
    BY <1>5, <2>1, <2>2 DEF Put
<1>6. ASSUME NEW k \in Key, Remove(k) PROVE RegisterStep
  <2>1. Starting("remove", k, Absent, "begin")
    BY <1>6 DEF Remove
  <2>2. w'.key = k /\ w'.val = Absent /\ Stage' = "granted"
    BY <2>1, StartingFacts DEF Inv, SegInv, Stage
  <2>3. Atomic!Write(k, Absent, "granted")
    BY <1>3, <1>4, <2>2 DEF Atomic!Write, Atomic!Begins
  <2> QED
    BY <1>3, <2>3 DEF RegisterStep
<1>7. ASSUME Clear PROVE RegisterStep
  <2>1. Starting("clear", NoKey, Absent, "wipe")
    BY <1>7 DEF Clear
  <2>2. w'.key = NoKey /\ w'.val = Absent /\ Stage' = "clearing"
    BY <2>1, StartingFacts DEF Inv, SegInv, Stage
  <2>3. Atomic!Begins([key |-> NoKey, val |-> Absent, stage |-> "clearing"])
    BY <1>3, <1>4, <2>2 DEF Atomic!Begins
  <2> QED
    BY <1>3, <2>3 DEF RegisterStep
<1> QED
  BY <1>5, <1>6, <1>7

\* The stores into an entry, and those of a compaction or a clear.
LEMMA InsideMaps ==
  ASSUME IndexInv, Inv, Stores \/ SeqBegin \/ WipeCell \/ Refill
  PROVE  Atomic!Forget
<1>1. /\ TypeInv /\ w \in WriterRec
  BY DEF IndexInv, TypeInv, WriterType
<1>2. /\ WriterStep /\ w'.pc \in Writing \cup Wiping
      /\ \/ w.pc \in {"begin"} \cup Writing /\ w'.pc \in Writing
         \/ w.pc \in Wiping /\ w'.pc \in Wiping
  BY <1>1, StoreFacts, SeqBeginType, WipeType, RefillType DEF Stored, Wiping
<1>3. Observe /\ rd' = rd /\ cache' = cache /\ deaths' = deaths
  BY <1>2 DEF WriterStep
<1>4. stable' = stable
  BY <1>1, <1>2, <1>3, ObserveFacts DEF Writing, Wiping
<1>5. w'.key = w.key /\ w'.val = w.val /\ w'.op = w.op
  <2>1. CASE Stores
    <3>1. \E x : w' = [w EXCEPT !.pc = x]
      BY <2>1 DEF Stores, WriteKey, WriteHash, ZeroLen, WriteOff, WriteLen, WriteFlag, WriteState,
         Write
    <3> QED
      BY <1>1, <3>1 DEF WriterRec
  <2>2. CASE SeqBegin
    BY <1>1, <2>2, SeqBeginType, SeqBeginFields
  <2>3. CASE WipeCell
    BY <1>1, <2>3 DEF WipeCell, WriterRec
  <2>4. CASE Refill
    BY <1>1, <2>4 DEF Refill, WriterRec
  <2> QED
    BY <2>1, <2>2, <2>3, <2>4
<1>6. /\ w.pc # "idle" /\ w'.pc # "idle" /\ w.pc # "bump" /\ w'.pc # "bump"
      /\ w'.pc \in Wiping <=> w.pc \in Wiping
  BY <1>2 DEF Writing, Wiping
<1> QED
  BY <1>3, <1>4, <1>5, <1>6, ForgetStep

\* A write ends, is killed or goes on after the arena window.
LEMMA EndMaps ==
  ASSUME IndexInv, Inv, SeqEnd \/ WriterDies \/ ArenaEnd \/ BumpSlot,
         DiesIn \subseteq {"put", "remove"}
  PROVE  RegisterStep
<1> DEFINE c == [key |-> w.key, val |-> w.val, stage |-> Stage]
           call == IF w.pc = "idle" THEN {} ELSE {c}
<1>0. TypeInv
  BY DEF IndexInv
<1>1. Observe /\ rd' = rd
  BY <1>0, SeqEndType, DiesType, ArenaEndType, BumpType DEF WriterStep
<1>2. Atomic!WriteStep
  BY <1>1, SeenByReads
<1>3. CASE SeqEnd
  <2>0. deaths' = deaths
    BY <1>0, <1>3, SeqEndType DEF WriterStep
  <2>1. /\ stable' = [stable EXCEPT ![w.key] = w.val]
        /\ w.pc = "end" /\ w'.pc = "idle" /\ w.op \in {"put", "remove"}
    BY <1>3, ReturnMaps
  <2>2. Stage = "granted" /\ call' = {} /\ c.key = w.key /\ c.val = w.val
    BY <2>1 DEF Stage
  <2>3. Atomic!Return(c)
    BY <2>0, <2>1, <2>2 DEF Atomic!Return
  <2> QED
    BY <1>2, <2>1, <2>3 DEF RegisterStep
<1>4. CASE WriterDies
  <2>1. /\ \E v \in {stable[w.key], w.val, Empty} : stable' = [stable EXCEPT ![w.key] = v]
        /\ w.pc \in {"begin"} \cup Writing /\ w'.pc = "idle" /\ w.op \in {"put", "remove"}
        /\ deaths' = deaths + 1
    BY <1>4, KilledMaps
  <2>2. Stage = "granted" /\ call' = {} /\ c.key = w.key /\ c.val = w.val
    BY <2>1 DEF Stage, Writing
  <2>3. Atomic!Killed(c)
    BY <2>1, <2>2 DEF Atomic!Killed
  <2> QED
    BY <1>2, <2>1, <2>3 DEF RegisterStep, Writing
<1>5. CASE ArenaEnd
  <2>0. w.pc = "settle" /\ deaths' = deaths
    BY <1>0, <1>5, ArenaEndMaps, ArenaEndType DEF WriterStep
  <2>1. CASE /\ w.op = "clear" /\ w'.op = "clear" /\ w'.pc = "bump"
             /\ w'.key = w.key /\ w'.val = w.val /\ stable' = [k \in Key |-> Absent]
    <3>1. /\ Stage = "clearing" /\ call' = {[key |-> w.key, val |-> w.val, stage |-> "cleared"]}
      BY <2>0, <2>1 DEF Stage
    <3>2. call' = {[c EXCEPT !.stage = "cleared"]}
      BY <3>1
    <3>3. Atomic!Empties(c)
      BY <2>0, <2>1, <3>1, <3>2 DEF Atomic!Empties, Atomic!Variables
    <3> QED
      BY <1>2, <2>0, <3>3 DEF RegisterStep
  <2>2. CASE /\ w.op = "put" /\ w'.op = "put" /\ w'.pc = "begin"
             /\ w'.key = w.key /\ w'.val = w.val /\ stable' = stable
    <3>1. /\ Stage = "asked" /\ call' = {[key |-> w.key, val |-> w.val, stage |-> "granted"]}
      BY <2>0, <2>2 DEF Stage
    <3>2. call' = {[c EXCEPT !.stage = "granted"]}
      BY <3>1
    <3>3. Atomic!Grant(c)
      BY <2>0, <2>2, <3>1, <3>2 DEF Atomic!Grant
    <3> QED
      BY <1>2, <2>0, <3>3 DEF RegisterStep
  <2>3. CASE w.op = "put" /\ w'.pc = "idle" /\ stable' = stable
    <3>1. /\ Stage = "asked" /\ call' = {}
      BY <2>0, <2>3 DEF Stage
    <3>2. Atomic!Refuse(c)
      BY <2>0, <2>3, <3>1 DEF Atomic!Refuse
    <3> QED
      BY <1>2, <2>0, <3>2 DEF RegisterStep
  <2> QED
    BY <1>5, <2>1, <2>2, <2>3, ArenaEndMaps
<1>6. CASE BumpSlot
  <2>0. stable' = stable /\ w.pc = "bump" /\ w.op = "clear" /\ deaths' = deaths
    BY <1>6, BumpMaps DEF BumpSlot
  <2>1. CASE w'.pc = "idle"
    <3>1. Stage = "cleared" /\ call' = {}
      BY <2>0, <2>1 DEF Stage
    <3>2. Atomic!Cleared(c)
      BY <2>0, <3>1 DEF Atomic!Cleared
    <3> QED
      BY <1>2, <2>0, <3>2 DEF RegisterStep
  <2>2. CASE w'.pc = "bump" /\ w'.op = w.op /\ w'.key = w.key /\ w'.val = w.val
    <3>1. w'.pc \in Wiping <=> w.pc \in Wiping
      BY <2>0, <2>2
    <3>2. Atomic!Forget
      BY <1>1, <2>0, <2>2, <3>1, ForgetStep
    <3> QED
      BY <3>2 DEF RegisterStep
  <2> QED
    BY <1>6, <2>1, <2>2, BumpMaps
<1> QED
  BY <1>3, <1>4, <1>5, <1>6

\* The steps of a reader: only its first and its last are seen, and the one that
\* validates what it read.
LEMMA ReaderMaps ==
  ASSUME Inv, Inv', NEW r \in Reader,
         Looks(r) \/ ReadLocked(r) \/ ReadReturn(r) \/ \E k \in Key : ReadBegin(r, k)
  PROVE  RegisterStep
<1> DEFINE asked == [q \in Reader |-> IF rd[q].pc = "idle" THEN {} ELSE {rd[q].key}]
           answer == [q \in Reader |-> IF rd[q].pc = "done" THEN {rd[q].val} ELSE {}]
<1>0. /\ TypeInv /\ TypeInv' /\ held \in [Reader -> SUBSET Values]
      /\ held' \in [Reader -> SUBSET Values]
  BY DEF Inv, SegInv, TypeInv, ReaderType
<1>1. UNCHANGED <<stable, w, deaths>>
  BY <1>0, LooksFacts, LockedType, ReturnType, BeginReadType
  DEF Becomes, ReadLocked, ReadReturn, ReadBegin, Goes
<1>2. UNCHANGED Stage
  BY <1>1 DEF Stage
<1>3. \A q \in Reader \ {r} : rd'[q] = rd[q] /\ held'[q] = held[q]
  <2>1. CASE Looks(r)
    BY <1>0, <2>1, LooksFacts DEF Becomes, TypeInv, ReaderType
  <2> QED
    BY <1>0, <2>1, LockedType, ReturnType, BeginReadType
<1>4. ASSUME NEW k \in Key, ReadBegin(r, k) PROVE RegisterStep
  <2>1. /\ rd[r].pc = "idle" /\ rd'[r].pc = "before" /\ rd'[r].key = k
        /\ held'[r] = {stable[k]}
    BY <1>0, <1>4, BeginReadType DEF ReadBegin
  <2>2. asked[r] = {} /\ answer[r] = {} /\ asked'[r] = {k} /\ answer'[r] = {}
    BY <2>1
  <2>3. asked' = [asked EXCEPT ![r] = {k}] /\ answer' = answer
    BY <1>3, <2>2
  <2>4. held' = [held EXCEPT ![r] = {stable[k]}]
    BY <1>0, <1>3, <2>1
  <2>5. Atomic!Ask(r, k)
    BY <1>1, <1>2, <2>2, <2>3, <2>4 DEF Atomic!Ask
  <2> QED
    BY <2>5 DEF RegisterStep
<1>5. ASSUME ReadReturn(r) PROVE RegisterStep
  <2>1. rd[r].pc = "done" /\ rd'[r].pc = "idle" /\ held' = [held EXCEPT ![r] = {}]
    BY <1>0, <1>5, ReturnType DEF ReadReturn
  <2>2. answer[r] # {} /\ asked'[r] = {} /\ answer'[r] = {}
    BY <2>1
  <2>3. asked' = [asked EXCEPT ![r] = {}] /\ answer' = [answer EXCEPT ![r] = {}]
    BY <1>3, <2>2
  <2>4. Atomic!Told(r)
    BY <1>1, <1>2, <2>1, <2>2, <2>3 DEF Atomic!Told
  <2> QED
    BY <2>4 DEF RegisterStep
<1>6. ASSUME rd[r].pc \notin {"idle", "done"}, rd'[r].pc # "idle", rd'[r].key = rd[r].key,
             held' = held
      PROVE  RegisterStep
  <2>1. asked[r] = {rd[r].key} /\ asked'[r] = {rd[r].key} /\ answer[r] = {}
    BY <1>6
  <2>2. asked' = asked
    BY <1>3, <2>1
  <2>3. CASE rd'[r].pc = "done"
    <3>1. PICK v \in held[r] : rd'[r].val = v
      BY <1>6, <2>3 DEF Inv, ReadInv, ReadOK
    <3>2. answer' = [answer EXCEPT ![r] = {v}]
      BY <1>3, <2>3, <3>1
    <3>3. Atomic!Answer(r, v)
      BY <1>1, <1>2, <1>6, <2>1, <2>2, <3>2 DEF Atomic!Answer
    <3> QED
      BY <3>3 DEF RegisterStep
  <2>4. CASE rd'[r].pc # "done"
    <3>1. answer' = answer
      BY <1>3, <2>1, <2>4
    <3>2. Atomic!Forget
      BY <1>1, <1>2, <1>6, <2>2, <3>1 DEF Atomic!Forget
    <3> QED
      BY <3>2 DEF RegisterStep
  <2> QED
    BY <2>3, <2>4
<1>7. ASSUME ReadLocked(r) PROVE RegisterStep
  BY <1>0, <1>6, <1>7, LockedType
<1>8. ASSUME Looks(r) PROVE RegisterStep
  <2>1. PICK x : Becomes(r, x)
    BY <1>0, <1>8, LooksFacts
  <2>2. rd' = [rd EXCEPT ![r] = x] /\ x.key = rd[r].key /\ x.pc # "idle" /\ held' = held
    BY <2>1 DEF Becomes
  <2>3. rd'[r] = x
    BY <1>0, <2>2 DEF TypeInv, ReaderType
  <2>4. rd[r].pc \notin {"idle", "done"}
    BY <1>8 DEF Looks, ReadBefore, ReadS1, ReadA1, ReadState, ReadKey, ReadLive, ReadOff,
       ReadBytes, ReadS2, ReadA2, Reads
  <2> QED
    BY <1>6, <2>2, <2>3, <2>4
<1> QED
  BY <1>4, <1>5, <1>7, <1>8

LEMMA InitMaps == Init => Atomic!Init
<1> SUFFICES ASSUME Init PROVE Atomic!Init
  OBVIOUS
<1>1. stable \in [Key -> Val \cup {Absent}]
  BY DEF Init
<1>2. w.pc = "idle" /\ \A r \in Reader : rd[r].pc = "idle"
  BY IdleTypes DEF Init
<1>3. \A r \in Reader, k \in Key :
        {e.val : e \in {d \in cache[r][k] : d.seen = slots[SlotOf[k]]}} = {}
  BY DEF Init
<1>4. held = [r \in Reader |-> {}] /\ deaths = 0
  BY DEF Init
<1> QED
  BY <1>1, <1>2, <1>3, <1>4 DEF Atomic!Init

LEMMA NextMaps ==
  ASSUME IndexInv, Inv, Inv', CompactionKeeps, [Next]_vars, [~CrossReclaim]_vars,
         DiesIn \subseteq {"put", "remove"}
  PROVE  [Atomic!Next]_Atomic!vars
<1>0. /\ SegInv /\ TypeInv /\ slots \in [Slot -> Nat]
  BY DEF Inv, SegInv, TypeInv, SegmentType
<1>1. CASE UNCHANGED vars
  <2>1. UNCHANGED Stage
    BY <1>1 DEF vars, Stage
  <2> QED
    BY <1>1, <2>1 DEF vars, Atomic!vars
<1> SUFFICES ASSUME Next, ~CrossReclaim, ~UNCHANGED vars PROVE Atomic!Next
  BY <1>1
<1>2. \A s \in Slot : slots[s] <= slots'[s]
  <2>1. CASE \/ \/ \E k \in Key : Remove(k) \/ \E v \in Val : Put(k, v)
                \/ Clear
             \/ Commit \/ Stores \/ SeqBegin \/ SeqEnd \/ WipeCell \/ Refill \/ ArenaEnd
             \/ BumpSlot \/ WriterDies
    BY <1>0, <2>1, BeginGuarded, CommitGuarded, StoreGuarded, SeqBeginGuarded, SeqEndGuarded,
       WipeGuarded, RefillGuarded, ArenaEndGuarded, BumpGuarded, DiesGuarded DEF Guarded
  <2>2. ASSUME NEW r \in Reader, Looks(r) \/ ReadReturn(r) \/ \E k \in Key : ReadBegin(r, k)
        PROVE  \A s \in Slot : slots[s] <= slots'[s]
    <3>1. slots' = slots
      BY <1>0, <2>2, LooksFacts, ReturnType, BeginReadType DEF Becomes
    <3> QED
      BY <1>0, <3>1
  <2>3. ASSUME NEW r \in Reader, ReadLocked(r)
        PROVE  \A s \in Slot : slots[s] <= slots'[s]
    <3>1. slots' = [slots EXCEPT ![SlotOf[rd[r].key]] = Repaired(@)]
      BY <1>0, <2>3, LockedType
    <3>2. \A s \in Slot : Repaired(slots[s]) >= slots[s]
      BY <1>0, CounterFacts
    <3> QED
      BY <1>0, <3>1, <3>2
  <2> QED
    BY <2>1, <2>2, <2>3 DEF Next, Writer, WriterGoesOn, ReaderGoesOn, Stores, Looks
<1>3. cache' = cache \/ \E r \in Reader : ReadReturn(r)
  <2>1. CASE \/ \/ \E k \in Key : Remove(k) \/ \E v \in Val : Put(k, v)
                \/ Clear
             \/ Stores \/ SeqBegin \/ SeqEnd \/ WipeCell \/ Refill \/ ArenaEnd
    BY <1>0, <2>1, BeginType, StoreFacts, SeqBeginType, SeqEndType, WipeType, RefillType,
       ArenaEndType DEF Stored, WriterStep
  <2>2. CASE Commit \/ BumpSlot \/ WriterDies
    BY <1>0, <2>2, CommitType, BumpType, DiesType
  <2>3. ASSUME NEW r \in Reader, Looks(r) \/ ReadLocked(r) \/ \E k \in Key : ReadBegin(r, k)
        PROVE  cache' = cache
    BY <1>0, <2>3, LooksFacts, LockedType, BeginReadType DEF Becomes
  <2> QED
    BY <2>1, <2>2, <2>3 DEF Next, Writer, WriterGoesOn, ReaderGoesOn, Stores, Looks
<1>4. Atomic!Copies
  BY <1>2, <1>3, CopiesFollow
<1>5. RegisterStep
  <2>1. CASE \/ \E k \in Key : Remove(k) \/ \E v \in Val : Put(k, v)
             \/ Clear
    BY <2>1, BeginMaps
  <2>2. CASE Commit
    <3>1. UNCHANGED <<w, rd, stable, held, deaths>>
      BY <2>2 DEF Commit
    <3> QED
      BY <3>1, ForgetStep DEF RegisterStep
  <2>3. CASE Stores \/ SeqBegin \/ WipeCell \/ Refill
    BY <2>3, InsideMaps DEF RegisterStep
  <2>4. CASE SeqEnd \/ WriterDies \/ ArenaEnd \/ BumpSlot
    BY <2>4, EndMaps
  <2>5. ASSUME NEW r \in Reader,
               Looks(r) \/ ReadLocked(r) \/ ReadReturn(r) \/ \E k \in Key : ReadBegin(r, k)
        PROVE  RegisterStep
    BY <2>5, ReaderMaps
  <2> QED
    BY <2>1, <2>2, <2>3, <2>4, <2>5 DEF Next, Writer, WriterGoesOn, ReaderGoesOn, Stores, Looks
<1> QED
  BY <1>4, <1>5 DEF Atomic!Next, RegisterStep

\* The segment is a set of atomic registers to whoever uses it: a put or a remove that
\* returns has changed its variable and no other, one without room has changed nothing,
\* one that was killed leaves its variable old, new or empty, a compaction is not seen
\* at all, a clear is one step, a read returns a value of the time it took, and a copy is
\* used only while it is the value.  (Segment::put, remove, clear, compact, read_value)
THEOREM Registered ==
  ASSUME DiesIn \subseteq {"put", "remove"}
  PROVE  Spec /\ [][~CrossReclaim]_vars /\ []HasRoom => DeliversRegisters
<1>0. Spec /\ []HasRoom => []CompactionKeeps
  BY Compacts
<1>1. IndexInv /\ HasRoom /\ [Next]_vars => IndexInv'
  BY NextIndex
<1>2. Inv /\ CompactionKeeps /\ [Next]_vars /\ [~CrossReclaim]_vars => Inv'
  BY NextInv
<1>3. /\ IndexInv /\ Inv /\ Inv' /\ CompactionKeeps
      /\ [Next]_vars /\ [~CrossReclaim]_vars
      => [Atomic!Next]_Atomic!vars
  BY NextMaps
<1>4. Init => IndexInv /\ Inv /\ Atomic!Init
  BY InitIndex, InitInv, InitMaps
<1> QED
  BY <1>0, <1>1, <1>2, <1>3, <1>4, PTL DEF Spec, DeliversRegisters, Atomic!Spec
=============================================================================
