---------------------------- MODULE SegmentIndex ----------------------------
(***************************************************************************)
(* Proofs about what the index holds, for any number of keys, values and   *)
(* counters, any size of index and any hash:                               *)
(*   Compacts     a compaction drops no variable                           *)
(*   Interrupted  a writer killed inside a put or a remove leaves its key  *)
(*                old, new or empty and every other key alone              *)
(*   Owing        what memory has and the disk has not is still owed, but  *)
(*                for a put killed between its length and its flag         *)
(*   Fits         a compaction has room where no entry has wrapped round   *)
(*                the end of the index                                     *)
(*                                                                         *)
(* No writer is killed inside a compaction or a clear.  The first three    *)
(* hold of the behaviours in which a compaction finds room for every entry *)
(* it puts back (HasRoom, which Fits gives).                               *)
(***************************************************************************)
EXTENDS SegmentProofs, FiniteSetTheorems

-----------------------------------------------------------------------------
(* The index.                                                              *)

\* compact finds room for the entry it is about to put back.
HasRoom ==
  w.pc = "refill" /\ ~Garbage(w.keep[w.at]) => CanClaim(idx, w.keep[w.at].key)

\* Cell c is in the window of k, and a probe for k comes to it.
Within(ix, k, c) ==
  \E t \in Window : /\ c = CellAt(k, t)
                    /\ \A i \in Window : i < t => ix[CellAt(k, i)].state # "empty"

\* Cell c has the entry of k.
Holds(ix, k, c) == ix[c].state # "empty" /\ ix[c].key = k

\* Every entry can be reached, and a key has one at most; a live one has the bytes of
\* one write.
IndexOK(ix) ==
  \A c \in Cell : ix[c].state # "empty" /\ ix[c].key \in Key =>
    /\ Within(ix, ix[c].key, c)
    /\ \A d \in Cell : Holds(ix, ix[c].key, d) => d = c
    /\ ix[c].state = "live" => Bytes(ix[c].off, ix[c].len) # Mixed

\* The flag of the entry of k.
Flagged(ix, k) == Found(ix, k) /\ ix[Target(ix, k)].dirty

\* The next commit will make the file of k what ix has.
OwedBy(ix, k) ==
  \/ Flagged(ix, k)
  \/ /\ Lookup(ix, k) # Absent
     /\ saved[k] = Absent \/ LenOf(Lookup(ix, k)) # LenOf(saved[k])

InStep(ix, k) == Lookup(ix, k) = saved[k] \/ OwedBy(ix, k)

-----------------------------------------------------------------------------
(* The invariant.                                                          *)

Compacting == w.pc \in Wiping /\ w.op = "put"

\* The index is in order but while it is wiped; so is the snapshot of a compaction.
OrderInv ==
  /\ w.pc # "wipe" => IndexOK(idx)
  /\ Compacting => IndexOK(w.keep)
  /\ w.pc = "wipe" => \A c \in Cell : c < w.at => idx[c] = Wiped
  /\ w.pc = "bump" \/ (w.pc = "settle" /\ w.op = "clear") =>
       w.op = "clear" /\ \A c \in Cell : idx[c].state = "empty"

\* A compaction has put back every entry it has come to, and nothing else.
RefillInv ==
  Compacting /\ w.pc # "wipe" =>
    /\ \A c \in Cell : idx[c].state # "empty" =>
         /\ idx[c].key \in Key /\ ~Garbage(idx[c])
         /\ \E p \in Cell : idx[c] = w.keep[p] /\ (w.pc = "refill" => p < w.at)
    /\ \A p \in Cell : ~Garbage(w.keep[p]) /\ (w.pc = "refill" => p < w.at) =>
         \E c \in Cell : idx[c] = w.keep[p]

\* What was asked for.
CallInv ==
  /\ w.pc \in {"begin"} \cup Writing => w.op \in {"put", "remove"}
  /\ w.pc \in {"begin"} \cup Writing \cup Wiping =>
       /\ w.op = "put" => w.val \in Val
       /\ w.op = "remove" => w.val = Absent

\* What a writer knows of the entry it fills.
EntryInv ==
  w.pc \in Writing =>
    LET e == idx[w.cell] IN
    /\ Within(idx, w.key, w.cell)
    /\ \A d \in Cell \ {w.cell} : ~Holds(idx, w.key, d)
    /\ w.pc \in {"key", "hash"} => ~Holds(idx, w.key, w.cell)
    /\ w.pc \in {"off", "len"} => w.op = "put" /\ e.len = 0
    /\ w.pc = "len" => e.off = w.val
    /\ w.pc \in {"flag", "state", "end"} =>
         IF w.op = "put" THEN e.off = w.val /\ e.len = LenOf(w.val) ELSE e.len = 0
    /\ w.pc \in {"state", "end"} => e.dirty
    /\ w.pc = "end" => e.state = IF w.op = "put" THEN "live" ELSE "tomb"

\* Every key but the one that is being written has the value it last had at rest.
RestInv ==
  /\ w.pc \in {"idle", "begin", "bump"} => \A k \in Key : stable[k] = Lookup(idx, k)
  /\ w.pc \in Writing =>
       /\ \A k \in Key \ {w.key} : stable[k] = Lookup(idx, k)
       /\ w.pc \in {"key", "hash", "zero"} => stable[w.key] = Lookup(idx, w.key)
       /\ w.pc # "end" /\ idx[w.cell].state # "live" => stable[w.key] = Absent
  /\ Compacting => \A k \in Key : stable[k] = Lookup(w.keep, k)

\* So has its file, or will have.
SavedInv ==
  /\ \A k \in Key : saved[k] # Mixed
  /\ w.pc \in {"idle", "begin"} => \A k \in Key \ cut : InStep(idx, k)
  /\ w.pc \in Writing =>
       /\ \A k \in Key \ (cut \cup {w.key}) : InStep(idx, k)
       /\ \/ w.key \in cut \/ InStep(idx, w.key)
          \/ w.pc = "flag" /\ w.op = "put" /\ idx[w.cell].state = "live"
  /\ Compacting => \A k \in Key \ cut : InStep(w.keep, k)

IndexInv == TypeInv /\ OrderInv /\ RefillInv /\ CallInv /\ EntryInv /\ RestInv

-----------------------------------------------------------------------------
(* What an index in order gives a probe.                                   *)

LEMMA BytesFacts ==
  /\ \A off : Bytes(off, 0) = Empty
  /\ \A v \in Val : Bytes(v, LenOf(v)) = v /\ LenOf(v) \in Nat \ {0}
  /\ LenOf(Empty) = 0
<1>1. \A v \in Val : Length[v] \in Nat \ {0}
  BY BytesAssumption
<1> QED
  BY <1>1, BytesAssumption DEF Bytes, LenOf

\* The entry of k is what a probe for k finds.
LEMMA HeldFacts ==
  ASSUME NEW ix, NEW k \in Key, NEW c \in Cell, IndexOK(ix), Holds(ix, k, c)
  PROVE  /\ Found(ix, k) /\ Target(ix, k) = c
         /\ Lookup(ix, k) = IF ix[c].state = "live" THEN Bytes(ix[c].off, ix[c].len)
                            ELSE Absent
         /\ Lookup(ix, k) # Mixed
         /\ \A d \in Cell : Holds(ix, k, d) => d = c
<1>1. /\ Within(ix, k, c) /\ \A d \in Cell : Holds(ix, k, d) => d = c
      /\ ix[c].state = "live" => Bytes(ix[c].off, ix[c].len) # Mixed
      /\ ix[c].state # "empty" /\ ix[c].key = k
  BY DEF IndexOK, Holds
<1>2. PICK t \in Window : /\ c = CellAt(k, t)
                          /\ \A i \in Window : i < t => ix[CellAt(k, i)].state # "empty"
  BY <1>1 DEF Within
<1>3. t \in Stops(ix, k)
  BY <1>1, <1>2, StopsFacts
<1>4. ASSUME NEW i \in Window, i < t PROVE i \notin Stops(ix, k)
  <2>1. ix[CellAt(k, i)].state # "empty" /\ CellAt(k, i) \in Cell
    BY <1>2, <1>4, CellAtFacts
  <2>2. CellAt(k, i) # c
    <3>1. i # t
      BY <1>4, WindowFacts
    <3> QED
      BY <1>2, <3>1, CellAtFacts
  <2>3. ix[CellAt(k, i)].key # k
    BY <1>1, <2>1, <2>2 DEF Holds
  <2> QED
    BY <2>1, <2>3, StopsFacts
<1>5. First(ix, k, t)
  BY <1>3, <1>4 DEF First
<1>6. /\ Found(ix, k) /\ Target(ix, k) = c
      /\ Lookup(ix, k) = IF ix[c].state = "live" THEN Bytes(ix[c].off, ix[c].len)
                         ELSE Absent
  BY <1>1, <1>2, <1>5, LookupFirst
<1> QED
  BY <1>1, <1>6, BytesAssumption

\* A key that has no entry is not found.
LEMMA NotHeld ==
  ASSUME NEW ix, NEW k \in Key, \A c \in Cell : ~Holds(ix, k, c)
  PROVE  ~Found(ix, k) /\ Lookup(ix, k) = Absent
<1>1. CASE Stops(ix, k) = {}
  BY <1>1, LookupNowhere
<1>2. CASE Stops(ix, k) # {}
  <2>1. PICK t \in Window : First(ix, k, t)
    BY <1>2, FirstExists
  <2>2. ix[CellAt(k, t)].state = "empty"
    BY <2>1, StopsFacts, CellAtFacts DEF First, Holds
  <2> QED
    BY <2>1, <2>2, LookupFirst
<1> QED
  BY <1>1, <1>2

LEMMA EmptyIndex ==
  ASSUME NEW ix, \A c \in Cell : ix[c].state = "empty"
  PROVE  IndexOK(ix) /\ \A k \in Key : Lookup(ix, k) = Absent
<1>1. \A k \in Key, c \in Cell : ~Holds(ix, k, c)
  BY DEF Holds
<1> QED
  BY <1>1, NotHeld DEF IndexOK

LEMMA FoundIsHeld ==
  ASSUME NEW ix \in [Cell -> Entry], NEW k \in Key, IndexOK(ix)
  PROVE  /\ Found(ix, k) => Target(ix, k) \in Cell /\ Holds(ix, k, Target(ix, k))
         /\ ~Found(ix, k) => \A c \in Cell : ~Holds(ix, k, c)
         /\ Lookup(ix, k) # Mixed
<1>1. ASSUME Found(ix, k) PROVE Target(ix, k) \in Cell /\ Holds(ix, k, Target(ix, k))
  <2>1. CanClaim(ix, k)
    BY <1>1 DEF Found, CanClaim
  <2> QED
    BY <1>1, <2>1, TargetFacts DEF Holds
<1>2. ~Found(ix, k) => \A c \in Cell : ~Holds(ix, k, c)
  BY HeldFacts
<1>3. Lookup(ix, k) # Mixed
  BY <1>1, <1>2, HeldFacts, NotHeld, BytesAssumption
<1> QED
  BY <1>1, <1>2, <1>3

\* One cell changes, in favour of j.
OneStore(ix, iy, j, c) ==
  /\ \A d \in Cell \ {c} : iy[d] = ix[d]
  /\ ix[c].state # "empty" => iy[c].state # "empty"
  /\ iy[c].key \in Key => iy[c].key = j
  /\ iy[c].state = "live" /\ iy[c].key = j => Bytes(iy[c].off, iy[c].len) # Mixed
  /\ \A d \in Cell \ {c} : ~Holds(ix, j, d)
  /\ Within(ix, j, c)

LEMMA StoreOrder ==
  ASSUME NEW ix, NEW iy, NEW j \in Key, NEW c \in Cell, IndexOK(ix), OneStore(ix, iy, j, c)
  PROVE  /\ IndexOK(iy) /\ Within(iy, j, c)
         /\ \A d \in Cell \ {c} : ~Holds(iy, j, d)
<1>1. \A d \in Cell : ix[d].state # "empty" => iy[d].state # "empty"
  BY DEF OneStore
<1>2. \A k \in Key, d \in Cell : Within(ix, k, d) => Within(iy, k, d)
  BY <1>1, CellAtFacts DEF Within
<1>3. \A d \in Cell \ {c} : ~Holds(iy, j, d)
  BY DEF OneStore, Holds
<1>4. ASSUME NEW d \in Cell, iy[d].state # "empty", iy[d].key \in Key
      PROVE  /\ Within(iy, iy[d].key, d)
             /\ \A b \in Cell : Holds(iy, iy[d].key, b) => b = d
             /\ iy[d].state = "live" => Bytes(iy[d].off, iy[d].len) # Mixed
  <2>1. CASE d = c
    BY <1>2, <1>3, <1>4, <2>1 DEF OneStore
  <2>2. CASE d # c
    <3>1. iy[d] = ix[d] /\ iy[d].key # j
      BY <1>3, <1>4, <2>2 DEF OneStore, Holds
    <3>2. /\ Within(ix, iy[d].key, d)
          /\ \A b \in Cell : Holds(ix, iy[d].key, b) => b = d
          /\ iy[d].state = "live" => Bytes(iy[d].off, iy[d].len) # Mixed
      BY <1>4, <3>1 DEF IndexOK
    <3>3. \A b \in Cell : Holds(iy, iy[d].key, b) => b # c /\ Holds(ix, iy[d].key, b)
      BY <1>4, <3>1 DEF OneStore, Holds
    <3> QED
      BY <1>2, <1>4, <3>2, <3>3
  <2> QED
    BY <2>1, <2>2
<1> QED
  BY <1>2, <1>3, <1>4 DEF IndexOK, OneStore

\* Two indexes have the same for k: value and flag.
Alike(ix, iy, k) ==
  Lookup(iy, k) = Lookup(ix, k) /\ (Flagged(iy, k) <=> Flagged(ix, k))

\* Another key than j loses at most a clean tombstone.
LEMMA StoreOther ==
  ASSUME NEW ix, NEW iy, NEW j \in Key, NEW c \in Cell, IndexOK(ix), OneStore(ix, iy, j, c),
         NEW k \in Key \ {j}, Holds(ix, k, c) => Garbage(ix[c])
  PROVE  Alike(ix, iy, k)
<1>1. IndexOK(iy)
  BY StoreOrder
<1>2. ~Holds(iy, k, c)
  BY DEF OneStore, Holds
<1>3. \A d \in Cell \ {c} : iy[d] = ix[d] /\ (Holds(iy, k, d) <=> Holds(ix, k, d))
  BY DEF OneStore, Holds
<1>4. CASE \E d \in Cell \ {c} : Holds(ix, k, d)
  <2>1. PICK d \in Cell \ {c} : Holds(ix, k, d)
    BY <1>4
  <2>2. iy[d] = ix[d] /\ Holds(iy, k, d)
    BY <1>3, <2>1
  <2>3. /\ Found(ix, k) /\ Target(ix, k) = d
        /\ Lookup(ix, k) = IF ix[d].state = "live" THEN Bytes(ix[d].off, ix[d].len) ELSE Absent
    BY <2>1, HeldFacts
  <2>4. /\ Found(iy, k) /\ Target(iy, k) = d
        /\ Lookup(iy, k) = IF iy[d].state = "live" THEN Bytes(iy[d].off, iy[d].len) ELSE Absent
    BY <1>1, <2>2, HeldFacts
  <2> QED
    BY <2>2, <2>3, <2>4 DEF Alike, Flagged
<1>5. CASE \A d \in Cell \ {c} : ~Holds(ix, k, d)
  <2>1. ~Found(iy, k) /\ Lookup(iy, k) = Absent
    BY <1>2, <1>3, <1>5, NotHeld
  <2>2. CASE Holds(ix, k, c)
    <3>1. /\ Target(ix, k) = c
          /\ Lookup(ix, k) = IF ix[c].state = "live" THEN Bytes(ix[c].off, ix[c].len) ELSE Absent
      BY <2>2, HeldFacts
    <3>2. ix[c].state = "tomb" /\ ~ix[c].dirty
      BY <2>2 DEF Holds, Garbage
    <3> QED
      BY <2>1, <3>1, <3>2 DEF Alike, Flagged
  <2>3. CASE ~Holds(ix, k, c)
    <3>1. ~Found(ix, k) /\ Lookup(ix, k) = Absent
      BY <1>5, <2>3, NotHeld
    <3> QED
      BY <2>1, <3>1 DEF Alike, Flagged
  <2> QED
    BY <2>2, <2>3
<1> QED
  BY <1>4, <1>5

-----------------------------------------------------------------------------
(* The steps, in more detail than their types need.                        *)

LEMMA BeginFields ==
  ASSUME TypeInv,
         \/ \E k \in Key : Remove(k) \/ \E v \in Val : Put(k, v)
         \/ Clear
  PROVE  /\ TypeInv' /\ idx' = idx /\ WriterStep /\ w.pc = "idle"
         /\ \/ /\ w'.pc = "begin" /\ w'.op \in {"put", "remove"}
               /\ w'.op = "put" => w'.val \in Val
               /\ w'.op = "remove" => w'.val = Absent
            \/ w'.pc = "wipe" /\ w'.at = 0 /\ w'.op = "put" /\ w'.val \in Val /\ w'.keep = idx
            \/ w'.pc = "wipe" /\ w'.at = 0 /\ w'.op = "clear"
<1> DEFINE Begun(op, v, here) ==
      /\ w'.pc = here /\ w'.op = op /\ w'.val = v /\ w'.at = 0
      /\ here = "wipe" => w'.keep = idx
<1>1. TypeInv' /\ idx' = idx /\ WriterStep /\ w.pc = "idle"
  BY BeginType
<1>2. ASSUME NEW k \in Key, Remove(k) PROVE Begun("remove", Absent, "begin")
  <2>1. Starting("remove", k, Absent, "begin")
    BY <1>2 DEF Remove
  <2> QED
    BY <2>1, StartingFacts
<1>3. ASSUME NEW k \in Key, NEW v \in Val, Put(k, v)
      PROVE  Begun("put", v, "begin") \/ Begun("put", v, "wipe")
  <2>1. Starting("put", k, v, "begin") \/ Starting("put", k, v, "wipe")
    BY <1>3 DEF Put
  <2> QED
    BY <2>1, StartingFacts
<1>4. ASSUME Clear PROVE Begun("clear", Absent, "wipe")
  <2>1. Starting("clear", NoKey, Absent, "wipe")
    BY <1>4 DEF Clear
  <2> QED
    BY <2>1, StartingFacts
<1>5. \/ Begun("remove", Absent, "begin") \/ Begun("clear", Absent, "wipe")
      \/ \E v \in Val : Begun("put", v, "begin") \/ Begun("put", v, "wipe")
  <2> HIDE DEF Begun
  <2> QED
    BY <1>2, <1>3, <1>4
<1> QED
  BY <1>1, <1>5

\* The entry before and after one store.
Filled ==
  LET e == idx[w.cell]
      f == idx'[w.cell]
      Old(F) == \A x \in F : f[x] = e[x]
  IN  /\ w'.op = w.op /\ w'.val = w.val
      /\ \/ /\ w.pc = "key" /\ w'.pc = "hash" /\ f.key = NoKey
            /\ Old({"state", "off", "len", "dirty"})
         \/ /\ w.pc = "hash" /\ w'.pc = "zero" /\ f.key = w.key
            /\ Old({"state", "off", "len", "dirty"})
         \/ /\ w.pc = "zero" /\ w'.pc = (IF w.op = "put" THEN "off" ELSE "flag") /\ f.len = 0
            /\ Old({"state", "key", "off", "dirty"})
         \/ /\ w.pc = "off" /\ w'.pc = "len" /\ f.off = w.val
            /\ Old({"state", "key", "len", "dirty"})
         \/ /\ w.pc = "len" /\ w'.pc = "flag" /\ f.len = LenOf(w.val)
            /\ Old({"state", "key", "off", "dirty"})
         \/ /\ w.pc = "flag" /\ w'.pc = "state" /\ f.dirty = TRUE
            /\ Old({"state", "key", "off", "len"})
         \/ /\ w.pc = "state" /\ w'.pc = "end"
            /\ f.state = (IF w.op = "put" THEN "live" ELSE "tomb")
            /\ Old({"key", "off", "len", "dirty"})

LEMMA FilledFacts ==
  ASSUME TypeInv, Stores
  PROVE  Filled
<1>0. /\ w \in WriterRec /\ w.cell \in Cell /\ idx \in [Cell -> Entry] /\ idx[w.cell] \in Entry
  BY DEF TypeInv, WriterType, SegmentType, WriterRec
<1>1. ASSUME NEW there \in Writing, w' = [w EXCEPT !.pc = there]
      PROVE  w'.op = w.op /\ w'.val = w.val /\ w'.pc = there
  BY <1>0, <1>1 DEF WriterRec
<1>2. CASE WriteKey
  <2>1. w.pc = "key" /\ w' = [w EXCEPT !.pc = "hash"] /\ idx' = [idx EXCEPT ![w.cell].key = NoKey]
    BY <1>2 DEF WriteKey, Write
  <2>2. w'.op = w.op /\ w'.val = w.val /\ w'.pc = "hash"
    BY <1>1, <2>1 DEF Writing
  <2>3. idx'[w.cell] = [idx[w.cell] EXCEPT !.key = NoKey]
    BY <1>0, <2>1
  <2> QED
    BY <1>0, <2>1, <2>2, <2>3 DEF Filled, Entry
<1>3. CASE WriteHash
  <2>1. w.pc = "hash" /\ w' = [w EXCEPT !.pc = "zero"] /\ idx' = [idx EXCEPT ![w.cell].key = w.key]
    BY <1>3 DEF WriteHash, Write
  <2>2. w'.op = w.op /\ w'.val = w.val /\ w'.pc = "zero"
    BY <1>1, <2>1 DEF Writing
  <2>3. idx'[w.cell] = [idx[w.cell] EXCEPT !.key = w.key]
    BY <1>0, <2>1
  <2> QED
    BY <1>0, <2>1, <2>2, <2>3 DEF Filled, Entry
<1>4. CASE WriteOff
  <2>1. w.pc = "off" /\ w' = [w EXCEPT !.pc = "len"] /\ idx' = [idx EXCEPT ![w.cell].off = w.val]
    BY <1>4 DEF WriteOff, Write
  <2>2. w'.op = w.op /\ w'.val = w.val /\ w'.pc = "len"
    BY <1>1, <2>1 DEF Writing
  <2>3. idx'[w.cell] = [idx[w.cell] EXCEPT !.off = w.val]
    BY <1>0, <2>1
  <2> QED
    BY <1>0, <2>1, <2>2, <2>3 DEF Filled, Entry
<1>5. CASE WriteLen
  <2>1. w.pc = "len" /\ w' = [w EXCEPT !.pc = "flag"] /\ idx' = [idx EXCEPT ![w.cell].len = LenOf(w.val)]
    BY <1>5 DEF WriteLen, Write
  <2>2. w'.op = w.op /\ w'.val = w.val /\ w'.pc = "flag"
    BY <1>1, <2>1 DEF Writing
  <2>3. idx'[w.cell] = [idx[w.cell] EXCEPT !.len = LenOf(w.val)]
    BY <1>0, <2>1
  <2> QED
    BY <1>0, <2>1, <2>2, <2>3 DEF Filled, Entry
<1>6. CASE WriteFlag
  <2>1. w.pc = "flag" /\ w' = [w EXCEPT !.pc = "state"] /\ idx' = [idx EXCEPT ![w.cell].dirty = TRUE]
    BY <1>6 DEF WriteFlag, Write
  <2>2. w'.op = w.op /\ w'.val = w.val /\ w'.pc = "state"
    BY <1>1, <2>1 DEF Writing
  <2>3. idx'[w.cell] = [idx[w.cell] EXCEPT !.dirty = TRUE]
    BY <1>0, <2>1
  <2> QED
    BY <1>0, <2>1, <2>2, <2>3 DEF Filled, Entry
<1>7. CASE ZeroLen
  <2>1. PICK p \in {"off", "flag"} :
          /\ w.pc = "zero" /\ w' = [w EXCEPT !.pc = p] /\ idx' = [idx EXCEPT ![w.cell].len = 0]
          /\ p = IF w.op = "put" THEN "off" ELSE "flag"
    BY <1>7 DEF ZeroLen, Write
  <2>2. w'.op = w.op /\ w'.val = w.val /\ w'.pc = p
    BY <1>1, <2>1 DEF Writing
  <2>3. idx'[w.cell] = [idx[w.cell] EXCEPT !.len = 0]
    BY <1>0, <2>1
  <2> QED
    BY <1>0, <2>1, <2>2, <2>3 DEF Filled, Entry
<1>8. CASE WriteState
  <2>1. PICK x \in {"live", "tomb"} :
          /\ w.pc = "state" /\ w' = [w EXCEPT !.pc = "end"] /\ idx' = [idx EXCEPT ![w.cell].state = x]
          /\ x = IF w.op = "put" THEN "live" ELSE "tomb"
    BY <1>8 DEF WriteState, Write
  <2>2. w'.op = w.op /\ w'.val = w.val /\ w'.pc = "end"
    BY <1>1, <2>1 DEF Writing
  <2>3. idx'[w.cell] = [idx[w.cell] EXCEPT !.state = x]
    BY <1>0, <2>1
  <2> QED
    BY <1>0, <2>1, <2>2, <2>3 DEF Filled, Entry
<1> QED
  BY <1>2, <1>3, <1>4, <1>5, <1>6, <1>7, <1>8 DEF Stores

LEMMA SeqBeginFields ==
  ASSUME TypeInv, SeqBegin
  PROVE  /\ w'.op = w.op /\ w'.val = w.val /\ w'.pc \in {"zero", "key"}
         /\ w'.pc = "zero" <=> Found(idx, w.key)
<1>0. w \in WriterRec
  BY DEF TypeInv, WriterType
<1>1. PICK p \in {"zero", "key"} :
        /\ w' = [w EXCEPT !.cell = Target(idx, w.key), !.pc = p]
        /\ p = "zero" <=> Found(idx, w.key)
  BY DEF SeqBegin
<1>2. w'.op = w.op /\ w'.val = w.val /\ w'.pc = p
  BY <1>0, <1>1 DEF WriterRec
<1> QED
  BY <1>1, <1>2

LEMMA WipeFields ==
  ASSUME TypeInv, WipeCell
  PROVE  /\ w'.op = w.op /\ w'.val = w.val /\ w'.keep = w.keep
         /\ \/ w'.pc = "wipe" /\ w'.at = w.at + 1
            \/ /\ w.at + 1 = N /\ w'.at = 0
               /\ w'.pc = IF w.op = "clear" THEN "settle" ELSE "refill"
<1>0. w \in WriterRec /\ w.at \in Cell
  BY DEF TypeInv, WriterType, WriterRec
<1>1. CASE w.at + 1 < N
  <2>1. w' = [w EXCEPT !.at = w.at + 1]
    BY <1>1 DEF WipeCell
  <2>2. w.pc = "wipe"
    BY DEF WipeCell
  <2> QED
    BY <1>0, <2>1, <2>2 DEF WriterRec
<1>2. CASE ~ (w.at + 1 < N)
  <2>1. PICK p : /\ w' = [w EXCEPT !.at = 0, !.pc = p]
                 /\ p = IF w.op = "clear" THEN "settle" ELSE "refill"
    BY <1>2 DEF WipeCell
  <2>2. w.at + 1 = N
    BY <1>0, <1>2, IndexAssumption DEF Cell
  <2> QED
    BY <1>0, <2>1, <2>2 DEF WriterRec
<1> QED
  BY <1>1, <1>2

LEMMA RefillFields ==
  ASSUME TypeInv, Refill
  PROVE  /\ w'.op = w.op /\ w'.val = w.val /\ w'.keep = w.keep /\ w.at \in Cell
         /\ \/ w'.pc = "refill" /\ w'.at = w.at + 1
            \/ w'.pc = "settle" /\ w.at + 1 = N
         /\ idx' = IF Garbage(w.keep[w.at]) \/ ~CanClaim(idx, w.keep[w.at].key) THEN idx
                   ELSE [idx EXCEPT ![Target(idx, w.keep[w.at].key)] = w.keep[w.at]]
<1>0. w \in WriterRec /\ w.at \in Cell
  BY DEF TypeInv, WriterType, WriterRec
<1>1. idx' = IF Garbage(w.keep[w.at]) \/ ~CanClaim(idx, w.keep[w.at].key) THEN idx
             ELSE [idx EXCEPT ![Target(idx, w.keep[w.at].key)] = w.keep[w.at]]
  BY DEF Refill
<1>2. CASE w.at + 1 < N
  <2>1. w' = [w EXCEPT !.at = w.at + 1] /\ w.pc = "refill"
    BY <1>2 DEF Refill
  <2> QED
    BY <1>0, <1>1, <2>1 DEF WriterRec
<1>3. CASE ~ (w.at + 1 < N)
  <2>1. w' = [w EXCEPT !.pc = "settle"]
    BY <1>3 DEF Refill
  <2>2. w.at + 1 = N
    BY <1>0, <1>3, IndexAssumption DEF Cell
  <2> QED
    BY <1>0, <1>1, <2>1, <2>2 DEF WriterRec
<1> QED
  BY <1>2, <1>3

LEMMA ArenaEndFields ==
  ASSUME TypeInv, ArenaEnd, w'.pc = "begin"
  PROVE  w'.op = "put" /\ w'.val = w.val
<1>0. w \in WriterRec /\ w.op # "clear" /\ w.op = "put"
  <2>1. w \in WriterRec
    BY DEF TypeInv, WriterType
  <2>2. w.op = "put"
    BY ArenaEndType
  <2> QED
    BY <2>1, <2>2
<1>1. w' = [w EXCEPT !.pc = "begin", !.keep = NoCells, !.at = 0]
  BY <1>0, IdleTypes DEF ArenaEnd
<1> QED
  BY <1>0, <1>1 DEF WriterRec

-----------------------------------------------------------------------------
(* Every step keeps the index in order and every other key at rest.        *)

LEMMA BeginOrder ==
  ASSUME IndexInv,
         \/ \E k \in Key : Remove(k) \/ \E v \in Val : Put(k, v)
         \/ Clear
  PROVE  IndexInv'
<1>1. /\ TypeInv' /\ idx' = idx /\ WriterStep /\ w.pc = "idle"
      /\ \/ /\ w'.pc = "begin" /\ w'.op \in {"put", "remove"}
            /\ w'.op = "put" => w'.val \in Val
            /\ w'.op = "remove" => w'.val = Absent
         \/ w'.pc = "wipe" /\ w'.at = 0 /\ w'.op = "put" /\ w'.val \in Val /\ w'.keep = idx
         \/ w'.pc = "wipe" /\ w'.at = 0 /\ w'.op = "clear"
  BY BeginFields DEF IndexInv
<1>2. stable' = stable
  BY <1>1, ObserveFacts DEF WriterStep, IndexInv
<1>3. IndexOK(idx) /\ \A k \in Key : stable[k] = Lookup(idx, k)
  BY <1>1 DEF IndexInv, OrderInv, RestInv
<1>4. \A c \in Cell : ~ (c < 0)
  BY IndexAssumption DEF Cell
<1>5. OrderInv'
  <2>1. IndexOK(idx') /\ (w'.pc = "wipe" /\ w'.op = "put" => IndexOK(w'.keep))
    BY <1>1, <1>3
  <2> QED
    BY <1>1, <1>4, <2>1 DEF OrderInv, Compacting, Wiping
<1>6. RefillInv' /\ CallInv' /\ EntryInv'
  BY <1>1 DEF RefillInv, Compacting, CallInv, EntryInv, Writing, Wiping
<1>7. RestInv'
  BY <1>1, <1>2, <1>3 DEF RestInv, Compacting, Writing, Wiping
<1> QED
  BY <1>1, <1>5, <1>6, <1>7 DEF IndexInv

\* A store is in favour of the writer's key.
LEMMA StoreFits ==
  ASSUME IndexInv, Stores
  PROVE  /\ Stored /\ Filled /\ TypeInv' /\ w.key \in Key /\ w.cell \in Cell
         /\ IndexOK(idx) /\ OneStore(idx, idx', w.key, w.cell)
         /\ \A k \in Key \ {w.key} : Holds(idx, k, w.cell) => Garbage(idx[w.cell])
         /\ w.op \in {"put", "remove"} /\ stable' = stable
<1>1. Stored /\ Filled /\ TypeInv'
  BY StoreFacts, StoreType, FilledFacts DEF IndexInv
<1>2. /\ WriterStep /\ w.pc \in Writing /\ w'.pc \in Writing
      /\ \A d \in Cell \ {w.cell} : idx'[d] = idx[d]
      /\ idx[w.cell].state # "empty" => idx'[w.cell].state # "empty"
  BY <1>1 DEF Stored
<1>3. /\ w.key \in Key /\ w.cell \in Cell
      /\ w.pc \in {"key", "hash"} => Garbage(idx[w.cell])
      /\ w.pc \in Writing \ {"key", "hash"} => idx[w.cell].key = w.key
  BY <1>2 DEF IndexInv, TypeInv, WriterType, WriterRec, KeyedInv
<1>4. IndexOK(idx) /\ w.op \in {"put", "remove"} /\ stable' = stable
  <2>1. IndexOK(idx) /\ w.op \in {"put", "remove"}
    BY <1>2 DEF IndexInv, OrderInv, CallInv, Writing
  <2>2. stable' = stable
    BY <1>2, ObserveFacts DEF WriterStep, IndexInv, Writing
  <2> QED
    BY <2>1, <2>2
<1>5. /\ Within(idx, w.key, w.cell) /\ \A d \in Cell \ {w.cell} : ~Holds(idx, w.key, d)
      /\ w.pc \in {"off", "len"} => w.op = "put" /\ idx[w.cell].len = 0
      /\ w.pc = "len" => idx[w.cell].off = w.val
      /\ w.pc \in {"flag", "state", "end"} =>
           IF w.op = "put" THEN idx[w.cell].off = w.val /\ idx[w.cell].len = LenOf(w.val)
           ELSE idx[w.cell].len = 0
      /\ w.op = "put" => w.val \in Val
  BY <1>2 DEF IndexInv, EntryInv, CallInv
<1>6. idx'[w.cell].key \in {NoKey, w.key} /\ NoKey \notin Key
  BY <1>1, <1>3, BytesAssumption DEF Stored
<1>7. ASSUME idx'[w.cell].state = "live", idx'[w.cell].key = w.key
      PROVE  Bytes(idx'[w.cell].off, idx'[w.cell].len) # Mixed
  <2>1. w.pc \notin {"key", "hash"}
    BY <1>1, <1>3, <1>6, <1>7 DEF Filled, Garbage
  <2>2. \/ idx'[w.cell].len = 0
        \/ w.val \in Val /\ idx'[w.cell].off = w.val /\ idx'[w.cell].len = LenOf(w.val)
    BY <1>1, <1>4, <1>5, <2>1 DEF Filled
  <2>3. Mixed # Empty /\ Mixed \notin Val
    BY BytesAssumption
  <2> QED
    BY <2>2, <2>3, BytesFacts
<1>8. OneStore(idx, idx', w.key, w.cell)
  BY <1>2, <1>5, <1>6, <1>7 DEF OneStore
<1>9. \A k \in Key \ {w.key} : Holds(idx, k, w.cell) => Garbage(idx[w.cell])
  BY <1>2, <1>3 DEF Holds
<1> QED
  BY <1>1, <1>3, <1>4, <1>8, <1>9

LEMMA StoreKeepsOrder ==
  ASSUME IndexInv, Stores
  PROVE  IndexInv'
<1>1. /\ Stored /\ Filled /\ TypeInv' /\ w.key \in Key /\ w.cell \in Cell
      /\ IndexOK(idx) /\ OneStore(idx, idx', w.key, w.cell)
      /\ \A k \in Key \ {w.key} : Holds(idx, k, w.cell) => Garbage(idx[w.cell])
      /\ w.op \in {"put", "remove"} /\ stable' = stable
  BY StoreFits
<1>2. /\ IndexOK(idx') /\ Within(idx', w.key, w.cell)
      /\ \A d \in Cell \ {w.cell} : ~Holds(idx', w.key, d)
  BY <1>1, StoreOrder
<1>3. /\ w.pc \in Writing /\ w'.pc \in Writing /\ w'.key = w.key /\ w'.cell = w.cell
      /\ w'.op = w.op /\ w'.val = w.val
      /\ NoKey \notin Key
  BY <1>1, BytesAssumption DEF Stored, Filled
<1>4. OrderInv'
  BY <1>2, <1>3 DEF OrderInv, Compacting, Writing, Wiping
<1>5. RefillInv' /\ CallInv'
  BY <1>3 DEF IndexInv, RefillInv, Compacting, CallInv, Writing, Wiping
<1>6. EntryInv'
  <2>1. /\ w.pc \in {"off", "len"} => w.op = "put" /\ idx[w.cell].len = 0
        /\ w.pc = "len" => idx[w.cell].off = w.val
        /\ w.pc \in {"flag", "state", "end"} =>
             IF w.op = "put" THEN idx[w.cell].off = w.val /\ idx[w.cell].len = LenOf(w.val)
             ELSE idx[w.cell].len = 0
        /\ w.pc \in {"state", "end"} => idx[w.cell].dirty
    BY <1>3 DEF IndexInv, EntryInv
  <2>2. w'.pc \in {"key", "hash"} => ~Holds(idx', w.key, w.cell)
    BY <1>1, <1>3 DEF Filled, Holds
  <2>3. /\ w'.pc \in {"off", "len"} => w.op = "put" /\ idx'[w.cell].len = 0
        /\ w'.pc = "len" => idx'[w.cell].off = w.val
    BY <1>1, <2>1 DEF Filled
  <2>4. w'.pc \in {"flag", "state", "end"} =>
          IF w.op = "put" THEN idx'[w.cell].off = w.val /\ idx'[w.cell].len = LenOf(w.val)
          ELSE idx'[w.cell].len = 0
    BY <1>1, <2>1 DEF Filled
  <2>5. /\ w'.pc \in {"state", "end"} => idx'[w.cell].dirty
        /\ w'.pc = "end" => idx'[w.cell].state = IF w.op = "put" THEN "live" ELSE "tomb"
    BY <1>1, <2>1 DEF Filled
  <2> QED
    BY <1>2, <1>3, <2>2, <2>3, <2>4, <2>5 DEF EntryInv
<1>7. RestInv'
  <2>1. /\ \A k \in Key \ {w.key} : stable[k] = Lookup(idx, k)
        /\ w.pc \in {"key", "hash", "zero"} => stable[w.key] = Lookup(idx, w.key)
        /\ w.pc # "end" /\ idx[w.cell].state # "live" => stable[w.key] = Absent
    BY <1>3 DEF IndexInv, RestInv
  <2>2. \A k \in Key \ {w.key} : stable[k] = Lookup(idx', k)
    BY <1>1, <2>1, StoreOther DEF Alike
  <2>3. ASSUME w'.pc \in {"key", "hash", "zero"}
        PROVE  stable[w.key] = Lookup(idx', w.key)
    <3>1. w.pc \in {"key", "hash"} /\ idx'[w.cell].state = idx[w.cell].state
      BY <1>1, <2>3 DEF Filled
    <3>2. idx'[w.cell].state # "live" /\ stable[w.key] = Absent
      BY <2>1, <3>1 DEF IndexInv, TypeInv, KeyedInv, Garbage
    <3>3. CASE Holds(idx', w.key, w.cell)
      BY <1>1, <1>2, <3>2, <3>3, HeldFacts
    <3>4. CASE ~Holds(idx', w.key, w.cell)
      BY <1>1, <1>2, <3>2, <3>4, NotHeld
    <3> QED
      BY <3>3, <3>4
  <2>4. w'.pc # "end" /\ idx'[w.cell].state # "live" => stable[w.key] = Absent
    BY <1>1, <2>1 DEF Filled
  <2> QED
    BY <1>1, <1>3, <2>2, <2>3, <2>4 DEF RestInv, Compacting, Writing, Wiping
<1> QED
  BY <1>1, <1>4, <1>5, <1>6, <1>7 DEF IndexInv

LEMMA SeqBeginOrder ==
  ASSUME IndexInv, SeqBegin
  PROVE  IndexInv'
<1>1. /\ TypeInv' /\ WriterStep /\ idx' = idx
      /\ w.pc = "begin" /\ w'.pc \in Writing /\ w'.key = w.key /\ w.key \in Key
      /\ w'.cell = Target(idx, w.key) /\ CanClaim(idx, w.key)
  BY SeqBeginType DEF IndexInv
<1>2. /\ w'.op = w.op /\ w'.val = w.val /\ w'.pc \in {"zero", "key"}
      /\ w'.pc = "zero" <=> Found(idx, w.key)
  BY SeqBeginFields DEF IndexInv
<1>3. stable' = stable
  BY <1>1, <1>2, ObserveFacts DEF WriterStep, IndexInv
<1>4. /\ IndexOK(idx) /\ idx \in [Cell -> Entry]
      /\ \A k \in Key : stable[k] = Lookup(idx, k)
  BY <1>1 DEF IndexInv, OrderInv, RestInv, TypeInv, SegmentType
<1> DEFINE c == Target(idx, w.key)
<1>5. c \in Cell /\ Within(idx, w.key, c)
  BY <1>1, <1>4, TargetFacts DEF Within
<1>6. /\ Found(idx, w.key) => Holds(idx, w.key, c)
      /\ ~Found(idx, w.key) => \A d \in Cell : ~Holds(idx, w.key, d)
  BY <1>1, <1>4, FoundIsHeld
<1> HIDE DEF c
<1>7. /\ \A d \in Cell \ {c} : ~Holds(idx, w.key, d)
      /\ idx[c].state # "live" => Lookup(idx, w.key) = Absent
  <2>1. CASE Found(idx, w.key)
    BY <1>1, <1>4, <1>5, <1>6, <2>1, HeldFacts
  <2>2. CASE ~Found(idx, w.key)
    BY <1>1, <1>6, <2>2, NotHeld
  <2> QED
    BY <2>1, <2>2
<1>8. w'.cell = c
  BY <1>1 DEF c
<1>9. OrderInv'
  <2>1. IndexOK(idx')
    BY <1>1, <1>4
  <2> QED
    BY <1>2, <2>1 DEF OrderInv, Compacting, Wiping
<1>10. RefillInv' /\ CallInv'
  BY <1>1, <1>2 DEF IndexInv, RefillInv, Compacting, CallInv, Writing, Wiping
<1>11. EntryInv'
  <2>1. Within(idx', w'.key, w'.cell)
    BY <1>1, <1>5, <1>8
  <2>2. /\ \A d \in Cell \ {w'.cell} : ~Holds(idx', w'.key, d)
        /\ w'.pc = "key" => ~Holds(idx', w'.key, w'.cell)
    BY <1>1, <1>2, <1>5, <1>6, <1>7, <1>8
  <2> QED
    BY <1>2, <2>1, <2>2 DEF EntryInv
<1>12. RestInv'
  <2>1. \A k \in Key : stable'[k] = Lookup(idx', k)
    BY <1>1, <1>3, <1>4
  <2>2. idx'[w'.cell].state # "live" => stable'[w'.key] = Absent
    BY <1>1, <1>3, <1>4, <1>7, <1>8
  <2> QED
    BY <1>1, <1>2, <2>1, <2>2 DEF RestInv, Compacting, Writing, Wiping
<1> QED
  BY <1>1, <1>9, <1>10, <1>11, <1>12 DEF IndexInv

\* The writer goes away or on to the counters of a clear.
LEMMA LeaveOrder ==
  ASSUME IndexInv, TypeInv', Observe, rd' = rd, cache' = cache, idx' = idx,
         w.pc # "wipe", w'.pc \in {"idle", "bump"},
         w'.pc = "bump" => w'.op = "clear" /\ \A c \in Cell : idx[c].state = "empty"
  PROVE  IndexInv'
<1>1. \A k \in Key : stable'[k] = Lookup(idx', k)
  BY ObserveFacts DEF IndexInv
<1>2. IndexOK(idx')
  BY DEF IndexInv, OrderInv
<1>3. OrderInv'
  BY <1>2 DEF OrderInv, Compacting, Wiping
<1>4. RefillInv' /\ CallInv' /\ EntryInv'
  BY DEF RefillInv, Compacting, CallInv, EntryInv, Writing, Wiping
<1>5. RestInv'
  BY <1>1 DEF RestInv, Compacting, Writing, Wiping
<1> QED
  BY <1>3, <1>4, <1>5 DEF IndexInv

LEMMA DiesOutside ==
  ASSUME IndexInv, WriterDies, DiesIn \subseteq {"put", "remove"}
  PROVE  w.pc \in {"begin"} \cup Writing /\ w.op \in DiesIn
<1>1. Inside \in {"put", "remove"} /\ Inside \in DiesIn /\ w.pc # "idle"
  BY DEF WriterDies
<1>2. w.pc \notin Wiping
  BY <1>1 DEF IndexInv, TypeInv, WriterType, Inside, Wiping
<1>3. w.pc # "bump"
  BY <1>1, <1>2 DEF IndexInv, OrderInv, Inside, Wiping
<1>4. w.pc \in {"idle", "begin", "bump"} \cup Writing \cup Wiping
  BY DEF IndexInv, TypeInv, WriterType, WriterRec
<1> QED
  BY <1>1, <1>2, <1>3, <1>4 DEF Inside, Wiping

LEMMA WipeOrder ==
  ASSUME IndexInv, WipeCell
  PROVE  IndexInv'
<1>1. /\ TypeInv' /\ WriterStep /\ w.pc = "wipe" /\ w.at \in Cell
      /\ idx' = [idx EXCEPT ![w.at] = Wiped] /\ w'.pc \in Wiping
  BY WipeType DEF IndexInv
<1>2. /\ w'.op = w.op /\ w'.val = w.val /\ w'.keep = w.keep
      /\ \/ w'.pc = "wipe" /\ w'.at = w.at + 1
         \/ /\ w.at + 1 = N /\ w'.at = 0
            /\ w'.pc = IF w.op = "clear" THEN "settle" ELSE "refill"
  BY WipeFields DEF IndexInv
<1>3. stable' = stable
  BY <1>1, ObserveFacts DEF WriterStep, IndexInv, Wiping
<1>4. \A c \in Cell : c < w.at + 1 => idx'[c] = Wiped
  <2>1. idx \in [Cell -> Entry] /\ \A c \in Cell : c < w.at => idx[c] = Wiped
    BY <1>1 DEF IndexInv, TypeInv, SegmentType, OrderInv
  <2>2. \A c \in Cell : c < w.at + 1 => c = w.at \/ c < w.at
    BY <1>1, IndexAssumption DEF Cell
  <2> QED
    BY <1>1, <2>1, <2>2
<1>5. ASSUME w'.pc # "wipe" PROVE \A c \in Cell : idx'[c].state = "empty"
  <2>1. \A c \in Cell : c < N
    BY IndexAssumption DEF Cell
  <2> QED
    BY <1>2, <1>4, <1>5, <2>1 DEF Wiped
<1>6. /\ w.op \in {"clear", "put"}
      /\ w.op = "put" => IndexOK(w.keep) /\ \A k \in Key : stable[k] = Lookup(w.keep, k)
  BY <1>1 DEF IndexInv, TypeInv, WriterType, OrderInv, RestInv, Compacting, Wiping
<1>7. OrderInv'
  <2>1. w'.pc # "wipe" => IndexOK(idx')
    BY <1>5, EmptyIndex
  <2>2. w'.op = "put" => IndexOK(w'.keep)
    BY <1>2, <1>6
  <2>3. w'.pc = "wipe" => \A c \in Cell : c < w'.at => idx'[c] = Wiped
    BY <1>2, <1>4
  <2> QED
    BY <1>1, <1>2, <1>5, <2>1, <2>2, <2>3 DEF OrderInv, Compacting, Wiping
<1>8. RefillInv'
  <2> SUFFICES ASSUME Compacting', w'.pc # "wipe" PROVE RefillInv'
    BY DEF RefillInv
  <2>1. w'.pc = "refill" /\ w'.at = 0
    BY <1>2 DEF Compacting
  <2>2. \A c \in Cell : ~ (c < 0)
    BY IndexAssumption DEF Cell
  <2> QED
    BY <1>5, <2>1, <2>2 DEF RefillInv
<1>9. CallInv' /\ EntryInv'
  BY <1>1, <1>2, <1>6 DEF IndexInv, CallInv, EntryInv, Writing, Wiping
<1>10. RestInv'
  BY <1>1, <1>2, <1>3, <1>6 DEF RestInv, Compacting, Writing, Wiping
<1> QED
  BY <1>1, <1>7, <1>8, <1>9, <1>10 DEF IndexInv

LEMMA RefillOrder ==
  ASSUME IndexInv, HasRoom, Refill
  PROVE  IndexInv'
<1> DEFINE e == w.keep[w.at]
           t == Target(idx, e.key)
<1>1. TypeInv' /\ WriterStep /\ w.pc = "refill" /\ w'.pc \in {"refill", "settle"}
  BY RefillType DEF IndexInv
<1>2. /\ w'.op = w.op /\ w'.val = w.val /\ w'.keep = w.keep /\ w.at \in Cell
      /\ \/ w'.pc = "refill" /\ w'.at = w.at + 1
         \/ w'.pc = "settle" /\ w.at + 1 = N
      /\ idx' = IF Garbage(e) \/ ~CanClaim(idx, e.key) THEN idx
                ELSE [idx EXCEPT ![t] = e]
  BY RefillFields DEF IndexInv
<1>3. stable' = stable
  BY <1>1, ObserveFacts DEF WriterStep, IndexInv
<1>4. /\ w.op = "put" /\ Compacting /\ IndexOK(idx) /\ IndexOK(w.keep)
      /\ w.keep \in [Cell -> Entry] /\ idx \in [Cell -> Entry] /\ w.val \in Val
      /\ \A k \in Key : stable[k] = Lookup(w.keep, k)
  <2>1. w.op = "put" /\ w.keep \in [Cell -> Entry] /\ idx \in [Cell -> Entry]
    BY <1>1 DEF IndexInv, TypeInv, WriterType, SegmentType, WriterRec, Wiping
  <2>2. Compacting
    BY <1>1, <2>1 DEF Compacting, Wiping
  <2>3. w.val \in Val
    BY <1>1, <2>1 DEF IndexInv, CallInv, Wiping
  <2>4. IndexOK(idx) /\ IndexOK(w.keep) /\ \A k \in Key : stable[k] = Lookup(w.keep, k)
    BY <1>1, <2>2 DEF IndexInv, OrderInv, RestInv
  <2> QED
    BY <2>1, <2>2, <2>3, <2>4
<1>5. /\ \A c \in Cell : idx[c].state # "empty" =>
           /\ idx[c].key \in Key /\ ~Garbage(idx[c])
           /\ \E p \in Cell : idx[c] = w.keep[p] /\ p < w.at
      /\ \A p \in Cell : ~Garbage(w.keep[p]) /\ p < w.at => \E c \in Cell : idx[c] = w.keep[p]
  BY <1>1, <1>4 DEF IndexInv, RefillInv
<1> DEFINE Done(p) == w'.pc = "refill" => p < w'.at
<1>6. /\ \A p \in Cell : p < w.at => Done(p)
      /\ Done(w.at)
      /\ \A p \in Cell : Done(p) => p < w.at \/ p = w.at
  BY <1>2, IndexAssumption DEF Cell
<1> HIDE DEF Done
<1>7. /\ IndexOK(idx')
      /\ \A c \in Cell : idx'[c].state # "empty" =>
           /\ idx'[c].key \in Key /\ ~Garbage(idx'[c])
           /\ \E p \in Cell : idx'[c] = w.keep[p] /\ Done(p)
      /\ \A p \in Cell : ~Garbage(w.keep[p]) /\ Done(p) => \E c \in Cell : idx'[c] = w.keep[p]
  <2>1. CASE Garbage(e)
    <3>1. idx' = idx
      BY <1>2, <2>1
    <3>2. \A p \in Cell : ~Garbage(w.keep[p]) => p # w.at
      BY <2>1
    <3> HIDE DEF e
    <3> QED
      BY <1>4, <1>5, <1>6, <3>1, <3>2
  <2>2. CASE ~Garbage(e)
    <3>1. /\ CanClaim(idx, e.key) /\ e \in Entry /\ e.key \in Key /\ e.state # "empty"
      <4>1. e \in Entry /\ e.key # NoKey
        BY <1>1, <1>2, <1>4, <2>2 DEF IndexInv, TypeInv, KeyedInv, Wiping
      <4>2. e.key \in Key
        BY <4>1 DEF Entry
      <4> QED
        BY <1>1, <2>2, <4>1, <4>2 DEF HasRoom, Garbage
    <3>2. e = w.keep[w.at]
      OBVIOUS
    <3> HIDE DEF e
    <3>3. /\ t \in Cell
          /\ Found(idx, e.key) => Holds(idx, e.key, t)
          /\ ~Found(idx, e.key) => Garbage(idx[t])
          /\ Within(idx, e.key, t)
      BY <1>4, <3>1, TargetFacts DEF Within, Holds
    <3>4. \A c \in Cell : ~Holds(idx, e.key, c)
      <4> SUFFICES ASSUME NEW c \in Cell, Holds(idx, e.key, c) PROVE FALSE
        OBVIOUS
      <4>1. PICK p \in Cell : idx[c] = w.keep[p] /\ p < w.at
        BY <1>5 DEF Holds
      <4>2. Holds(w.keep, e.key, p) /\ Holds(w.keep, e.key, w.at)
        BY <3>1, <3>2, <4>1 DEF Holds
      <4>3. p = w.at
        BY <1>2, <1>4, <3>1, <4>2, HeldFacts
      <4> QED
        BY <1>2, <4>1, <4>3, IndexAssumption DEF Cell
    <3>5. idx[t].state = "empty"
      BY <1>5, <3>3, <3>4
    <3>6. idx' = [idx EXCEPT ![t] = e]
      BY <1>2, <2>2, <3>1
    <3>7. idx'[t] = e /\ \A d \in Cell \ {t} : idx'[d] = idx[d]
      BY <1>4, <3>3, <3>6
    <3>8. OneStore(idx, idx', e.key, t)
      <4>1. e.state = "live" => Bytes(e.off, e.len) # Mixed
        BY <1>2, <1>4, <3>1, <3>2 DEF IndexOK
      <4> QED
        BY <3>1, <3>3, <3>4, <3>5, <3>7, <4>1 DEF OneStore
    <3>9. IndexOK(idx')
      BY <1>4, <3>1, <3>3, <3>8, StoreOrder
    <3>10. \A c \in Cell : idx'[c].state # "empty" =>
             /\ idx'[c].key \in Key /\ ~Garbage(idx'[c])
             /\ \E p \in Cell : idx'[c] = w.keep[p] /\ Done(p)
      <4> SUFFICES ASSUME NEW c \in Cell, idx'[c].state # "empty"
                   PROVE  /\ idx'[c].key \in Key /\ ~Garbage(idx'[c])
                          /\ \E p \in Cell : idx'[c] = w.keep[p] /\ Done(p)
        OBVIOUS
      <4>1. CASE c = t
        BY <1>2, <1>6, <2>2, <3>1, <3>2, <3>7, <4>1
      <4>2. CASE c # t
        <5>1. idx'[c] = idx[c]
          BY <3>7, <4>2
        <5> QED
          BY <1>5, <1>6, <5>1
      <4> QED
        BY <4>1, <4>2
    <3>11. ASSUME NEW p \in Cell, ~Garbage(w.keep[p]), Done(p)
           PROVE  \E c \in Cell : idx'[c] = w.keep[p]
      <4>1. CASE p = w.at
        BY <3>2, <3>3, <3>7, <4>1
      <4>2. CASE p < w.at
        <5>1. PICK c \in Cell : idx[c] = w.keep[p]
          BY <1>5, <3>11, <4>2
        <5>2. c # t
          BY <3>5, <3>11, <5>1 DEF Garbage
        <5> QED
          BY <3>7, <5>1, <5>2
      <4> QED
        BY <1>6, <3>11, <4>1, <4>2
    <3> QED
      BY <3>9, <3>10, <3>11
  <2> QED
    BY <2>1, <2>2
<1>8. OrderInv'
  BY <1>1, <1>2, <1>4, <1>7 DEF OrderInv, Compacting, Wiping
<1>9. RefillInv'
  BY <1>2, <1>7 DEF RefillInv, Done
<1>10. CallInv' /\ EntryInv'
  BY <1>1, <1>2, <1>4 DEF CallInv, EntryInv, Writing, Wiping
<1>11. RestInv'
  BY <1>1, <1>2, <1>3, <1>4 DEF RestInv, Compacting, Writing, Wiping
<1> QED
  BY <1>1, <1>8, <1>9, <1>10, <1>11 DEF IndexInv

\* Once every entry is back the index has what the snapshot had.
LEMMA SettledSame ==
  ASSUME IndexInv, w.pc = "settle", w.op = "put", NEW k \in Key
  PROVE  Alike(w.keep, idx, k) /\ stable[k] = Lookup(idx, k)
<1>1. /\ IndexOK(idx) /\ IndexOK(w.keep) /\ stable[k] = Lookup(w.keep, k)
      /\ \A c \in Cell : idx[c].state # "empty" =>
           /\ idx[c].key \in Key /\ ~Garbage(idx[c])
           /\ \E p \in Cell : idx[c] = w.keep[p]
      /\ \A p \in Cell : ~Garbage(w.keep[p]) => \E c \in Cell : idx[c] = w.keep[p]
  <2>1. Compacting
    BY DEF Compacting, Wiping
  <2>2. IndexOK(idx) /\ IndexOK(w.keep) /\ stable[k] = Lookup(w.keep, k)
    BY <2>1 DEF IndexInv, OrderInv, RestInv
  <2> QED
    BY <2>1, <2>2 DEF IndexInv, RefillInv
<1>2. CASE \E p \in Cell : Holds(w.keep, k, p) /\ ~Garbage(w.keep[p])
  <2>1. PICK p \in Cell, c \in Cell : Holds(w.keep, k, p) /\ idx[c] = w.keep[p]
    BY <1>1, <1>2
  <2>2. Holds(idx, k, c)
    BY <2>1 DEF Holds
  <2>3. /\ Found(idx, k) /\ Target(idx, k) = c
        /\ Lookup(idx, k) = IF idx[c].state = "live" THEN Bytes(idx[c].off, idx[c].len)
                            ELSE Absent
    BY <1>1, <2>2, HeldFacts
  <2>4. /\ Found(w.keep, k) /\ Target(w.keep, k) = p
        /\ Lookup(w.keep, k) = IF w.keep[p].state = "live"
                               THEN Bytes(w.keep[p].off, w.keep[p].len) ELSE Absent
    BY <1>1, <2>1, HeldFacts
  <2> QED
    BY <1>1, <2>1, <2>3, <2>4 DEF Alike, Flagged
<1>3. CASE \A p \in Cell : Holds(w.keep, k, p) => Garbage(w.keep[p])
  <2>1. \A c \in Cell : ~Holds(idx, k, c)
    BY <1>1, <1>3 DEF Holds
  <2>2. ~Found(idx, k) /\ Lookup(idx, k) = Absent
    BY <2>1, NotHeld
  <2>3. Lookup(w.keep, k) = Absent /\ ~Flagged(w.keep, k)
    <3>1. CASE \E p \in Cell : Holds(w.keep, k, p)
      <4>1. PICK p \in Cell : Holds(w.keep, k, p)
        BY <3>1
      <4>2. w.keep[p].state # "live" /\ ~w.keep[p].dirty
        BY <1>3, <4>1 DEF Holds, Garbage
      <4>3. /\ Target(w.keep, k) = p
            /\ Lookup(w.keep, k) = IF w.keep[p].state = "live"
                                   THEN Bytes(w.keep[p].off, w.keep[p].len) ELSE Absent
        BY <1>1, <4>1, HeldFacts
      <4> QED
        BY <4>2, <4>3 DEF Flagged
    <3>2. CASE \A p \in Cell : ~Holds(w.keep, k, p)
      BY <3>2, NotHeld DEF Flagged
    <3> QED
      BY <3>1, <3>2
  <2> QED
    BY <1>1, <2>2, <2>3 DEF Alike, Flagged
<1> QED
  BY <1>2, <1>3

LEMMA ArenaEndOrder ==
  ASSUME IndexInv, ArenaEnd
  PROVE  IndexInv'
<1>1. /\ TypeInv' /\ WriterStep /\ idx' = idx /\ w.pc = "settle"
      /\ \/ w.op = "clear" /\ w'.op = "clear" /\ w'.pc = "bump"
         \/ w.op = "put" /\ w'.pc \in {"begin", "idle"}
  BY ArenaEndType DEF IndexInv
<1>2. CASE w'.pc \in {"idle", "bump"}
  <2>1. w'.pc = "bump" => w'.op = "clear" /\ \A c \in Cell : idx[c].state = "empty"
    BY <1>1 DEF IndexInv, OrderInv
  <2> QED
    BY <1>1, <1>2, <2>1, LeaveOrder DEF WriterStep
<1>3. CASE w'.pc = "begin"
  <2>1. w.op = "put" /\ w'.op = "put" /\ w'.val = w.val
    BY <1>1, <1>3, ArenaEndFields DEF IndexInv
  <2>2. stable' = stable
    BY <1>1, <1>3, ObserveFacts DEF WriterStep, IndexInv
  <2>3. IndexOK(idx') /\ \A k \in Key : stable'[k] = Lookup(idx', k)
    <3>1. IndexOK(idx)
      BY <1>1 DEF IndexInv, OrderInv
    <3>2. \A k \in Key : stable[k] = Lookup(idx, k)
      BY <1>1, <2>1, SettledSame
    <3> QED
      BY <1>1, <2>2, <3>1, <3>2
  <2>4. w'.val \in Val
    BY <1>1, <2>1 DEF IndexInv, CallInv, Wiping
  <2>5. OrderInv'
    BY <1>3, <2>3 DEF OrderInv, Compacting, Wiping
  <2>6. RefillInv' /\ CallInv' /\ EntryInv'
    BY <1>3, <2>1, <2>4 DEF RefillInv, Compacting, CallInv, EntryInv, Writing, Wiping
  <2>7. RestInv'
    BY <1>3, <2>3 DEF RestInv, Compacting, Writing, Wiping
  <2> QED
    BY <1>1, <2>5, <2>6, <2>7 DEF IndexInv
<1> QED
  BY <1>1, <1>2, <1>3

\* Flags do not matter to a probe that finds its key, or to a lookup.
LEMMA FlagsAside ==
  ASSUME NEW ix, NEW iy, IndexOK(ix),
         \A c \in Cell : /\ iy[c].state = ix[c].state /\ iy[c].key = ix[c].key
                         /\ iy[c].off = ix[c].off /\ iy[c].len = ix[c].len
  PROVE  IndexOK(iy) /\ \A k \in Key : Lookup(iy, k) = Lookup(ix, k)
<1>1. \A k \in Key, c \in Cell : /\ Within(ix, k, c) => Within(iy, k, c)
                                 /\ Holds(iy, k, c) <=> Holds(ix, k, c)
  BY CellAtFacts DEF Within, Holds
<1>2. IndexOK(iy)
  <2> SUFFICES ASSUME NEW c \in Cell, iy[c].state # "empty", iy[c].key \in Key
               PROVE  /\ Within(iy, iy[c].key, c)
                      /\ \A d \in Cell : Holds(iy, iy[c].key, d) => d = c
                      /\ iy[c].state = "live" => Bytes(iy[c].off, iy[c].len) # Mixed
    BY DEF IndexOK
  <2>1. ix[c].state # "empty" /\ ix[c].key \in Key /\ iy[c].key = ix[c].key
    OBVIOUS
  <2>2. /\ Within(ix, ix[c].key, c)
        /\ \A d \in Cell : Holds(ix, ix[c].key, d) => d = c
        /\ ix[c].state = "live" => Bytes(ix[c].off, ix[c].len) # Mixed
    BY <2>1 DEF IndexOK
  <2> QED
    BY <1>1, <2>1, <2>2
<1>3. ASSUME NEW k \in Key PROVE Lookup(iy, k) = Lookup(ix, k)
  <2>1. CASE \E c \in Cell : Holds(ix, k, c)
    <3>1. PICK c \in Cell : Holds(ix, k, c) /\ Holds(iy, k, c)
      BY <1>1, <2>1
    <3>2. Lookup(ix, k) = IF ix[c].state = "live" THEN Bytes(ix[c].off, ix[c].len) ELSE Absent
      BY <3>1, HeldFacts
    <3>3. Lookup(iy, k) = IF iy[c].state = "live" THEN Bytes(iy[c].off, iy[c].len) ELSE Absent
      BY <1>2, <3>1, HeldFacts
    <3> QED
      BY <3>2, <3>3
  <2>2. CASE \A c \in Cell : ~Holds(ix, k, c)
    BY <1>1, <2>2, NotHeld
  <2> QED
    BY <2>1, <2>2
<1> QED
  BY <1>2, <1>3

LEMMA CommitOrder ==
  ASSUME IndexInv, Commit
  PROVE  IndexInv'
<1>1. /\ TypeInv' /\ w' = w /\ stable' = stable /\ w.pc = "idle"
      /\ \A c \in Cell : /\ idx'[c].state = idx[c].state /\ idx'[c].key = idx[c].key
                         /\ idx'[c].off = idx[c].off /\ idx'[c].len = idx[c].len
  BY CommitType DEF IndexInv
<1>2. IndexOK(idx) /\ \A k \in Key : stable[k] = Lookup(idx, k)
  BY <1>1 DEF IndexInv, OrderInv, RestInv
<1>3. IndexOK(idx') /\ \A k \in Key : stable'[k] = Lookup(idx', k)
  BY <1>1, <1>2, FlagsAside
<1>4. OrderInv'
  BY <1>1, <1>3 DEF OrderInv, Compacting, Wiping
<1>5. RefillInv' /\ CallInv' /\ EntryInv'
  BY <1>1 DEF RefillInv, Compacting, CallInv, EntryInv, Writing, Wiping
<1>6. RestInv'
  BY <1>1, <1>3 DEF RestInv, Compacting, Writing, Wiping
<1> QED
  BY <1>1, <1>4, <1>5, <1>6 DEF IndexInv

\* The reader leaves index and writer alone.
LEMMA FrameOrder ==
  ASSUME IndexInv, TypeInv', UNCHANGED <<idx, w, stable>>
  PROVE  IndexInv'
<1>1. OrderInv'
  BY DEF IndexInv, OrderInv, Compacting
<1>2. RefillInv' /\ CallInv'
  BY DEF IndexInv, RefillInv, Compacting, CallInv
<1>3. EntryInv'
  BY DEF IndexInv, EntryInv
<1>4. RestInv'
  BY DEF IndexInv, RestInv, Compacting
<1> QED
  BY <1>1, <1>2, <1>3, <1>4 DEF IndexInv

\* nvram_init has loaded at most one variable: its entry is in its home cell.
LEMMA InitIndex ==
  ASSUME Init
  PROVE  IndexInv /\ \A k \in Key : Lookup(idx, k) = saved[k]
<1>0. TypeInv /\ w.pc = "idle"
  BY InitType, IdleTypes DEF Init
<1>1. /\ saved \in [Key -> Val \cup {Absent}] /\ stable = saved
      /\ \A i, k \in Loaded(saved) : i = k
  BY DEF Init
<1> DEFINE L == Loaded(saved)
           k0 == CHOOSE i \in L : TRUE
           e0 == [state |-> "live", key |-> k0, off |-> saved[k0], len |-> Length[saved[k0]],
                  dirty |-> FALSE]
<1>2. idx = [c \in Cell |-> IF \E k \in L : Home[k] = c THEN e0 ELSE Wiped]
  BY DEF Init
<1>3. ASSUME NEW k \in L PROVE k0 = k
  BY <1>1, <1>3
<1>4. L \subseteq Key /\ Home \in [Key -> Cell] /\ N \in Nat \ {0}
  BY IndexAssumption DEF Loaded
<1>5. ASSUME NEW c \in Cell, idx[c].state # "empty"
      PROVE  k0 \in L /\ Home[k0] = c /\ idx[c] = e0
  <2>1. \E k \in L : Home[k] = c
    BY <1>2, <1>5 DEF Wiped
  <2> QED
    BY <1>2, <1>3, <2>1
<1>6. e0.state = "live" /\ e0.key = k0 /\ e0.off = saved[k0] /\ e0.len = Length[saved[k0]]
  OBVIOUS
<1>7. ASSUME NEW k \in L
      PROVE  Home[k] \in Cell /\ Holds(idx, k, Home[k]) /\ idx[Home[k]] = e0
  <2>1. Home[k] \in Cell
    BY <1>4
  <2>2. idx[Home[k]] = e0
    BY <1>2, <2>1
  <2> QED
    BY <1>3, <1>6, <2>1, <2>2 DEF Holds
<1> HIDE DEF e0, k0
<1>8. ASSUME NEW k \in L PROVE saved[k] \in Val /\ Bytes(saved[k], Length[saved[k]]) = saved[k]
  <2>1. saved[k] \in Val
    BY <1>1, <1>4, <1>8 DEF Loaded
  <2> QED
    BY <2>1, BytesFacts DEF LenOf
<1>9. IndexOK(idx)
  <2> SUFFICES ASSUME NEW c \in Cell, idx[c].state # "empty", idx[c].key \in Key
               PROVE  /\ Within(idx, idx[c].key, c)
                      /\ \A d \in Cell : Holds(idx, idx[c].key, d) => d = c
                      /\ idx[c].state = "live" => Bytes(idx[c].off, idx[c].len) # Mixed
    BY DEF IndexOK
  <2>1. k0 \in L /\ Home[k0] = c /\ idx[c] = e0
    BY <1>5
  <2>2. \A d \in Cell : Holds(idx, idx[c].key, d) => d = c
    BY <1>5, <2>1 DEF Holds
  <2>3. Bytes(idx[c].off, idx[c].len) # Mixed
    BY <1>6, <1>8, <2>1, BytesAssumption
  <2>4. CellAt(k0, 0) = c
    <3>1. Home[k0] \in 0 .. N - 1 /\ N \in Nat \ {0}
      BY <1>4, <2>1 DEF Cell
    <3>2. (Home[k0] + 0) % N = Home[k0]
      BY <3>1
    <3> QED
      BY <2>1, <3>2 DEF CellAt
  <2>5. 0 \in Window /\ \A i \in Window : ~ (i < 0)
    BY WindowFacts
  <2>6. Within(idx, k0, c)
    BY <2>4, <2>5 DEF Within
  <2> QED
    BY <1>6, <2>1, <2>2, <2>3, <2>6
<1>10. ASSUME NEW k \in Key PROVE Lookup(idx, k) = saved[k]
  <2>1. CASE k \in L
    <3>1. Home[k] \in Cell /\ Holds(idx, k, Home[k]) /\ idx[Home[k]] = e0 /\ k0 = k
      BY <1>3, <1>7, <2>1
    <3>2. Lookup(idx, k) = Bytes(saved[k], Length[saved[k]])
      BY <1>6, <1>9, <3>1, HeldFacts
    <3> QED
      BY <1>8, <2>1, <3>2
  <2>2. CASE k \notin L
    <3>1. saved[k] = Absent
      BY <2>2 DEF Loaded
    <3>2. \A c \in Cell : ~Holds(idx, k, c)
      BY <1>5, <1>6, <2>2 DEF Holds
    <3> QED
      BY <3>1, <3>2, NotHeld
  <2> QED
    BY <2>1, <2>2
<1>11. OrderInv /\ RefillInv /\ CallInv /\ EntryInv
  BY <1>0, <1>9 DEF OrderInv, RefillInv, Compacting, CallInv, EntryInv, Writing, Wiping
<1>12. RestInv
  BY <1>0, <1>1, <1>10 DEF RestInv, Compacting, Writing, Wiping
<1> QED
  BY <1>0, <1>10, <1>11, <1>12 DEF IndexInv

LEMMA NextIndex ==
  ASSUME IndexInv, HasRoom, [Next]_vars, DiesIn \subseteq {"put", "remove"}
  PROVE  IndexInv'
<1>0. TypeInv /\ TypeInv'
  BY NextType DEF IndexInv
<1>1. CASE UNCHANGED vars
  BY <1>0, <1>1, FrameOrder DEF vars
<1>2. CASE \/ \E k \in Key : Remove(k) \/ \E v \in Val : Put(k, v)
           \/ Clear
  BY <1>2, BeginOrder
<1>3. CASE Commit
  BY <1>3, CommitOrder
<1>4. CASE Stores
  BY <1>4, StoreKeepsOrder
<1>5. CASE SeqBegin \/ WipeCell \/ Refill \/ ArenaEnd
  BY <1>5, SeqBeginOrder, WipeOrder, RefillOrder, ArenaEndOrder
<1>6. CASE SeqEnd
  <2>1. WriterStep /\ idx' = idx /\ w.pc = "end" /\ w'.pc = "idle"
    BY <1>0, <1>6, SeqEndType DEF SeqEnd
  <2> QED
    BY <1>0, <2>1, LeaveOrder DEF WriterStep
<1>7. CASE BumpSlot
  <2>1. /\ Observe /\ UNCHANGED <<idx, arena, rd, cache>> /\ w.pc = "bump"
        /\ w'.pc = "idle" \/ (w'.pc = "bump" /\ w'.op = w.op)
    BY <1>0, <1>7, BumpType
  <2>2. w.op = "clear" /\ \A c \in Cell : idx[c].state = "empty"
    BY <2>1 DEF IndexInv, OrderInv
  <2> QED
    BY <1>0, <2>1, <2>2, LeaveOrder
<1>8. CASE WriterDies
  <2>1. Observe /\ UNCHANGED <<idx, slots, arena, rd, cache>> /\ w'.pc = "idle"
    BY <1>0, <1>8, DiesType
  <2>2. w.pc # "wipe"
    BY <1>8, DiesOutside DEF Writing
  <2> QED
    BY <1>0, <2>1, <2>2, LeaveOrder
<1>9. ASSUME NEW r \in Reader, Looks(r) \/ ReadLocked(r) \/ ReadReturn(r) PROVE IndexInv'
  <2>1. UNCHANGED <<idx, w, stable>>
    BY <1>0, <1>9, LooksFacts, LockedType, ReturnType DEF Becomes, ReadLocked
  <2> QED
    BY <1>0, <2>1, FrameOrder
<1>10. ASSUME NEW r \in Reader, NEW k \in Key, ReadBegin(r, k) PROVE IndexInv'
  <2>1. UNCHANGED <<idx, w, stable>>
    BY <1>0, <1>10, BeginReadType
  <2> QED
    BY <1>0, <2>1, FrameOrder
<1> QED
  BY <1>1, <1>2, <1>3, <1>4, <1>5, <1>6, <1>7, <1>8, <1>9, <1>10
  DEF Next, Writer, WriterGoesOn, ReaderGoesOn, Stores, Looks

-----------------------------------------------------------------------------
(* The theorems.                                                           *)

\* A compaction drops garbage and clean tombstones and no variable: when it ends its
\* arena window every key has the value it had before, wherever its entry went.
\* (Segment::compact)
THEOREM Compacts ==
  ASSUME DiesIn \subseteq {"put", "remove"}
  PROVE  Spec /\ []HasRoom => []CompactionKeeps
<1>1. IndexInv => CompactionKeeps
  BY SettledSame DEF CompactionKeeps
<1>2. IndexInv /\ HasRoom /\ [Next]_vars => IndexInv'
  BY NextIndex
<1>3. Init => IndexInv
  BY InitIndex
<1> QED
  BY <1>1, <1>2, <1>3, PTL DEF Spec

\* What a probe for k makes of the cell that a writer of k fills.
LEMMA EntryNow ==
  ASSUME NEW ix, NEW k \in Key, NEW c \in Cell, IndexOK(ix),
         \A d \in Cell \ {c} : ~Holds(ix, k, d), ix[c].key = k \/ Garbage(ix[c])
  PROVE  /\ Lookup(ix, k) = IF ix[c].state = "live" THEN Bytes(ix[c].off, ix[c].len)
                            ELSE Absent
         /\ Flagged(ix, k) <=> ix[c].state # "empty" /\ ix[c].dirty
<1>1. CASE Holds(ix, k, c)
  <2>1. /\ Found(ix, k) /\ Target(ix, k) = c /\ ix[c].state # "empty"
        /\ Lookup(ix, k) = IF ix[c].state = "live" THEN Bytes(ix[c].off, ix[c].len)
                           ELSE Absent
    BY <1>1, HeldFacts DEF Holds
  <2> QED
    BY <2>1 DEF Flagged
<1>2. CASE ~Holds(ix, k, c)
  <2>1. ~Found(ix, k) /\ Lookup(ix, k) = Absent
    BY <1>2, NotHeld
  <2>2. ix[c].state # "live" /\ ~ (ix[c].state # "empty" /\ ix[c].dirty)
    BY <1>2 DEF Holds, Garbage
  <2> QED
    BY <2>1, <2>2 DEF Flagged
<1> QED
  BY <1>1, <1>2

LEMMA WriterEntry ==
  ASSUME IndexInv, w.pc \in Writing
  PROVE  /\ w.key \in Key /\ w.cell \in Cell
         /\ Lookup(idx, w.key) = IF idx[w.cell].state = "live"
                                 THEN Bytes(idx[w.cell].off, idx[w.cell].len) ELSE Absent
         /\ Flagged(idx, w.key) <=> idx[w.cell].state # "empty" /\ idx[w.cell].dirty
<1>1. /\ w.key \in Key /\ w.cell \in Cell
      /\ idx[w.cell].key = w.key \/ Garbage(idx[w.cell])
  BY DEF IndexInv, TypeInv, WriterType, WriterRec, KeyedInv
<1>2. IndexOK(idx) /\ \A d \in Cell \ {w.cell} : ~Holds(idx, w.key, d)
  BY DEF IndexInv, OrderInv, EntryInv, Writing
<1> QED
  BY <1>1, <1>2, EntryNow

LEMMA KilledLeaves ==
  ASSUME IndexInv, WriterDies, DiesIn \subseteq {"put", "remove"}, NEW k \in Key
  PROVE  \/ Lookup(idx, k) = stable[k]
         \/ k = w.key /\ Lookup(idx, k) \in {w.val, Empty}
<1>1. w.pc \in {"begin"} \cup Writing
  BY DiesOutside
<1>2. CASE w.pc = "begin"
  BY <1>2 DEF IndexInv, RestInv
<1>3. CASE w.pc \in Writing /\ k # w.key
  BY <1>3 DEF IndexInv, RestInv
<1>4. CASE w.pc \in Writing /\ k = w.key
  <2>1. CASE w.pc \in {"key", "hash", "zero"}
    BY <1>4, <2>1 DEF IndexInv, RestInv
  <2>2. CASE w.pc \notin {"key", "hash", "zero"}
    <3>1. Lookup(idx, k) = IF idx[w.cell].state = "live"
                           THEN Bytes(idx[w.cell].off, idx[w.cell].len) ELSE Absent
      BY <1>4, WriterEntry
    <3>2. /\ w.op \in {"put", "remove"} /\ (w.op = "put" => w.val \in Val)
          /\ w.op = "remove" => w.val = Absent
      BY <1>4 DEF IndexInv, CallInv
    <3>3. /\ w.pc \in {"off", "len"} => idx[w.cell].len = 0
          /\ w.pc \in {"flag", "state", "end"} =>
               IF w.op = "put" THEN idx[w.cell].off = w.val /\ idx[w.cell].len = LenOf(w.val)
               ELSE idx[w.cell].len = 0
          /\ w.pc = "end" => idx[w.cell].state = IF w.op = "put" THEN "live" ELSE "tomb"
      BY <1>4 DEF IndexInv, EntryInv
    <3>4. CASE idx[w.cell].state = "live"
      <4>1. \/ idx[w.cell].len = 0
            \/ w.val \in Val /\ idx[w.cell].off = w.val /\ idx[w.cell].len = LenOf(w.val)
        BY <1>4, <2>2, <3>2, <3>3 DEF Writing
      <4> QED
        BY <1>4, <3>1, <3>4, <4>1, BytesFacts
    <3>5. CASE idx[w.cell].state # "live"
      <4>1. CASE w.pc = "end"
        BY <1>4, <3>1, <3>2, <3>3, <3>5, <4>1
      <4>2. CASE w.pc # "end"
        BY <1>4, <3>1, <3>5, <4>2 DEF IndexInv, RestInv
      <4> QED
        BY <4>1, <4>2
    <3> QED
      BY <3>4, <3>5
  <2> QED
    BY <2>1, <2>2
<1> QED
  BY <1>1, <1>2, <1>3, <1>4

\* A writer that is killed leaves its key with the old value, the new one or an empty
\* one, and every other key alone.  (put_locked, remove: the order of their stores)
THEOREM Interrupted ==
  ASSUME DiesIn \subseteq {"put", "remove"}
  PROVE  Spec /\ []HasRoom => DeathLeaves
<1> DEFINE Left(k) == \/ Lookup(idx, k) = stable[k]
                      \/ k = w.key /\ Lookup(idx, k) \in {w.val, Empty}
<1>1. ASSUME IndexInv, WriterDies, NEW k \in Key PROVE Left(k)
  BY <1>1, KilledLeaves
<1>2. ASSUME TypeInv, Next, deaths' # deaths PROVE WriterDies
  <2>1. ~WriterStep /\ ~Commit /\ ~BumpSlot
    BY <1>2 DEF WriterStep, Commit, BumpSlot
  <2>2. \A r \in Reader : ~ReadLocked(r) /\ ~ReadReturn(r) /\ \A k \in Key : ~ReadBegin(r, k)
    BY <1>2 DEF ReadLocked, ReadReturn, ReadBegin, Goes
  <2>3. \A r \in Reader : ~Looks(r)
    BY <1>2, LooksFacts DEF Becomes
  <2>4. ~Stores /\ ~SeqBegin /\ ~SeqEnd /\ ~WipeCell /\ ~Refill /\ ~ArenaEnd
    BY <1>2, <2>1, StoreFacts, SeqBeginType, SeqEndType, WipeType, RefillType, ArenaEndType
    DEF Stored
  <2>5. ~ (\/ \E k \in Key : Remove(k) \/ \E v \in Val : Put(k, v)
           \/ Clear)
    BY <1>2, <2>1, BeginType
  <2> QED
    BY <1>2, <2>1, <2>2, <2>3, <2>4, <2>5
    DEF Next, Writer, WriterGoesOn, ReaderGoesOn, Stores, Looks
<1>3. IndexInv /\ [Next]_vars => [deaths' # deaths => \A k \in Key : Left(k)]_vars
  BY <1>1, <1>2 DEF IndexInv
<1>4. IndexInv /\ HasRoom /\ [Next]_vars => IndexInv'
  BY NextIndex
<1>5. Init => IndexInv
  BY InitIndex
<1> QED
  BY <1>3, <1>4, <1>5, PTL DEF Spec, DeathLeaves

-----------------------------------------------------------------------------
(* When a compaction has room.                                             *)

\* No entry sits before its home cell when a compaction may begin: no probe that placed
\* one ran past the end of the index.
Straight ==
  w.pc = "idle" => \A c \in Cell :
    idx[c].state # "empty" /\ idx[c].key \in Key => Home[idx[c].key] <= c

\* Then a compaction, which takes the entries in the order of their cells, moves none of
\* them up.
FitInv ==
  Compacting =>
    /\ \A p \in Cell : w.keep[p].state # "empty" /\ w.keep[p].key \in Key =>
         Home[w.keep[p].key] <= p
    /\ w.pc = "refill" => \A c \in Cell : idx[c].state # "empty" =>
         \E p \in Cell : idx[c] = w.keep[p] /\ p < w.at /\ c <= p

LEMMA StraightCells ==
  ASSUME NEW k \in Key, NEW t \in Window, Home[k] <= CellAt(k, t)
  PROVE  \A i \in Window : i <= t => CellAt(k, i) <= CellAt(k, t)
<1>1. Home[k] \in 0 .. N - 1 /\ N \in Nat \ {0} /\ t \in 0 .. N - 1
  BY IndexAssumption, WindowFacts DEF Cell
<1>2. (Home[k] + t) % N = IF Home[k] + t < N THEN Home[k] + t ELSE Home[k] + t - N
  BY <1>1
<1>3. CellAt(k, t) = Home[k] + t /\ Home[k] + t < N
  BY <1>1, <1>2 DEF CellAt
<1>4. ASSUME NEW i \in Window, i <= t PROVE CellAt(k, i) <= CellAt(k, t)
  <2>1. i \in 0 .. N - 1
    BY <1>1, WindowFacts
  <2>2. (Home[k] + i) % N = Home[k] + i
    <3>1. (Home[k] + i) % N = IF Home[k] + i < N THEN Home[k] + i ELSE Home[k] + i - N
      BY <1>1, <2>1
    <3>2. Home[k] + i < N
      BY <1>1, <1>3, <1>4, <2>1
    <3> QED
      BY <3>1, <3>2
  <2> QED
    BY <1>1, <1>3, <1>4, <2>1, <2>2 DEF CellAt
<1> QED
  BY <1>4

\* The cell the next entry came from is empty still, and its probe gets no further.
LEMMA FitCell ==
  ASSUME IndexInv, FitInv, w.pc = "refill", ~Garbage(w.keep[w.at])
  PROVE  /\ w.at \in Cell /\ w.keep[w.at].key \in Key /\ CanClaim(idx, w.keep[w.at].key)
         /\ Target(idx, w.keep[w.at].key) \in Cell /\ Target(idx, w.keep[w.at].key) <= w.at
<1> DEFINE k == w.keep[w.at].key
<1>1. /\ w.at \in Cell /\ w.keep[w.at].state # "empty" /\ k \in Key
      /\ idx \in [Cell -> Entry]
  <2>1. w.at \in Cell /\ w.keep \in [Cell -> Entry] /\ idx \in [Cell -> Entry]
    BY DEF IndexInv, TypeInv, WriterType, SegmentType, WriterRec
  <2>2. w.keep[w.at] \in Entry /\ k # NoKey
    BY <2>1 DEF IndexInv, TypeInv, KeyedInv, Wiping
  <2> QED
    BY <2>1, <2>2 DEF Entry, Garbage
<1>2. Compacting
  BY DEF IndexInv, TypeInv, WriterType, Compacting, Wiping
<1>3. Within(w.keep, k, w.at) /\ Home[k] <= w.at
  <2>1. IndexOK(w.keep)
    BY <1>2 DEF IndexInv, OrderInv
  <2> QED
    BY <1>1, <1>2, <2>1 DEF IndexOK, FitInv
<1>4. idx[w.at].state = "empty"
  <2> SUFFICES ASSUME idx[w.at].state # "empty" PROVE FALSE
    OBVIOUS
  <2>1. PICK p \in Cell : p < w.at /\ w.at <= p
    BY <1>1, <1>2 DEF FitInv
  <2> QED
    BY <1>1, <2>1, IndexAssumption DEF Cell
<1> HIDE DEF k
<1>5. PICK t \in Window : w.at = CellAt(k, t)
  BY <1>3 DEF Within
<1>6. CanClaim(idx, k)
  <2>1. t \in Stops(idx, k)
    BY <1>4, <1>5, StopsFacts
  <2> QED
    BY <2>1 DEF CanClaim
<1>7. PICK u \in Window : /\ Target(idx, k) = CellAt(k, u)
                          /\ \A i \in Window : i < u => idx[CellAt(k, i)].state # "empty"
  BY <1>1, <1>6, TargetFacts
<1>8. u <= t
  <2>1. ~ (t < u)
    BY <1>4, <1>5, <1>7
  <2> QED
    BY <2>1, WindowFacts
<1>9. CellAt(k, u) <= CellAt(k, t) /\ CellAt(k, u) \in Cell
  BY <1>1, <1>3, <1>5, <1>8, StraightCells, CellAtFacts
<1> QED
  BY <1>1, <1>5, <1>6, <1>7, <1>9 DEF k

LEMMA FitRefill ==
  ASSUME IndexInv, FitInv, Refill
  PROVE  FitInv'
<1>1. w.pc = "refill"
  BY DEF Refill
<1>2. /\ w'.op = w.op /\ w'.keep = w.keep /\ w.at \in Cell
      /\ \/ w'.pc = "refill" /\ w'.at = w.at + 1
         \/ w'.pc = "settle"
      /\ idx' = IF Garbage(w.keep[w.at]) \/ ~CanClaim(idx, w.keep[w.at].key) THEN idx
                ELSE [idx EXCEPT ![Target(idx, w.keep[w.at].key)] = w.keep[w.at]]
  BY RefillFields DEF IndexInv
<1>3. Compacting /\ idx \in [Cell -> Entry]
  BY <1>1 DEF IndexInv, TypeInv, WriterType, SegmentType, Compacting, Wiping
<1>4. /\ \A p \in Cell : w.keep[p].state # "empty" /\ w.keep[p].key \in Key =>
           Home[w.keep[p].key] <= p
      /\ \A c \in Cell : idx[c].state # "empty" =>
           \E p \in Cell : idx[c] = w.keep[p] /\ p < w.at /\ c <= p
  BY <1>1, <1>3 DEF FitInv
<1>5. w.at < w.at + 1 /\ \A p \in Cell : p < w.at => p < w.at + 1
  BY <1>2, IndexAssumption DEF Cell
<1>6. ASSUME NEW c \in Cell, idx'[c].state # "empty"
      PROVE  \E p \in Cell : idx'[c] = w.keep[p] /\ p < w.at + 1 /\ c <= p
  <2>1. CASE idx'[c] = idx[c]
    BY <1>4, <1>5, <1>6, <2>1
  <2>2. CASE idx'[c] # idx[c]
    <3>1. ~Garbage(w.keep[w.at])
      BY <1>2, <2>2
    <3>2. /\ Target(idx, w.keep[w.at].key) \in Cell /\ Target(idx, w.keep[w.at].key) <= w.at
      BY <1>1, <3>1, FitCell
    <3>3. c = Target(idx, w.keep[w.at].key) /\ idx'[c] = w.keep[w.at]
      BY <1>2, <1>3, <2>2, <3>2
    <3> QED
      BY <1>2, <1>5, <3>2, <3>3
  <2> QED
    BY <2>1, <2>2
<1> QED
  BY <1>2, <1>4, <1>6 DEF FitInv

LEMMA FitNext ==
  ASSUME IndexInv, IndexInv', FitInv, Straight, [Next]_vars, DiesIn \subseteq {"put", "remove"}
  PROVE  FitInv'
<1>0. TypeInv
  BY DEF IndexInv
<1>1. ASSUME UNCHANGED <<idx, w>> PROVE FitInv'
  BY <1>1 DEF FitInv, Compacting
<1>2. ASSUME w'.pc \notin Wiping PROVE FitInv'
  BY <1>2 DEF FitInv, Compacting
<1>3. CASE UNCHANGED vars
  BY <1>1, <1>3 DEF vars
<1>4. CASE \/ \E k \in Key : Remove(k) \/ \E v \in Val : Put(k, v)
           \/ Clear
  <2>1. /\ w.pc = "idle" /\ w'.pc \in {"begin", "wipe"}
        /\ w'.pc = "wipe" /\ w'.op = "put" => w'.keep = idx
    BY <1>0, <1>4, BeginFields
  <2> QED
    BY <2>1 DEF FitInv, Compacting, Straight, Wiping
<1>5. CASE Commit
  <2>1. w' = w /\ w.pc = "idle"
    BY <1>0, <1>5, CommitType
  <2> QED
    BY <1>2, <2>1 DEF Wiping
<1>6. CASE Stores
  BY <1>0, <1>2, <1>6, StoreFacts DEF Stored, Writing, Wiping
<1>7. CASE SeqBegin
  BY <1>0, <1>2, <1>7, SeqBeginType DEF Writing, Wiping
<1>8. CASE SeqEnd \/ ArenaEnd \/ BumpSlot \/ WriterDies
  <2>1. w'.pc \in {"idle", "begin", "bump"}
    BY <1>0, <1>8, SeqEndType, ArenaEndType, BumpType, DiesType
  <2> QED
    BY <1>2, <2>1 DEF Wiping
<1>9. CASE WipeCell
  <2>1. /\ w'.op = w.op /\ w'.keep = w.keep /\ w.pc = "wipe"
        /\ w'.pc = "refill" => w'.at = 0
    BY <1>0, <1>9, WipeFields DEF WipeCell
  <2>2. ASSUME Compacting', w'.pc = "refill" PROVE \A c \in Cell : idx'[c].state = "empty"
    <3>1. \A p \in Cell : ~ (p < w'.at)
      BY <2>1, <2>2, IndexAssumption DEF Cell
    <3> QED
      BY <2>2, <3>1 DEF IndexInv, RefillInv
  <2>3. Compacting' => Compacting
    BY <2>1 DEF Compacting, Wiping
  <2> QED
    BY <2>1, <2>2, <2>3 DEF FitInv
<1>10. CASE Refill
  BY <1>10, FitRefill
<1>11. ASSUME NEW r \in Reader, Looks(r) \/ ReadLocked(r) \/ ReadReturn(r) PROVE FitInv'
  <2>1. UNCHANGED <<idx, w>>
    BY <1>0, <1>11, LooksFacts DEF Becomes, ReadLocked, ReadReturn
  <2> QED
    BY <1>1, <2>1
<1>12. ASSUME NEW r \in Reader, NEW k \in Key, ReadBegin(r, k) PROVE FitInv'
  BY <1>1, <1>12 DEF ReadBegin, Goes
<1> QED
  BY <1>3, <1>4, <1>5, <1>6, <1>7, <1>8, <1>9, <1>10, <1>11, <1>12
  DEF Next, Writer, WriterGoesOn, ReaderGoesOn, Stores, Looks

\* A compaction of an index in which no entry has wrapped round the end finds room for
\* every entry, however crowded the windows are: an entry comes back to its old cell or
\* before it.  (Segment::compact, the probe of its second loop)
THEOREM Fits ==
  ASSUME DiesIn \subseteq {"put", "remove"}
  PROVE  Spec /\ []Straight => []HasRoom
<1>1. IndexInv /\ FitInv => HasRoom
  BY FitCell DEF HasRoom
<1>2. IndexInv /\ FitInv /\ Straight /\ [Next]_vars => IndexInv' /\ FitInv'
  BY <1>1, NextIndex, FitNext
<1>3. Init => IndexInv /\ FitInv
  <2>1. Init => IndexInv
    BY InitIndex
  <2>2. Init => w.pc = "idle"
    BY IdleTypes DEF Init
  <2> QED
    BY <2>1, <2>2 DEF FitInv, Compacting, Wiping
<1> QED
  BY <1>1, <1>2, <1>3, PTL DEF Spec

-----------------------------------------------------------------------------
(* What the disk is owed.                                                  *)

\* A store leaves the writer's key in step with its file, but for the moment at which
\* a put has replaced the value and not yet flagged the entry.
LEMMA StoreSaved ==
  ASSUME IndexInv, SavedInv, Stores
  PROVE  SavedInv'
<1>0. IndexInv'
  BY StoreKeepsOrder
<1>1. /\ Stored /\ Filled /\ w.key \in Key /\ w.cell \in Cell
      /\ IndexOK(idx) /\ OneStore(idx, idx', w.key, w.cell)
      /\ \A k \in Key \ {w.key} : Holds(idx, k, w.cell) => Garbage(idx[w.cell])
  BY StoreFits
<1>2. /\ w.pc \in Writing /\ w'.pc \in Writing /\ w'.key = w.key /\ w'.cell = w.cell
      /\ w'.op = w.op /\ w'.val = w.val /\ saved' = saved /\ cut' = cut
  BY <1>1 DEF Stored, Filled, WriterStep
<1> DEFINE e == idx[w.cell]
           f == idx'[w.cell]
           v == saved[w.key]
<1>3. /\ Lookup(idx, w.key) = IF e.state = "live" THEN Bytes(e.off, e.len) ELSE Absent
      /\ Flagged(idx, w.key) <=> e.state # "empty" /\ e.dirty
  BY <1>2, WriterEntry
<1>4. /\ Lookup(idx', w.key) = IF f.state = "live" THEN Bytes(f.off, f.len) ELSE Absent
      /\ Flagged(idx', w.key) <=> f.state # "empty" /\ f.dirty
  <2>1. /\ IndexOK(idx') /\ \A d \in Cell \ {w.cell} : ~Holds(idx', w.key, d)
    BY <1>1, StoreOrder
  <2>2. idx'[w.cell].key = w.key \/ Garbage(idx'[w.cell])
    BY <1>0, <1>2 DEF IndexInv, TypeInv, KeyedInv
  <2> QED
    BY <1>1, <2>1, <2>2, EntryNow
<1>5. /\ v \in Values /\ v # Mixed
      /\ \A k \in Key \ (cut \cup {w.key}) : InStep(idx, k)
      /\ \/ w.key \in cut \/ InStep(idx, w.key)
         \/ w.pc = "flag" /\ w.op = "put" /\ e.state = "live"
  BY <1>1, <1>2 DEF SavedInv, IndexInv, TypeInv, SegmentType
<1>6. /\ w.pc \in {"key", "hash"} => e.state # "live" /\ ~ (e.state # "empty" /\ e.dirty)
      /\ w.op \in {"put", "remove"} /\ (w.op = "put" => w.val \in Val)
      /\ w.pc \in {"off", "len"} => w.op = "put" /\ e.len = 0
      /\ w.pc = "len" => e.off = w.val
      /\ w.pc \in {"state", "end"} => e.dirty
  BY <1>2 DEF IndexInv, TypeInv, KeyedInv, Garbage, CallInv, EntryInv
<1>7. \/ w.key \in cut \/ InStep(idx', w.key)
      \/ w'.pc = "flag" /\ w.op = "put" /\ f.state = "live"
  <2> SUFFICES ASSUME w.key \notin cut
               PROVE  \/ InStep(idx', w.key)
                      \/ w'.pc = "flag" /\ w.op = "put" /\ f.state = "live"
    OBVIOUS
  <2> USE DEF InStep, OwedBy
  <2>1. Empty \notin Val /\ Absent \notin Val /\ Empty # Absent /\ LenOf(Empty) = 0
    BY BytesAssumption, BytesFacts
  <2>2. v \in Val => LenOf(v) # 0
    BY BytesFacts
  <2>3. v \in Val \cup {Absent, Empty}
    BY <1>5 DEF Values
  <2>4. ASSUME f.state = "live", f.len = 0 PROVE InStep(idx', w.key)
    <3>1. Lookup(idx', w.key) = Empty
      BY <1>4, <2>4, BytesFacts
    <3> QED
      BY <2>1, <2>2, <2>3, <3>1
  <2>5. ASSUME Lookup(idx', w.key) = Lookup(idx, w.key),
               Flagged(idx', w.key) <=> Flagged(idx, w.key), w.pc # "flag"
        PROVE  InStep(idx', w.key)
    BY <1>5, <2>5
  <2>6. CASE w.pc \in {"key", "hash"}
    <3>1. /\ f.state = e.state /\ f.dirty = e.dirty
      BY <1>1, <2>6 DEF Filled
    <3>2. Lookup(idx, w.key) = Absent /\ Lookup(idx', w.key) = Absent
      BY <1>3, <1>4, <1>6, <2>6, <3>1
    <3>3. ~Flagged(idx, w.key) /\ ~Flagged(idx', w.key)
      BY <1>3, <1>4, <1>6, <2>6, <3>1
    <3> QED
      BY <2>5, <2>6, <3>2, <3>3
  <2>7. CASE w.pc \in {"zero", "off"}
    <3>1. f.state = e.state /\ f.dirty = e.dirty /\ f.len = 0
      BY <1>1, <1>6, <2>7 DEF Filled
    <3>2. CASE f.state = "live"
      BY <2>4, <3>1, <3>2
    <3>3. CASE f.state # "live"
      <4>1. Lookup(idx', w.key) = Lookup(idx, w.key)
        BY <1>3, <1>4, <3>1, <3>3
      <4>2. Flagged(idx', w.key) <=> Flagged(idx, w.key)
        BY <1>3, <1>4, <3>1
      <4> QED
        BY <2>5, <2>7, <4>1, <4>2
    <3> QED
      BY <3>2, <3>3
  <2>8. CASE w.pc = "len"
    <3>1. /\ f.state = e.state /\ f.dirty = e.dirty /\ w'.pc = "flag" /\ w.op = "put"
          /\ w.val \in Val /\ f.off = w.val /\ f.len = LenOf(w.val)
      BY <1>1, <1>6, <2>8 DEF Filled
    <3>2. CASE f.state = "live"
      BY <3>1, <3>2
    <3>3. CASE f.state # "live"
      <4>1. Lookup(idx', w.key) = Lookup(idx, w.key)
        BY <1>3, <1>4, <3>1, <3>3
      <4>2. Flagged(idx', w.key) <=> Flagged(idx, w.key)
        BY <1>3, <1>4, <3>1
      <4> QED
        BY <2>5, <2>8, <4>1, <4>2
    <3> QED
      BY <3>2, <3>3
  <2>9. CASE w.pc = "flag"
    <3>1. f.state = e.state /\ f.dirty
      BY <1>1, <2>9 DEF Filled
    <3>2. CASE f.state # "empty"
      BY <1>4, <3>1, <3>2
    <3>3. CASE f.state = "empty"
      <4>1. Lookup(idx, w.key) = Absent /\ Lookup(idx', w.key) = Absent
        BY <1>3, <1>4, <3>1, <3>3
      <4>2. ~Flagged(idx, w.key) /\ InStep(idx, w.key)
        BY <1>3, <1>5, <3>1, <3>3
      <4> QED
        BY <4>1, <4>2
    <3> QED
      BY <3>2, <3>3
  <2>10. CASE w.pc = "state"
    <3>1. f.state \in {"live", "tomb"} /\ f.dirty
      BY <1>1, <1>6, <2>10 DEF Filled
    <3> QED
      BY <1>4, <3>1
  <2>11. w.pc # "end"
    BY <1>1 DEF Filled
  <2> QED
    BY <1>2, <2>6, <2>7, <2>8, <2>9, <2>10, <2>11 DEF Writing
<1>8. \A k \in Key \ (cut \cup {w.key}) : InStep(idx', k)
  <2> SUFFICES ASSUME NEW k \in Key \ (cut \cup {w.key}) PROVE InStep(idx', k)
    OBVIOUS
  <2>1. Alike(idx, idx', k)
    BY <1>1, StoreOther
  <2> QED
    BY <1>5, <2>1 DEF Alike, InStep, OwedBy
<1>9. \A k \in Key : InStep(idx, k)' <=> InStep(idx', k)
  BY <1>2 DEF InStep, OwedBy, Flagged
<1>10. \A k \in Key : saved'[k] # Mixed
  BY <1>2 DEF SavedInv
<1> HIDE DEF e, f, v
<1> QED
  BY <1>1, <1>2, <1>7, <1>8, <1>9, <1>10 DEF SavedInv, Compacting, Writing, Wiping, f

LEMMA CommitSaved ==
  ASSUME IndexInv, SavedInv, Commit
  PROVE  SavedInv'
<1>1. /\ w' = w /\ w.pc = "idle"
      /\ \A c \in Cell : /\ idx'[c].state = idx[c].state /\ idx'[c].key = idx[c].key
                         /\ idx'[c].off = idx[c].off /\ idx'[c].len = idx[c].len
  BY CommitType DEF IndexInv
<1>2. IndexOK(idx) /\ idx \in [Cell -> Entry]
  BY <1>1 DEF IndexInv, OrderInv, TypeInv, SegmentType
<1>3. \A k \in Key : Lookup(idx', k) = Lookup(idx, k)
  BY <1>1, <1>2, FlagsAside
<1>4. \A k \in Key \ cut : InStep(idx, k)
  BY <1>1 DEF SavedInv
<1>5. PICK K \in SUBSET Key :
        /\ idx' = [c \in Cell |-> IF idx[c].key \in K THEN [idx[c] EXCEPT !.dirty = FALSE]
                                  ELSE idx[c]]
        /\ saved' = [k \in Key |-> IF k \in K /\ Owed(k) THEN Lookup(idx, k) ELSE saved[k]]
        /\ cut' = {k \in cut : ~(k \in K /\ Owed(k))}
  BY DEF Commit
<1>6. \A k \in Key : Owed(k) <=> OwedBy(idx, k)
  BY DEF Owed, OwedBy, Flagged
<1>7. \A k \in Key : saved'[k] # Mixed
  BY <1>2, <1>5, FoundIsHeld DEF SavedInv
<1>8. ASSUME NEW k \in Key \ cut' PROVE InStep(idx, k)'
  <2>1. CASE k \in K /\ Owed(k)
    <3>1. saved'[k] = Lookup(idx', k)
      BY <1>3, <1>5, <2>1
    <3> QED
      BY <3>1 DEF InStep
  <2>2. CASE ~(k \in K /\ Owed(k))
    <3>1. InStep(idx, k) /\ saved'[k] = saved[k]
      BY <1>4, <1>5, <1>8, <2>2
    <3>2. CASE k \in K
      <4>1. saved'[k] = Lookup(idx', k)
        BY <1>3, <1>6, <2>2, <3>1, <3>2 DEF InStep
      <4> QED
        BY <4>1 DEF InStep
    <3>3. CASE k \notin K
      <4>1. Flagged(idx, k) => Flagged(idx', k)
        <5> SUFFICES ASSUME Flagged(idx, k) PROVE Flagged(idx', k)
          OBVIOUS
        <5>1. PICK c \in Cell : Holds(idx, k, c) /\ Target(idx, k) = c
          BY <1>2, FoundIsHeld DEF Flagged
        <5>2. idx'[c] = idx[c] /\ idx[c].dirty
          BY <1>5, <3>3, <5>1 DEF Holds, Flagged
        <5>3. Holds(idx', k, c) /\ IndexOK(idx')
          BY <1>1, <1>2, <5>1, FlagsAside DEF Holds
        <5>4. Found(idx', k) /\ Target(idx', k) = c
          BY <5>3, HeldFacts
        <5> QED
          BY <5>2, <5>4 DEF Flagged
      <4>2. Lookup(idx', k) = Lookup(idx, k)
        BY <1>3
      <4>3. InStep(idx, k)' <=> Lookup(idx', k) = saved'[k] \/ Flagged(idx', k)
              \/ (Lookup(idx', k) # Absent
                   /\ (saved'[k] = Absent \/ LenOf(Lookup(idx', k)) # LenOf(saved'[k])))
        BY DEF InStep, OwedBy, Flagged
      <4> QED
        BY <3>1, <4>1, <4>2, <4>3 DEF InStep, OwedBy
    <3> QED
      BY <3>2, <3>3
  <2> QED
    BY <2>1, <2>2
<1> QED
  BY <1>1, <1>7, <1>8 DEF SavedInv, Compacting, Writing, Wiping

\* The last counter of a clear: the files go, and there was nothing left in memory.
LEMMA BumpSaved ==
  ASSUME IndexInv, SavedInv, BumpSlot
  PROVE  SavedInv'
<1>1. idx' = idx /\ w.pc = "bump" /\ w'.pc \in {"idle", "bump"}
  BY BumpType DEF IndexInv
<1>2. \/ saved' = saved /\ w'.pc = "bump"
      \/ saved' = [k \in Key |-> Absent]
  <2>1. PICK s \in w.left :
          /\ w' = IF w.left = {s} THEN IdleWriter ELSE [w EXCEPT !.left = @ \ {s}]
          /\ saved' = IF w.left = {s} THEN [k \in Key |-> Absent] ELSE saved
    BY DEF BumpSlot
  <2>2. CASE w.left = {s}
    BY <2>1, <2>2
  <2>3. CASE w.left # {s}
    <3>1. w' = [w EXCEPT !.left = @ \ {s}] /\ saved' = saved /\ w \in WriterRec
      BY <2>1, <2>3 DEF IndexInv, TypeInv, WriterType
    <3>2. w'.pc = w.pc
      BY <3>1 DEF WriterRec
    <3> QED
      BY <1>1, <3>1, <3>2
  <2> QED
    BY <2>2, <2>3
<1>3. \A k \in Key : Lookup(idx', k) = Absent
  <2>1. \A c \in Cell : idx[c].state = "empty"
    BY <1>1 DEF IndexInv, OrderInv
  <2> QED
    BY <1>1, <2>1, EmptyIndex
<1>4. CASE saved' = saved /\ w'.pc = "bump"
  BY <1>4 DEF SavedInv, Compacting, Writing, Wiping
<1>5. CASE saved' = [k \in Key |-> Absent]
  <2>1. \A k \in Key : saved'[k] = Absent /\ saved'[k] # Mixed
    BY <1>5, BytesAssumption
  <2>2. \A k \in Key : InStep(idx, k)'
    BY <1>3, <2>1 DEF InStep
  <2> QED
    BY <1>1, <2>1, <2>2 DEF SavedInv, Compacting, Writing, Wiping
<1> QED
  BY <1>2, <1>4, <1>5

LEMMA ArenaEndSaved ==
  ASSUME IndexInv, SavedInv, ArenaEnd
  PROVE  SavedInv'
<1>1. /\ saved' = saved /\ cut' = cut /\ idx' = idx /\ w.pc = "settle"
      /\ \/ w.op = "clear" /\ w'.pc = "bump"
         \/ w.op = "put" /\ w'.pc \in {"begin", "idle"}
  BY ArenaEndType DEF IndexInv, WriterStep
<1>2. \A k \in Key : saved'[k] # Mixed
  BY <1>1 DEF SavedInv
<1>3. CASE w'.pc = "bump"
  BY <1>2, <1>3 DEF SavedInv, Compacting, Writing, Wiping
<1>4. CASE w.op = "put" /\ w'.pc \in {"begin", "idle"}
  <2>1. \A k \in Key \ cut : InStep(w.keep, k)
    BY <1>1, <1>4 DEF SavedInv, Compacting, Wiping
  <2>2. \A k \in Key : Alike(w.keep, idx, k)
    BY <1>1, <1>4, SettledSame
  <2>3. \A k \in Key \ cut : InStep(idx, k)
    BY <2>1, <2>2 DEF Alike, InStep, OwedBy
  <2>4. \A k \in Key \ cut' : InStep(idx, k)'
    BY <1>1, <2>3 DEF InStep, OwedBy, Flagged
  <2>5. ~Compacting' /\ w'.pc \notin Writing
    BY <1>4 DEF Compacting, Writing, Wiping
  <2> QED
    BY <1>2, <2>4, <2>5 DEF SavedInv
<1> QED
  BY <1>1, <1>3, <1>4

\* A call that begins, goes on or ends where every key is in step.
LEMMA StillSaved ==
  ASSUME SavedInv, TypeInv', idx' = idx, saved' = saved, Compacting' => w'.keep = idx,
         \A k \in Key \ cut' : InStep(idx, k)
  PROVE  SavedInv'
<1>1. /\ \A k \in Key : saved'[k] # Mixed
      /\ \A k \in Key \ cut' : InStep(idx, k)'
  BY DEF SavedInv, InStep, OwedBy, Flagged
<1>2. Compacting' => \A k \in Key \ cut' : InStep(w.keep, k)'
  <2> SUFFICES ASSUME Compacting', NEW k \in Key \ cut' PROVE InStep(w.keep, k)'
    OBVIOUS
  <2>1. w'.keep = idx'
    OBVIOUS
  <2> QED
    BY <1>1, <2>1 DEF InStep, OwedBy, Flagged
<1>3. w'.pc \in Writing => w'.key \in Key
  BY DEF TypeInv, WriterType
<1> QED
  BY <1>1, <1>2, <1>3 DEF SavedInv

\* A compaction or a clear goes through the index.
LEMMA SweepSaved ==
  ASSUME SavedInv, saved' = saved, cut' = cut, w.pc \in Wiping, w'.pc \in Wiping, w'.op = w.op,
         w'.keep = w.keep
  PROVE  SavedInv'
<1>1. Compacting' => \A k \in Key \ cut' : InStep(w.keep, k)'
  BY DEF SavedInv, Compacting, InStep, OwedBy, Flagged
<1> QED
  BY <1>1 DEF SavedInv, Writing, Wiping

LEMMA FrameSaved ==
  ASSUME SavedInv, UNCHANGED <<idx, w, saved, cut>>
  PROVE  SavedInv'
BY DEF SavedInv, Compacting, InStep, OwedBy, Flagged

LEMMA NextSaved ==
  ASSUME IndexInv, SavedInv, [Next]_vars, DiesIn \subseteq {"put", "remove"}
  PROVE  SavedInv'
<1>0. TypeInv /\ TypeInv'
  BY NextType DEF IndexInv
<1>1. CASE UNCHANGED vars
  BY <1>1, FrameSaved DEF vars
<1>2. CASE \/ \E k \in Key : Remove(k) \/ \E v \in Val : Put(k, v)
           \/ Clear
  <2>1. /\ idx' = idx /\ saved' = saved /\ cut' = cut /\ w.pc = "idle"
        /\ w'.pc \in {"begin", "wipe"} /\ (w'.pc = "wipe" /\ w'.op = "put" => w'.keep = idx)
    BY <1>0, <1>2, BeginFields DEF WriterStep
  <2>2. \A k \in Key \ cut' : InStep(idx, k)
    BY <2>1 DEF SavedInv
  <2>3. Compacting' => w'.keep = idx
    BY <2>1 DEF Compacting, Wiping
  <2> QED
    BY <1>0, <2>1, <2>2, <2>3, StillSaved
<1>3. CASE Commit \/ Stores \/ BumpSlot \/ ArenaEnd
  BY <1>3, CommitSaved, StoreSaved, BumpSaved, ArenaEndSaved
<1>4. CASE SeqBegin
  <2>1. idx' = idx /\ saved' = saved /\ cut' = cut /\ w.pc = "begin" /\ w'.pc \in Writing
    BY <1>0, <1>4, SeqBeginType DEF WriterStep
  <2>2. \A k \in Key \ cut' : InStep(idx, k)
    BY <2>1 DEF SavedInv
  <2>3. ~Compacting'
    BY <2>1 DEF Compacting, Wiping, Writing
  <2> QED
    BY <1>0, <2>1, <2>2, <2>3, StillSaved
<1>5. CASE SeqEnd
  <2>1. /\ idx' = idx /\ saved' = saved /\ w.pc = "end" /\ w'.pc = "idle" /\ w.pc \in Writing
        /\ cut' = cut \ {w.key}
    BY <1>0, <1>5, SeqEndType DEF SeqEnd, WriterStep
  <2>2. InStep(idx, w.key)
    <3>1. /\ idx[w.cell].dirty /\ idx[w.cell].state # "empty"
      BY <2>1 DEF IndexInv, EntryInv
    <3>2. Flagged(idx, w.key)
      BY <2>1, <3>1, WriterEntry
    <3> QED
      BY <3>2 DEF InStep, OwedBy
  <2>3. \A k \in Key \ cut' : InStep(idx, k)
    BY <2>1, <2>2 DEF SavedInv
  <2>4. ~Compacting'
    BY <2>1 DEF Compacting, Wiping
  <2> QED
    BY <1>0, <2>1, <2>3, <2>4, StillSaved
<1>6. CASE WipeCell
  <2>1. /\ saved' = saved /\ cut' = cut /\ w.pc = "wipe" /\ w'.pc \in Wiping /\ w'.op = w.op
        /\ w'.keep = w.keep
    BY <1>0, <1>6, WipeType, WipeFields DEF WriterStep
  <2> QED
    BY <2>1, SweepSaved DEF Wiping
<1>7. CASE Refill
  <2>1. /\ saved' = saved /\ cut' = cut /\ w.pc = "refill" /\ w'.pc \in {"refill", "settle"}
        /\ w'.op = w.op /\ w'.keep = w.keep
    BY <1>0, <1>7, RefillType, RefillFields DEF WriterStep
  <2> QED
    BY <2>1, SweepSaved DEF Wiping
<1>8. CASE WriterDies
  <2>1. /\ idx' = idx /\ saved' = saved /\ w'.pc = "idle"
        /\ cut' = IF w.pc = "flag" /\ w.op = "put" /\ idx[w.cell].state = "live"
                  THEN cut \cup {w.key} ELSE cut
    BY <1>0, <1>8, DiesType DEF WriterDies
  <2>2. w.pc \in {"begin"} \cup Writing
    BY <1>8, DiesOutside
  <2>3. \A k \in Key \ cut' : InStep(idx, k)
    BY <2>1, <2>2 DEF SavedInv
  <2>4. ~Compacting'
    BY <2>1 DEF Compacting, Wiping
  <2> QED
    BY <1>0, <2>1, <2>3, <2>4, StillSaved
<1>9. ASSUME NEW r \in Reader, Looks(r) \/ ReadLocked(r) \/ ReadReturn(r) PROVE SavedInv'
  <2>1. UNCHANGED <<idx, w, saved, cut>>
    BY <1>0, <1>9, LooksFacts DEF Becomes, ReadLocked, ReadReturn
  <2> QED
    BY <2>1, FrameSaved
<1>10. ASSUME NEW r \in Reader, NEW k \in Key, ReadBegin(r, k) PROVE SavedInv'
  BY <1>10, FrameSaved DEF ReadBegin, Goes
<1> QED
  BY <1>1, <1>2, <1>3, <1>4, <1>5, <1>6, <1>7, <1>8, <1>9, <1>10
  DEF Next, Writer, WriterGoesOn, ReaderGoesOn, Stores, Looks

\* A value memory has and the disk has not is one the next commit will write, or
\* remove: the flag is set before the state changes, a compaction carries it along and
\* a commit clears it only with the file written.  The one exception is a put that was
\* killed over a live value with the flag not yet set, until the key is written or
\* committed again.  (put_locked, remove, compact, commit_snapshot, commit_writeback)
THEOREM Owing ==
  ASSUME DiesIn \subseteq {"put", "remove"}
  PROVE  Spec /\ []HasRoom => []ChangesAreOwed
<1>1. Init => IndexInv /\ SavedInv
  <2> SUFFICES ASSUME Init PROVE IndexInv /\ SavedInv
    OBVIOUS
  <2>1. IndexInv /\ \A k \in Key : Lookup(idx, k) = saved[k]
    BY InitIndex
  <2>2. w.pc = "idle" /\ saved \in [Key -> Val \cup {Absent}]
    BY IdleTypes DEF Init
  <2>3. \A k \in Key : saved[k] # Mixed
    BY <2>2, BytesAssumption
  <2> QED
    BY <2>1, <2>2, <2>3 DEF SavedInv, InStep, Compacting, Writing, Wiping
<1>2. IndexInv /\ SavedInv /\ HasRoom /\ [Next]_vars => IndexInv' /\ SavedInv'
  BY NextIndex, NextSaved
<1>3. SavedInv => ChangesAreOwed
  <2> SUFFICES ASSUME SavedInv, w.pc = "idle", NEW k \in Key \ cut
               PROVE  Accounted(k)
    BY DEF ChangesAreOwed
  <2>1. InStep(idx, k)
    BY DEF SavedInv
  <2> QED
    BY <2>1 DEF InStep, OwedBy, Flagged, Owed, Accounted
<1> QED
  BY <1>1, <1>2, <1>3, PTL DEF Spec
=============================================================================
