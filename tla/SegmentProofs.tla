--------------------------- MODULE SegmentProofs ---------------------------
(***************************************************************************)
(* Proofs about the shared segment, one store at a time, for any number of *)
(* readers, keys, values and counters, any size of index and any sequence  *)
(* of writes:                                                              *)
(*   TypeCorrect  the state is well typed, and a counter is odd only while *)
(*                a writer is behind it or after one has died there        *)
(*   Repairs      the read under the semaphore never goes to the disk      *)
(* and the facts about probing and about every step that SegmentIndex and  *)
(* SegmentReads use.                                                       *)
(***************************************************************************)
EXTENDS Segment, WellFoundedInduction, TLAPS

\* Where the writer is inside a key's counter, or inside the arena's.
Writing == {"key", "hash", "zero", "off", "len", "flag", "state", "end"}
Wiping  == {"wipe", "refill", "settle"}

\* Where a reader is between the two looks at the counters.
Data == {"probe", "match", "state", "off", "bytes", "s2"}

WriterRec ==
  [pc : {"idle", "begin", "bump"} \cup Writing \cup Wiping,
   op : {"none", "put", "remove", "clear"}, key : Key \cup {NoKey},
   val : Val \cup {Absent}, cell : Cell, keep : [Cell -> Entry], at : Cell,
   left : SUBSET Slot]

ReaderRec ==
  [pc : {"idle", "before", "s1", "a1", "a2", "lock", "done"} \cup Data,
   key : Key \cup {NoKey}, before : Nat, s1 : Nat, a1 : Nat, j : Window,
   off : Val \cup {Absent}, val : Values, tries : 0 .. MaxTries]

SegmentType ==
  /\ idx \in [Cell -> Entry] /\ slots \in [Slot -> Nat] /\ arena \in Nat
  /\ stable \in [Key -> Values] /\ saved \in [Key -> Values] /\ deaths \in Nat

WriterType ==
  /\ w \in WriterRec
  /\ w.pc \in {"begin"} \cup Writing => w.key \in Key
  /\ w.pc \in Wiping => w.op = "clear" \/ (w.op = "put" /\ w.key \in Key)
  /\ w.pc = "begin" => CanClaim(idx, w.key)
  /\ w.pc = "refill" => w.op # "clear"

ReaderType ==
  /\ rd \in [Reader -> ReaderRec]
  /\ held \in [Reader -> SUBSET Values]
  /\ cache \in [Reader -> [Key -> SUBSET [val : Values, seen : Nat]]]
  /\ \A r \in Reader :
       /\ rd[r].pc # "idle" => rd[r].key \in Key
       /\ rd[r].pc \in {"before", "s1", "a1", "a2"} \cup Data => rd[r].tries < MaxTries

\* A cell whose key bytes and hash do not match holds nothing that is kept.
KeyedInv ==
  /\ \A c \in Cell : idx[c].key = NoKey => Garbage(idx[c])
  /\ w.pc \in Wiping => \A c \in Cell : w.keep[c].key = NoKey => Garbage(w.keep[c])
  /\ w.pc \in {"key", "hash"} => Garbage(idx[w.cell])
  /\ w.pc \in Writing \ {"key", "hash"} => idx[w.cell].key = w.key

\* A counter is odd while somebody writes behind it.
ParityInv ==
  /\ w.pc \in Writing => Odd(slots[SlotOf[w.key]])
  /\ w.pc \in Wiping => Odd(arena)
  /\ deaths = 0 => \A s \in Slot : Odd(slots[s]) =>
       w.pc \in Writing /\ SlotOf[w.key] = s

TypeInv == SegmentType /\ WriterType /\ ReaderType /\ KeyedInv /\ ParityInv

-----------------------------------------------------------------------------
(* Probing.                                                                *)

\* A non-empty set of naturals has a least element.
LEMMA LeastFacts ==
  ASSUME NEW S \in SUBSET Nat, S # {}
  PROVE  Least(S) \in S /\ \A j \in S : Least(S) <= j
<1> DEFINE R == OpToRel(<, Nat)
<1>1. IsWellFoundedOn(R, Nat)
  BY NatLessThanWellFounded
<1>2. \A x, y \in Nat : <<y, x>> \in R <=> y < x
  BY DEF OpToRel
<1> HIDE DEF R
<1>3. PICK i \in S : \A y \in S : ~ (<<y, i>> \in R)
  BY <1>1, WFMin
<1>4. \A j \in S : ~ (j < i)
  BY <1>2, <1>3
<1>5. \A j \in S : i <= j
  BY <1>4
<1> QED
  BY <1>5 DEF Least

LEMMA WindowFacts == Window \subseteq Nat /\ 0 \in Window /\ \A j \in Window : j < N
BY IndexAssumption DEF Window

\* The cells of a window are cells, and different ones.
LEMMA CellAtFacts ==
  ASSUME NEW k \in Key, NEW j \in Window
  PROVE  /\ CellAt(k, j) \in Cell
         /\ \A i \in Window : CellAt(k, i) = CellAt(k, j) => i = j
<1>1. Home[k] \in Cell /\ N \in Nat \ {0} /\ j \in 0 .. N - 1
  BY IndexAssumption, WindowFacts
<1>2. CellAt(k, j) \in Cell
  BY <1>1 DEF CellAt, Cell
<1>3. ASSUME NEW i \in Window, CellAt(k, i) = CellAt(k, j)
      PROVE  i = j
  <2>1. i \in 0 .. N - 1
    BY <1>1, WindowFacts
  <2>2. (Home[k] + i) % N = IF Home[k] + i < N THEN Home[k] + i ELSE Home[k] + i - N
    BY <1>1, <2>1 DEF Cell
  <2>3. (Home[k] + j) % N = IF Home[k] + j < N THEN Home[k] + j ELSE Home[k] + j - N
    BY <1>1 DEF Cell
  <2> QED
    BY <1>1, <1>3, <2>1, <2>2, <2>3 DEF CellAt, Cell
<1> QED
  BY <1>2, <1>3

\* t is where a probe for k stops.
First(ix, k, t) ==
  t \in Stops(ix, k) /\ \A i \in Window : i < t => i \notin Stops(ix, k)

LEMMA StopsFacts ==
  ASSUME NEW ix, NEW k, NEW t \in Window
  PROVE  t \in Stops(ix, k) <=>
           ix[CellAt(k, t)].state = "empty" \/ ix[CellAt(k, t)].key = k
BY DEF Stops

LEMMA FirstExists ==
  ASSUME NEW ix, NEW k, Stops(ix, k) # {}
  PROVE  \E t \in Window : First(ix, k, t)
<1>1. Stops(ix, k) \in SUBSET Window /\ Stops(ix, k) \in SUBSET Nat
  BY WindowFacts DEF Stops
<1>2. /\ Least(Stops(ix, k)) \in Stops(ix, k)
      /\ \A j \in Stops(ix, k) : Least(Stops(ix, k)) <= j
  BY <1>1, LeastFacts
<1>3. Least(Stops(ix, k)) \in Window
  BY <1>1, <1>2
<1>4. \A i \in Window : i < Least(Stops(ix, k)) => i \notin Stops(ix, k)
  BY <1>1, <1>2, <1>3, WindowFacts
<1> QED
  BY <1>2, <1>3, <1>4 DEF First

LEMMA FirstIsLeast ==
  ASSUME NEW ix, NEW k, NEW t \in Window, First(ix, k, t)
  PROVE  Least(Stops(ix, k)) = t
<1>1. Stops(ix, k) \in SUBSET Window /\ Stops(ix, k) \in SUBSET Nat /\ Stops(ix, k) # {}
  BY WindowFacts DEF Stops, First
<1>2. /\ Least(Stops(ix, k)) \in Stops(ix, k)
      /\ \A j \in Stops(ix, k) : Least(Stops(ix, k)) <= j
  BY <1>1, LeastFacts
<1>3. Least(Stops(ix, k)) \in Window /\ Least(Stops(ix, k)) \in Nat /\ t \in Nat
  BY <1>1, <1>2, WindowFacts
<1>4. Least(Stops(ix, k)) <= t
  BY <1>2 DEF First
<1>5. ~ (Least(Stops(ix, k)) < t)
  BY <1>2, <1>3 DEF First
<1> QED
  BY <1>3, <1>4, <1>5

\* What a probe that stops at t finds.
LEMMA LookupFirst ==
  ASSUME NEW ix, NEW k, NEW t \in Window, First(ix, k, t)
  PROVE  /\ Found(ix, k) <=> ix[CellAt(k, t)].state # "empty"
         /\ Found(ix, k) => Target(ix, k) = CellAt(k, t)
         /\ Lookup(ix, k) = IF ix[CellAt(k, t)].state = "live"
                            THEN Bytes(ix[CellAt(k, t)].off, ix[CellAt(k, t)].len)
                            ELSE Absent
<1>1. Least(Stops(ix, k)) = t /\ Stops(ix, k) # {}
  BY FirstIsLeast DEF First
<1>2. Found(ix, k) <=> ix[CellAt(k, t)].state # "empty"
  BY <1>1 DEF Found
<1>3. Found(ix, k) => Target(ix, k) = CellAt(k, t)
  BY <1>1 DEF Target
<1>4. CASE ix[CellAt(k, t)].state = "live"
  BY <1>2, <1>3, <1>4 DEF Lookup
<1>5. CASE ix[CellAt(k, t)].state # "live"
  BY <1>2, <1>3, <1>5 DEF Lookup
<1> QED
  BY <1>2, <1>3, <1>4, <1>5

LEMMA LookupNowhere ==
  ASSUME NEW ix, NEW k, Stops(ix, k) = {}
  PROVE  ~Found(ix, k) /\ Lookup(ix, k) = Absent
BY DEF Found, Lookup

LEMMA BytesType ==
  ASSUME NEW off, NEW len
  PROVE  Bytes(off, len) \in Values
BY DEF Bytes, Values

LEMMA LookupType ==
  ASSUME NEW ix, NEW k
  PROVE  Lookup(ix, k) \in Values
BY BytesType DEF Lookup, Values

\* What probe returns to a writer: the key's own cell, or garbage that a probe for
\* the key would come to.
LEMMA TargetFacts ==
  ASSUME NEW ix \in [Cell -> Entry], NEW k \in Key, CanClaim(ix, k)
  PROVE  /\ Target(ix, k) \in Cell
         /\ Found(ix, k) => ix[Target(ix, k)].key = k /\ ix[Target(ix, k)].state # "empty"
         /\ ~Found(ix, k) => Garbage(ix[Target(ix, k)])
         /\ \E t \in Window : /\ Target(ix, k) = CellAt(k, t)
                              /\ \A i \in Window : i < t => ix[CellAt(k, i)].state # "empty"
<1>1. CASE Found(ix, k) \/ Free(ix, k) = {}
  <2>1. Stops(ix, k) # {}
    BY <1>1 DEF CanClaim, Found
  <2>2. PICK t \in Window : First(ix, k, t)
    BY <2>1, FirstExists
  <2>3. Target(ix, k) = CellAt(k, t)
    BY <1>1, <2>2, FirstIsLeast DEF Target
  <2>4. \A i \in Window : i < t => ix[CellAt(k, i)].state # "empty"
    BY <2>2 DEF First, Stops
  <2>5. Found(ix, k) => ix[CellAt(k, t)].key = k /\ ix[CellAt(k, t)].state # "empty"
    BY <2>2, LookupFirst DEF First, Stops
  <2>6. ~Found(ix, k) => ix[CellAt(k, t)].state = "empty"
    BY <2>2, LookupFirst
  <2> QED
    BY <2>3, <2>4, <2>5, <2>6, CellAtFacts DEF Garbage
<1>2. CASE ~Found(ix, k) /\ Free(ix, k) # {}
  <2>1. Free(ix, k) \in SUBSET Nat
    BY WindowFacts DEF Free
  <2>2. PICK t \in Free(ix, k) : Target(ix, k) = CellAt(k, t)
    BY <1>2, <2>1, LeastFacts DEF Target
  <2>3. /\ t \in Window /\ ix[CellAt(k, t)].state = "tomb" /\ ~ix[CellAt(k, t)].dirty
        /\ \A i \in Stops(ix, k) : t < i
    BY <2>2 DEF Free
  <2>4. \A i \in Window : i < t => ix[CellAt(k, i)].state # "empty"
    BY <2>3, WindowFacts DEF Stops
  <2> QED
    BY <1>2, <2>2, <2>3, <2>4, CellAtFacts DEF Garbage
<1> QED
  BY <1>1, <1>2

-----------------------------------------------------------------------------
(* Counters.                                                               *)

LEMMA CounterFacts ==
  ASSUME NEW v \in Nat
  PROVE  /\ NextOdd(v) \in Nat /\ Odd(NextOdd(v)) /\ NextOdd(v) > v
         /\ NextEven(v) \in Nat /\ ~Odd(NextEven(v)) /\ NextEven(v) > v
         /\ Repaired(v) \in Nat /\ ~Odd(Repaired(v)) /\ Repaired(v) >= v
         /\ Odd(v) => Repaired(v) > v
         /\ ~Odd(v) => Repaired(v) = v
BY DEF NextOdd, NextEven, Repaired, Odd

-----------------------------------------------------------------------------
(* Types.                                                                  *)

LEMMA WipedType == Wiped \in Entry /\ NoCells \in [Cell -> Entry] /\ Garbage(Wiped)
<1>1. Wiped \in Entry /\ Wiped.state = "empty"
  BY DEF Wiped, Entry
<1> QED
  BY <1>1 DEF NoCells, Garbage

LEMMA IdleTypes ==
  /\ IdleWriter \in WriterRec /\ IdleWriter.pc = "idle"
  /\ IdleReader \in ReaderRec /\ IdleReader.pc = "idle" /\ IdleReader.tries = 0
<1>1. 0 \in Cell /\ 0 \in Window /\ 0 \in 0 .. MaxTries
  BY IndexAssumption DEF Cell, Window
<1>2. IdleWriter \in WriterRec /\ IdleWriter.pc = "idle"
  BY <1>1, WipedType DEF IdleWriter, WriterRec
<1>3. Absent \in Values
  BY DEF Values
<1> QED
  BY <1>1, <1>2, <1>3 DEF IdleReader, ReaderRec

\* What a writer's step does to the ghosts.
LEMMA ObserveFacts ==
  ASSUME TypeInv, Observe, rd' = rd, cache' = cache
  PROVE  /\ stable' \in [Key -> Values] /\ ReaderType'
         /\ w'.pc \in {"idle", "bump"} => \A k \in Key : stable'[k] = Lookup(idx', k)
         /\ w'.pc \notin {"idle", "bump"} => stable' = stable
         /\ \A r \in Reader : /\ held[r] \subseteq held'[r]
                              /\ rd[r].pc # "idle" => stable'[rd[r].key] \in held'[r]
<1>0. stable \in [Key -> Values] /\ ReaderType
  BY DEF TypeInv, SegmentType
<1>1. stable' = IF w'.pc \in {"idle", "bump"} THEN [k \in Key |-> Lookup(idx', k)] ELSE stable
  BY DEF Observe
<1>2. stable' \in [Key -> Values]
  BY <1>0, <1>1, LookupType
<1>3. /\ w'.pc \in {"idle", "bump"} => \A k \in Key : stable'[k] = Lookup(idx', k)
      /\ w'.pc \notin {"idle", "bump"} => stable' = stable
  BY <1>1
<1>4. \A r \in Reader : rd[r].pc # "idle" => stable'[rd[r].key] \in Values
  BY <1>0, <1>2 DEF ReaderType
<1>5. \A r \in Reader :
        held'[r] = IF rd[r].pc = "idle" THEN held[r] ELSE held[r] \cup {stable'[rd[r].key]}
  BY DEF Observe
<1>6. held' \in [Reader -> SUBSET Values]
  <2>1. held' = [r \in Reader |-> IF rd[r].pc = "idle" THEN held[r]
                                  ELSE held[r] \cup {stable'[rd[r].key]}]
    BY DEF Observe
  <2>2. held \in [Reader -> SUBSET Values]
    BY <1>0 DEF ReaderType
  <2> QED
    BY <1>4, <2>1, <2>2
<1>7. ReaderType'
  BY <1>0, <1>6 DEF ReaderType
<1> QED
  BY <1>2, <1>3, <1>5, <1>7

\* A call begins.
LEMMA StartingFacts ==
  ASSUME TypeInv, NEW op \in {"put", "remove", "clear"}, NEW k \in Key \cup {NoKey},
         NEW v \in Val \cup {Absent}, NEW here \in {"begin", "wipe"},
         Starting(op, k, v, here)
  PROVE  /\ w.pc = "idle"
         /\ w' \in WriterRec /\ w'.pc = here /\ w'.op = op /\ w'.key = k /\ w'.val = v
         /\ w'.at = 0 /\ (here = "wipe" => w'.keep = idx)
<1>1. w.pc = "idle"
  BY DEF Starting
<1>2. idx \in [Cell -> Entry] /\ NoCells \in [Cell -> Entry]
  BY WipedType DEF TypeInv, SegmentType
<1>3. PICK x \in [Cell -> Entry] :
        /\ w' = [IdleWriter EXCEPT !.pc = here, !.op = op, !.key = k, !.val = v, !.keep = x]
        /\ here = "wipe" => x = idx
  BY <1>2 DEF Starting
<1>4. IdleWriter \in WriterRec /\ IdleWriter.at = 0
  BY IdleTypes DEF IdleWriter
<1>5. here \in {"idle", "begin", "bump"} \cup Writing \cup Wiping
  BY DEF Wiping
<1>6. w' \in WriterRec /\ w'.pc = here /\ w'.op = op /\ w'.key = k /\ w'.val = v
        /\ w'.at = 0 /\ w'.keep = x
  BY <1>3, <1>4, <1>5 DEF WriterRec
<1> QED
  BY <1>1, <1>3, <1>6

\* Put, remove and clear.
LEMMA BeginType ==
  ASSUME TypeInv,
         \/ \E k \in Key : Remove(k) \/ \E v \in Val : Put(k, v)
         \/ Clear
  PROVE  /\ TypeInv'
         /\ idx' = idx /\ slots' = slots /\ WriterStep /\ w.pc = "idle"
         /\ \/ w'.pc = "begin" /\ arena' = arena
            \/ w'.pc = "wipe" /\ arena' = NextOdd(arena) /\ w'.at = 0
<1> DEFINE Begun(op, k, here) ==
      /\ w.pc = "idle" /\ w' \in WriterRec /\ w'.pc = here /\ w'.op = op /\ w'.key = k
      /\ w'.at = 0 /\ (here = "wipe" => w'.keep = idx)
<1>0. /\ arena \in Nat /\ slots \in [Slot -> Nat]
      /\ NextOdd(arena) \in Nat /\ Odd(NextOdd(arena))
  BY CounterFacts DEF TypeInv, SegmentType
<1>1. /\ idx' = idx /\ slots' = slots /\ WriterStep
      /\ \/ \E k \in Key, op \in {"put", "remove"} :
              Begun(op, k, "begin") /\ arena' = arena /\ CanClaim(idx, k)
         \/ \E k \in Key : Begun("put", k, "wipe") /\ arena' = NextOdd(arena)
         \/ Begun("clear", NoKey, "wipe") /\ arena' = NextOdd(arena)
  <2>1. ASSUME NEW k \in Key, Remove(k)
        PROVE  /\ idx' = idx /\ slots' = slots /\ WriterStep
               /\ Begun("remove", k, "begin") /\ arena' = arena /\ CanClaim(idx, k)
    <3>1. Starting("remove", k, Absent, "begin") /\ Lookup(idx, k) # Absent
      BY <2>1 DEF Remove
    <3>2. CanClaim(idx, k)
      BY <3>1 DEF Lookup, Found, CanClaim
    <3>3. Begun("remove", k, "begin")
      BY <3>1, StartingFacts
    <3> QED
      BY <2>1, <3>2, <3>3 DEF Remove
  <2>2. ASSUME NEW k \in Key, NEW v \in Val, Put(k, v)
        PROVE  /\ idx' = idx /\ slots' = slots /\ WriterStep
               /\ \/ Begun("put", k, "begin") /\ arena' = arena /\ CanClaim(idx, k)
                  \/ Begun("put", k, "wipe") /\ arena' = NextOdd(arena)
    <3>1. \/ Starting("put", k, v, "begin") /\ arena' = arena /\ CanClaim(idx, k)
          \/ Starting("put", k, v, "wipe") /\ arena' = NextOdd(arena)
      BY <2>2 DEF Put
    <3>2. \/ Begun("put", k, "begin") /\ arena' = arena /\ CanClaim(idx, k)
          \/ Begun("put", k, "wipe") /\ arena' = NextOdd(arena)
      BY <3>1, StartingFacts
    <3> QED
      BY <2>2, <3>2 DEF Put
  <2>3. ASSUME Clear
        PROVE  /\ idx' = idx /\ slots' = slots /\ WriterStep
               /\ Begun("clear", NoKey, "wipe") /\ arena' = NextOdd(arena)
    <3>1. Starting("clear", NoKey, Absent, "wipe")
      BY <2>3 DEF Clear
    <3>2. Begun("clear", NoKey, "wipe")
      BY <3>1, StartingFacts
    <3> QED
      BY <2>3, <3>2 DEF Clear
  <2> HIDE DEF Begun
  <2> QED
    BY <2>1, <2>2, <2>3
<1>2. w.pc = "idle" /\ w' \in WriterRec /\ w'.at = 0
  BY <1>1
<1>3. /\ stable' \in [Key -> Values] /\ ReaderType'
      /\ rd' = rd /\ deaths' = deaths /\ saved' = saved
  BY <1>1, ObserveFacts DEF WriterStep
<1>4. SegmentType'
  BY <1>0, <1>1, <1>3 DEF TypeInv, SegmentType
<1>5. WriterType'
  BY <1>1 DEF WriterType, Writing, Wiping
<1>6. KeyedInv'
  <2>1. \A c \in Cell : idx[c].key = NoKey => Garbage(idx[c])
    BY DEF TypeInv, KeyedInv
  <2>2. w'.pc \in {"begin", "wipe"} /\ (w'.pc = "wipe" => w'.keep = idx)
    BY <1>1
  <2> QED
    BY <1>1, <2>1, <2>2 DEF KeyedInv, Writing, Wiping
<1>7. ParityInv'
  <2>1. w'.pc = "begin" \/ (w'.pc = "wipe" /\ Odd(arena'))
    BY <1>0, <1>1
  <2>2. deaths = 0 => \A s \in Slot : ~Odd(slots[s])
    BY <1>2 DEF TypeInv, ParityInv, Writing
  <2> QED
    BY <1>1, <1>3, <2>1, <2>2 DEF ParityInv, Writing, Wiping
<1>8. \/ w'.pc = "begin" /\ arena' = arena
      \/ w'.pc = "wipe" /\ arena' = NextOdd(arena) /\ w'.at = 0
  BY <1>1
<1> QED
  BY <1>1, <1>2, <1>3, <1>4, <1>5, <1>6, <1>7, <1>8 DEF TypeInv

\* One of the stores into the entry.
Stores ==
  \/ WriteKey \/ WriteHash \/ ZeroLen \/ WriteOff \/ WriteLen \/ WriteFlag \/ WriteState

\* What all of them have in common, and where they differ.
Stored ==
  /\ WriterStep /\ slots' = slots /\ arena' = arena
  /\ w.pc \in Writing /\ w' \in WriterRec /\ w'.pc \in Writing
  /\ w'.key = w.key /\ w'.cell = w.cell
  /\ idx' \in [Cell -> Entry] /\ \A d \in Cell \ {w.cell} : idx'[d] = idx[d]
  /\ w.pc = "key" => idx'[w.cell].key = NoKey /\ w'.pc = "hash"
  /\ w.pc = "hash" => idx'[w.cell].key = w.key /\ w'.pc = "zero"
  /\ w.pc \notin {"key", "hash"} =>
       idx'[w.cell].key = idx[w.cell].key /\ w'.pc \notin {"key", "hash"}
  /\ w.pc \in {"key", "hash"} => idx'[w.cell].dirty = idx[w.cell].dirty
  /\ w.pc # "state" => idx'[w.cell].state = idx[w.cell].state
  /\ w.pc = "state" => idx'[w.cell].state \in {"live", "tomb"}

LEMMA StoreFacts ==
  ASSUME TypeInv, Stores
  PROVE  Stored
<1>0. /\ w \in WriterRec /\ w.cell \in Cell /\ idx \in [Cell -> Entry]
      /\ w.key \in Key \cup {NoKey} /\ w.val \in Val \cup {Absent}
  BY DEF TypeInv, WriterType, SegmentType, WriterRec
<1>1. ASSUME NEW here \in Writing, NEW there \in Writing, w.pc = here,
             w' = [w EXCEPT !.pc = there]
      PROVE  w' \in WriterRec /\ w'.pc = there /\ w'.key = w.key /\ w'.cell = w.cell
  BY <1>0, <1>1 DEF WriterRec
<1>2. LenOf(w.val) \in Nat
  BY BytesAssumption DEF LenOf
<1>3. CASE WriteKey
  <2>1. w.pc = "key" /\ w' = [w EXCEPT !.pc = "hash"] /\ WriterStep /\ slots' = slots
          /\ arena' = arena /\ idx' = [idx EXCEPT ![w.cell].key = NoKey]
    BY <1>3 DEF WriteKey, Write
  <2>2. w' \in WriterRec /\ w'.pc = "hash" /\ w'.key = w.key /\ w'.cell = w.cell
    BY <1>1, <2>1 DEF Writing
  <2>3. /\ idx' \in [Cell -> Entry] /\ \A d \in Cell \ {w.cell} : idx'[d] = idx[d]
        /\ idx'[w.cell].key = NoKey /\ idx'[w.cell].dirty = idx[w.cell].dirty
        /\ idx'[w.cell].state = idx[w.cell].state
    BY <1>0, <2>1 DEF Entry
  <2> QED
    BY <2>1, <2>2, <2>3 DEF Stored, Writing
<1>4. CASE WriteHash
  <2>1. w.pc = "hash" /\ w' = [w EXCEPT !.pc = "zero"] /\ WriterStep /\ slots' = slots
          /\ arena' = arena /\ idx' = [idx EXCEPT ![w.cell].key = w.key]
    BY <1>4 DEF WriteHash, Write
  <2>2. w' \in WriterRec /\ w'.pc = "zero" /\ w'.key = w.key /\ w'.cell = w.cell
    BY <1>1, <2>1 DEF Writing
  <2>3. /\ idx' \in [Cell -> Entry] /\ \A d \in Cell \ {w.cell} : idx'[d] = idx[d]
        /\ idx'[w.cell].key = w.key /\ idx'[w.cell].dirty = idx[w.cell].dirty
        /\ idx'[w.cell].state = idx[w.cell].state
    BY <1>0, <2>1 DEF Entry
  <2> QED
    BY <2>1, <2>2, <2>3 DEF Stored, Writing
<1>5. ASSUME NEW here \in Writing \ {"key", "hash", "state"},
             NEW there \in Writing \ {"key", "hash"}, w.pc = here,
             w' = [w EXCEPT !.pc = there], WriterStep, slots' = slots, arena' = arena,
             \/ \E x \in Nat : idx' = [idx EXCEPT ![w.cell].len = x]
             \/ \E x \in Val \cup {Absent} : idx' = [idx EXCEPT ![w.cell].off = x]
             \/ idx' = [idx EXCEPT ![w.cell].dirty = TRUE]
      PROVE  Stored
  <2>2. w' \in WriterRec /\ w'.pc = there /\ w'.key = w.key /\ w'.cell = w.cell
    BY <1>1, <1>5
  <2> DEFINE Kept ==
        /\ idx' \in [Cell -> Entry] /\ \A d \in Cell \ {w.cell} : idx'[d] = idx[d]
        /\ idx'[w.cell].key = idx[w.cell].key
        /\ idx'[w.cell].state = idx[w.cell].state
  <2>3. Kept
    <3>1. ASSUME NEW x \in Nat, idx' = [idx EXCEPT ![w.cell].len = x]
          PROVE  Kept
      BY <1>0, <3>1 DEF Entry
    <3>2. ASSUME NEW x \in Val \cup {Absent}, idx' = [idx EXCEPT ![w.cell].off = x]
          PROVE  Kept
      BY <1>0, <3>2 DEF Entry
    <3>3. ASSUME idx' = [idx EXCEPT ![w.cell].dirty = TRUE]
          PROVE  Kept
      BY <1>0, <3>3 DEF Entry
    <3> QED
      BY <1>5, <3>1, <3>2, <3>3
  <2> QED
    BY <1>5, <2>2, <2>3 DEF Stored, Writing
<1>6. CASE ZeroLen
  BY <1>5, <1>6 DEF ZeroLen, Write, Writing
<1>7. CASE WriteOff
  BY <1>0, <1>5, <1>7 DEF WriteOff, Write, Writing
<1>8. CASE WriteLen
  BY <1>2, <1>5, <1>8 DEF WriteLen, Write, Writing
<1>9. CASE WriteFlag
  BY <1>5, <1>9 DEF WriteFlag, Write, Writing
<1>10. CASE WriteState
  <2>1. PICK x \in {"live", "tomb"} :
          /\ w.pc = "state" /\ w' = [w EXCEPT !.pc = "end"] /\ WriterStep /\ slots' = slots
          /\ arena' = arena /\ idx' = [idx EXCEPT ![w.cell].state = x]
    BY <1>10 DEF WriteState, Write
  <2>2. w' \in WriterRec /\ w'.pc = "end" /\ w'.key = w.key /\ w'.cell = w.cell
    BY <1>1, <2>1 DEF Writing
  <2>3. /\ idx' \in [Cell -> Entry] /\ \A d \in Cell \ {w.cell} : idx'[d] = idx[d]
        /\ idx'[w.cell].key = idx[w.cell].key /\ idx'[w.cell].state = x
    BY <1>0, <2>1 DEF Entry
  <2> QED
    BY <2>1, <2>2, <2>3 DEF Stored, Writing
<1> QED
  BY <1>3, <1>4, <1>6, <1>7, <1>8, <1>9, <1>10 DEF Stores

LEMMA StoreType ==
  ASSUME TypeInv, Stored
  PROVE  TypeInv'
<1>0. /\ w.key \in Key /\ w.cell \in Cell /\ NoKey \notin Key
      /\ Odd(slots[SlotOf[w.key]])
      /\ \A c \in Cell : idx[c].key = NoKey => Garbage(idx[c])
      /\ w.pc \in {"key", "hash"} => Garbage(idx[w.cell])
      /\ w.pc \in Writing \ {"key", "hash"} => idx[w.cell].key = w.key
  BY BytesAssumption DEF TypeInv, WriterType, WriterRec, KeyedInv, ParityInv, Stored
<1>1. stable' \in [Key -> Values] /\ ReaderType' /\ deaths' = deaths /\ saved' = saved
  BY ObserveFacts DEF Stored, WriterStep
<1>2. SegmentType'
  BY <1>1 DEF TypeInv, SegmentType, Stored
<1>3. WriterType'
  BY <1>0 DEF WriterType, Stored, Writing, Wiping
<1>4. KeyedInv'
  <2>1. w'.pc \in {"key", "hash"} => Garbage(idx'[w.cell])
    BY <1>0 DEF Stored, Garbage
  <2>2. w'.pc \in Writing \ {"key", "hash"} => idx'[w.cell].key = w.key
    BY <1>0 DEF Stored
  <2>3. idx'[w.cell].key = NoKey => Garbage(idx'[w.cell])
    BY <1>0 DEF Stored, Garbage
  <2>4. \A c \in Cell : idx'[c].key = NoKey => Garbage(idx'[c])
    BY <1>0, <2>3 DEF Stored
  <2> QED
    BY <2>1, <2>2, <2>4 DEF KeyedInv, Stored, Writing, Wiping
<1>5. ParityInv'
  BY <1>0, <1>1 DEF TypeInv, ParityInv, Stored, Writing, Wiping
<1> QED
  BY <1>1, <1>2, <1>3, <1>4, <1>5 DEF TypeInv

LEMMA SeqBeginType ==
  ASSUME TypeInv, SeqBegin
  PROVE  /\ TypeInv'
         /\ WriterStep /\ idx' = idx /\ arena' = arena
         /\ w.pc = "begin" /\ w'.pc \in Writing /\ w'.key = w.key /\ w.key \in Key
         /\ w'.cell = Target(idx, w.key) /\ CanClaim(idx, w.key)
         /\ slots' = [slots EXCEPT ![SlotOf[w.key]] = NextOdd(@)]
<1>0. /\ w \in WriterRec /\ w.pc = "begin" /\ w.key \in Key /\ CanClaim(idx, w.key)
      /\ idx \in [Cell -> Entry] /\ slots \in [Slot -> Nat] /\ SlotOf[w.key] \in Slot
  BY IndexAssumption DEF SeqBegin, TypeInv, WriterType, SegmentType
<1>1. /\ Target(idx, w.key) \in Cell
      /\ Found(idx, w.key) => idx[Target(idx, w.key)].key = w.key
      /\ ~Found(idx, w.key) => Garbage(idx[Target(idx, w.key)])
  BY <1>0, TargetFacts
<1>2. /\ WriterStep /\ idx' = idx /\ arena' = arena
      /\ slots' = [slots EXCEPT ![SlotOf[w.key]] = NextOdd(@)]
  BY DEF SeqBegin
<1>3. PICK p \in {"zero", "key"} :
        /\ w' = [w EXCEPT !.cell = Target(idx, w.key), !.pc = p]
        /\ p = "zero" <=> Found(idx, w.key)
  BY DEF SeqBegin
<1>4. w' \in WriterRec /\ w'.pc = p /\ w'.key = w.key /\ w'.cell = Target(idx, w.key)
  BY <1>0, <1>1, <1>3 DEF WriterRec, Writing
<1>5. stable' \in [Key -> Values] /\ ReaderType' /\ deaths' = deaths /\ saved' = saved
  BY <1>2, ObserveFacts DEF WriterStep
<1>6. /\ slots[SlotOf[w.key]] \in Nat
      /\ NextOdd(slots[SlotOf[w.key]]) \in Nat /\ Odd(NextOdd(slots[SlotOf[w.key]]))
  BY <1>0, CounterFacts
<1>7. /\ slots' \in [Slot -> Nat] /\ Odd(slots'[SlotOf[w.key]])
      /\ \A s \in Slot \ {SlotOf[w.key]} : slots'[s] = slots[s]
  BY <1>0, <1>2, <1>6
<1>8. SegmentType'
  BY <1>0, <1>2, <1>5, <1>7 DEF TypeInv, SegmentType
<1>9. WriterType'
  BY <1>0, <1>4 DEF WriterType, Wiping
<1>10. KeyedInv'
  BY <1>1, <1>2, <1>3, <1>4 DEF TypeInv, KeyedInv, Wiping
<1>11. ParityInv'
  BY <1>0, <1>2, <1>4, <1>5, <1>7 DEF TypeInv, ParityInv, Writing, Wiping
<1> QED
  BY <1>0, <1>2, <1>4, <1>5, <1>8, <1>9, <1>10, <1>11 DEF TypeInv, Writing

\* The writer goes away, or goes on to something outside both windows.
LEMMA LeaveType ==
  ASSUME TypeInv, Observe, rd' = rd, cache' = cache, saved' \in [Key -> Values],
         idx' = idx, slots' \in [Slot -> Nat], arena' \in Nat, deaths' \in Nat,
         w' \in WriterRec, w'.pc \in {"idle", "bump"},
         deaths' = 0 => \A s \in Slot : ~Odd(slots'[s])
  PROVE  TypeInv'
<1>1. stable' \in [Key -> Values] /\ ReaderType'
  BY ObserveFacts
<1>2. SegmentType'
  BY <1>1 DEF TypeInv, SegmentType
<1>3. WriterType'
  BY DEF WriterType, Writing, Wiping
<1>4. KeyedInv'
  BY DEF TypeInv, KeyedInv, Writing, Wiping
<1>5. ParityInv'
  BY DEF ParityInv, Writing, Wiping
<1> QED
  BY <1>1, <1>2, <1>3, <1>4, <1>5 DEF TypeInv

LEMMA SeqEndType ==
  ASSUME TypeInv, SeqEnd
  PROVE  /\ TypeInv'
         /\ WriterStep /\ idx' = idx /\ arena' = arena
         /\ w.pc \in Writing /\ w.key \in Key /\ w'.pc = "idle"
         /\ slots' = [slots EXCEPT ![SlotOf[w.key]] = NextEven(@)]
<1>0. /\ w.pc = "end" /\ w.key \in Key /\ slots \in [Slot -> Nat] /\ SlotOf[w.key] \in Slot
      /\ arena \in Nat /\ deaths \in Nat /\ saved \in [Key -> Values]
  BY IndexAssumption DEF SeqEnd, TypeInv, WriterType, SegmentType, Writing
<1>1. /\ WriterStep /\ idx' = idx /\ arena' = arena /\ w' = IdleWriter
      /\ slots' = [slots EXCEPT ![SlotOf[w.key]] = NextEven(@)]
  BY DEF SeqEnd
<1>2. NextEven(slots[SlotOf[w.key]]) \in Nat /\ ~Odd(NextEven(slots[SlotOf[w.key]]))
  BY <1>0, CounterFacts
<1>3. /\ slots' \in [Slot -> Nat] /\ ~Odd(slots'[SlotOf[w.key]])
      /\ \A s \in Slot \ {SlotOf[w.key]} : slots'[s] = slots[s]
  BY <1>0, <1>1, <1>2
<1>4. deaths = 0 => \A s \in Slot : ~Odd(slots'[s])
  BY <1>3 DEF TypeInv, ParityInv
<1>5. TypeInv'
  BY <1>0, <1>1, <1>3, <1>4, IdleTypes, LeaveType DEF WriterStep
<1> QED
  BY <1>0, <1>1, <1>5, IdleTypes DEF Writing

LEMMA DiesType ==
  ASSUME TypeInv, WriterDies
  PROVE  /\ TypeInv' /\ Observe /\ UNCHANGED <<idx, slots, arena, rd, cache>>
         /\ w'.pc = "idle"
<1>1. /\ UNCHANGED <<idx, slots, arena, rd, cache, saved>> /\ Observe
      /\ w' = IdleWriter /\ deaths' = deaths + 1
  BY DEF WriterDies
<1>2. deaths \in Nat /\ slots \in [Slot -> Nat] /\ arena \in Nat /\ saved \in [Key -> Values]
  BY DEF TypeInv, SegmentType
<1>3. deaths' \in Nat /\ deaths' # 0
  BY <1>1, <1>2
<1>4. TypeInv'
  BY <1>1, <1>2, <1>3, IdleTypes, LeaveType
<1> QED
  BY <1>1, <1>4, IdleTypes

LEMMA BumpType ==
  ASSUME TypeInv, BumpSlot
  PROVE  /\ TypeInv' /\ Observe /\ UNCHANGED <<idx, arena, rd, cache>>
         /\ w.pc = "bump"
         /\ \E s \in Slot : /\ s \in w.left
                            /\ slots' = [slots EXCEPT ![s] = NextEven(@)]
                            /\ \/ w'.pc = "idle" /\ w.left = {s}
                               \/ w'.pc = "bump" /\ w'.left = w.left \ {s} /\ w'.op = w.op
<1>0. /\ w \in WriterRec /\ w.pc = "bump" /\ w.left \subseteq Slot
      /\ slots \in [Slot -> Nat] /\ arena \in Nat /\ deaths \in Nat
      /\ saved \in [Key -> Values]
  BY DEF BumpSlot, TypeInv, WriterType, SegmentType, WriterRec
<1>1. UNCHANGED <<idx, arena, rd, cache, deaths>> /\ Observe
  BY DEF BumpSlot
<1>2. PICK s \in w.left :
        /\ slots' = [slots EXCEPT ![s] = NextEven(@)]
        /\ w' = IF w.left = {s} THEN IdleWriter ELSE [w EXCEPT !.left = @ \ {s}]
        /\ saved' = IF w.left = {s} THEN [k \in Key |-> Absent] ELSE saved
  BY DEF BumpSlot
<1>3. /\ w' \in WriterRec
      /\ \/ w'.pc = "idle" /\ w.left = {s}
         \/ w'.pc = "bump" /\ w'.left = w.left \ {s} /\ w'.op = w.op
  <2>1. CASE w.left = {s}
    BY <1>2, <2>1, IdleTypes
  <2>2. CASE w.left # {s}
    BY <1>0, <1>2, <2>2 DEF WriterRec
  <2> QED
    BY <2>1, <2>2
<1>4. saved' \in [Key -> Values]
  BY <1>0, <1>2 DEF Values
<1>5. NextEven(slots[s]) \in Nat /\ ~Odd(NextEven(slots[s]))
  BY <1>0, CounterFacts
<1>6. slots' \in [Slot -> Nat] /\ \A q \in Slot : Odd(slots'[q]) => Odd(slots[q])
  BY <1>0, <1>2, <1>5
<1>7. deaths = 0 => \A q \in Slot : ~Odd(slots[q])
  BY <1>0 DEF TypeInv, ParityInv, Writing
<1>8. TypeInv'
  BY <1>0, <1>1, <1>3, <1>4, <1>6, <1>7, LeaveType
<1> QED
  BY <1>0, <1>1, <1>2, <1>3, <1>8

LEMMA ArenaEndType ==
  ASSUME TypeInv, ArenaEnd
  PROVE  /\ TypeInv'
         /\ WriterStep /\ idx' = idx /\ slots' = slots /\ arena' = NextEven(arena)
         /\ w.pc = "settle"
         /\ \/ w.op = "clear" /\ w'.op = "clear" /\ w'.pc = "bump" /\ w'.left = Slot
            \/ w.op = "put" /\ w'.pc \in {"begin", "idle"}
<1>0. /\ w \in WriterRec /\ w.pc = "settle" /\ arena \in Nat
      /\ w.op = "clear" \/ (w.op = "put" /\ w.key \in Key)
      /\ slots \in [Slot -> Nat] /\ deaths \in Nat /\ saved \in [Key -> Values]
  BY DEF ArenaEnd, TypeInv, WriterType, SegmentType, Wiping
<1>1. /\ WriterStep /\ idx' = idx /\ slots' = slots /\ arena' = NextEven(arena)
  BY DEF ArenaEnd
<1>2. NextEven(arena) \in Nat
  BY <1>0, CounterFacts
<1>3. deaths = 0 => \A s \in Slot : ~Odd(slots[s])
  BY <1>0 DEF TypeInv, ParityInv, Writing
<1>4. CASE w.op = "clear"
  <2>1. w' = [w EXCEPT !.pc = "bump", !.keep = NoCells, !.left = Slot]
    BY <1>4 DEF ArenaEnd
  <2>2. w' \in WriterRec /\ w'.op = w.op /\ w'.pc = "bump" /\ w'.left = Slot
    BY <1>0, <2>1, WipedType DEF WriterRec
  <2>3. TypeInv'
    BY <1>0, <1>1, <1>2, <1>3, <2>2, LeaveType DEF WriterStep
  <2> QED
    BY <1>0, <1>1, <1>4, <2>2, <2>3
<1>5. CASE w.op # "clear" /\ ~CanClaim(idx, w.key)
  <2>1. w' = IdleWriter
    BY <1>5 DEF ArenaEnd
  <2>2. TypeInv'
    BY <1>0, <1>1, <1>2, <1>3, <2>1, IdleTypes, LeaveType DEF WriterStep
  <2> QED
    BY <1>0, <1>1, <1>5, <2>1, <2>2, IdleTypes
<1>6. CASE w.op # "clear" /\ CanClaim(idx, w.key)
  <2>1. w' = [w EXCEPT !.pc = "begin", !.keep = NoCells, !.at = 0]
    BY <1>6 DEF ArenaEnd
  <2>2. 0 \in Cell
    BY IndexAssumption DEF Cell
  <2>3. w' \in WriterRec /\ w'.pc = "begin" /\ w'.key = w.key
    BY <1>0, <2>1, <2>2, WipedType DEF WriterRec
  <2>4. stable' \in [Key -> Values] /\ ReaderType' /\ deaths' = deaths /\ saved' = saved
    BY <1>1, ObserveFacts DEF WriterStep
  <2>5. SegmentType'
    BY <1>1, <1>2, <2>4 DEF TypeInv, SegmentType
  <2>6. WriterType'
    BY <1>0, <1>1, <1>6, <2>3 DEF WriterType, Writing, Wiping
  <2>7. KeyedInv'
    BY <1>1, <2>3 DEF TypeInv, KeyedInv, Writing, Wiping
  <2>8. ParityInv'
    BY <1>1, <1>3, <2>3, <2>4 DEF ParityInv, Writing, Wiping
  <2> QED
    BY <1>0, <1>1, <1>6, <2>3, <2>4, <2>5, <2>6, <2>7, <2>8 DEF TypeInv
<1> QED
  BY <1>4, <1>5, <1>6

\* A step of a compaction or a clear from one cell to the next.
LEMMA SweepType ==
  ASSUME TypeInv, WriterStep, slots' = slots, arena' = arena,
         w.pc \in Wiping, w' \in WriterRec, w'.pc \in Wiping, w'.op = w.op, w'.key = w.key,
         w'.keep = w.keep, w'.pc = "refill" => w.op # "clear",
         idx' \in [Cell -> Entry], \A c \in Cell : idx'[c].key = NoKey => Garbage(idx'[c])
  PROVE  TypeInv'
<1>1. stable' \in [Key -> Values] /\ ReaderType' /\ deaths' = deaths /\ saved' = saved
  BY ObserveFacts DEF WriterStep
<1>2. SegmentType'
  BY <1>1 DEF TypeInv, SegmentType
<1>3. WriterType'
  BY DEF TypeInv, WriterType, Writing, Wiping
<1>4. KeyedInv'
  BY DEF TypeInv, KeyedInv, Writing, Wiping
<1>5. ParityInv'
  BY <1>1 DEF TypeInv, ParityInv, Writing, Wiping
<1> QED
  BY <1>1, <1>2, <1>3, <1>4, <1>5 DEF TypeInv

LEMMA WipeType ==
  ASSUME TypeInv, WipeCell
  PROVE  /\ TypeInv'
         /\ WriterStep /\ slots' = slots /\ arena' = arena
         /\ w.pc = "wipe" /\ w.at \in Cell /\ idx' = [idx EXCEPT ![w.at] = Wiped]
         /\ w'.pc \in Wiping
         /\ \/ w'.pc = "wipe" /\ w'.at = w.at + 1
            \/ w'.pc # "wipe" /\ w.at + 1 = N
<1>0. /\ w \in WriterRec /\ w.pc = "wipe" /\ w.at \in Cell /\ idx \in [Cell -> Entry]
  BY DEF WipeCell, TypeInv, WriterType, SegmentType, WriterRec
<1>1. /\ WriterStep /\ slots' = slots /\ arena' = arena
      /\ idx' = [idx EXCEPT ![w.at] = Wiped]
  BY DEF WipeCell
<1>2. /\ w' \in WriterRec /\ w'.op = w.op /\ w'.key = w.key /\ w'.keep = w.keep
      /\ \/ w'.pc = "wipe" /\ w'.at = w.at + 1
         \/ w'.pc = "settle" /\ w.at + 1 = N
         \/ w'.pc = "refill" /\ w.op # "clear" /\ w.at + 1 = N
  <2>1. CASE w.at + 1 < N
    <3>1. w' = [w EXCEPT !.at = w.at + 1]
      BY <2>1 DEF WipeCell
    <3>2. w.at + 1 \in Cell
      BY <1>0, <2>1, IndexAssumption DEF Cell
    <3> QED
      BY <1>0, <3>1, <3>2 DEF WriterRec
  <2>2. CASE ~ (w.at + 1 < N)
    <3>1. PICK p \in {"settle", "refill"} :
            /\ w' = [w EXCEPT !.at = 0, !.pc = p]
            /\ p = "refill" => w.op # "clear"
      BY <2>2 DEF WipeCell
    <3>2. 0 \in Cell /\ w.at + 1 = N
      BY <1>0, <2>2, IndexAssumption DEF Cell
    <3> QED
      BY <1>0, <3>1, <3>2 DEF WriterRec, Wiping
  <2> QED
    BY <2>1, <2>2
<1>3. /\ idx' \in [Cell -> Entry]
      /\ \A c \in Cell : idx'[c].key = NoKey => Garbage(idx'[c])
  <2>1. \A c \in Cell : idx[c].key = NoKey => Garbage(idx[c])
    BY DEF TypeInv, KeyedInv
  <2> QED
    BY <1>0, <1>1, <2>1, WipedType
<1>4. w'.pc \in Wiping /\ w.pc \in Wiping /\ (w'.pc = "refill" => w.op # "clear")
  BY <1>0, <1>2 DEF Wiping
<1>5. TypeInv'
  BY <1>1, <1>2, <1>3, <1>4, SweepType
<1> QED
  BY <1>0, <1>1, <1>2, <1>4, <1>5

\* An entry goes back to where a probe finds room for it, or nothing is stored.
LEMMA RefillType ==
  ASSUME TypeInv, Refill
  PROVE  /\ TypeInv'
         /\ WriterStep /\ slots' = slots /\ arena' = arena
         /\ w.pc = "refill" /\ w'.pc \in {"refill", "settle"}
         /\ \/ idx' = idx
            \/ \E e \in Entry : /\ e.key \in Key /\ e.state # "empty" /\ CanClaim(idx, e.key)
                                /\ idx' = [idx EXCEPT ![Target(idx, e.key)] = e]
<1> DEFINE e == w.keep[w.at]
<1>0. /\ w \in WriterRec /\ w.pc = "refill" /\ w.at \in Cell /\ idx \in [Cell -> Entry]
      /\ e \in Entry /\ (e.key = NoKey => Garbage(e)) /\ w.op # "clear"
  <2>1. w \in WriterRec /\ w.pc = "refill" /\ w.op # "clear" /\ idx \in [Cell -> Entry]
    BY DEF Refill, TypeInv, WriterType, SegmentType
  <2>2. w.at \in Cell /\ w.keep \in [Cell -> Entry]
    BY <2>1 DEF WriterRec
  <2>3. e.key = NoKey => Garbage(e)
    BY <2>1, <2>2 DEF TypeInv, KeyedInv, Wiping
  <2> QED
    BY <2>1, <2>2, <2>3
<1>1. /\ WriterStep /\ slots' = slots /\ arena' = arena
      /\ idx' = IF Garbage(e) \/ ~CanClaim(idx, e.key) THEN idx
                ELSE [idx EXCEPT ![Target(idx, e.key)] = e]
  BY DEF Refill
<1> HIDE DEF e
<1>2. /\ w' \in WriterRec /\ w'.op = w.op /\ w'.key = w.key /\ w'.keep = w.keep
      /\ w'.pc \in {"refill", "settle"}
  <2>1. CASE w.at + 1 < N
    <3>1. w' = [w EXCEPT !.at = w.at + 1]
      BY <2>1 DEF Refill
    <3>2. w.at + 1 \in Cell
      BY <1>0, <2>1, IndexAssumption DEF Cell
    <3> QED
      BY <1>0, <3>1, <3>2 DEF WriterRec
  <2>2. CASE ~ (w.at + 1 < N)
    <3>1. w' = [w EXCEPT !.pc = "settle"]
      BY <2>2 DEF Refill
    <3> QED
      BY <1>0, <3>1 DEF WriterRec, Wiping
  <2> QED
    BY <2>1, <2>2
<1>3. \/ idx' = idx
      \/ /\ e.key \in Key /\ e.state # "empty" /\ CanClaim(idx, e.key)
         /\ idx' = [idx EXCEPT ![Target(idx, e.key)] = e]
  <2>1. CASE Garbage(e) \/ ~CanClaim(idx, e.key)
    BY <1>1, <2>1
  <2>2. CASE ~Garbage(e) /\ CanClaim(idx, e.key)
    <3>1. e.key \in Key \cup {NoKey}
      BY <1>0 DEF Entry
    <3> QED
      BY <1>0, <1>1, <2>2, <3>1 DEF Garbage
  <2> QED
    BY <2>1, <2>2
<1>4. /\ idx' \in [Cell -> Entry]
      /\ \A c \in Cell : idx'[c].key = NoKey => Garbage(idx'[c])
  <2>1. \A c \in Cell : idx[c].key = NoKey => Garbage(idx[c])
    BY DEF TypeInv, KeyedInv
  <2>2. CASE idx' = idx
    BY <1>0, <2>1, <2>2
  <2>3. CASE /\ e.key \in Key /\ e.state # "empty" /\ CanClaim(idx, e.key)
             /\ idx' = [idx EXCEPT ![Target(idx, e.key)] = e]
    <3>1. Target(idx, e.key) \in Cell
      BY <1>0, <2>3, TargetFacts
    <3> QED
      BY <1>0, <2>1, <2>3, <3>1
  <2> QED
    BY <1>3, <2>2, <2>3
<1>5. w'.pc \in Wiping /\ w.pc \in Wiping /\ (w'.pc = "refill" => w.op # "clear")
  BY <1>0, <1>2 DEF Wiping
<1>6. TypeInv'
  BY <1>1, <1>2, <1>4, <1>5, SweepType
<1> QED
  BY <1>0, <1>1, <1>2, <1>3, <1>6

LEMMA CommitType ==
  ASSUME TypeInv, Commit
  PROVE  /\ TypeInv' /\ UNCHANGED <<slots, arena, w, rd, cache, stable, held>>
         /\ w.pc = "idle"
         /\ \A c \in Cell : /\ idx'[c].state = idx[c].state /\ idx'[c].key = idx[c].key
                            /\ idx'[c].off = idx[c].off /\ idx'[c].len = idx[c].len
<1>0. /\ w.pc = "idle" /\ idx \in [Cell -> Entry] /\ saved \in [Key -> Values]
      /\ UNCHANGED <<slots, arena, w, rd, cache, deaths, stable, held>>
  BY DEF Commit, TypeInv, SegmentType
<1>1. PICK K \in SUBSET Key :
        /\ idx' = [c \in Cell |-> IF idx[c].key \in K THEN [idx[c] EXCEPT !.dirty = FALSE]
                                  ELSE idx[c]]
        /\ saved' = [k \in Key |-> IF k \in K /\ Owed(k) THEN Lookup(idx, k) ELSE saved[k]]
  BY DEF Commit
<1>2. /\ idx' \in [Cell -> Entry]
      /\ \A c \in Cell : /\ idx'[c].state = idx[c].state /\ idx'[c].key = idx[c].key
                         /\ idx'[c].off = idx[c].off /\ idx'[c].len = idx[c].len
                         /\ idx'[c].dirty => idx[c].dirty
  BY <1>0, <1>1 DEF Entry
<1>3. saved' \in [Key -> Values]
  BY <1>0, <1>1, LookupType
<1>4. SegmentType'
  BY <1>0, <1>2, <1>3 DEF TypeInv, SegmentType
<1>5. WriterType'
  BY <1>0 DEF TypeInv, WriterType, Writing, Wiping
<1>6. ReaderType'
  BY <1>0 DEF TypeInv, ReaderType
<1>7. KeyedInv'
  <2>1. \A c \in Cell : Garbage(idx[c]) => Garbage(idx'[c])
    BY <1>2 DEF Garbage
  <2> QED
    BY <1>0, <1>2, <2>1 DEF TypeInv, KeyedInv, Writing, Wiping
<1>8. ParityInv'
  BY <1>0 DEF TypeInv, ParityInv
<1> QED
  BY <1>0, <1>1, <1>2, <1>4, <1>5, <1>6, <1>7, <1>8 DEF TypeInv

-----------------------------------------------------------------------------
(* Readers.                                                                *)

\* The reads that take no semaphore.
Looks(r) ==
  \/ ReadBefore(r) \/ ReadS1(r) \/ ReadA1(r) \/ ReadState(r) \/ ReadKey(r)
  \/ ReadLive(r) \/ ReadOff(r) \/ ReadBytes(r) \/ ReadS2(r) \/ ReadA2(r)

\* x has r's counters.
Counters(r, x) == x.before = rd[r].before /\ x.s1 = rd[r].s1 /\ x.a1 = rd[r].a1

\* The step is to the end of the data part, with v.
Ends(r, x, v) == x.pc = "s2" /\ x.val = v /\ Counters(r, x)

\* What such a step makes of r's record.
Advance(r, x) ==
  \/ rd[r].pc = "before" /\ x.pc = "s1" /\ x.before = SlotNow(r)
  \/ rd[r].pc = "s1" /\ x.pc = "a1" /\ x.before = rd[r].before /\ x.s1 = SlotNow(r)
  \/ x.pc \in {"before", "lock"}
  \/ /\ rd[r].pc = "a1" /\ ~Odd(rd[r].s1) /\ ~Odd(arena)
     /\ x.pc = "probe" /\ x.j = 0 /\ x.a1 = arena
     /\ x.before = rd[r].before /\ x.s1 = rd[r].s1
  \/ rd[r].pc = "probe" /\ CellNow(r).state = "empty" /\ Ends(r, x, Absent)
  \/ /\ rd[r].pc = "probe" /\ CellNow(r).state # "empty"
     /\ x.pc = "match" /\ x.j = rd[r].j /\ Counters(r, x)
  \/ /\ rd[r].pc = "match" /\ CellNow(r).key = rd[r].key
     /\ x.pc = "state" /\ x.j = rd[r].j /\ Counters(r, x)
  \/ /\ rd[r].pc = "match" /\ CellNow(r).key # rd[r].key
     /\ x.pc = "probe" /\ x.j = rd[r].j + 1 /\ Counters(r, x)
  \/ /\ rd[r].pc = "match" /\ CellNow(r).key # rd[r].key /\ rd[r].j + 1 = MaxProbes
     /\ Ends(r, x, Absent)
  \/ /\ rd[r].pc = "state" /\ CellNow(r).state = "live"
     /\ x.pc = "off" /\ x.j = rd[r].j /\ Counters(r, x)
  \/ rd[r].pc = "state" /\ CellNow(r).state # "live" /\ Ends(r, x, Absent)
  \/ /\ rd[r].pc = "off" /\ x.pc = "bytes" /\ x.off = CellNow(r).off
     /\ x.j = rd[r].j /\ Counters(r, x)
  \/ /\ rd[r].pc = "bytes"
     /\ Ends(r, x, IF arena = rd[r].a1 THEN Bytes(rd[r].off, CellNow(r).len) ELSE Mixed)
  \/ /\ rd[r].pc = "s2" /\ SlotNow(r) = rd[r].s1 /\ x.pc = "a2"
     /\ x.val = rd[r].val /\ x.before = rd[r].before /\ x.a1 = rd[r].a1
  \/ /\ rd[r].pc = "a2" /\ arena = rd[r].a1 /\ x.pc = "done"
     /\ x.val = rd[r].val /\ x.before = rd[r].before

\* x is r's record after the step, and nothing else has changed.
Becomes(r, x) ==
  /\ rd' = [rd EXCEPT ![r] = x] /\ x \in ReaderRec /\ x.key = rd[r].key
  /\ rd[r].pc # "idle" /\ x.pc # "idle"
  /\ x.pc \in {"before", "s1", "a1", "a2"} \cup Data => x.tries < MaxTries
  /\ UNCHANGED <<idx, slots, arena, w, cache, deaths, stable, held, saved, cut>>

LEMMA ReaderFields ==
  ASSUME TypeInv, NEW r \in Reader, rd[r].pc # "idle"
  PROVE  /\ rd[r] \in ReaderRec /\ rd[r].key \in Key /\ rd[r].j \in Window
         /\ rd[r].before \in Nat /\ rd[r].s1 \in Nat /\ rd[r].a1 \in Nat
         /\ rd[r].val \in Values /\ rd[r].tries \in 0 .. MaxTries
         /\ rd[r].pc \in {"before", "s1", "a1", "a2"} \cup Data => rd[r].tries < MaxTries
         /\ SlotOf[rd[r].key] \in Slot /\ SlotNow(r) \in Nat
         /\ CellAt(rd[r].key, rd[r].j) \in Cell /\ CellNow(r) \in Entry
<1>1. rd[r] \in ReaderRec /\ rd[r].key \in Key
  BY DEF TypeInv, ReaderType
<1>2. /\ rd[r].j \in Window /\ rd[r].val \in Values /\ rd[r].tries \in 0 .. MaxTries
      /\ rd[r].before \in Nat /\ rd[r].s1 \in Nat /\ rd[r].a1 \in Nat
  BY <1>1 DEF ReaderRec
<1>3. SlotOf[rd[r].key] \in Slot /\ SlotNow(r) \in Nat
  BY <1>1, IndexAssumption DEF TypeInv, SegmentType, SlotNow
<1>4. CellAt(rd[r].key, rd[r].j) \in Cell /\ CellNow(r) \in Entry
  BY <1>1, <1>2, CellAtFacts DEF TypeInv, SegmentType, CellNow
<1>5. rd[r].pc \in {"before", "s1", "a1", "a2"} \cup Data => rd[r].tries < MaxTries
  BY DEF TypeInv, ReaderType
<1> QED
  BY <1>1, <1>2, <1>3, <1>4, <1>5

LEMMA TornFacts ==
  ASSUME TypeInv, NEW r \in Reader, rd[r].pc \in {"a1", "s2", "a2"}
  PROVE  /\ Torn(r) \in ReaderRec /\ Torn(r).key = rd[r].key
         /\ Torn(r).pc \in {"before", "lock"}
         /\ Torn(r).pc = "before" => Torn(r).tries < MaxTries
<1>1. rd[r].key \in Key /\ rd[r].tries \in 0 .. MaxTries /\ rd[r].tries < MaxTries
  BY ReaderFields DEF Data
<1>2. rd[r].tries + 1 \in 0 .. MaxTries
  BY <1>1, IndexAssumption
<1>3. PICK p \in {"before", "lock"}, t \in 0 .. MaxTries :
        /\ Torn(r) = [IdleReader EXCEPT !.key = rd[r].key, !.tries = t, !.pc = p]
        /\ p = "before" => t < MaxTries
  BY <1>2 DEF Torn
<1>4. IdleReader \in ReaderRec
  BY IdleTypes
<1> QED
  BY <1>1, <1>3, <1>4 DEF ReaderRec

LEMMA GotFacts ==
  ASSUME TypeInv, NEW r \in Reader, rd[r].pc \in Data, NEW v \in Values
  PROVE  /\ Got(r, v) \in ReaderRec /\ Got(r, v).key = rd[r].key
         /\ Ends(r, Got(r, v), v) /\ Got(r, v).tries < MaxTries
<1>1. rd[r] \in ReaderRec /\ rd[r].tries < MaxTries
  BY ReaderFields DEF Data
<1>2. Got(r, v) = [rd[r] EXCEPT !.pc = "s2", !.val = v, !.j = 0, !.off = Absent]
  BY DEF Got
<1>3. 0 \in Window
  BY WindowFacts
<1> QED
  BY <1>1, <1>2, <1>3 DEF ReaderRec, Ends, Counters, Data

LEMMA LooksFacts ==
  ASSUME TypeInv, NEW r \in Reader, Looks(r)
  PROVE  \E x : Becomes(r, x) /\ Advance(r, x)
<1> DEFINE Same0 == UNCHANGED <<idx, slots, arena, w, cache, deaths, stable, held, saved, cut>>
<1>1. ASSUME NEW here \in {"before", "s1", "a1", "a2"} \cup Data, NEW x,
             Reads(r, here, x)
      PROVE  /\ rd[r].pc = here /\ rd[r].pc # "idle"
             /\ rd' = [rd EXCEPT ![r] = x] /\ Same0
             /\ rd[r] \in ReaderRec /\ rd[r].tries < MaxTries /\ rd[r].j \in Window
             /\ SlotNow(r) \in Nat /\ CellNow(r) \in Entry
  <2>1. rd[r].pc = here /\ rd' = [rd EXCEPT ![r] = x] /\ Same0
    BY <1>1 DEF Reads, Goes
  <2>2. rd[r].pc # "idle"
    BY <2>1 DEF Data
  <2> QED
    BY <2>1, <2>2, ReaderFields
<1> HIDE DEF Same0
<1>2. arena \in Nat
  BY DEF TypeInv, SegmentType
<1>3. ASSUME NEW x, rd' = [rd EXCEPT ![r] = x], Same0, x \in ReaderRec, x.key = rd[r].key,
             rd[r].pc # "idle", x.pc # "idle", x.tries < MaxTries, Advance(r, x)
      PROVE  \E y : Becomes(r, y) /\ Advance(r, y)
  BY <1>3 DEF Becomes, Same0
<1>4. ASSUME rd[r].pc \in {"a1", "s2", "a2"}, rd' = [rd EXCEPT ![r] = Torn(r)], Same0
      PROVE  \E y : Becomes(r, y) /\ Advance(r, y)
  <2>1. /\ Torn(r) \in ReaderRec /\ Torn(r).key = rd[r].key
        /\ Torn(r).pc \in {"before", "lock"}
        /\ Torn(r).pc = "before" => Torn(r).tries < MaxTries
    BY <1>4, TornFacts
  <2>2. Advance(r, Torn(r))
    BY <2>1 DEF Advance
  <2>3. Becomes(r, Torn(r))
    BY <1>4, <2>1 DEF Becomes, Data, Same0
  <2> QED
    BY <2>2, <2>3
<1>5. ASSUME NEW v \in Values, rd[r].pc \in Data, rd' = [rd EXCEPT ![r] = Got(r, v)], Same0,
             \A x : Ends(r, x, v) => Advance(r, x)
      PROVE  \E y : Becomes(r, y) /\ Advance(r, y)
  <2>1. /\ Got(r, v) \in ReaderRec /\ Got(r, v).key = rd[r].key
        /\ Ends(r, Got(r, v), v) /\ Got(r, v).tries < MaxTries
    BY <1>5, GotFacts
  <2>2. Advance(r, Got(r, v)) /\ Got(r, v).pc # "idle" /\ rd[r].pc # "idle"
    BY <1>5, <2>1 DEF Ends, Data
  <2> QED
    BY <1>3, <1>5, <2>1, <2>2
<1>6. CASE ReadBefore(r)
  <2> DEFINE x == [rd[r] EXCEPT !.pc = "s1", !.before = SlotNow(r)]
  <2>1. rd[r].pc = "before" /\ rd' = [rd EXCEPT ![r] = x] /\ Same0
          /\ rd[r] \in ReaderRec /\ rd[r].tries < MaxTries /\ SlotNow(r) \in Nat
    BY <1>1, <1>6 DEF ReadBefore
  <2>2. x \in ReaderRec /\ x.key = rd[r].key /\ x.pc = "s1" /\ x.tries < MaxTries
          /\ x.before = SlotNow(r)
    BY <2>1 DEF ReaderRec
  <2> HIDE DEF x
  <2> QED
    BY <1>3, <2>1, <2>2 DEF Advance
<1>7. CASE ReadS1(r)
  <2> DEFINE x == [rd[r] EXCEPT !.pc = "a1", !.s1 = SlotNow(r)]
  <2>1. rd[r].pc = "s1" /\ rd' = [rd EXCEPT ![r] = x] /\ Same0
          /\ rd[r] \in ReaderRec /\ rd[r].tries < MaxTries /\ SlotNow(r) \in Nat
    BY <1>1, <1>7 DEF ReadS1
  <2>2. x \in ReaderRec /\ x.key = rd[r].key /\ x.pc = "a1" /\ x.tries < MaxTries
          /\ x.before = rd[r].before /\ x.s1 = SlotNow(r)
    BY <2>1 DEF ReaderRec
  <2> HIDE DEF x
  <2> QED
    BY <1>3, <2>1, <2>2 DEF Advance
<1>8. CASE ReadA1(r)
  <2> DEFINE x == [rd[r] EXCEPT !.pc = "probe", !.a1 = arena, !.j = 0]
             y == IF Odd(rd[r].s1) \/ Odd(arena) THEN Torn(r) ELSE x
  <2>1. rd[r].pc = "a1" /\ rd' = [rd EXCEPT ![r] = y] /\ Same0
          /\ rd[r] \in ReaderRec /\ rd[r].tries < MaxTries
    BY <1>1, <1>8 DEF ReadA1
  <2>2. CASE Odd(rd[r].s1) \/ Odd(arena)
    BY <1>4, <2>1, <2>2
  <2>3. CASE ~(Odd(rd[r].s1) \/ Odd(arena))
    <3>1. x \in ReaderRec /\ x.key = rd[r].key /\ x.pc = "probe" /\ x.tries < MaxTries
            /\ x.before = rd[r].before /\ x.s1 = rd[r].s1 /\ x.a1 = arena /\ x.j = 0
      BY <1>2, <2>1, WindowFacts DEF ReaderRec, Data
    <3>2. y = x
      BY <2>3
    <3> HIDE DEF x
    <3> QED
      BY <1>3, <2>1, <2>3, <3>1, <3>2 DEF Advance
  <2> QED
    BY <2>2, <2>3
<1>9. CASE ReadState(r)
  <2> DEFINE x == [rd[r] EXCEPT !.pc = "match"]
             y == IF CellNow(r).state = "empty" THEN Nothing(r) ELSE x
  <2>1. rd[r].pc = "probe" /\ rd' = [rd EXCEPT ![r] = y] /\ Same0
          /\ rd[r] \in ReaderRec /\ rd[r].tries < MaxTries
    BY <1>1, <1>9 DEF ReadState, Data
  <2>2. CASE CellNow(r).state = "empty"
    BY <1>5, <2>1, <2>2 DEF Nothing, Data, Advance, Values
  <2>3. CASE CellNow(r).state # "empty"
    <3>1. x \in ReaderRec /\ x.key = rd[r].key /\ x.pc = "match" /\ x.tries < MaxTries
            /\ Counters(r, x) /\ x.j = rd[r].j
      BY <2>1 DEF ReaderRec, Counters, Data
    <3>2. y = x
      BY <2>3
    <3> HIDE DEF x
    <3> QED
      BY <1>3, <2>1, <2>3, <3>1, <3>2 DEF Advance
  <2> QED
    BY <2>2, <2>3
<1>10. CASE ReadKey(r)
  <2> DEFINE x == [rd[r] EXCEPT !.pc = "state"]
             z == [rd[r] EXCEPT !.pc = "probe", !.j = rd[r].j + 1]
             y == IF CellNow(r).key = rd[r].key THEN x
                  ELSE IF rd[r].j + 1 < MaxProbes THEN z ELSE Nothing(r)
  <2>1. rd[r].pc = "match" /\ rd' = [rd EXCEPT ![r] = y] /\ Same0
          /\ rd[r] \in ReaderRec /\ rd[r].tries < MaxTries /\ rd[r].j \in Window
    BY <1>1, <1>10 DEF ReadKey, Data
  <2>2. CASE CellNow(r).key = rd[r].key
    <3>1. x \in ReaderRec /\ x.key = rd[r].key /\ x.pc = "state" /\ x.tries < MaxTries
            /\ Counters(r, x) /\ x.j = rd[r].j
      BY <2>1 DEF ReaderRec, Counters, Data
    <3>2. y = x
      BY <2>2
    <3> HIDE DEF x
    <3> QED
      BY <1>3, <2>1, <2>2, <3>1, <3>2 DEF Advance
  <2>3. CASE CellNow(r).key # rd[r].key /\ rd[r].j + 1 < MaxProbes
    <3>0. rd[r].j + 1 \in Window
      BY <2>1, <2>3, IndexAssumption DEF Window
    <3>1. z \in ReaderRec /\ z.key = rd[r].key /\ z.pc = "probe" /\ z.tries < MaxTries
            /\ Counters(r, z) /\ z.j = rd[r].j + 1
      BY <2>1, <3>0 DEF ReaderRec, Counters, Data
    <3>2. y = z
      BY <2>3
    <3> HIDE DEF z
    <3> QED
      BY <1>3, <2>1, <2>3, <3>1, <3>2 DEF Advance
  <2>4. CASE CellNow(r).key # rd[r].key /\ ~(rd[r].j + 1 < MaxProbes)
    <3>1. rd[r].j + 1 = MaxProbes
      BY <2>1, <2>4, IndexAssumption DEF Window
    <3>2. y = Got(r, Absent) /\ Absent \in Values
      BY <2>4 DEF Nothing, Values
    <3>3. \A q : Ends(r, q, Absent) => Advance(r, q)
      BY <2>1, <2>4, <3>1 DEF Advance
    <3> QED
      BY <1>5, <2>1, <3>2, <3>3 DEF Data
  <2> QED
    BY <2>2, <2>3, <2>4
<1>11. CASE ReadLive(r)
  <2> DEFINE x == [rd[r] EXCEPT !.pc = "off"]
             y == IF CellNow(r).state = "live" THEN x ELSE Nothing(r)
  <2>1. rd[r].pc = "state" /\ rd' = [rd EXCEPT ![r] = y] /\ Same0
          /\ rd[r] \in ReaderRec /\ rd[r].tries < MaxTries
    BY <1>1, <1>11 DEF ReadLive, Data
  <2>2. CASE CellNow(r).state # "live"
    BY <1>5, <2>1, <2>2 DEF Nothing, Data, Advance, Values
  <2>3. CASE CellNow(r).state = "live"
    <3>1. x \in ReaderRec /\ x.key = rd[r].key /\ x.pc = "off" /\ x.tries < MaxTries
            /\ Counters(r, x) /\ x.j = rd[r].j
      BY <2>1 DEF ReaderRec, Counters, Data
    <3>2. y = x
      BY <2>3
    <3> HIDE DEF x
    <3> QED
      BY <1>3, <2>1, <2>3, <3>1, <3>2 DEF Advance
  <2> QED
    BY <2>2, <2>3
<1>12. CASE ReadOff(r)
  <2> DEFINE x == [rd[r] EXCEPT !.pc = "bytes", !.off = CellNow(r).off]
  <2>1. rd[r].pc = "off" /\ rd' = [rd EXCEPT ![r] = x] /\ Same0
          /\ rd[r] \in ReaderRec /\ rd[r].tries < MaxTries
          /\ CellNow(r).off \in Val \cup {Absent}
    BY <1>1, <1>12 DEF ReadOff, Data, Entry
  <2>2. x \in ReaderRec /\ x.key = rd[r].key /\ x.pc = "bytes" /\ x.tries < MaxTries
          /\ Counters(r, x) /\ x.j = rd[r].j /\ x.off = CellNow(r).off
    BY <2>1 DEF ReaderRec, Counters, Data
  <2> HIDE DEF x
  <2> QED
    BY <1>3, <2>1, <2>2 DEF Advance
<1>13. CASE ReadBytes(r)
  <2> DEFINE v == IF arena = rd[r].a1 THEN Bytes(rd[r].off, CellNow(r).len) ELSE Mixed
  <2>1. rd[r].pc = "bytes" /\ rd' = [rd EXCEPT ![r] = Got(r, v)] /\ Same0
    BY <1>1, <1>13 DEF ReadBytes, Data
  <2>2. v \in Values
    BY BytesType DEF Values
  <2>3. \A q : Ends(r, q, v) => Advance(r, q)
    BY <2>1 DEF Advance
  <2> QED
    BY <1>5, <2>1, <2>2, <2>3 DEF Data
<1>14. CASE ReadS2(r)
  <2> DEFINE x == [rd[r] EXCEPT !.pc = "a2", !.s1 = 0]
             y == IF SlotNow(r) # rd[r].s1 THEN Torn(r) ELSE x
  <2>1. rd[r].pc = "s2" /\ rd' = [rd EXCEPT ![r] = y] /\ Same0
          /\ rd[r] \in ReaderRec /\ rd[r].tries < MaxTries
    BY <1>1, <1>14 DEF ReadS2, Data
  <2>2. CASE SlotNow(r) # rd[r].s1
    BY <1>4, <2>1, <2>2
  <2>3. CASE SlotNow(r) = rd[r].s1
    <3>1. x \in ReaderRec /\ x.key = rd[r].key /\ x.pc = "a2" /\ x.tries < MaxTries
            /\ x.before = rd[r].before /\ x.val = rd[r].val /\ x.a1 = rd[r].a1
      BY <2>1 DEF ReaderRec
    <3>2. y = x
      BY <2>3
    <3> HIDE DEF x
    <3> QED
      BY <1>3, <2>1, <2>3, <3>1, <3>2 DEF Advance
  <2> QED
    BY <2>2, <2>3
<1>15. CASE ReadA2(r)
  <2> DEFINE x == [rd[r] EXCEPT !.pc = "done", !.a1 = 0]
             y == IF arena # rd[r].a1 THEN Torn(r) ELSE x
  <2>1. rd[r].pc = "a2" /\ rd' = [rd EXCEPT ![r] = y] /\ Same0
          /\ rd[r] \in ReaderRec /\ rd[r].tries < MaxTries
    BY <1>1, <1>15 DEF ReadA2
  <2>2. CASE arena # rd[r].a1
    BY <1>4, <2>1, <2>2
  <2>3. CASE arena = rd[r].a1
    <3>1. x \in ReaderRec /\ x.key = rd[r].key /\ x.pc = "done" /\ x.tries < MaxTries
            /\ x.before = rd[r].before /\ x.val = rd[r].val
      BY <2>1 DEF ReaderRec
    <3>2. y = x
      BY <2>3
    <3> HIDE DEF x
    <3> QED
      BY <1>3, <2>1, <2>3, <3>1, <3>2 DEF Advance
  <2> QED
    BY <2>2, <2>3
<1> QED
  BY <1>6, <1>7, <1>8, <1>9, <1>10, <1>11, <1>12, <1>13, <1>14, <1>15 DEF Looks

\* A reader's step leaves the writer and the segment alone, but for a repair.
LEMMA FrameType ==
  ASSUME TypeInv, ReaderType', UNCHANGED <<idx, w, deaths, stable, saved>>,
         slots' \in [Slot -> Nat], arena' \in Nat,
         \/ slots' = slots /\ arena' = arena
         \/ w.pc = "idle" /\ \A s \in Slot : Odd(slots'[s]) => Odd(slots[s])
  PROVE  TypeInv'
<1>1. SegmentType'
  BY DEF TypeInv, SegmentType
<1>2. WriterType'
  BY DEF TypeInv, WriterType
<1>3. KeyedInv'
  BY DEF TypeInv, KeyedInv
<1>4. ParityInv'
  BY DEF TypeInv, ParityInv, Writing, Wiping
<1> QED
  BY <1>1, <1>2, <1>3, <1>4 DEF TypeInv

LEMMA LooksType ==
  ASSUME TypeInv, NEW r \in Reader, NEW x, Becomes(r, x)
  PROVE  /\ TypeInv' /\ rd'[r] = x /\ \A q \in Reader \ {r} : rd'[q] = rd[q]
<1>1. rd \in [Reader -> ReaderRec] /\ rd[r].key \in Key
  BY DEF TypeInv, ReaderType, Becomes
<1>2. /\ rd' \in [Reader -> ReaderRec] /\ rd'[r] = x
      /\ \A q \in Reader \ {r} : rd'[q] = rd[q]
  BY <1>1 DEF Becomes
<1>3. ReaderType'
  BY <1>1, <1>2 DEF TypeInv, ReaderType, Becomes
<1>4. TypeInv'
  BY <1>3, FrameType DEF Becomes, TypeInv, SegmentType
<1> QED
  BY <1>2, <1>4

LEMMA BeginReadType ==
  ASSUME TypeInv, NEW r \in Reader, NEW k \in Key, ReadBegin(r, k)
  PROVE  /\ TypeInv'
         /\ rd'[r].pc = "before" /\ rd'[r].key = k /\ held'[r] = {stable[k]}
         /\ \A q \in Reader \ {r} : rd'[q] = rd[q] /\ held'[q] = held[q]
         /\ UNCHANGED <<idx, slots, arena, w, cache, stable>>
<1> DEFINE x == [IdleReader EXCEPT !.pc = "before", !.key = k]
<1>0. /\ rd \in [Reader -> ReaderRec] /\ held \in [Reader -> SUBSET Values]
      /\ stable[k] \in Values
  BY DEF TypeInv, ReaderType, SegmentType
<1>1. /\ rd' = [rd EXCEPT ![r] = x] /\ held' = [held EXCEPT ![r] = {stable[k]}]
      /\ UNCHANGED <<idx, slots, arena, w, cache, deaths, stable, saved>>
  BY DEF ReadBegin, Goes
<1>2. x \in ReaderRec /\ x.pc = "before" /\ x.key = k /\ x.tries = 0
  BY IdleTypes DEF ReaderRec
<1> HIDE DEF x
<1>3. /\ rd' \in [Reader -> ReaderRec] /\ rd'[r] = x /\ held'[r] = {stable[k]}
      /\ held' \in [Reader -> SUBSET Values]
      /\ \A q \in Reader \ {r} : rd'[q] = rd[q] /\ held'[q] = held[q]
  BY <1>0, <1>1, <1>2
<1>4. 0 < MaxTries
  BY IndexAssumption
<1>5. ReaderType'
  BY <1>1, <1>2, <1>3, <1>4 DEF TypeInv, ReaderType
<1>6. TypeInv'
  BY <1>1, <1>5, FrameType DEF TypeInv, SegmentType
<1> QED
  BY <1>1, <1>2, <1>3, <1>6

\* The read under the semaphore repairs the counters and succeeds.
LEMMA LockedType ==
  ASSUME TypeInv, NEW r \in Reader, ReadLocked(r)
  PROVE  /\ TypeInv' /\ w.pc = "idle" /\ rd[r].pc = "lock" /\ rd[r].key \in Key
         /\ slots' = [slots EXCEPT ![SlotOf[rd[r].key]] = Repaired(@)]
         /\ arena' = Repaired(arena)
         /\ rd'[r].pc = "done" /\ rd'[r].key = rd[r].key
         /\ rd'[r].val = Lookup(idx, rd[r].key)
         /\ rd'[r].before = slots'[SlotOf[rd[r].key]]
         /\ \A q \in Reader \ {r} : rd'[q] = rd[q]
         /\ UNCHANGED <<idx, w, cache, stable, held>>
<1> DEFINE s == SlotOf[rd[r].key]
<1>0. /\ rd[r].pc = "lock" /\ w.pc = "idle" /\ rd \in [Reader -> ReaderRec]
      /\ rd[r] \in ReaderRec /\ rd[r].key \in Key /\ s \in Slot
      /\ slots \in [Slot -> Nat] /\ arena \in Nat
  BY IndexAssumption DEF ReadLocked, TypeInv, ReaderType, SegmentType
<1>1. /\ slots' = [slots EXCEPT ![s] = Repaired(@)] /\ arena' = Repaired(arena)
      /\ UNCHANGED <<idx, w, cache, deaths, stable, held, saved>>
  BY DEF ReadLocked, RepairSeq
<1>2. /\ Repaired(slots[s]) \in Nat /\ ~Odd(Repaired(slots[s]))
      /\ Repaired(arena) \in Nat /\ ~Odd(Repaired(arena))
  BY <1>0, CounterFacts
<1>3. /\ slots' \in [Slot -> Nat] /\ ~Odd(slots'[s]) /\ slots'[s] \in Nat
      /\ \A q \in Slot : Odd(slots'[q]) => Odd(slots[q])
  BY <1>0, <1>1, <1>2
<1>4. PICK x : /\ rd' = [rd EXCEPT ![r] = x]
               /\ x = [rd[r] EXCEPT !.pc = "done", !.val = Lookup(idx, rd[r].key),
                                    !.before = slots'[s]]
  BY <1>0, <1>1, <1>2, <1>3 DEF ReadLocked
<1>5. /\ x \in ReaderRec /\ x.pc = "done" /\ x.key = rd[r].key
      /\ x.val = Lookup(idx, rd[r].key) /\ x.before = slots'[s]
  <2>1. Lookup(idx, rd[r].key) \in Values
    BY LookupType
  <2> QED
    BY <1>0, <1>3, <1>4, <2>1 DEF ReaderRec
<1>6. /\ rd' \in [Reader -> ReaderRec] /\ rd'[r] = x
      /\ \A q \in Reader \ {r} : rd'[q] = rd[q]
  BY <1>0, <1>4, <1>5
<1>7. ReaderType'
  BY <1>0, <1>1, <1>5, <1>6 DEF TypeInv, ReaderType, Data
<1>8. TypeInv'
  BY <1>0, <1>1, <1>2, <1>3, <1>7, FrameType
<1> QED
  BY <1>0, <1>1, <1>5, <1>6, <1>8

LEMMA ReturnType ==
  ASSUME TypeInv, NEW r \in Reader, ReadReturn(r)
  PROVE  /\ TypeInv' /\ rd[r].pc = "done" /\ rd'[r].pc = "idle"
         /\ rd[r].key \in Key
         /\ cache'[r][rd[r].key] = {[val |-> rd[r].val, seen |-> rd[r].before]}
         /\ \A k \in Key \ {rd[r].key} : cache'[r][k] = cache[r][k]
         /\ \A q \in Reader \ {r} :
              rd'[q] = rd[q] /\ held'[q] = held[q] /\ cache'[q] = cache[q]
         /\ UNCHANGED <<idx, slots, arena, w, stable>>
<1> DEFINE e == [val |-> rd[r].val, seen |-> rd[r].before]
           C == [val : Values, seen : Nat]
<1>0. /\ rd \in [Reader -> ReaderRec] /\ rd[r] \in ReaderRec
      /\ held \in [Reader -> SUBSET Values] /\ cache \in [Reader -> [Key -> SUBSET C]]
  BY DEF TypeInv, ReaderType
<1>1. /\ rd[r].pc = "done" /\ rd' = [rd EXCEPT ![r] = IdleReader]
      /\ held' = [held EXCEPT ![r] = {}]
      /\ cache' = [cache EXCEPT ![r][rd[r].key] = {e}]
      /\ UNCHANGED <<idx, slots, arena, w, deaths, stable, saved>>
  <2>1. rd[r].pc # "disk"
    BY <1>0 DEF ReaderRec, Data
  <2> QED
    BY <2>1 DEF ReadReturn
<1>2. rd[r].key \in Key /\ e \in C
  BY <1>0, <1>1 DEF TypeInv, ReaderType, ReaderRec
<1> HIDE DEF e
<1>3. /\ rd' \in [Reader -> ReaderRec] /\ rd'[r].pc = "idle"
      /\ held' \in [Reader -> SUBSET Values]
      /\ \A q \in Reader \ {r} : rd'[q] = rd[q] /\ held'[q] = held[q]
  BY <1>0, <1>1, IdleTypes
<1>4. /\ cache' \in [Reader -> [Key -> SUBSET C]] /\ cache'[r][rd[r].key] = {e}
      /\ \A k \in Key \ {rd[r].key} : cache'[r][k] = cache[r][k]
      /\ \A q \in Reader \ {r} : cache'[q] = cache[q]
  BY <1>0, <1>1, <1>2
<1>5. ReaderType'
  BY <1>3, <1>4 DEF TypeInv, ReaderType, Data
<1>6. TypeInv'
  BY <1>1, <1>5, FrameType DEF TypeInv, SegmentType
<1> QED
  BY <1>1, <1>2, <1>3, <1>4, <1>6 DEF e

LEMMA InitType == Init => TypeInv
<1> SUFFICES ASSUME Init PROVE TypeInv
  OBVIOUS
<1>0. saved \in [Key -> Val \cup {Absent}] /\ stable = saved
  BY DEF Init
<1> DEFINE L == Loaded(saved)
           k0 == CHOOSE i \in L : TRUE
           e0 == [state |-> "live", key |-> k0, off |-> saved[k0], len |-> Length[saved[k0]],
                  dirty |-> FALSE]
<1>1. idx = [c \in Cell |-> IF \E k \in L : Home[k] = c THEN e0 ELSE Wiped]
  BY DEF Init
<1>2. ASSUME L # {} PROVE e0 \in Entry /\ e0.key # NoKey
  <2>1. k0 \in L
    BY <1>2
  <2>2. k0 \in Key /\ saved[k0] \in Val
    BY <1>0, <2>1 DEF Loaded
  <2>3. Length[saved[k0]] \in Nat
    BY <2>2, BytesAssumption
  <2> HIDE DEF k0
  <2> QED
    BY <2>2, <2>3, BytesAssumption DEF Entry
<1> HIDE DEF e0, k0
<1>3. idx \in [Cell -> Entry] /\ \A c \in Cell : idx[c].key = NoKey => Garbage(idx[c])
  <2>1. ASSUME NEW c \in Cell
        PROVE  idx[c] \in Entry /\ (idx[c].key = NoKey => Garbage(idx[c]))
    BY <1>1, <1>2, WipedType
  <2> QED
    BY <1>1, <2>1
<1>4. slots \in [Slot -> Nat] /\ \A s \in Slot : ~Odd(slots[s])
  <2>1. slots = [s \in Slot |-> IF \E k \in L : SlotOf[k] = s THEN 2 ELSE 0]
    BY DEF Init
  <2>2. ~Odd(2) /\ ~Odd(0)
    BY DEF Odd
  <2> QED
    BY <2>1, <2>2
<1>5. arena = 0 /\ deaths = 0 /\ w = IdleWriter
  BY DEF Init
<1>6. saved \in [Key -> Values]
  BY <1>0 DEF Values
<1>7. SegmentType
  BY <1>0, <1>3, <1>4, <1>5, <1>6 DEF SegmentType
<1>8. w \in WriterRec /\ w.pc = "idle"
  BY <1>5, IdleTypes
<1>9. WriterType
  BY <1>8 DEF WriterType, Writing, Wiping
<1>10. KeyedInv
  BY <1>3, <1>8 DEF KeyedInv, Writing, Wiping
<1>11. ParityInv
  BY <1>4, <1>8 DEF ParityInv, Writing, Wiping
<1>12. ReaderType
  <2>1. /\ rd = [r \in Reader |-> IdleReader]
        /\ cache = [r \in Reader |-> [k \in Key |-> {}]]
        /\ held = [r \in Reader |-> {}]
    BY DEF Init
  <2> QED
    BY <2>1, IdleTypes DEF ReaderType, Data
<1> QED
  BY <1>7, <1>9, <1>10, <1>11, <1>12 DEF TypeInv

LEMMA NextType ==
  ASSUME TypeInv, [Next]_vars
  PROVE  TypeInv'
<1>1. CASE \/ \E k \in Key : Remove(k) \/ \E v \in Val : Put(k, v)
           \/ Clear
  BY <1>1, BeginType
<1>2. CASE Commit
  BY <1>2, CommitType
<1>3. CASE Stores
  BY <1>3, StoreFacts, StoreType
<1>4. CASE SeqBegin \/ SeqEnd \/ WipeCell \/ Refill \/ ArenaEnd \/ BumpSlot \/ WriterDies
  BY <1>4, SeqBeginType, SeqEndType, WipeType, RefillType, ArenaEndType, BumpType, DiesType
<1>5. ASSUME NEW r \in Reader, Looks(r) PROVE TypeInv'
  BY <1>5, LooksFacts, LooksType
<1>6. ASSUME NEW r \in Reader, ReadLocked(r) \/ ReadReturn(r) PROVE TypeInv'
  BY <1>6, LockedType, ReturnType
<1>7. ASSUME NEW r \in Reader, NEW k \in Key, ReadBegin(r, k) PROVE TypeInv'
  BY <1>7, BeginReadType
<1>8. CASE UNCHANGED vars
  <2>1. ReaderType'
    BY <1>8 DEF vars, TypeInv, ReaderType
  <2> QED
    BY <1>8, <2>1, FrameType DEF vars, TypeInv, SegmentType
<1> QED
  BY <1>1, <1>2, <1>3, <1>4, <1>5, <1>6, <1>7, <1>8
  DEF Next, Writer, WriterGoesOn, ReaderGoesOn, Stores, Looks

\* The state is well typed; while nobody has been killed a counter is odd only under
\* the writer that made it so.
THEOREM TypeCorrect == Spec => []TypeOK
<1>1. TypeInv => TypeOK
  <2> SUFFICES ASSUME TypeInv PROVE TypeOK
    OBVIOUS
  <2>1. ASSUME NEW r \in Reader
        PROVE  /\ rd[r].key \in Key \cup {NoKey} /\ rd[r].j \in Window
               /\ rd[r].val \in Values /\ rd[r].tries \in 0 .. MaxTries
               /\ held[r] \subseteq Values
               /\ \A k \in Key : cache[r][k] \subseteq [val : Values, seen : Nat]
    BY DEF TypeInv, ReaderType, ReaderRec
  <2>2. \A s \in Slot : Odd(slots[s]) /\ deaths = 0 => w.pc # "idle" /\ SlotOf[w.key] = s
    BY DEF TypeInv, ParityInv, Writing
  <2> QED
    BY <2>1, <2>2 DEF TypeOK, TypeInv, SegmentType
<1> QED
  BY <1>1, InitType, NextType, PTL DEF Spec

\* repair_seq makes every odd counter it meets even, so the read under the semaphore
\* never finds one that would send it to the disk.
THEOREM Repairs == Spec => []NeverDegraded
<1>1. TypeInv => NeverDegraded
  BY DEF TypeInv, ReaderType, ReaderRec, NeverDegraded, Data
<1> QED
  BY <1>1, InitType, NextType, PTL DEF Spec

=============================================================================
