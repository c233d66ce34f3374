------------------------------ MODULE Segment ------------------------------
(***************************************************************************)
(* The shared segment of src/src/shm.rs one store at a time: an            *)
(* open-addressing index over an append-only arena, written under one      *)
(* semaphore and read without any, behind a seqlock counter per key class  *)
(* and one counter for the whole arena.  Store (store.rs) takes put,       *)
(* remove, compact and clear for atomic; this module is where they are     *)
(* not: readers run between any two stores, and a writer may be killed     *)
(* between any two.                                                        *)
(*                                                                         *)
(* Writers exclude each other, so at any moment there is at most one: the  *)
(* record w, idle when the semaphore is free (SEM_UNDO frees it when the   *)
(* holder dies).  Loads and stores are sequentially consistent; the code's *)
(* acquire and release orderings and fences are taken to provide that.     *)
(***************************************************************************)
EXTENDS Naturals

CONSTANTS
  Reader,     \* processes that read
  Key,
  Val,        \* non-empty values
  Absent,     \* no such variable
  Empty,      \* the value of length 0
  Mixed,      \* bytes that are nobody's value
  NoKey,      \* key bytes and hash that match no key
  N,          \* INDEX_SLOTS
  MaxProbes,  \* MAX_PROBES
  MaxTries,   \* MAX_SEQ_RETRIES
  Home,       \* [Key -> Cell]: hash % INDEX_SLOTS
  Slot,
  SlotOf,     \* [Key -> Slot]: hash & (SLOTS - 1)
  Length,     \* [Val -> Nat \ {0}]: length in bytes
  Calls,      \* the operations the callers ask for
  DiesIn,     \* the operations a writer may be killed in
  MaxWrites,  \* bound: write operations started
  MaxDeaths   \* bound: writers killed

Cell == 0 .. N - 1

ASSUME IndexAssumption ==
  /\ N \in Nat \ {0} /\ MaxProbes \in 1 .. N /\ MaxTries \in Nat \ {0}
  /\ Home \in [Key -> Cell] /\ SlotOf \in [Key -> Slot]
ASSUME BytesAssumption ==
  /\ Length \in [Val -> Nat \ {0}]
  /\ Absent \notin Val /\ Empty \notin Val /\ Mixed \notin Val
  /\ Absent # Empty /\ Absent # Mixed /\ Empty # Mixed /\ NoKey \notin Key
ASSUME DeathAssumption ==
  /\ Calls \subseteq {"put", "remove", "compact", "clear"} /\ DiesIn \subseteq Calls
  /\ MaxWrites \in Nat /\ MaxDeaths \in Nat

VARIABLES
  idx,     \* the index: state, key, value offset and length, FL_DIRTY per cell
  slots,   \* the seqlock counters
  arena,   \* arena_seq
  w,       \* the writer
  rd,      \* the readers
  cache,   \* what each reader has installed for each key
  writes,  \* how many write operations have started
  deaths,  \* how many writers have been killed
  stable,  \* ghost: the value of every key when no write was last under way
  held,    \* ghost: the values the key of a running read has had since it began
  saved,   \* ghost: what the last commit left in the file of every key
  cut      \* ghost: the keys with a put killed just before it set the flag, and no
           \* write or commit of them since

vars == <<idx, slots, arena, w, rd, cache, writes, deaths, stable, held, saved, cut>>

-----------------------------------------------------------------------------
(* Counters.                                                               *)

Odd(v) == v % 2 = 1
NextOdd(v)  == IF Odd(v) THEN v + 2 ELSE v + 1
NextEven(v) == IF Odd(v) THEN v + 1 ELSE v + 2
Repaired(v) == IF Odd(v) THEN NextEven(v) ELSE v

-----------------------------------------------------------------------------
(* Index and arena.  A value offset is named by the value it points at:    *)
(* the arena only grows until arena_seq moves.                             *)

Wiped == [state |-> "empty", key |-> NoKey, off |-> Absent, len |-> 0,
          dirty |-> FALSE]

NoCells == [c \in Cell |-> Wiped]

LenOf(v) == IF v \in Val THEN Length[v] ELSE 0

\* arena_slice of an offset and a length that may come from different writes.
Bytes(off, len) ==
  IF len = 0 THEN Empty ELSE IF off \in Val /\ Length[off] = len THEN off ELSE Mixed

Window      == 0 .. MaxProbes - 1
CellAt(k, j) == (Home[k] + j) % N
Least(S)    == CHOOSE i \in S : \A j \in S : i <= j

\* Where probe stops: the first cell of the window that is empty or holds k.
Stops(ix, k) == {j \in Window : \/ ix[CellAt(k, j)].state = "empty"
                               \/ ix[CellAt(k, j)].key = k}

\* The clean tombstones it passes on the way there.
Free(ix, k) == {j \in Window : /\ ix[CellAt(k, j)].state = "tomb"
                               /\ ~ix[CellAt(k, j)].dirty
                               /\ \A i \in Stops(ix, k) : j < i}

Found(ix, k) == /\ Stops(ix, k) # {}
                /\ ix[CellAt(k, Least(Stops(ix, k)))].state # "empty"

CanClaim(ix, k) == Stops(ix, k) # {} \/ Free(ix, k) # {}

\* Mutant: the first tombstone on the way is taken, though k's own cell may come later.
TargetEager(ix, k) ==
  CellAt(k, Least(IF Free(ix, k) = {} THEN Stops(ix, k) ELSE Free(ix, k)))

\* The cell probe returns: k's own, else one that may be claimed.
Target(ix, k) ==
  CellAt(k, Least(IF Found(ix, k) \/ Free(ix, k) = {} THEN Stops(ix, k)
                  ELSE Free(ix, k)))

\* What a read with nobody writing returns.
Lookup(ix, k) ==
  IF Found(ix, k) /\ ix[Target(ix, k)].state = "live"
  THEN Bytes(ix[Target(ix, k)].off, ix[Target(ix, k)].len)
  ELSE Absent

-----------------------------------------------------------------------------
IdleWriter == [pc |-> "idle", op |-> "none", key |-> NoKey, val |-> Absent,
               cell |-> 0, keep |-> NoCells, at |-> 0, left |-> {}]

IdleReader == [pc |-> "idle", key |-> NoKey, before |-> 0, s1 |-> 0, a1 |-> 0,
               j |-> 0, off |-> Absent, val |-> Absent, tries |-> 0]

\* nvram_init has loaded the files d, which hold at most one variable: its entry
\* is clean and its counter has moved once.
Loaded(d) == {k \in Key : d[k] # Absent}

Init ==
  /\ saved \in {d \in [Key -> Val \cup {Absent}] : \A j, k \in Loaded(d) : j = k}
  /\ stable = saved
  /\ idx = [c \in Cell |->
       IF \E k \in Loaded(saved) : Home[k] = c
       THEN LET k == CHOOSE i \in Loaded(saved) : TRUE
            IN  [state |-> "live", key |-> k, off |-> saved[k], len |-> Length[saved[k]],
                 dirty |-> FALSE]
       ELSE Wiped]
  /\ slots = [s \in Slot |-> IF \E k \in Loaded(saved) : SlotOf[k] = s THEN 2 ELSE 0]
  /\ arena = 0
  /\ w = IdleWriter
  /\ rd = [r \in Reader |-> IdleReader]
  /\ cache = [r \in Reader |-> [k \in Key |-> {}]]
  /\ writes = 0 /\ deaths = 0
  /\ held = [r \in Reader |-> {}] /\ cut = {}

-----------------------------------------------------------------------------
(* The writer.                                                             *)

\* The ghosts.  When the semaphore is free after this step, and when a clear has
\* ended its arena window, every key has the value a locked read would find.
Observe ==
  /\ stable' = IF w'.pc \in {"idle", "bump"} THEN [k \in Key |-> Lookup(idx', k)]
               ELSE stable
  /\ held' = [r \in Reader |-> IF rd[r].pc = "idle" THEN held[r]
                               ELSE held[r] \cup {stable'[rd[r].key]}]

WriterStep ==
  /\ Observe
  /\ cut' = IF w.pc = "end" THEN cut \ {w.key} ELSE cut
  /\ UNCHANGED <<rd, cache, deaths, saved>>

Starting(op, k, v, here) ==
  /\ w.pc = "idle" /\ writes < MaxWrites /\ writes' = writes + 1
  /\ w' = [IdleWriter EXCEPT !.pc = here, !.op = op, !.key = k, !.val = v,
                             !.keep = IF here = "wipe" THEN idx ELSE NoCells]

\* put: a value the segment holds already is left alone; ensure_space may ask
\* for a compaction first (its snapshot is taken before arena_begin).
Put(k, v) ==
  /\ "put" \in Calls /\ Lookup(idx, k) # v
  /\ \/ /\ CanClaim(idx, k)
        /\ Starting("put", k, v, "begin")
        /\ UNCHANGED arena
     \/ /\ "compact" \in Calls
        /\ Starting("put", k, v, "wipe")
        /\ arena' = NextOdd(arena)
  /\ UNCHANGED <<idx, slots>>
  /\ WriterStep

\* remove: nothing to do unless the key is live.
Remove(k) ==
  /\ "remove" \in Calls /\ Lookup(idx, k) # Absent
  /\ Starting("remove", k, Absent, "begin")
  /\ UNCHANGED <<idx, slots, arena>>
  /\ WriterStep

Clear ==
  /\ "clear" \in Calls
  /\ Starting("clear", NoKey, Absent, "wipe")
  /\ arena' = NextOdd(arena)
  /\ UNCHANGED <<idx, slots>>
  /\ WriterStep

\* The probe of put and remove, and seq_begin.
SeqBegin ==
  /\ w.pc = "begin"
  /\ w' = [w EXCEPT !.cell = Target(idx, w.key),
                    !.pc = IF Found(idx, w.key) THEN "zero" ELSE "key"]
  /\ slots' = [slots EXCEPT ![SlotOf[w.key]] = NextOdd(@)]
  /\ UNCHANGED <<idx, arena, writes>>
  /\ WriterStep

\* One store into the entry.
Write(here, there, field, x) ==
  /\ w.pc = here
  /\ w' = [w EXCEPT !.pc = there]
  /\ idx' = [idx EXCEPT ![w.cell][field] = x]
  /\ UNCHANGED <<slots, arena, writes>>
  /\ WriterStep

\* Mutant: the length is not zeroed first.
ZeroLenSkipped == Write("zero", IF w.op = "put" THEN "off" ELSE "flag", "len",
                        idx[w.cell].len)

\* Mutant: put does not flag an entry that is live already.
WriteFlagOnce == Write("flag", "state", "dirty",
  idx[w.cell].dirty \/ w.op = "remove" \/ idx[w.cell].state # "live")

\* Mutant: put makes new entries live and leaves a tombstone one.
WriteStateOnce == Write("state", "end", "state",
  IF w.op = "put" /\ idx[w.cell].state # "tomb" THEN "live" ELSE "tomb")

\* put_locked and remove: a new key's bytes and then its hash; the length,
\* zeroed, before the offset and the length again; FL_DIRTY; the state.
WriteKey   == Write("key", "hash", "key", NoKey)
WriteHash  == Write("hash", "zero", "key", w.key)
ZeroLen    == Write("zero", IF w.op = "put" THEN "off" ELSE "flag", "len", 0)
WriteOff   == Write("off", "len", "off", w.val)
WriteLen   == Write("len", "flag", "len", LenOf(w.val))
WriteFlag  == Write("flag", "state", "dirty", TRUE)
WriteState == Write("state", "end", "state", IF w.op = "put" THEN "live" ELSE "tomb")

\* Mutant: the counter is left odd.
SeqEndForgotten ==
  /\ w.pc = "end"
  /\ w' = IdleWriter
  /\ UNCHANGED <<idx, slots, arena, writes>>
  /\ WriterStep

\* seq_end; the semaphore is released.
SeqEnd ==
  /\ w.pc = "end"
  /\ w' = IdleWriter
  /\ slots' = [slots EXCEPT ![SlotOf[w.key]] = NextEven(@)]
  /\ UNCHANGED <<idx, arena, writes>>
  /\ WriterStep

\* compact and clear empty the index a cell at a time.
WipeCell ==
  /\ w.pc = "wipe"
  /\ idx' = [idx EXCEPT ![w.at] = Wiped]
  /\ w' = IF w.at + 1 < N THEN [w EXCEPT !.at = @ + 1]
          ELSE [w EXCEPT !.at = 0, !.pc = IF w.op = "clear" THEN "settle" ELSE "refill"]
  /\ UNCHANGED <<slots, arena, writes>>
  /\ WriterStep

Garbage(e) == e.state = "empty" \/ (e.state = "tomb" /\ ~e.dirty)

\* Mutant: every entry goes back to the cell it was in.
RefillInPlace ==
  /\ w.pc = "refill"
  /\ idx' = IF Garbage(w.keep[w.at]) THEN idx ELSE [idx EXCEPT ![w.at] = w.keep[w.at]]
  /\ w' = IF w.at + 1 < N THEN [w EXCEPT !.at = @ + 1] ELSE [w EXCEPT !.pc = "settle"]
  /\ UNCHANGED <<slots, arena, writes>>
  /\ WriterStep

\* compact puts one entry of its snapshot back, where a probe of the new index
\* finds room for it; it passes over one that has none.
Refill ==
  /\ w.pc = "refill"
  /\ LET e == w.keep[w.at]
     IN  idx' = IF Garbage(e) \/ ~CanClaim(idx, e.key) THEN idx
                ELSE [idx EXCEPT ![Target(idx, e.key)] = e]
  /\ w' = IF w.at + 1 < N THEN [w EXCEPT !.at = @ + 1] ELSE [w EXCEPT !.pc = "settle"]
  /\ UNCHANGED <<slots, arena, writes>>
  /\ WriterStep

\* arena_end.  A put goes on, or gives up if there is still no cell for its key.
ArenaEnd ==
  /\ w.pc = "settle"
  /\ arena' = NextEven(arena)
  /\ w' = IF w.op = "clear" THEN [w EXCEPT !.pc = "bump", !.keep = NoCells, !.left = Slot]
          ELSE IF CanClaim(idx, w.key)
               THEN [w EXCEPT !.pc = "begin", !.keep = NoCells, !.at = 0] ELSE IdleWriter
  /\ UNCHANGED <<idx, slots, writes>>
  /\ WriterStep

\* Mutant: clear leaves the counters alone.
BumpSlotQuietly ==
  /\ w.pc = "bump"
  /\ w' = IdleWriter
  /\ saved' = [k \in Key |-> Absent]
  /\ UNCHANGED <<idx, slots, arena, rd, cache, writes, deaths, cut>>
  /\ Observe

\* clear moves every counter, one by one; the files go under the same semaphore.
BumpSlot ==
  /\ w.pc = "bump"
  /\ \E s \in w.left :
       /\ slots' = [slots EXCEPT ![s] = NextEven(@)]
       /\ w' = IF w.left = {s} THEN IdleWriter ELSE [w EXCEPT !.left = @ \ {s}]
       /\ saved' = IF w.left = {s} THEN [k \in Key |-> Absent] ELSE saved
       /\ cut' = IF w.left = {s} THEN {} ELSE cut
  /\ UNCHANGED <<idx, arena, rd, cache, writes, deaths>>
  /\ Observe

\* The operation a kill would interrupt.
Inside == IF w.pc \in {"wipe", "refill", "settle"} /\ w.op = "put" THEN "compact"
          ELSE w.op

WriterDies ==
  /\ w.pc # "idle" /\ Inside \in DiesIn
  /\ deaths < MaxDeaths /\ deaths' = deaths + 1
  /\ w' = IdleWriter
  /\ cut' = IF w.pc = "flag" /\ w.op = "put" /\ idx[w.cell].state = "live"
            THEN cut \cup {w.key} ELSE cut
  /\ UNCHANGED <<idx, slots, arena, rd, cache, writes, saved>>
  /\ Observe

\* commit_snapshot takes k: flagged, or live with a file of another length.
Owed(k) ==
  \/ Found(idx, k) /\ idx[Target(idx, k)].dirty
  \/ /\ Lookup(idx, k) # Absent
     /\ saved[k] = Absent \/ LenOf(Lookup(idx, k)) # LenOf(saved[k])

\* nvram_commit, as far as the index is concerned: of the flagged entries and the
\* clean live ones whose file has another length it has written those of K, which
\* have not changed meanwhile, and takes their flags away.  The steps of a commit
\* are those of Store.
Commit ==
  /\ w.pc = "idle"
  /\ \E K \in SUBSET Key :
       /\ idx' = [c \in Cell |-> IF idx[c].key \in K THEN [idx[c] EXCEPT !.dirty = FALSE]
                                 ELSE idx[c]]
       /\ saved' = [k \in Key |-> IF k \in K /\ Owed(k) THEN Lookup(idx, k) ELSE saved[k]]
       /\ cut' = {k \in cut : ~(k \in K /\ Owed(k))}
  /\ UNCHANGED <<slots, arena, w, rd, cache, writes, deaths, stable, held>>

Writer ==
  \/ \E k \in Key : Remove(k) \/ \E v \in Val : Put(k, v)
  \/ Clear \/ Commit

WriterGoesOn ==
  \/ SeqBegin \/ WriteKey \/ WriteHash \/ ZeroLen \/ WriteOff \/ WriteLen
  \/ WriteFlag \/ WriteState \/ SeqEnd
  \/ WipeCell \/ Refill \/ ArenaEnd \/ BumpSlot \/ WriterDies

-----------------------------------------------------------------------------
(* The reader: Store::get around Segment::read_value.                      *)

Goes(r, x) ==
  /\ rd' = [rd EXCEPT ![r] = x]
  /\ UNCHANGED <<idx, slots, arena, w, cache, writes, deaths, stable, saved, cut>>

\* A step at `here` that changes the reader's record to x and nothing else.
Reads(r, here, x) == rd[r].pc = here /\ Goes(r, x) /\ UNCHANGED held

SlotNow(r) == slots[SlotOf[rd[r].key]]
CellNow(r) == idx[CellAt(rd[r].key, rd[r].j)]

\* Mutant: retry for ever.
TornForever(r) == [IdleReader EXCEPT !.key = rd[r].key, !.pc = "before"]

\* Read::Torn: again, or at last under the semaphore.
Torn(r) == [IdleReader EXCEPT !.key = rd[r].key, !.tries = rd[r].tries + 1,
              !.pc = IF rd[r].tries + 1 < MaxTries THEN "before" ELSE "lock"]

\* A miss of the cache.
ReadBegin(r, k) ==
  /\ rd[r].pc = "idle"
  /\ \A e \in cache[r][k] : e.seen # slots[SlotOf[k]]
  /\ Goes(r, [IdleReader EXCEPT !.pc = "before", !.key = k])
  /\ held' = [held EXCEPT ![r] = {stable[k]}]

ReadBefore(r) == Reads(r, "before", [rd[r] EXCEPT !.pc = "s1", !.before = SlotNow(r)])
ReadS1(r)     == Reads(r, "s1", [rd[r] EXCEPT !.pc = "a1", !.s1 = SlotNow(r)])

ReadA1(r) ==
  Reads(r, "a1", IF Odd(rd[r].s1) \/ Odd(arena) THEN Torn(r)
                 ELSE [rd[r] EXCEPT !.pc = "probe", !.a1 = arena, !.j = 0])

\* The data part is over, with v.
Got(r, v) == [rd[r] EXCEPT !.pc = "s2", !.val = v, !.j = 0, !.off = Absent]
Nothing(r) == Got(r, Absent)

\* probe, a cell: its state, then its key.
ReadState(r) ==
  Reads(r, "probe", IF CellNow(r).state = "empty" THEN Nothing(r)
                    ELSE [rd[r] EXCEPT !.pc = "match"])

ReadKey(r) ==
  Reads(r, "match", IF CellNow(r).key = rd[r].key THEN [rd[r] EXCEPT !.pc = "state"]
                    ELSE IF rd[r].j + 1 < MaxProbes
                         THEN [rd[r] EXCEPT !.pc = "probe", !.j = @ + 1]
                         ELSE Nothing(r))

\* The state once more, now that the key is known to be there.
ReadLive(r) ==
  Reads(r, "state", IF CellNow(r).state = "live" THEN [rd[r] EXCEPT !.pc = "off"]
                    ELSE Nothing(r))

ReadOff(r) == Reads(r, "off", [rd[r] EXCEPT !.pc = "bytes", !.off = CellNow(r).off])

\* The length, and the copy: an offset from before a compaction points anywhere.
ReadBytes(r) ==
  Reads(r, "bytes",
    Got(r, IF arena = rd[r].a1 THEN Bytes(rd[r].off, CellNow(r).len) ELSE Mixed))

\* Mutant: the slot's counter is not checked again.
ReadS2Trusting(r) == Reads(r, "s2", [rd[r] EXCEPT !.pc = "a2", !.s1 = 0])

ReadS2(r) ==
  Reads(r, "s2", IF SlotNow(r) # rd[r].s1 THEN Torn(r)
                 ELSE [rd[r] EXCEPT !.pc = "a2", !.s1 = 0])

\* Mutant: the arena's counter is not checked again.
ReadA2Trusting(r) == Reads(r, "a2", [rd[r] EXCEPT !.pc = "done", !.a1 = 0])

ReadA2(r) ==
  Reads(r, "a2", IF arena # rd[r].a1 THEN Torn(r)
                 ELSE [rd[r] EXCEPT !.pc = "done", !.a1 = 0])

\* Mutant: an odd slot counter is left odd.
RepairArenaOnly(s) ==
  /\ arena' = Repaired(arena)
  /\ UNCHANGED slots

\* repair_seq.
RepairSeq(s) ==
  /\ slots' = [slots EXCEPT ![s] = Repaired(@)]
  /\ arena' = Repaired(arena)

\* The fallback, under the semaphore: repair, then a read nothing can tear; only
\* a counter that is odd still would send it to the disk.
ReadLocked(r) ==
  /\ rd[r].pc = "lock" /\ w.pc = "idle"
  /\ RepairSeq(SlotOf[rd[r].key])
  /\ rd' = [rd EXCEPT ![r] =
       IF Odd(slots'[SlotOf[rd[r].key]]) \/ Odd(arena')
       THEN [@ EXCEPT !.pc = "disk"]
       ELSE [@ EXCEPT !.pc = "done", !.val = Lookup(idx, rd[r].key),
                      !.before = slots'[SlotOf[rd[r].key]]]]
  /\ UNCHANGED <<idx, w, cache, writes, deaths, stable, held, saved, cut>>

\* Mutant: the counter recorded is the one of the moment of the install.
ReadReturnLate(r) ==
  /\ rd[r].pc \in {"done", "disk"}
  /\ rd' = [rd EXCEPT ![r] = IdleReader]
  /\ cache' = [cache EXCEPT ![r][rd[r].key] =
       IF rd[r].pc = "done" THEN {[val |-> rd[r].val, seen |-> SlotNow(r)]} ELSE {}]
  /\ held' = [held EXCEPT ![r] = {}]
  /\ UNCHANGED <<idx, slots, arena, w, writes, deaths, stable, saved, cut>>

\* Install and return; what came from the disk is no cache hit.
ReadReturn(r) ==
  /\ rd[r].pc \in {"done", "disk"}
  /\ rd' = [rd EXCEPT ![r] = IdleReader]
  /\ cache' = [cache EXCEPT ![r][rd[r].key] =
       IF rd[r].pc = "done" THEN {[val |-> rd[r].val, seen |-> rd[r].before]} ELSE {}]
  /\ held' = [held EXCEPT ![r] = {}]
  /\ UNCHANGED <<idx, slots, arena, w, writes, deaths, stable, saved, cut>>

ReaderGoesOn(r) ==
  \/ ReadBefore(r) \/ ReadS1(r) \/ ReadA1(r) \/ ReadState(r) \/ ReadKey(r)
  \/ ReadLive(r) \/ ReadOff(r) \/ ReadBytes(r) \/ ReadS2(r) \/ ReadA2(r)
  \/ ReadLocked(r) \/ ReadReturn(r)

-----------------------------------------------------------------------------
Next ==
  \/ Writer \/ WriterGoesOn
  \/ \E r \in Reader : ReaderGoesOn(r) \/ \E k \in Key : ReadBegin(r, k)

Spec == Init /\ [][Next]_vars

\* A process inside a call is scheduled.
FairSpec ==
  /\ Spec
  /\ WF_vars(WriterGoesOn)
  /\ \A r \in Reader : WF_vars(ReaderGoesOn(r))

-----------------------------------------------------------------------------
(* Properties.                                                             *)

Values == Val \cup {Absent, Empty, Mixed}
Entry  == [state : {"empty", "live", "tomb"}, key : Key \cup {NoKey},
           off : Val \cup {Absent}, len : Nat, dirty : BOOLEAN]

TypeOK ==
  /\ idx \in [Cell -> Entry]
  /\ slots \in [Slot -> Nat] /\ arena \in Nat
  /\ stable \in [Key -> Values] /\ saved \in [Key -> Values]
  /\ \A r \in Reader :
       /\ rd[r].key \in Key \cup {NoKey} /\ rd[r].j \in Window
       /\ rd[r].val \in Values /\ rd[r].tries \in 0 .. MaxTries
       /\ held[r] \subseteq Values
       /\ \A k \in Key : cache[r][k] \subseteq [val : Values, seen : Nat]
  /\ \A s \in Slot : Odd(slots[s]) /\ deaths = 0 =>
       w.pc # "idle" /\ SlotOf[w.key] = s

\* A read that validates returns a value its key had, with no write of it under
\* way, at some moment since the read began: never bytes of two writes, never
\* another key's value, never a half-built index.  (nvram_get; read_value)
ReadsLinearize == \A r \in Reader : rd[r].pc = "done" => rd[r].val \in held[r]

\* A cached value whose counter has not moved is the value of the key, even
\* while a writer is inside and after one has been killed; only a clear that is
\* still moving the counters has cached values to catch up with.
HitsCurrent ==
  w.pc # "bump" => \A r \in Reader, k \in Key : \A e \in cache[r][k] :
    e.seen = slots[SlotOf[k]] => e.val = stable[k]

\* The read under the semaphore never has to go to the disk: repair_seq leaves
\* nothing that looks like a write in progress.
NeverDegraded == \A r \in Reader : rd[r].pc # "disk"

\* A writer that is killed leaves its key with the old value, the new one or an
\* empty one, and every other key alone.
DeathLeaves ==
  [][deaths' # deaths => \A k \in Key :
       \/ Lookup(idx, k) = stable[k]
       \/ k = w.key /\ Lookup(idx, k) \in {w.val, Empty}]_vars

Accounted(k) == Lookup(idx, k) = saved[k] \/ Owed(k)

\* A value memory has and the disk has not is one the next commit will write, or
\* remove, whatever was put, removed, compacted, committed or killed before; all
\* but a put killed between the stores of its length and of FL_DIRTY.
ChangesAreOwed == w.pc = "idle" => \A k \in Key \ cut : Accounted(k)

\* "Commit makes disk match memory" is this, without the exception; it does not hold.
CommitMatches == w.pc = "idle" => \A k \in Key : Accounted(k)

\* A compaction drops garbage and clean tombstones, and no variable.
CompactionKeeps ==
  w.pc = "settle" /\ w.op = "put" => \A k \in Key : Lookup(idx, k) = stable[k]

\* A read comes to an end even if the last writer died with its counters odd.
ReadsReturn == \A r \in Reader : rd[r].pc # "idle" ~> rd[r].pc = "idle"

-----------------------------------------------------------------------------
(* What Store takes the segment for.                                       *)

\* How far a write is, to its caller.
Stage == IF w.op = "clear" THEN IF w.pc = "bump" THEN "cleared" ELSE "clearing"
         ELSE IF w.pc \in {"wipe", "refill", "settle"} THEN "asked" ELSE "granted"

Atomic == INSTANCE Registers WITH
  value  <- stable,
  call   <- IF w.pc = "idle" THEN {} ELSE {[key |-> w.key, val |-> w.val, stage |-> Stage]},
  asked  <- [r \in Reader |-> IF rd[r].pc = "idle" THEN {} ELSE {rd[r].key}],
  may    <- held,
  answer <- [r \in Reader |-> IF rd[r].pc = "done" THEN {rd[r].val} ELSE {}],
  copy   <- [r \in Reader |-> [k \in Key |->
               {e.val : e \in {d \in cache[r][k] : d.seen = slots[SlotOf[k]]}}]]

\* The segment is the registers of module Registers: a put or a remove that returns
\* has changed its variable and no other, through every probe, reclaimed tombstone
\* and compaction; reads and cached copies are as they are there.
DeliversRegisters == Atomic!Spec
=============================================================================
