------------------------------- MODULE Capi -------------------------------
(***************************************************************************)
(* The C interface as one process sees it: which heap buffer nvram_get     *)
(* returns a pointer to, when the library frees it, what nvram_getall      *)
(* writes into the caller's buffer and what nvram_get_int makes of a text. *)
(*                                                                         *)
(* The process starts detached or attached, meets the segment when it      *)
(* reattaches or calls nvram_init, and shares it with processes that set,  *)
(* unset, clear and commit.  A call is one step: its parts are interleaved *)
(* in Store and Segment, and with them is the torn read that falls back to *)
(* the file.                                                               *)
(*                                                                         *)
(* A value is a sequence of bytes, a byte is a one-letter string or NUL.   *)
(***************************************************************************)
EXTENDS Integers, FiniteSets, SequencesExt

\* The terminator of a string.
NUL == "NUL"

CONSTANTS
  Byte, Key, Val, Absent,
  Settable,   \* the keys valid_key accepts; others can only have a file
  Name,       \* [Key -> Seq(Byte)]
  Slot, SlotOf,
  Interval,   \* REATTACH_INTERVAL
  Count,      \* sizes of the buffer passed to nvram_getall
  Text,       \* texts for parse_int
  MaxInt,     \* INT_MAX
  Fault,      \* what may fail under nvram_getall
  MaxChanges  \* bound: changes of the store by anybody

ASSUME KeyAssumption ==
  /\ IsFiniteSet(Key) /\ Settable \subseteq Key /\ Absent \notin Val
  /\ SlotOf \in [Key -> Slot]
\* A name is a C string or the name of a file.
ASSUME StringAssumption ==
  /\ {NUL, "="} \subseteq Byte /\ Val \cup Text \subseteq Seq(Byte)
  /\ Name \in [Key -> Seq(Byte) \ {<<>>}]
  /\ \A k, j \in Key : Name[k] = Name[j] => k = j
  /\ \A k \in Key : NUL \notin ToSet(Name[k])
ASSUME BufferAssumption ==
  /\ Interval \in Nat \ {0} /\ Count \subseteq Nat \ {0}
  /\ MaxInt \in Nat /\ MaxChanges \in Nat
\* The writer semaphore; the listing of the directory or the read of a file.
ASSUME FaultAssumption == Fault \subseteq {"sem", "disk"}

Value == Val \cup {Absent}

VARIABLES
  seg,        \* Store::seg is there
  ops,        \* Store::detached_ops modulo Interval
  published,  \* there is a segment to attach to
  mem,        \* the variables of the segment
  files,      \* the files of /nvram
  slots,      \* the seqlock counters
  cache,      \* Cache::map
  held,       \* ghost: pointers returned whose key has not changed since
  last,       \* what the last call returned, if it matters
  changes

store == <<mem, files, slots>>
vars  == <<seg, ops, published, mem, files, slots, cache, held, last, changes>>

-----------------------------------------------------------------------------
(* Cache entries.  value and retired hold at most one buffer.              *)

NewEntry == [value |-> {}, retired |-> {}, seen |-> 0, valid |-> FALSE]

\* An allocation is named by a number that no buffer and no pointer has.
Used    == {b.at : b \in UNION {cache[k].value \cup cache[k].retired : k \in Key}}
             \cup {h.at : h \in held}
Address == Min(1 .. Cardinality(Used) + 1 \ Used)

Buffer(v) == IF v = Absent THEN {} ELSE {[at |-> Address, bytes |-> v]}

\* Mutant: a new buffer although the bytes are unchanged.
InstallAnew(e, v, seen) ==
  [value |-> Buffer(v), retired |-> e.value, seen |-> seen, valid |-> TRUE]

\* Mutant: what is replaced is freed at once.
InstallFreeing(e, v, seen) ==
  IF {b.bytes : b \in e.value} = {v} \ {Absent}
  THEN [e EXCEPT !.seen = seen, !.valid = TRUE]
  ELSE [value |-> Buffer(v), retired |-> {}, seen |-> seen, valid |-> TRUE]

\* Entry::install: the pointer is stable when the bytes are unchanged.
Install(e, v, seen) ==
  IF {b.bytes : b \in e.value} = {v} \ {Absent}
  THEN [e EXCEPT !.seen = seen, !.valid = TRUE]
  ELSE [value |-> Buffer(v), retired |-> e.value, seen |-> seen, valid |-> TRUE]

\* Mutant: the value is not taken out of the entry.
InvalidateCopying(c) ==
  [k \in Key |-> [c[k] EXCEPT !.retired = c[k].value, !.seen = 0, !.valid = FALSE]]

\* Cache::invalidate_all.
InvalidateAll(c) ==
  [k \in Key |-> [value |-> {}, retired |-> c[k].value, seen |-> 0, valid |-> FALSE]]

-----------------------------------------------------------------------------
(* What every call begins with.                                            *)

\* Mutant: adopt leaves the cache as it is.
AdoptKeeping(c) == c

\* Store::adopt.
Adopt(c) == InvalidateAll(c)

\* Store::reattach: does this call find the segment?
Attaches  == ~seg /\ ops = 0 /\ published
Attached  == seg \/ Attaches
Entries   == IF Attaches THEN Adopt(cache) ELSE cache
Reattach ==
  /\ seg' = Attached
  /\ ops' = IF Attached THEN 0 ELSE (ops + 1) % Interval

\* The value of k to a process that is attached, or not: read_one refuses the
\* names that valid_key does.
ViewOf(k, attached, m, f) ==
  IF attached THEN m[k] ELSE IF k \in Settable THEN f[k] ELSE Absent

\* The pointers still under contract, p's being the new ones: a key that reads
\* otherwise has changed.
Hold(p) ==
  held' = {h \in held \cup p : ViewOf(h.key, seg', mem', files') = h.bytes}

Pointers(k, e) == {[key |-> k, at |-> b.at, bytes |-> b.bytes, seg |-> Attached]
                     : b \in e.value}

NoResult == [op |-> "none"]
Quiet    == last' = NoResult

\* NextEven of Segment: a counter nobody is writing behind moves by 2.
Bumped(S) == [s \in Slot |-> IF s \in S THEN slots[s] + 2 ELSE slots[s]]

-----------------------------------------------------------------------------
(* The calls.                                                              *)

Hit(k) == Entries[k].valid /\ Entries[k].seen = slots[SlotOf[k]]

\* Store::get.
Read(k) ==
  LET e == Entries[k]
      n == IF ~Attached
           THEN [Install(e, ViewOf(k, FALSE, mem, files), 0) EXCEPT !.valid = FALSE]
           ELSE IF Hit(k) THEN e ELSE Install(e, mem[k], slots[SlotOf[k]])
  IN  /\ cache' = [Entries EXCEPT ![k] = n]
      /\ Reattach
      /\ UNCHANGED <<published, store, changes>>

\* nvram_get; nvram_safe_get only replaces null by a constant.
Get(k) == Read(k) /\ Hold(Pointers(k, cache'[k])) /\ Quiet

\* The store changes: m in the segment, f in the files, sl the counters.
Change(m, f, sl) ==
  /\ mem' = m /\ files' = f /\ slots' = sl
  /\ IF m = mem /\ f = files THEN UNCHANGED changes
     ELSE changes < MaxChanges /\ changes' = changes + 1

\* put and remove leave alone what is so already.
Written(k, v) == IF mem[k] = v THEN slots ELSE Bumped({SlotOf[k]})

\* nvram_set: nothing to do when a hit says so; else put, or write_atomic
\* without a segment, and the new value is installed.
Set(k, v) ==
  /\ k \in Settable
  /\ IF Attached
     THEN IF Hit(k) /\ {b.bytes : b \in Entries[k].value} = {v}
          THEN UNCHANGED <<store, changes>> /\ cache' = Entries
          ELSE /\ Change([mem EXCEPT ![k] = v], files, Written(k, v))
               /\ cache' = [Entries EXCEPT ![k] = Install(@, v, slots'[SlotOf[k]])]
     ELSE /\ Change(mem, [files EXCEPT ![k] = v], slots)
          /\ cache' = [Entries EXCEPT ![k] = Install(@, v, 0)]
  /\ Reattach /\ Quiet /\ Hold({}) /\ UNCHANGED published

\* nvram_unset.
Unset(k) ==
  /\ k \in Settable
  /\ IF Attached
     THEN /\ Change([mem EXCEPT ![k] = Absent], files, Written(k, Absent))
          /\ cache' = [Entries EXCEPT ![k] = Install(@, Absent, slots'[SlotOf[k]])]
     ELSE /\ Change(mem, [files EXCEPT ![k] = Absent], slots)
          /\ cache' = [Entries EXCEPT ![k] = Install(@, Absent, 0)]
  /\ Reattach /\ Quiet /\ Hold({}) /\ UNCHANGED published

NoVars == [k \in Key |-> Absent]

\* nvram_clear and nvram_reset: the segment if there is one, every file, and
\* every cached value.
Clear ==
  /\ changes < MaxChanges /\ changes' = changes + 1
  /\ mem' = IF Attached THEN NoVars ELSE mem
  /\ slots' = IF Attached THEN Bumped(Slot) ELSE slots
  /\ files' = NoVars
  /\ cache' = InvalidateAll(Entries)
  /\ Reattach /\ Quiet /\ Hold({}) /\ UNCHANGED published

\* The files after a commit that wrote, or removed, those of K: the others were not
\* owed, were as they should be, or failed.  A key that cannot be set is never owed.
Committed(K) == [k \in Key |-> IF k \in K THEN mem[k] ELSE files[k]]

Commit ==
  /\ \E K \in SUBSET Settable : Change(mem, IF Attached THEN Committed(K) ELSE files, slots)
  /\ cache' = Entries
  /\ Reattach /\ Quiet /\ Hold({}) /\ UNCHANGED published

\* The counters after nvram_init has put the files' variables one by one.
Populated == [s \in Slot |->
  2 * Cardinality({k \in Key : files[k] # Absent /\ SlotOf[k] = s})]

\* nvram_init: attach, or build the segment from the files.
InitCall ==
  /\ ~seg /\ seg' = TRUE /\ ops' = 0
  /\ published' = TRUE
  /\ IF published THEN UNCHANGED <<mem, slots>>
     ELSE mem' = files /\ slots' = Populated
  /\ cache' = Adopt(cache)
  /\ UNCHANGED <<files, changes>>
  /\ Quiet /\ Hold({})

-----------------------------------------------------------------------------
(* nvram_getall.                                                           *)

\* Mutant: no room is kept for the terminator.
NeedsExactly(acc, k, v, len) == acc.pos + Len(Name[k]) + 1 + Len(v) + 1 > len

\* There is no room for the record k=v and the empty string after it.
Overflows(acc, k, v, len) == acc.pos + (Len(Name[k]) + 1 + Len(v) + 1) + 1 > len

\* One record; after the first that does not fit there are no more.
Emit(acc, k, v, len) ==
  IF acc.overflow \/ Overflows(acc, k, v, len) THEN [acc EXCEPT !.overflow = TRUE]
  ELSE LET record == Name[k] \o <<"=">> \o v \o <<NUL>>
       IN  [acc EXCEPT !.buf = @ \o record, !.pos = @ + Len(record)]

\* The records of d in the order `keys`, and the terminator.
Pack(d, keys, len) ==
  LET emitted[i \in 0 .. Len(keys)] ==
        IF i = 0 THEN [buf |-> <<>>, pos |-> 0, overflow |-> FALSE]
        ELSE Emit(emitted[i - 1], keys[i], d[keys[i]], len)
      all == emitted[Len(keys)]
      end == Min({all.pos, len - 1})
  IN  [all EXCEPT !.buf = SubSeq(@, 1, end) \o <<NUL>>]

\* What is enumerated, and what it holds.
Listing      == IF Attached THEN mem ELSE files
Present      == {k \in Key : Listing[k] # Absent}
RecordsOf(S) == {<<Name[k], Listing[k]>> : k \in S}

\* What the enumeration meets: the whole index, or the files that can be read.
\* load_all passes over the others, and nobody looks at its own failure.
Met == IF Attached \/ "disk" \notin Fault THEN {Present} ELSE SUBSET Present

Answer(len, ok, buf, met) ==
  last' = [op |-> "getall", len |-> len, ok |-> ok, buf |-> buf,
           met |-> RecordsOf(met), all |-> RecordsOf(Present)]

\* The order is that of the index, or of the directory.  Without the semaphore an
\* attached process fails before it has touched the buffer.
Getall(len) ==
  /\ \/ \E met \in Met : \E keys \in SetToSeqs(met) :
          LET r == Pack(Listing, keys, len) IN Answer(len, ~r.overflow, r.buf, met)
     \/ Attached /\ "sem" \in Fault /\ Answer(len, FALSE, <<>>, {})
  /\ cache' = Entries
  /\ Reattach
  /\ UNCHANGED <<published, store, changes>>
  /\ Hold({})

-----------------------------------------------------------------------------
(* nvram_get_int: parse_int.                                               *)

Digits == <<"0", "1", "2", "3", "4", "5", "6", "7", "8", "9">>
IsDigit(c)  == c \in ToSet(Digits)
DigitOf(c)  == (CHOOSE i \in 1 .. 10 : Digits[i] = c) - 1
Sign        == {"-", "+"}
CInt        == -MaxInt - 1 .. MaxInt

\* A byte that makes a text no UTF-8.
BadByte == "\\"

\* Mutant: the text is not trimmed.
Untrimmed(t) == t

Trim(t) ==
  LET kept == {i \in DOMAIN t : t[i] # " "}
  IN  IF kept = {} THEN <<>> ELSE SubSeq(t, Min(kept), Max(kept))

\* The sign and the digits at the start of s.
Leading(s) ==
  LET from == IF s # <<>> /\ s[1] \in Sign THEN 1 ELSE 0
      end  == Max({from} \cup {e \in DOMAIN s : \A i \in from + 1 .. e : IsDigit(s[i])})
  IN  [neg |-> from = 1 /\ s[1] = "-", digits |-> SubSeq(s, from + 1, end)]

\* str::parse: no digits, or too many, is an error and the result is 0.
ParseInt(t) ==
  LET l == Leading(Trim(t))
      read[i \in 0 .. Len(l.digits)] ==
        IF i = 0 THEN 0 ELSE 10 * read[i - 1] + DigitOf(l.digits[i])
      n == read[Len(l.digits)]
      x == IF l.neg THEN -n ELSE n
  IN  IF BadByte \in ToSet(t) \/ l.digits = <<>> \/ x \notin CInt THEN 0 ELSE x

\* nvram_get_int: a get whose pointer goes nowhere, and 0 for null.
GetInt(k) ==
  /\ Read(k) /\ Hold({})
  /\ last' = [op |-> "get_int", key |-> k,
              int |-> IF cache'[k].value = {} THEN 0
                      ELSE ParseInt((CHOOSE b \in cache'[k].value : TRUE).bytes)]

-----------------------------------------------------------------------------
(* The other processes.                                                    *)

Others == UNCHANGED <<seg, ops, cache>> /\ Quiet /\ Hold({})

OtherInits ==
  /\ ~published /\ published' = TRUE
  /\ mem' = files /\ slots' = Populated
  /\ UNCHANGED <<files, changes>>
  /\ Others

OtherSets(k, v) ==
  /\ published /\ k \in Settable /\ mem[k] # v
  /\ Change([mem EXCEPT ![k] = v], files, Written(k, v))
  /\ Others /\ UNCHANGED published

OtherClears ==
  /\ published
  /\ changes < MaxChanges /\ changes' = changes + 1
  /\ mem' = NoVars /\ files' = NoVars /\ slots' = Bumped(Slot)
  /\ Others /\ UNCHANGED published

\* A commit, or somebody without a segment writing or removing a file.
FilesChange ==
  /\ \/ published /\ \E K \in SUBSET Settable :
          files # Committed(K) /\ Change(mem, Committed(K), slots)
     \/ \E k \in Settable, v \in Value : files[k] # v /\ Change(mem, [files EXCEPT ![k] = v], slots)
  /\ Others /\ UNCHANGED published

-----------------------------------------------------------------------------
Init ==
  /\ files \in [Key -> Value]
  /\ published = FALSE /\ mem = NoVars
  /\ slots = [s \in Slot |-> 0]
  /\ seg = FALSE /\ ops = 0
  /\ cache = [k \in Key |-> NewEntry]
  /\ held = {} /\ last = NoResult /\ changes = 0

Next ==
  \/ \E k \in Key : Get(k) \/ GetInt(k) \/ Unset(k)
  \/ \E k \in Key, v \in Val : Set(k, v)
  \/ Clear \/ Commit \/ InitCall
  \/ \E n \in Count : Getall(n)
  \/ OtherInits \/ OtherClears \/ FilesChange
  \/ \E k \in Key, v \in Value : OtherSets(k, v)

Spec == Init /\ [][Next]_vars

-----------------------------------------------------------------------------
(* Properties.                                                             *)

TypeOK ==
  /\ seg \in BOOLEAN /\ published \in BOOLEAN /\ ops \in 0 .. Interval - 1
  /\ seg => published
  /\ mem \in [Key -> Value] /\ files \in [Key -> Value] /\ slots \in [Slot -> Nat]
  /\ \A k \in Key : \A b \in cache[k].value \cup cache[k].retired : b.bytes \in Val
  /\ \A k \in Key : cache[k].value \cap cache[k].retired = {}

\* A hit is the value in the segment, whatever was cached before the process had
\* one: a detached copy has 0 recorded with it, and so has an untouched counter.
\* (Store::adopt)
HitsCurrent ==
  seg => \A k \in Key : cache[k].valid /\ cache[k].seen = slots[SlotOf[k]]
           => {b.bytes : b \in cache[k].value} = {mem[k]} \ {Absent}

\* The buffer a pointer aims at is still there, and unchanged.
Alive(h) == \E b \in cache[h.key].value \cup cache[h.key].retired :
              b.at = h.at /\ b.bytes = h.bytes

\* "It stays valid at least until this key next changes."
PointersLast == \A h \in held : Alive(h)

\* The same, for pointers returned since the process got its segment, or by a
\* process that has none yet: other keys, other processes and counters shared
\* with other keys do not free a buffer.
PointersLastOnSegment == \A h \in held : h.seg = seg => Alive(h)

\* What nvram_get would return before a call of an attached process is not freed
\* by that call, even if it changes the key or clears the store: "that grace
\* period is what makes a pointer survive a change to its key".
GracePeriod ==
  [][seg => \A k \in Key : cache[k].value \subseteq cache'[k].value \cup cache'[k].retired]_vars

\* How a caller walks the buffer: strings up to the first empty one, each split
\* at its first "=".
Starts(buf)  == {1} \cup {i + 1 : i \in {j \in DOMAIN buf : buf[j] = NUL}}
EndOf(buf, c, i) == Min({j \in i .. Len(buf) : buf[j] = c})
Empties(buf) == {i \in Starts(buf) \cap DOMAIN buf : buf[i] = NUL}
Unpack(buf) ==
  {<<SubSeq(buf, i, EndOf(buf, "=", i) - 1),
     SubSeq(buf, EndOf(buf, "=", i) + 1, EndOf(buf, NUL, i) - 1)>>
     : i \in {j \in Starts(buf) : j < Min(Empties(buf))}}

\* nvram_getall stays inside the caller's buffer.  If it writes anything it ends with
\* an empty string, which fits even if the last record just does; a caller that
\* unpacks the buffer finds only variables with their values, and every one that the
\* call met exactly when it reports success.  It reports failure if it wrote nothing.
GetallUnpacks ==
  last.op = "getall" =>
    /\ Len(last.buf) <= last.len
    /\ IF last.buf = <<>> THEN ~last.ok
       ELSE /\ Empties(last.buf) # {} /\ Unpack(last.buf) \subseteq last.all
            /\ last.ok <=> Unpack(last.buf) = last.met

\* "Emit the whole store" is this: success means every variable.  It does not hold of
\* a process without a segment that cannot read its files.
GetallWhole ==
  last.op = "getall" /\ last.ok => Unpack(last.buf) = last.all

\* atoi(), left to right: blanks, a sign, digits, and whatever comes after them.
AtoiStep(s, c) ==
  CASE s.at = "blank" /\ c = " " -> s
    [] s.at = "blank" /\ c \in Sign -> [s EXCEPT !.at = "number", !.neg = (c = "-")]
    [] s.at # "done" /\ IsDigit(c) ->
         [s EXCEPT !.at = "number", !.n = 10 * @ + DigitOf(c)]
    [] OTHER -> [s EXCEPT !.at = "done"]

Atoi(t) ==
  LET after[i \in 0 .. Len(t)] ==
        IF i = 0 THEN [at |-> "blank", neg |-> FALSE, n |-> 0]
        ELSE AtoiStep(after[i - 1], t[i])
      end == after[Len(t)]
  IN  IF end.neg THEN -end.n ELSE end.n

Expected(t) == IF Atoi(t) \in CInt THEN Atoi(t) ELSE 0

\* The texts parse_int reads otherwise.
Misread == {t \in Text : BadByte \notin ToSet(t) /\ ParseInt(t) # Expected(t)}

\* nvram_get_int is what atoi() makes of the current value, on every UTF-8 text
\* whose number is an int; it is 0 where atoi() is undefined, and for null.
IntsAgree ==
  /\ Misread = {}
  /\ last.op = "get_int" =>
       LET v == ViewOf(last.key, seg, mem, files)
       IN  last.int = IF v = Absent THEN 0 ELSE Expected(v)
=============================================================================
