----------------------------- MODULE CapiProofs -----------------------------
(***************************************************************************)
(* Proofs about the C interface as one process sees it, for any finite set *)
(* of keys, any values and any sharing of counters:                        *)
(*   TypeCorrect  the state is well typed, and no buffer is both current   *)
(*                and retired                                              *)
(*   Current      a cache hit is the value in the segment                  *)
(*   Lasting      a pointer lasts until its key changes, across every call *)
(*                of the process but the one that finds the segment        *)
(*   Grace        a call of an attached process frees no current value     *)
(*   Unpacks      nvram_getall's buffer unpacks to the variables it met    *)
(*   Ints         nvram_get_int is what atoi makes of the current value    *)
(***************************************************************************)
EXTENDS Capi, FiniteSetTheorems, SequenceTheorems, WellFoundedInduction, TLAPS

Buf       == [at : Nat, bytes : Val]
EntryType == [value : SUBSET Buf, retired : SUBSET Buf, seen : Nat, valid : BOOLEAN]
Handle    == [key : Key, at : Nat, bytes : Val, seg : BOOLEAN]

\* At most one buffer.
Single(S) == \A a, b \in S : a = b

\* The bytes of a cached value, as a set of at most one.
BytesIn(S) == {b.bytes : b \in S}
JustOf(v)  == {v} \ {Absent}

EntryOK(e) ==
  /\ Single(e.value) /\ Single(e.retired)
  /\ e.value \cap e.retired = {}

StoreType ==
  /\ seg \in BOOLEAN /\ published \in BOOLEAN /\ ops \in 0 .. Interval - 1
  /\ seg => published
  /\ mem \in [Key -> Value] /\ files \in [Key -> Value] /\ slots \in [Slot -> Nat]

CacheType == cache \in [Key -> EntryType] /\ \A k \in Key : EntryOK(cache[k])

HeldType == held \subseteq Handle /\ IsFiniteSet(held)

TypeInv == StoreType /\ CacheType /\ HeldType

\* No recorded counter is ahead of the segment's: one that has fallen behind stays
\* behind.
HitInv ==
  seg => \A k \in Key : cache[k].valid =>
    /\ cache[k].seen <= slots[SlotOf[k]]
    /\ cache[k].seen = slots[SlotOf[k]] => BytesIn(cache[k].value) = JustOf(mem[k])

\* A pointer under contract is to the current buffer of its key, never to the
\* retired one.
PtrInv ==
  \A h \in held :
    /\ h.seg => seg
    /\ h.seg = seg => \E b \in cache[h.key].value : b.at = h.at /\ b.bytes = h.bytes

Inv == TypeInv /\ HitInv /\ PtrInv

-----------------------------------------------------------------------------
(* Addresses.                                                              *)

\* A non-empty set of naturals has a least element.
LEMMA LeastExists ==
  ASSUME NEW S \in SUBSET Nat, S # {}
  PROVE  \E i \in S : \A j \in S : i <= j
<1> DEFINE R == OpToRel(<, Nat)
<1>1. IsWellFoundedOn(R, Nat)
  BY NatLessThanWellFounded
<1>2. \A x, y \in Nat : <<y, x>> \in R <=> y < x
  BY DEF OpToRel
<1> HIDE DEF R
<1>3. PICK i \in S : \A y \in S : ~ (<<y, i>> \in R)
  BY <1>1, WFMin
<1>4. \A j \in S : ~ (j < i)
  BY <1>2, <1>3
<1>5. \A j \in S : i <= j
  BY <1>4
<1> QED
  BY <1>5

\* The image of a finite set of buffers or pointers under "its address".
LEMMA AddressesFinite ==
  ASSUME NEW S, IsFiniteSet(S)
  PROVE  IsFiniteSet({b.at : b \in S})
<1> DEFINE T == {b.at : b \in S}
           f == [b \in S |-> b.at]
<1>1. f \in Surjection(S, T)
  BY DEF Surjection
<1> QED
  BY <1>1, FS_Surjection

LEMMA SingleFinite ==
  ASSUME NEW S, Single(S)
  PROVE  IsFiniteSet(S)
<1>1. CASE S = {}
  BY <1>1, FS_EmptySet
<1>2. CASE S # {}
  <2>1. PICK x : x \in S
    BY <1>2
  <2>2. S = {x}
    BY <2>1 DEF Single
  <2> QED
    BY <2>2, FS_Singleton
<1> QED
  BY <1>1, <1>2

LEMMA UsedFinite ==
  ASSUME TypeInv
  PROVE  IsFiniteSet(Used)
<1> DEFINE B(k) == cache[k].value \cup cache[k].retired
           All  == {B(k) : k \in Key}
           f    == [k \in Key |-> B(k)]
<1>1. \A k \in Key : IsFiniteSet(B(k))
  <2> TAKE k \in Key
  <2>1. Single(cache[k].value) /\ Single(cache[k].retired)
    BY DEF TypeInv, CacheType, EntryOK
  <2>2. IsFiniteSet(cache[k].value) /\ IsFiniteSet(cache[k].retired)
    BY <2>1, SingleFinite
  <2> QED
    BY <2>2, FS_Union
<1>2. f \in Surjection(Key, All)
  BY DEF Surjection
<1>3. IsFiniteSet(All)
  BY <1>2, FS_Surjection, KeyAssumption
<1>4. \A T \in All : IsFiniteSet(T)
  BY <1>1
<1>5. IsFiniteSet(UNION All)
  BY <1>3, <1>4, FS_UNION
<1>6. IsFiniteSet({b.at : b \in UNION All})
  BY <1>5, AddressesFinite
<1>7. IsFiniteSet({h.at : h \in held})
  BY AddressesFinite DEF TypeInv, HeldType
<1>8. Used = {b.at : b \in UNION All} \cup {h.at : h \in held}
  BY DEF Used
<1> QED
  BY <1>6, <1>7, <1>8, FS_Union

\* An allocation is nobody's buffer and nobody's pointer.
LEMMA AddressFresh ==
  ASSUME TypeInv
  PROVE  Address \in Nat /\ Address \notin Used
<1> DEFINE n == Cardinality(Used)
           F == 1 .. n + 1 \ Used
<1>1. n \in Nat
  BY UsedFinite, FS_CardinalityType
<1>2. F # {}
  <2> SUFFICES ASSUME F = {} PROVE FALSE
    OBVIOUS
  <2>1. 1 .. n + 1 \in SUBSET Used
    OBVIOUS
  <2>2. Cardinality(1 .. n + 1) <= n
    BY <2>1, UsedFinite, FS_Subset
  <2>3. 1 \in Int /\ n + 1 \in Int
    BY <1>1
  <2>4. Cardinality(1 .. n + 1) = n + 1
    BY <2>3, <1>1, FS_Interval
  <2> QED
    BY <1>1, <2>2, <2>4
<1>3. F \in SUBSET Nat
  BY <1>1
<1>4. \E i \in F : \A j \in F : i <= j
  BY <1>2, <1>3, LeastExists
<1>5. Min(F) \in F
  BY <1>4 DEF Min
<1>6. Address = Min(F)
  BY DEF Address
<1> QED
  BY <1>3, <1>5, <1>6

-----------------------------------------------------------------------------
(* The parts calls are made of.                                            *)

\* The addresses of what is cached are in use.
InUse(e) == \A b \in e.value \cup e.retired : b.at \in Used

\* What an install leaves: the value asked for, the old buffer if it has that
\* value already, else the old one retired.
Installed(e, n, v) ==
  /\ n \in EntryType /\ EntryOK(n)
  /\ BytesIn(n.value) = JustOf(v)
  /\ e.value \subseteq n.value \cup n.retired
  /\ n.value = e.value \/ BytesIn(e.value) # JustOf(v)

LEMMA BufferFacts ==
  ASSUME TypeInv, NEW v \in Value
  PROVE  /\ Buffer(v) \subseteq Buf /\ Single(Buffer(v))
         /\ BytesIn(Buffer(v)) = JustOf(v)
         /\ \A b \in Buffer(v) : b.at \notin Used
<1> DEFINE b == [at |-> Address, bytes |-> v]
<1>1. CASE v = Absent
  <2>1. Buffer(v) = {}
    BY <1>1 DEF Buffer
  <2> QED
    BY <1>1, <2>1 DEF Single, BytesIn, JustOf
<1>2. CASE v # Absent
  <2>1. Buffer(v) = {b}
    BY <1>2 DEF Buffer
  <2>2. v \in Val
    BY <1>2 DEF Value
  <2>3. Address \in Nat /\ Address \notin Used
    BY AddressFresh
  <2>4. b \in Buf /\ b.at = Address /\ b.bytes = v
    BY <2>2, <2>3 DEF Buf
  <2> HIDE DEF b
  <2> QED
    BY <1>2, <2>1, <2>3, <2>4 DEF Single, BytesIn, JustOf
<1> QED
  BY <1>1, <1>2

LEMMA InstallFacts ==
  ASSUME TypeInv, NEW e \in EntryType, EntryOK(e), InUse(e),
         NEW v \in Value, NEW s \in Nat
  PROVE  /\ Installed(e, Install(e, v, s), v)
         /\ Install(e, v, s).seen = s /\ Install(e, v, s).valid = TRUE
<1>1. CASE BytesIn(e.value) = JustOf(v)
  <2> DEFINE n == [e EXCEPT !.seen = s, !.valid = TRUE]
  <2>1. Install(e, v, s) = n
    BY <1>1 DEF Install, BytesIn, JustOf
  <2>2. n \in EntryType /\ n.value = e.value /\ n.retired = e.retired
          /\ n.seen = s /\ n.valid = TRUE
    BY DEF EntryType
  <2> HIDE DEF n
  <2> QED
    BY <1>1, <2>1, <2>2 DEF Installed, EntryOK
<1>2. CASE BytesIn(e.value) # JustOf(v)
  <2> DEFINE n == [value |-> Buffer(v), retired |-> e.value, seen |-> s, valid |-> TRUE]
  <2>1. Install(e, v, s) = n
    BY <1>2 DEF Install, BytesIn, JustOf
  <2>2. n \in EntryType /\ n.value = Buffer(v) /\ n.retired = e.value
          /\ n.seen = s /\ n.valid = TRUE
    BY BufferFacts DEF EntryType
  <2> HIDE DEF n
  <2>3. EntryOK(n)
    BY <2>2, BufferFacts DEF EntryOK, InUse
  <2> QED
    BY <1>2, <2>1, <2>2, <2>3, BufferFacts DEF Installed
<1> QED
  BY <1>1, <1>2

\* A detached get marks what it installed as no hit.
LEMMA UnhitFacts ==
  ASSUME NEW e, NEW x, NEW v, Installed(e, x, v)
  PROVE  /\ Installed(e, [x EXCEPT !.valid = FALSE], v)
         /\ [x EXCEPT !.valid = FALSE].valid = FALSE
<1> DEFINE n == [x EXCEPT !.valid = FALSE]
<1>1. x \in EntryType
  BY DEF Installed
<1>2. n \in EntryType /\ n.value = x.value /\ n.retired = x.retired /\ n.valid = FALSE
  BY <1>1 DEF EntryType
<1> HIDE DEF n
<1>3. Installed(e, n, v)
  BY <1>2 DEF Installed, EntryOK
<1> QED
  BY <1>2, <1>3 DEF n

LEMMA InvalidateFacts ==
  ASSUME NEW c \in [Key -> EntryType], \A k \in Key : EntryOK(c[k])
  PROVE  /\ InvalidateAll(c) \in [Key -> EntryType]
         /\ \A k \in Key : /\ EntryOK(InvalidateAll(c)[k])
                           /\ ~InvalidateAll(c)[k].valid
                           /\ InvalidateAll(c)[k].value = {}
                           /\ InvalidateAll(c)[k].retired = c[k].value
<1> DEFINE n(k) == [value |-> {}, retired |-> c[k].value, seen |-> 0, valid |-> FALSE]
<1>1. InvalidateAll(c) = [k \in Key |-> n(k)]
  BY DEF InvalidateAll
<1>2. \A k \in Key : /\ n(k) \in EntryType /\ n(k).value = {} /\ n(k).valid = FALSE
                     /\ n(k).retired = c[k].value
  BY DEF EntryType
<1> HIDE DEF n
<1> QED
  BY <1>1, <1>2 DEF EntryOK, Single

\* What a call finds in the cache once it has looked for the segment.
LEMMA EntriesFacts ==
  ASSUME TypeInv
  PROVE  /\ Entries \in [Key -> EntryType]
         /\ \A k \in Key : EntryOK(Entries[k]) /\ InUse(Entries[k])
         /\ Attached = seg => Entries = cache
         /\ Attached # seg => \A k \in Key : ~Entries[k].valid
<1>0. seg \in BOOLEAN /\ published \in BOOLEAN
  BY DEF TypeInv, StoreType
<1>1. cache \in [Key -> EntryType] /\ \A k \in Key : EntryOK(cache[k])
  BY DEF TypeInv, CacheType
<1>2. \A k \in Key : InUse(cache[k])
  BY DEF InUse, Used
<1>3. CASE Attaches
  <2>1. Entries = InvalidateAll(cache) /\ Attached # seg
    BY <1>3 DEF Entries, Adopt, Attached, Attaches
  <2> QED
    BY <1>1, <1>2, <2>1, InvalidateFacts DEF InUse
<1>4. CASE ~Attaches
  <2>1. Entries = cache /\ Attached = seg
    BY <1>0, <1>4 DEF Entries, Attached
  <2> QED
    BY <1>1, <1>2, <2>1
<1> QED
  BY <1>3, <1>4

LEMMA ReattachFacts ==
  ASSUME TypeInv, Reattach
  PROVE  /\ seg' = Attached /\ seg' \in BOOLEAN /\ ops' \in 0 .. Interval - 1
         /\ seg => seg'
         /\ seg' => published
<1>0. seg \in BOOLEAN /\ published \in BOOLEAN /\ ops \in 0 .. Interval - 1
        /\ (seg => published)
  BY DEF TypeInv, StoreType
<1>1. seg' = Attached
  BY DEF Reattach
<1>2. Attached \in BOOLEAN /\ (seg => Attached) /\ (Attached => published)
  BY <1>0 DEF Attached, Attaches
<1>3. ops' = (IF Attached THEN 0 ELSE (ops + 1) % Interval)
  BY DEF Reattach
<1>4. (ops + 1) % Interval \in 0 .. Interval - 1 /\ 0 \in 0 .. Interval - 1
  BY <1>0, BufferAssumption
<1>5. ops' \in 0 .. Interval - 1
  BY <1>3, <1>4
<1> QED
  BY <1>1, <1>2, <1>5

\* Counters only move forward, and strictly where they are bumped.
LEMMA BumpedFacts ==
  ASSUME TypeInv, NEW S
  PROVE  /\ Bumped(S) \in [Slot -> Nat]
         /\ \A s \in Slot : Bumped(S)[s] >= slots[s] /\ (s \in S => Bumped(S)[s] > slots[s])
BY DEF Bumped, TypeInv, StoreType

LEMMA WrittenFacts ==
  ASSUME TypeInv, NEW k \in Key, NEW v
  PROVE  /\ Written(k, v) \in [Slot -> Nat]
         /\ \A s \in Slot : Written(k, v)[s] >= slots[s]
         /\ mem[k] # v => Written(k, v)[SlotOf[k]] > slots[SlotOf[k]]
<1>1. slots \in [Slot -> Nat] /\ SlotOf[k] \in Slot
  BY KeyAssumption DEF TypeInv, StoreType
<1>2. CASE mem[k] = v
  BY <1>1, <1>2 DEF Written
<1>3. CASE mem[k] # v
  BY <1>1, <1>3, BumpedFacts DEF Written
<1> QED
  BY <1>2, <1>3

LEMMA PopulatedFacts == Populated \in [Slot -> Nat]
<1>1. ASSUME NEW s \in Slot
      PROVE  Cardinality({k \in Key : files[k] # Absent /\ SlotOf[k] = s}) \in Nat
  <2> DEFINE T == {k \in Key : files[k] # Absent /\ SlotOf[k] = s}
  <2>1. T \in SUBSET Key
    OBVIOUS
  <2>2. IsFiniteSet(T)
    BY <2>1, FS_Subset, KeyAssumption
  <2> QED
    BY <2>2, FS_CardinalityType
<1>2. \A s \in Slot :
        2 * Cardinality({k \in Key : files[k] # Absent /\ SlotOf[k] = s}) \in Nat
  BY <1>1
<1> QED
  BY <1>2 DEF Populated

-----------------------------------------------------------------------------
(* What is common to all steps.                                            *)

\* The pointers a get hands out.
LEMMA PointersFacts ==
  ASSUME TypeInv, NEW k \in Key, NEW e \in EntryType, EntryOK(e)
  PROVE  /\ Pointers(k, e) \subseteq Handle /\ IsFiniteSet(Pointers(k, e))
         /\ \A h \in Pointers(k, e) :
              /\ h.key = k /\ h.seg = Attached
              /\ \E b \in e.value : b.at = h.at /\ b.bytes = h.bytes
<1> DEFINE h(b) == [key |-> k, at |-> b.at, bytes |-> b.bytes, seg |-> Attached]
           f == [b \in e.value |-> h(b)]
<1>1. Attached \in BOOLEAN
  BY DEF Attached, Attaches, TypeInv, StoreType
<1>2. \A b \in e.value : /\ h(b) \in Handle /\ h(b).key = k /\ h(b).seg = Attached
                         /\ h(b).at = b.at /\ h(b).bytes = b.bytes
  BY <1>1 DEF Handle, EntryType, Buf
<1>3. Pointers(k, e) = {h(b) : b \in e.value}
  BY DEF Pointers
<1> HIDE DEF h
<1>4. f \in Surjection(e.value, {h(b) : b \in e.value})
  BY DEF Surjection
<1>5. IsFiniteSet(e.value)
  BY SingleFinite DEF EntryOK
<1>6. IsFiniteSet({h(b) : b \in e.value})
  BY <1>4, <1>5, FS_Surjection
<1> QED
  BY <1>2, <1>3, <1>6

LEMMA HeldStep ==
  ASSUME TypeInv, NEW P, P \subseteq Handle, IsFiniteSet(P), Hold(P)
  PROVE  HeldType'
<1>1. IsFiniteSet(held \cup P) /\ held \cup P \subseteq Handle
  BY FS_Union DEF TypeInv, HeldType
<1>2. held' \in SUBSET (held \cup P)
  BY DEF Hold
<1>3. IsFiniteSet(held')
  BY <1>1, <1>2, FS_Subset
<1> QED
  BY <1>1, <1>2, <1>3 DEF HeldType

\* What a step may do to the current buffer of a key: nothing, or replace it by one
\* with the bytes the key now reads as, which are not those it had.
Replaced ==
  \A k \in Key : \/ cache'[k].value = cache[k].value
                 \/ BytesIn(cache[k].value) # JustOf(ViewOf(k, seg', mem', files'))

\* A pointer whose key still reads the same is therefore to the current buffer still.
LEMMA PtrStep ==
  ASSUME TypeInv, PtrInv, NEW P, Hold(P), seg' \in BOOLEAN, seg => seg',
         seg' = seg => Replaced,
         \A h \in P : /\ h.seg = seg'
                      /\ \E b \in cache'[h.key].value : b.at = h.at /\ b.bytes = h.bytes
  PROVE  PtrInv'
<1> SUFFICES ASSUME NEW h \in held'
             PROVE  /\ h.seg => seg'
                    /\ h.seg = seg' =>
                         \E b \in cache'[h.key].value : b.at = h.at /\ b.bytes = h.bytes
  BY DEF PtrInv
<1>0. seg \in BOOLEAN
  BY DEF TypeInv, StoreType
<1>1. h \in held \cup P /\ ViewOf(h.key, seg', mem', files') = h.bytes
  BY DEF Hold
<1>2. CASE h \in P
  BY <1>2
<1>3. CASE h \in held
  <2>1. h.key \in Key /\ h.bytes \in Val /\ h.seg \in BOOLEAN
    BY <1>3 DEF TypeInv, HeldType, Handle
  <2>2. h.seg => seg
    BY <1>3 DEF PtrInv
  <2>3. ASSUME h.seg = seg'
        PROVE  \E b \in cache'[h.key].value : b.at = h.at /\ b.bytes = h.bytes
    <3>1. seg' = seg
      BY <1>0, <2>1, <2>2, <2>3
    <3>2. PICK b \in cache[h.key].value : b.at = h.at /\ b.bytes = h.bytes
      BY <1>3, <2>3, <3>1 DEF PtrInv
    <3>3. Single(cache[h.key].value)
      BY <2>1 DEF TypeInv, CacheType, EntryOK
    <3>4. BytesIn(cache[h.key].value) = {h.bytes}
      BY <3>2, <3>3 DEF BytesIn, Single
    <3>5. JustOf(ViewOf(h.key, seg', mem', files')) = {h.bytes}
      BY <1>1, <2>1, KeyAssumption DEF JustOf
    <3>6. Replaced
      BY <3>1
    <3>7. BytesIn(cache[h.key].value) = JustOf(ViewOf(h.key, seg', mem', files'))
      BY <3>4, <3>5
    <3>8. cache'[h.key].value = cache[h.key].value
      BY <2>1, <3>6, <3>7 DEF Replaced
    <3> QED
      BY <3>2, <3>8
  <2> QED
    BY <2>2, <2>3
<1> QED
  BY <1>1, <1>2, <1>3

\* Every entry that is a hit has just been filled with the value of its key, or is
\* as it was, with the counter moved forward if the value is another one.
LEMMA HitStep ==
  ASSUME TypeInv, HitInv, slots' \in [Slot -> Nat],
         seg' => \A k \in Key : cache'[k].valid =>
           \/ /\ seg /\ cache'[k] = cache[k]
              /\ slots'[SlotOf[k]] >= slots[SlotOf[k]]
              /\ mem'[k] = mem[k] \/ slots'[SlotOf[k]] > slots[SlotOf[k]]
           \/ /\ cache'[k].seen = slots'[SlotOf[k]]
              /\ BytesIn(cache'[k].value) = JustOf(mem'[k])
  PROVE  HitInv'
<1> SUFFICES ASSUME seg', NEW k \in Key, cache'[k].valid
             PROVE  /\ cache'[k].seen <= slots'[SlotOf[k]]
                    /\ cache'[k].seen = slots'[SlotOf[k]] =>
                         BytesIn(cache'[k].value) = JustOf(mem'[k])
  BY DEF HitInv
<1>1. SlotOf[k] \in Slot
  BY KeyAssumption
<1>2. slots'[SlotOf[k]] \in Nat /\ slots[SlotOf[k]] \in Nat
  BY <1>1 DEF TypeInv, StoreType
<1>3. CASE /\ seg /\ cache'[k] = cache[k]
           /\ slots'[SlotOf[k]] >= slots[SlotOf[k]]
           /\ mem'[k] = mem[k] \/ slots'[SlotOf[k]] > slots[SlotOf[k]]
  <2>1. cache[k].seen \in Nat
    BY DEF TypeInv, CacheType, EntryType
  <2>2. /\ cache[k].seen <= slots[SlotOf[k]]
        /\ cache[k].seen = slots[SlotOf[k]] => BytesIn(cache[k].value) = JustOf(mem[k])
    BY <1>3 DEF HitInv
  <2>3. cache[k].seen <= slots'[SlotOf[k]]
    BY <1>2, <1>3, <2>1, <2>2
  <2>4. cache[k].seen = slots'[SlotOf[k]] => cache[k].seen = slots[SlotOf[k]] /\ mem'[k] = mem[k]
    BY <1>2, <1>3, <2>1, <2>2
  <2> QED
    BY <1>3, <2>2, <2>3, <2>4
<1>4. CASE /\ cache'[k].seen = slots'[SlotOf[k]]
           /\ BytesIn(cache'[k].value) = JustOf(mem'[k])
  BY <1>2, <1>4
<1> QED
  BY <1>3, <1>4

\* A call of an attached process frees no current value.
Gentle == seg => \A k \in Key : cache[k].value \subseteq cache'[k].value \cup cache'[k].retired

\* One entry is replaced by n, which an install of v made, or left alone.
LEMMA OneEntry ==
  ASSUME TypeInv, NEW k \in Key, NEW v, NEW n, Installed(Entries[k], n, v),
         cache' = [Entries EXCEPT ![k] = n],
         seg' = Attached, v = ViewOf(k, seg', mem', files')
  PROVE  /\ CacheType' /\ Gentle
         /\ seg' = seg => Replaced
         /\ cache'[k] = n
         /\ \A j \in Key \ {k} : cache'[j] = Entries[j]
<1>1. /\ Entries \in [Key -> EntryType]
      /\ \A j \in Key : EntryOK(Entries[j]) /\ InUse(Entries[j])
      /\ Attached = seg => Entries = cache
  BY EntriesFacts
<1>2. n \in EntryType /\ EntryOK(n)
  BY DEF Installed
<1>3. cache' \in [Key -> EntryType] /\ cache'[k] = n
        /\ \A j \in Key \ {k} : cache'[j] = Entries[j]
  BY <1>1, <1>2
<1>4. CacheType'
  BY <1>1, <1>2, <1>3 DEF CacheType
<1>5. Gentle
  <2> SUFFICES ASSUME seg, NEW j \in Key
               PROVE  cache[j].value \subseteq cache'[j].value \cup cache'[j].retired
    BY DEF Gentle
  <2>1. Entries = cache
    BY <1>1 DEF Attached, TypeInv, StoreType
  <2>2. CASE j = k
    BY <1>3, <2>1, <2>2 DEF Installed
  <2>3. CASE j # k
    BY <1>3, <2>1, <2>3
  <2> QED
    BY <2>2, <2>3
<1>6. ASSUME seg' = seg
      PROVE  Replaced
  <2>1. Entries = cache
    BY <1>1, <1>6
  <2> SUFFICES ASSUME NEW j \in Key
               PROVE  \/ cache'[j].value = cache[j].value
                      \/ BytesIn(cache[j].value) # JustOf(ViewOf(j, seg', mem', files'))
    BY DEF Replaced
  <2>2. CASE j = k
    BY <1>3, <2>1, <2>2 DEF Installed
  <2>3. CASE j # k
    BY <1>3, <2>1, <2>3
  <2> QED
    BY <2>2, <2>3
<1> QED
  BY <1>3, <1>4, <1>5, <1>6

\* The cache is as the call found it.
LEMMA SameEntries ==
  ASSUME TypeInv, cache' = Entries, seg' = Attached
  PROVE  CacheType' /\ Gentle /\ (seg' = seg => Replaced)
<1>1. /\ Entries \in [Key -> EntryType]
      /\ \A j \in Key : EntryOK(Entries[j])
      /\ Attached = seg => Entries = cache
  BY EntriesFacts
<1>2. seg => Attached = seg
  BY DEF Attached, TypeInv, StoreType
<1> QED
  BY <1>1, <1>2 DEF CacheType, Gentle, Replaced

LEMMA NoPointers == {} \subseteq Handle /\ IsFiniteSet({})
BY FS_EmptySet

-----------------------------------------------------------------------------
(* The calls.                                                              *)

LEMMA ViewType ==
  ASSUME TypeInv, NEW k \in Key, NEW a \in BOOLEAN
  PROVE  ViewOf(k, a, mem, files) \in Value
BY DEF ViewOf, TypeInv, StoreType, Value

\* nvram_get leaves the value of the key, as the process sees it, in the cache.
LEMMA ReadStep ==
  ASSUME Inv, NEW k \in Key, Read(k),
         NEW P, Hold(P), P = {} \/ P = Pointers(k, cache'[k])
  PROVE  /\ Inv' /\ Gentle
         /\ BytesIn(cache'[k].value) = JustOf(ViewOf(k, seg', mem', files'))
<1> DEFINE e == Entries[k]
           x == Install(e, ViewOf(k, FALSE, mem, files), 0)
           y == Install(e, mem[k], slots[SlotOf[k]])
           n == IF ~Attached THEN [x EXCEPT !.valid = FALSE] ELSE IF Hit(k) THEN e ELSE y
           v == ViewOf(k, Attached, mem, files)
<1>0. TypeInv /\ HitInv /\ PtrInv
  BY DEF Inv
<1>1. /\ cache' = [Entries EXCEPT ![k] = n]
      /\ Reattach
      /\ UNCHANGED <<published, mem, files, slots>>
  BY DEF Read, store
<1>2. seg' = Attached /\ seg' \in BOOLEAN /\ ops' \in 0 .. Interval - 1
        /\ (seg => seg') /\ (seg' => published)
  BY <1>0, <1>1, ReattachFacts
<1>3. SlotOf[k] \in Slot /\ slots[SlotOf[k]] \in Nat /\ mem[k] \in Value
  BY <1>0, KeyAssumption DEF TypeInv, StoreType
<1>4. e \in EntryType /\ EntryOK(e) /\ InUse(e)
  BY <1>0, EntriesFacts
<1>5. Installed(e, n, v) /\ (n.valid /\ Attached => n.seen = slots[SlotOf[k]])
  <2>1. CASE ~Attached
    <3>1. ViewOf(k, FALSE, mem, files) \in Value
      BY <1>0, ViewType
    <3>2. Installed(e, x, v)
      BY <1>0, <1>4, <2>1, <3>1, InstallFacts DEF ViewOf
    <3> QED
      BY <2>1, <3>2, UnhitFacts
  <2>2. CASE Attached /\ Hit(k)
    <3>1. n = e /\ e.valid /\ e.seen = slots[SlotOf[k]]
      BY <2>2 DEF Hit
    <3>2. Attached = seg
      BY <1>0, <3>1, EntriesFacts
    <3>3. Entries = cache /\ seg
      BY <1>0, <2>2, <3>2, EntriesFacts
    <3>4. BytesIn(e.value) = JustOf(mem[k])
      BY <1>0, <3>1, <3>3 DEF HitInv
    <3>5. v = mem[k]
      BY <2>2 DEF ViewOf
    <3> HIDE DEF e, v, n
    <3> QED
      BY <1>4, <3>1, <3>4, <3>5 DEF Installed
  <2>3. CASE Attached /\ ~Hit(k)
    <3>1. n = y /\ v = mem[k]
      BY <2>3 DEF ViewOf
    <3>2. Installed(e, y, mem[k]) /\ y.seen = slots[SlotOf[k]]
      BY <1>0, <1>3, <1>4, InstallFacts
    <3> HIDE DEF e, v, n, y
    <3> QED
      BY <3>1, <3>2
  <2> QED
    BY <2>1, <2>2, <2>3
<1> HIDE DEF n
<1>6. v = ViewOf(k, seg', mem', files')
  BY <1>1, <1>2
<1>7. /\ CacheType' /\ Gentle
      /\ seg' = seg => Replaced
      /\ cache'[k] = n
      /\ \A j \in Key \ {k} : cache'[j] = Entries[j]
  BY <1>0, <1>1, <1>2, <1>5, <1>6, OneEntry
<1>8. n \in EntryType /\ EntryOK(n)
  BY <1>5 DEF Installed
<1>9. /\ P \subseteq Handle /\ IsFiniteSet(P)
      /\ \A h \in P :
           /\ h.key = k /\ h.seg = Attached
           /\ \E b \in n.value : b.at = h.at /\ b.bytes = h.bytes
  <2>1. CASE P = {}
    BY <2>1, FS_EmptySet
  <2>2. CASE P = Pointers(k, n)
    BY <1>0, <1>8, <2>2, PointersFacts
  <2> QED
    BY <1>7, <2>1, <2>2
<1>10. HeldType'
  BY <1>0, <1>1, <1>9, HeldStep
<1>11. StoreType'
  BY <1>0, <1>1, <1>2 DEF StoreType, TypeInv
<1>12. PtrInv'
  BY <1>0, <1>1, <1>2, <1>7, <1>9, PtrStep
<1>13. HitInv'
  <2>1. slots' \in [Slot -> Nat] /\ slots' = slots /\ mem' = mem
    BY <1>0, <1>1 DEF StoreType, TypeInv
  <2>2. ASSUME seg', NEW j \in Key, cache'[j].valid
        PROVE  \/ /\ seg /\ cache'[j] = cache[j]
                  /\ slots'[SlotOf[j]] >= slots[SlotOf[j]]
                  /\ mem'[j] = mem[j] \/ slots'[SlotOf[j]] > slots[SlotOf[j]]
               \/ /\ cache'[j].seen = slots'[SlotOf[j]]
                  /\ BytesIn(cache'[j].value) = JustOf(mem'[j])
    <3>1. CASE j = k
      <4>1. v = mem[k]
        BY <1>2, <2>2 DEF ViewOf
      <4> QED
        BY <1>2, <1>5, <1>7, <2>1, <2>2, <3>1, <4>1 DEF Installed
    <3>2. CASE j # k
      <4>1. Entries[j].valid
        BY <1>7, <2>2, <3>2
      <4>2. Attached = seg
        BY <1>0, <4>1, EntriesFacts
      <4>3. Entries = cache
        BY <1>0, <4>2, EntriesFacts
      <4>4. slots[SlotOf[j]] \in Nat
        BY <1>0, KeyAssumption DEF TypeInv, StoreType
      <4>5. seg /\ cache'[j] = cache[j]
        BY <1>2, <1>7, <2>2, <3>2, <4>2, <4>3
      <4> QED
        BY <2>1, <4>4, <4>5
    <3> QED
      BY <3>1, <3>2
  <2> QED
    BY <1>0, <2>1, <2>2, HitStep
<1>14. BytesIn(cache'[k].value) = JustOf(ViewOf(k, seg', mem', files'))
  BY <1>5, <1>6, <1>7 DEF Installed
<1> QED
  BY <1>7, <1>10, <1>11, <1>12, <1>13, <1>14 DEF Inv, TypeInv

\* A step that only looks for the segment: commit, getall, a set that is a hit.
LEMMA IdleStep ==
  ASSUME Inv, Reattach, cache' = Entries, Hold({}), mem' = mem, slots' = slots,
         published' = published, files' \in [Key -> Value]
  PROVE  Inv' /\ Gentle
<1>0. TypeInv /\ HitInv /\ PtrInv
  BY DEF Inv
<1>1. seg' = Attached /\ seg' \in BOOLEAN /\ ops' \in 0 .. Interval - 1
        /\ (seg => seg') /\ (seg' => published)
  BY <1>0, ReattachFacts
<1>2. CacheType' /\ Gentle /\ (seg' = seg => Replaced)
  BY <1>0, <1>1, SameEntries
<1>3. HeldType'
  BY <1>0, NoPointers, HeldStep
<1>4. StoreType'
  BY <1>0, <1>1 DEF StoreType, TypeInv
<1>5. PtrInv'
  BY <1>0, <1>1, <1>2, PtrStep
<1>6. HitInv'
  <2>1. slots' \in [Slot -> Nat]
    BY <1>4 DEF StoreType
  <2>2. ASSUME seg', NEW j \in Key, cache'[j].valid
        PROVE  /\ seg /\ cache'[j] = cache[j]
               /\ slots'[SlotOf[j]] >= slots[SlotOf[j]]
    <3>1. Attached = seg
      BY <1>0, <2>2, EntriesFacts
    <3>2. Entries = cache
      BY <1>0, <3>1, EntriesFacts
    <3>3. slots[SlotOf[j]] \in Nat
      BY <1>0, KeyAssumption DEF TypeInv, StoreType
    <3>4. seg
      BY <1>1, <2>2, <3>1
    <3>5. cache'[j] = cache[j]
      BY <3>2
    <3> QED
      BY <3>3, <3>4, <3>5
  <2> QED
    BY <1>0, <2>1, <2>2, HitStep
<1> QED
  BY <1>2, <1>3, <1>4, <1>5, <1>6 DEF Inv, TypeInv

\* A step that writes one key and installs what it wrote: set and unset.
LEMMA WriteStep ==
  ASSUME Inv, NEW k \in Key, NEW v \in Value, k \in Settable, Reattach, Hold({}),
         published' = published,
         \/ /\ Attached
            /\ mem' = [mem EXCEPT ![k] = v] /\ files' = files /\ slots' = Written(k, v)
            /\ cache' = [Entries EXCEPT ![k] = Install(@, v, slots'[SlotOf[k]])]
         \/ /\ ~Attached
            /\ mem' = mem /\ files' = [files EXCEPT ![k] = v] /\ slots' = slots
            /\ cache' = [Entries EXCEPT ![k] = Install(@, v, 0)]
  PROVE  Inv' /\ Gentle
<1> DEFINE e == Entries[k]
<1>0. TypeInv /\ HitInv /\ PtrInv
  BY DEF Inv
<1>1. seg' = Attached /\ seg' \in BOOLEAN /\ ops' \in 0 .. Interval - 1
        /\ (seg => seg') /\ (seg' => published)
  BY <1>0, ReattachFacts
<1>2. /\ mem \in [Key -> Value] /\ files \in [Key -> Value] /\ slots \in [Slot -> Nat]
      /\ SlotOf \in [Key -> Slot]
  BY <1>0, KeyAssumption DEF TypeInv, StoreType
<1>3. e \in EntryType /\ EntryOK(e) /\ InUse(e) /\ Entries \in [Key -> EntryType]
  BY <1>0, EntriesFacts
<1>4. /\ slots' \in [Slot -> Nat]
      /\ \A s \in Slot : slots'[s] >= slots[s]
      /\ mem'[k] # mem[k] => slots'[SlotOf[k]] > slots[SlotOf[k]]
  <2>1. CASE Attached
    BY <1>0, <1>2, <2>1, WrittenFacts
  <2>2. CASE ~Attached
    BY <1>2, <2>2
  <2> QED
    BY <2>1, <2>2
<1>5. /\ mem' \in [Key -> Value] /\ files' \in [Key -> Value]
      /\ \A j \in Key \ {k} : mem'[j] = mem[j]
      /\ v = ViewOf(k, seg', mem', files')
      /\ Attached => mem'[k] = v
  <2>1. CASE Attached
    BY <1>1, <1>2, <2>1 DEF ViewOf
  <2>2. CASE ~Attached
    BY <1>1, <1>2, <2>2 DEF ViewOf
  <2> QED
    BY <2>1, <2>2
<1>6. PICK n : /\ n = Install(e, v, IF Attached THEN slots'[SlotOf[k]] ELSE 0)
               /\ cache' = [Entries EXCEPT ![k] = n]
  BY <1>3
<1>7. Installed(e, n, v) /\ (Attached => n.seen = slots'[SlotOf[k]])
  <2>1. (IF Attached THEN slots'[SlotOf[k]] ELSE 0) \in Nat
    BY <1>2, <1>4
  <2> QED
    BY <1>0, <1>3, <1>6, <2>1, InstallFacts
<1>8. /\ CacheType' /\ Gentle
      /\ seg' = seg => Replaced
      /\ cache'[k] = n
      /\ \A j \in Key \ {k} : cache'[j] = Entries[j]
  <2>1. Installed(Entries[k], n, v)
    BY <1>7
  <2>2. cache' = [Entries EXCEPT ![k] = n] /\ seg' = Attached
          /\ v = ViewOf(k, seg', mem', files')
    BY <1>1, <1>5, <1>6
  <2> HIDE DEF e
  <2> QED
    BY <1>0, <2>1, <2>2, OneEntry
<1>9. HeldType'
  BY <1>0, NoPointers, HeldStep
<1>10. StoreType'
  BY <1>0, <1>1, <1>4, <1>5 DEF StoreType, TypeInv
<1>11. PtrInv'
  BY <1>0, <1>1, <1>8, PtrStep
<1>12. HitInv'
  <2>1. ASSUME seg', NEW j \in Key, cache'[j].valid
        PROVE  \/ /\ seg /\ cache'[j] = cache[j]
                  /\ slots'[SlotOf[j]] >= slots[SlotOf[j]]
                  /\ mem'[j] = mem[j] \/ slots'[SlotOf[j]] > slots[SlotOf[j]]
               \/ /\ cache'[j].seen = slots'[SlotOf[j]]
                  /\ BytesIn(cache'[j].value) = JustOf(mem'[j])
    <3>1. CASE j = k
      BY <1>1, <1>5, <1>7, <1>8, <2>1, <3>1 DEF Installed
    <3>2. CASE j # k
      <4>1. Entries[j].valid
        BY <1>8, <2>1, <3>2
      <4>2. Attached = seg
        BY <1>0, <4>1, EntriesFacts
      <4>3. Entries = cache
        BY <1>0, <4>2, EntriesFacts
      <4>4. seg /\ cache'[j] = cache[j]
        BY <1>1, <1>8, <2>1, <3>2, <4>2, <4>3
      <4> QED
        BY <1>2, <1>4, <1>5, <3>2, <4>4
    <3> QED
      BY <3>1, <3>2
  <2> QED
    BY <1>0, <1>4, <2>1, HitStep
<1> QED
  BY <1>8, <1>9, <1>10, <1>11, <1>12 DEF Inv, TypeInv

\* nvram_clear.
LEMMA ClearStep ==
  ASSUME Inv, Clear
  PROVE  Inv' /\ Gentle
<1>0. TypeInv /\ HitInv /\ PtrInv
  BY DEF Inv
<1>1. /\ mem' = IF Attached THEN NoVars ELSE mem
      /\ slots' = IF Attached THEN Bumped(Slot) ELSE slots
      /\ files' = NoVars /\ cache' = InvalidateAll(Entries)
      /\ Reattach /\ Hold({}) /\ published' = published
  BY DEF Clear
<1>2. seg' = Attached /\ seg' \in BOOLEAN /\ ops' \in 0 .. Interval - 1
        /\ (seg => seg') /\ (seg' => published)
  BY <1>0, <1>1, ReattachFacts
<1>3. NoVars \in [Key -> Value] /\ \A k \in Key : NoVars[k] = Absent
  BY DEF NoVars, Value
<1>4. /\ Entries \in [Key -> EntryType] /\ \A k \in Key : EntryOK(Entries[k])
      /\ Attached = seg => Entries = cache
  BY <1>0, EntriesFacts
<1>5. /\ cache' \in [Key -> EntryType]
      /\ \A k \in Key : /\ EntryOK(cache'[k]) /\ ~cache'[k].valid
                        /\ cache'[k].value = {} /\ cache'[k].retired = Entries[k].value
  BY <1>1, <1>4, InvalidateFacts
<1>6. CacheType'
  BY <1>5 DEF CacheType
<1>7. StoreType'
  <2>1. slots' \in [Slot -> Nat]
    BY <1>0, <1>1, BumpedFacts DEF TypeInv, StoreType
  <2>2. mem' \in [Key -> Value] /\ files' \in [Key -> Value]
    BY <1>0, <1>1, <1>3 DEF TypeInv, StoreType
  <2> QED
    BY <1>0, <1>1, <1>2, <2>1, <2>2 DEF TypeInv, StoreType
<1>8. HeldType'
  BY <1>0, <1>1, NoPointers, HeldStep
<1>9. Gentle
  <2>1. seg => Entries = cache
    BY <1>0, <1>4 DEF Attached, TypeInv, StoreType
  <2> QED
    BY <1>5, <2>1 DEF Gentle
<1>10. ASSUME seg' = seg
       PROVE  Replaced
  <2> SUFFICES ASSUME NEW k \in Key, cache[k].value # {}
               PROVE  BytesIn(cache[k].value) # JustOf(ViewOf(k, seg', mem', files'))
    BY <1>5 DEF Replaced
  <2>1. ViewOf(k, seg', mem', files') = Absent
    BY <1>1, <1>2, <1>3 DEF ViewOf
  <2>2. BytesIn(cache[k].value) # {}
    BY DEF BytesIn
  <2> QED
    BY <2>1, <2>2 DEF JustOf
<1>11. PtrInv'
  BY <1>0, <1>1, <1>2, <1>10, PtrStep
<1>12. HitInv'
  BY <1>5 DEF HitInv
<1> QED
  BY <1>6, <1>7, <1>8, <1>9, <1>11, <1>12 DEF Inv, TypeInv

\* nvram_init of a process without a segment.
LEMMA InitStep ==
  ASSUME Inv, InitCall
  PROVE  Inv' /\ Gentle
<1>0. TypeInv /\ HitInv /\ PtrInv
  BY DEF Inv
<1>1. /\ ~seg /\ seg' = TRUE /\ ops' = 0 /\ published' = TRUE
      /\ cache' = InvalidateAll(cache) /\ files' = files /\ Hold({})
  BY DEF InitCall, Adopt
<1>2. mem' \in [Key -> Value] /\ slots' \in [Slot -> Nat]
  <2>1. \/ mem' = mem /\ slots' = slots
        \/ mem' = files /\ slots' = Populated
    BY DEF InitCall
  <2> QED
    BY <1>0, <2>1, PopulatedFacts DEF TypeInv, StoreType
<1>3. /\ cache' \in [Key -> EntryType]
      /\ \A k \in Key : EntryOK(cache'[k]) /\ ~cache'[k].valid
  BY <1>0, <1>1, InvalidateFacts DEF TypeInv, CacheType
<1>4. CacheType'
  BY <1>3 DEF CacheType
<1>5. StoreType'
  <2>1. 0 \in 0 .. Interval - 1
    BY BufferAssumption
  <2>2. seg' \in BOOLEAN /\ published' \in BOOLEAN /\ (seg' => published')
    BY <1>1
  <2> QED
    BY <1>0, <1>1, <1>2, <2>1, <2>2 DEF TypeInv, StoreType
<1>6. HeldType'
  BY <1>0, <1>1, NoPointers, HeldStep
<1>7. PtrInv'
  <2>1. seg' \in BOOLEAN /\ (seg => seg') /\ seg' # seg
    BY <1>1
  <2> QED
    BY <1>0, <1>1, <2>1, PtrStep
<1>8. HitInv'
  BY <1>3 DEF HitInv
<1> QED
  BY <1>1, <1>4, <1>5, <1>6, <1>7, <1>8 DEF Inv, TypeInv, Gentle

\* A step of the other processes: a value they change has its counter moved.
LEMMA OthersStep ==
  ASSUME Inv, Others, published' \in BOOLEAN, published => published',
         mem' \in [Key -> Value], files' \in [Key -> Value], slots' \in [Slot -> Nat],
         seg => \A k \in Key :
           /\ slots'[SlotOf[k]] >= slots[SlotOf[k]]
           /\ mem'[k] = mem[k] \/ slots'[SlotOf[k]] > slots[SlotOf[k]]
  PROVE  Inv' /\ Gentle
<1>0. TypeInv /\ HitInv /\ PtrInv
  BY DEF Inv
<1>1. seg' = seg /\ ops' = ops /\ cache' = cache /\ Hold({})
  BY DEF Others
<1>2. CacheType' /\ Gentle
  BY <1>0, <1>1 DEF TypeInv, CacheType, Gentle
<1>3. StoreType'
  BY <1>0, <1>1 DEF TypeInv, StoreType
<1>4. HeldType'
  BY <1>0, <1>1, NoPointers, HeldStep
<1>5. PtrInv'
  <2>1. Replaced
    BY <1>1 DEF Replaced
  <2>2. seg' \in BOOLEAN /\ (seg => seg')
    BY <1>0, <1>1 DEF TypeInv, StoreType
  <2> QED
    BY <1>0, <1>1, <2>1, <2>2, PtrStep
<1>6. HitInv'
  <2>1. seg' => \A k \in Key : cache'[k].valid =>
           /\ seg /\ cache'[k] = cache[k]
           /\ slots'[SlotOf[k]] >= slots[SlotOf[k]]
           /\ mem'[k] = mem[k] \/ slots'[SlotOf[k]] > slots[SlotOf[k]]
    BY <1>1
  <2> QED
    BY <1>0, <2>1, HitStep
<1> QED
  BY <1>2, <1>3, <1>4, <1>5, <1>6 DEF Inv, TypeInv

-----------------------------------------------------------------------------
(* The specification.                                                      *)

LEMMA InitInv == Init => Inv
<1> SUFFICES ASSUME Init PROVE Inv
  OBVIOUS
<1>1. NewEntry \in EntryType /\ EntryOK(NewEntry)
  BY DEF NewEntry, EntryType, EntryOK, Single
<1>2. CacheType
  <2>1. cache = [k \in Key |-> NewEntry]
    BY DEF Init
  <2> QED
    BY <1>1, <2>1 DEF CacheType
<1>3. StoreType
  <2>1. seg = FALSE /\ published = FALSE /\ ops = 0 /\ mem = NoVars
          /\ files \in [Key -> Value] /\ slots = [s \in Slot |-> 0]
    BY DEF Init
  <2>2. 0 \in 0 .. Interval - 1
    BY BufferAssumption
  <2>3. NoVars \in [Key -> Value]
    BY DEF NoVars, Value
  <2>4. seg \in BOOLEAN /\ published \in BOOLEAN /\ (seg => published)
    BY <2>1
  <2>5. slots \in [Slot -> Nat]
    BY <2>1
  <2> QED
    BY <2>1, <2>2, <2>3, <2>4, <2>5 DEF StoreType
<1>4. HeldType /\ PtrInv
  BY FS_EmptySet DEF Init, HeldType, PtrInv
<1>5. HitInv
  BY DEF Init, HitInv
<1> QED
  BY <1>2, <1>3, <1>4, <1>5 DEF Inv, TypeInv

LEMMA NextInv ==
  ASSUME Inv, Next
  PROVE  Inv' /\ Gentle
<1>0. TypeInv /\ HitInv /\ PtrInv
  BY DEF Inv
<1>1. /\ mem \in [Key -> Value] /\ files \in [Key -> Value] /\ slots \in [Slot -> Nat]
      /\ SlotOf \in [Key -> Slot] /\ published \in BOOLEAN /\ (seg => published)
      /\ Settable \subseteq Key
  BY <1>0, KeyAssumption DEF TypeInv, StoreType
<1>2. \A K : Committed(K) \in [Key -> Value]
  BY <1>1 DEF Committed
<1>3. Val \subseteq Value /\ Absent \in Value
  BY DEF Value
<1>4. ASSUME NEW k \in Key, Get(k) \/ GetInt(k)
      PROVE  Inv' /\ Gentle
  <2>1. Read(k) /\ \E P : Hold(P) /\ (P = {} \/ P = Pointers(k, cache'[k]))
    BY <1>4 DEF Get, GetInt
  <2> QED
    BY <2>1, ReadStep
<1>5. ASSUME NEW k \in Key, Unset(k)
      PROVE  Inv' /\ Gentle
  <2>1. /\ k \in Settable /\ Reattach /\ Hold({}) /\ published' = published
        /\ \/ /\ Attached
              /\ mem' = [mem EXCEPT ![k] = Absent] /\ files' = files
              /\ slots' = Written(k, Absent)
              /\ cache' = [Entries EXCEPT ![k] = Install(@, Absent, slots'[SlotOf[k]])]
           \/ /\ ~Attached
              /\ mem' = mem /\ files' = [files EXCEPT ![k] = Absent] /\ slots' = slots
              /\ cache' = [Entries EXCEPT ![k] = Install(@, Absent, 0)]
    BY <1>5, Zenon DEF Unset, Change
  <2> QED
    BY <1>3, <2>1, WriteStep
<1>6. ASSUME NEW k \in Key, NEW v \in Val, Set(k, v)
      PROVE  Inv' /\ Gentle
  <2>0. k \in Settable /\ Reattach /\ Hold({}) /\ published' = published
    BY <1>6 DEF Set
  <2>1. CASE Attached /\ Hit(k) /\ {b.bytes : b \in Entries[k].value} = {v}
    <3>1. mem' = mem /\ files' = files /\ slots' = slots /\ cache' = Entries
      BY <1>6, <2>1 DEF Set, store
    <3> QED
      BY <1>1, <2>0, <3>1, IdleStep
  <2>2. CASE ~(Attached /\ Hit(k) /\ {b.bytes : b \in Entries[k].value} = {v})
    <3>1. \/ /\ Attached
             /\ mem' = [mem EXCEPT ![k] = v] /\ files' = files /\ slots' = Written(k, v)
             /\ cache' = [Entries EXCEPT ![k] = Install(@, v, slots'[SlotOf[k]])]
          \/ /\ ~Attached
             /\ mem' = mem /\ files' = [files EXCEPT ![k] = v] /\ slots' = slots
             /\ cache' = [Entries EXCEPT ![k] = Install(@, v, 0)]
      BY <1>6, <2>2, Zenon DEF Set, Change
    <3> QED
      BY <1>3, <2>0, <3>1, WriteStep
  <2> QED
    BY <2>1, <2>2
<1>7. ASSUME Commit
      PROVE  Inv' /\ Gentle
  <2>1. /\ mem' = mem /\ slots' = slots
        /\ \E K : files' = IF Attached THEN Committed(K) ELSE files
        /\ Reattach /\ cache' = Entries /\ Hold({}) /\ published' = published
    BY <1>7 DEF Commit, Change
  <2>2. files' \in [Key -> Value]
    BY <1>1, <1>2, <2>1
  <2> QED
    BY <2>1, <2>2, IdleStep
<1>8. ASSUME NEW n \in Count, Getall(n)
      PROVE  Inv' /\ Gentle
  <2>1. /\ mem' = mem /\ slots' = slots /\ files' = files
        /\ Reattach /\ cache' = Entries /\ Hold({}) /\ published' = published
    BY <1>8 DEF Getall, store
  <2> QED
    BY <1>1, <2>1, IdleStep
<1>9. ASSUME OtherInits
      PROVE  Inv' /\ Gentle
  <2>1. Others /\ published' = TRUE /\ mem' = files /\ files' = files /\ slots' = Populated
          /\ ~published
    BY <1>9 DEF OtherInits
  <2>2. published' \in BOOLEAN /\ ~seg
    BY <1>1, <2>1
  <2> QED
    BY <1>1, <2>1, <2>2, PopulatedFacts, OthersStep
<1>10. ASSUME OtherClears
       PROVE  Inv' /\ Gentle
  <2>1. Others /\ published' = published /\ mem' = NoVars /\ files' = NoVars
          /\ slots' = Bumped(Slot)
    BY <1>10 DEF OtherClears
  <2>2. NoVars \in [Key -> Value]
    BY DEF NoVars, Value
  <2>3. /\ slots' \in [Slot -> Nat]
        /\ \A k \in Key : slots'[SlotOf[k]] > slots[SlotOf[k]]
                            /\ slots'[SlotOf[k]] >= slots[SlotOf[k]]
    BY <1>0, <1>1, <2>1, BumpedFacts
  <2> QED
    BY <1>1, <2>1, <2>2, <2>3, OthersStep
<1>11. ASSUME FilesChange
       PROVE  Inv' /\ Gentle
  <2>1. Others /\ published' = published /\ mem' = mem /\ slots' = slots
    BY <1>11 DEF FilesChange, Change
  <2>2. files' \in [Key -> Value]
    BY <1>1, <1>2, <1>11 DEF FilesChange, Change
  <2>3. \A k \in Key : slots[SlotOf[k]] >= slots[SlotOf[k]]
    BY <1>1
  <2> QED
    BY <1>1, <2>1, <2>2, <2>3, OthersStep
<1>12. ASSUME NEW k \in Key, NEW v \in Value, OtherSets(k, v)
       PROVE  Inv' /\ Gentle
  <2>1. Others /\ published' = published /\ mem' = [mem EXCEPT ![k] = v] /\ files' = files
          /\ slots' = Written(k, v) /\ mem[k] # v
    BY <1>12 DEF OtherSets, Change
  <2>2. /\ slots' \in [Slot -> Nat]
        /\ \A s \in Slot : slots'[s] >= slots[s]
        /\ slots'[SlotOf[k]] > slots[SlotOf[k]]
    BY <1>0, <2>1, WrittenFacts
  <2>3. mem' \in [Key -> Value] /\ \A j \in Key \ {k} : mem'[j] = mem[j]
    BY <1>1, <2>1
  <2>4. \A j \in Key : /\ slots'[SlotOf[j]] >= slots[SlotOf[j]]
                       /\ mem'[j] = mem[j] \/ slots'[SlotOf[j]] > slots[SlotOf[j]]
    BY <1>1, <2>2, <2>3
  <2> QED
    BY <1>1, <2>1, <2>2, <2>3, <2>4, OthersStep
<1> QED
  BY <1>4, <1>5, <1>6, <1>7, <1>8, <1>9, <1>10, <1>11, <1>12, ClearStep, InitStep
  DEF Next

LEMMA StutterInv ==
  ASSUME Inv, UNCHANGED vars
  PROVE  Inv' /\ Gentle
BY DEF vars, Inv, TypeInv, StoreType, CacheType, HeldType, HitInv, PtrInv, Gentle

LEMMA Invariance == Spec => []Inv
<1>1. Inv /\ [Next]_vars => Inv'
  BY NextInv, StutterInv
<1> QED
  BY <1>1, InitInv, PTL DEF Spec

-----------------------------------------------------------------------------
(* The theorems.                                                           *)

\* The state is well typed, and no buffer is current and retired at once: what
\* install and invalidate_all retire is never what they leave as the value.
THEOREM TypeCorrect == Spec => []TypeOK
<1>1. Inv => TypeOK
  <2> SUFFICES ASSUME Inv PROVE TypeOK
    OBVIOUS
  <2>1. StoreType /\ cache \in [Key -> EntryType] /\ \A k \in Key : EntryOK(cache[k])
    BY DEF Inv, TypeInv, CacheType
  <2>2. \A k \in Key : \A b \in cache[k].value \cup cache[k].retired : b.bytes \in Val
    BY <2>1 DEF EntryType, Buf
  <2> QED
    BY <2>1, <2>2 DEF TypeOK, StoreType, EntryOK
<1> QED
  BY <1>1, Invariance, PTL

\* A hit is the value in the segment: Store::adopt throws away what was cached
\* before there was one, and put and remove move the counter of what they change.
THEOREM Current == Spec => []HitsCurrent
<1>1. Inv => HitsCurrent
  BY DEF Inv, HitInv, HitsCurrent, BytesIn, JustOf
<1> QED
  BY <1>1, Invariance, PTL

\* A pointer that nvram_get returned lasts until its key changes, for a process that
\* has had its segment since, or has none yet.
THEOREM Lasting == Spec => []PointersLastOnSegment
<1>1. Inv => PointersLastOnSegment
  BY DEF Inv, PtrInv, PointersLastOnSegment, Alive
<1> QED
  BY <1>1, Invariance, PTL

\* The grace period: no call of an attached process frees what nvram_get would have
\* returned before it.
THEOREM Grace == Spec => GracePeriod
<1>1. Inv /\ [Next]_vars =>
        [seg => \A k \in Key : cache[k].value \subseteq cache'[k].value \cup cache'[k].retired]_vars
  BY NextInv, StutterInv DEF Gentle
<1> QED
  BY <1>1, Invariance, PTL DEF Spec, GracePeriod

-----------------------------------------------------------------------------
(* What the calls return.                                                  *)

\* Only nvram_get_int and nvram_getall return something that `last` records.
LEMMA Answers ==
  ASSUME [Next]_vars
  PROVE  \/ last'.op = "none"
         \/ UNCHANGED vars
         \/ \E k \in Key : GetInt(k)
         \/ \E n \in Count : Getall(n)
<1>1. ASSUME Quiet
      PROVE  last'.op = "none"
  BY <1>1 DEF Quiet, NoResult
<1>2. ASSUME NEW k \in Key, Get(k) \/ Unset(k)
      PROVE  Quiet
  BY <1>2 DEF Get, Unset
<1>3. ASSUME NEW k \in Key, NEW v \in Val, Set(k, v)
      PROVE  Quiet
  BY <1>3 DEF Set
<1>4. ASSUME Clear \/ Commit \/ InitCall
      PROVE  Quiet
  BY <1>4 DEF Clear, Commit, InitCall
<1>5. ASSUME OtherInits \/ OtherClears \/ FilesChange
      PROVE  Quiet
  BY <1>5 DEF OtherInits, OtherClears, FilesChange, Others
<1>6. ASSUME NEW k \in Key, NEW v \in Value, OtherSets(k, v)
      PROVE  Quiet
  BY <1>6 DEF OtherSets, Others
<1> QED
  BY <1>1, <1>2, <1>3, <1>4, <1>5, <1>6 DEF Next

\* What nvram_get_int has just returned is what parse_int makes of the value the key
\* has.
IntInv ==
  last.op = "get_int" =>
    /\ last.key \in Key
    /\ last.int = LET v == ViewOf(last.key, seg, mem, files)
                  IN  IF v = Absent THEN 0 ELSE ParseInt(v)

LEMMA GetIntStep ==
  ASSUME Inv, NEW k \in Key, GetInt(k)
  PROVE  IntInv'
<1> DEFINE v == ViewOf(k, seg', mem', files')
           x == IF cache'[k].value = {} THEN 0
                ELSE ParseInt((CHOOSE b \in cache'[k].value : TRUE).bytes)
<1>1. Read(k) /\ Hold({}) /\ last' = [op |-> "get_int", key |-> k, int |-> x]
  BY DEF GetInt
<1>2. BytesIn(cache'[k].value) = JustOf(v) /\ Inv'
  BY <1>1, ReadStep
<1>3. x = IF v = Absent THEN 0 ELSE ParseInt(v)
  <2>1. CASE v = Absent
    <3>1. cache'[k].value = {}
      BY <1>2, <2>1 DEF BytesIn, JustOf
    <3> QED
      BY <2>1, <3>1
  <2>2. CASE v # Absent
    <3>1. BytesIn(cache'[k].value) = {v}
      BY <1>2, <2>2 DEF JustOf
    <3>2. cache'[k].value # {}
      BY <3>1 DEF BytesIn
    <3>3. \A b \in cache'[k].value : b.bytes = v
      BY <3>1 DEF BytesIn
    <3>4. (CHOOSE b \in cache'[k].value : TRUE) \in cache'[k].value
      BY <3>2
    <3>5. (CHOOSE b \in cache'[k].value : TRUE).bytes = v
      BY <3>3, <3>4
    <3> QED
      BY <2>2, <3>2, <3>5
  <2> QED
    BY <2>1, <2>2
<1> HIDE DEF x
<1>4. last'.key = k /\ last'.int = x
  BY <1>1
<1> QED
  BY <1>3, <1>4 DEF IntInv

LEMMA IntStep ==
  ASSUME Inv, IntInv, [Next]_vars
  PROVE  IntInv'
<1>1. CASE last'.op = "none" \/ last'.op = "getall"
  BY <1>1 DEF IntInv
<1>2. CASE UNCHANGED vars
  BY <1>2 DEF vars, IntInv
<1>3. ASSUME NEW n \in Count, Getall(n)
      PROVE  IntInv'
  <2>1. last'.op = "getall"
    BY <1>3 DEF Getall, Answer
  <2> QED
    BY <1>1, <2>1
<1> QED
  BY <1>1, <1>2, <1>3, GetIntStep, Answers

-----------------------------------------------------------------------------
(* Loops: induction over the naturals, as a set that no step leaves.       *)

\* Induction, in the form of a set that a step never leaves.
LEMMA Reaches ==
  ASSUME NEW n \in Nat, NEW S, 0 \in S,
         \A i \in 0 .. n : i > 0 /\ i - 1 \in S => i \in S
  PROVE  \A i \in 0 .. n : i \in S
<1> SUFFICES ASSUME NEW j \in 0 .. n, j \notin S
             PROVE  FALSE
  OBVIOUS
<1> DEFINE T == {i \in 0 .. n : i \notin S}
<1>1. T \in SUBSET Nat /\ T # {}
  OBVIOUS
<1>2. PICK i \in T : \A x \in T : i <= x
  BY <1>1, LeastExists
<1>3. i \in 0 .. n /\ i > 0 /\ i \notin S
  BY <1>2
<1>4. i - 1 \in 0 .. n /\ i - 1 \notin T
  BY <1>2, <1>3
<1> QED
  BY <1>3, <1>4

\* A finite set of naturals has a greatest element.
LEMMA GreatestExists ==
  ASSUME NEW S \in SUBSET Int, S # {}, NEW n \in Nat, \A i \in S : i <= n /\ i >= 0
  PROVE  \E i \in S : \A j \in S : i >= j
<1> DEFINE T == {u \in Nat : \A j \in S : j <= u}
<1>1. T \in SUBSET Nat /\ n \in T
  OBVIOUS
<1>2. PICK u \in T : \A x \in T : u <= x
  BY <1>1, LeastExists
<1>3. CASE u \in S
  BY <1>2, <1>3
<1>4. CASE u \notin S
  <2>1. \A j \in S : j <= u /\ j # u /\ j \in Int /\ j >= 0
    BY <1>2, <1>4
  <2>2. u > 0
    <3>1. PICK j \in S : TRUE
      OBVIOUS
    <3> QED
      BY <2>1, <3>1
  <2>3. u - 1 \in T
    BY <2>1, <2>2
  <2> QED
    BY <1>2, <2>3
<1> QED
  BY <1>3, <1>4

\* The states of a loop that makes a state of S out of another, n times.
Loops(n, S, base, F) ==
  {f \in [0 .. n -> S] : f[0] = base /\ \A i \in 1 .. n : f[i] = F[i][f[i - 1]]}

LEMMA LoopExists ==
  ASSUME NEW n \in Nat, NEW S, NEW base \in S, NEW F \in [1 .. n -> [S -> S]]
  PROVE  Loops(n, S, base, F) # {}
<1> DEFINE Good(m) == \E f \in [0 .. m -> S] :
             f[0] = base /\ \A i \in 1 .. m : f[i] = F[i][f[i - 1]]
           T == {m \in 0 .. n : Good(m)}
<1>1. 0 \in T
  <2>1. [i \in 0 .. 0 |-> base] \in [0 .. 0 -> S]
    OBVIOUS
  <2>2. Good(0)
    <3> DEFINE f == [i \in 0 .. 0 |-> base]
    <3>1. f \in [0 .. 0 -> S] /\ f[0] = base /\ \A i \in 1 .. 0 : f[i] = F[i][f[i - 1]]
      OBVIOUS
    <3> QED
      BY <3>1
  <2> QED
    BY <2>2
<1>2. ASSUME NEW i \in 0 .. n, i > 0, i - 1 \in T
      PROVE  i \in T
  <2>1. PICK f \in [0 .. i - 1 -> S] : f[0] = base /\ \A j \in 1 .. i - 1 : f[j] = F[j][f[j - 1]]
    BY <1>2
  <2> DEFINE g == [j \in 0 .. i |-> IF j < i THEN f[j] ELSE F[i][f[i - 1]]]
  <2>2. f[i - 1] \in S /\ i \in 1 .. n
    BY <1>2, <2>1
  <2>3. F[i][f[i - 1]] \in S
    BY <2>2
  <2>4. g \in [0 .. i -> S]
    BY <2>1, <2>3
  <2>5. g[0] = base
    BY <1>2, <2>1
  <2>6. \A j \in 1 .. i : g[j] = F[j][g[j - 1]]
    <3> SUFFICES ASSUME NEW j \in 1 .. i PROVE g[j] = F[j][g[j - 1]]
      OBVIOUS
    <3>1. CASE j < i
      BY <2>1, <3>1
    <3>2. CASE j = i
      BY <1>2, <2>1, <3>2
    <3> QED
      BY <3>1, <3>2
  <2> QED
    BY <2>4, <2>5, <2>6
<1> HIDE DEF T
<1>3. \A i \in 0 .. n : i > 0 /\ i - 1 \in T => i \in T
  BY <1>2
<1>4. \A i \in 0 .. n : i \in T
  BY <1>1, <1>3, Reaches
<1>5. n \in T
  BY <1>4
<1> QED
  BY <1>5 DEF T, Loops

Acc == [buf : Seq(Byte), pos : Nat, overflow : BOOLEAN]

LEMMA EmitType ==
  ASSUME NEW acc \in Acc, NEW k \in Key, NEW v \in Val, NEW len \in Nat
  PROVE  Emit(acc, k, v, len) \in Acc
<1>1a. Name[k] \in Seq(Byte) /\ v \in Seq(Byte)
  BY StringAssumption
<1>1b. "=" \in Byte /\ NUL \in Byte
  BY StringAssumption
<1>1c. \A x \in Byte : <<x>> \in Seq(Byte)
  OBVIOUS
<1>1. Name[k] \in Seq(Byte) /\ v \in Seq(Byte) /\ <<"=">> \in Seq(Byte) /\ <<NUL>> \in Seq(Byte)
  BY <1>1a, <1>1b, <1>1c
<1> DEFINE r == Name[k] \o <<"=">> \o v \o <<NUL>>
<1>2. r \in Seq(Byte) /\ Len(r) \in Nat
  BY <1>1
<1> HIDE DEF r
<1>3. acc.buf \o r \in Seq(Byte) /\ acc.pos + Len(r) \in Nat
  BY <1>2 DEF Acc
<1>4. [acc EXCEPT !.buf = @ \o r, !.pos = @ + Len(r)] \in Acc /\ [acc EXCEPT !.overflow = TRUE] \in Acc
  BY <1>3 DEF Acc
<1> QED
  BY <1>4 DEF Emit, r

NoRecords == [buf |-> <<>>, pos |-> 0, overflow |-> FALSE]

\* f is what emit has made of the buffer, call by call.
Emitted(f, d, keys, n, len) ==
  /\ f \in [0 .. n -> Acc] /\ f[0] = NoRecords
  /\ \A i \in 1 .. n : f[i] = Emit(f[i - 1], keys[i], d[keys[i]], len)

\* The terminator.
Ended(acc, len) == [acc EXCEPT !.buf = SubSeq(@, 1, Min({acc.pos, len - 1})) \o <<NUL>>]

LEMMA PackLoop ==
  ASSUME NEW d, NEW n \in Nat, NEW keys \in [1 .. n -> Key], NEW len \in Nat,
         \A i \in 1 .. n : d[keys[i]] \in Val
  PROVE  \E f : Emitted(f, d, keys, n, len) /\ Pack(d, keys, len) = Ended(f[n], len)
<1> DEFINE F == [i \in 1 .. n |-> [s \in Acc |-> Emit(s, keys[i], d[keys[i]], len)]]
<1>1. NoRecords \in Acc
  BY DEF NoRecords, Acc
<1>2. \A s \in Acc, i \in 1 .. n : Emit(s, keys[i], d[keys[i]], len) \in Acc
  BY EmitType
<1>3. F \in [1 .. n -> [Acc -> Acc]]
  BY <1>2
<1>3a. \A s \in Acc, i \in 1 .. n : F[i][s] = Emit(s, keys[i], d[keys[i]], len)
  OBVIOUS
<1> HIDE DEF F
<1>4a. Loops(n, Acc, NoRecords, F) # {}
  BY <1>1, <1>3, LoopExists
<1>4. PICK f \in [0 .. n -> Acc] : f[0] = NoRecords /\ \A i \in 1 .. n : f[i] = F[i][f[i - 1]]
  BY <1>4a DEF Loops
<1>5. \A i \in 1 .. n : f[i] = Emit(f[i - 1], keys[i], d[keys[i]], len)
  BY <1>3a, <1>4
<1>6. Len(keys) = n
  OBVIOUS
<1> DEFINE emitted == CHOOSE g : g = [i \in 0 .. Len(keys) |->
                        IF i = 0 THEN [buf |-> <<>>, pos |-> 0, overflow |-> FALSE]
                        ELSE Emit(g[i - 1], keys[i], d[keys[i]], len)]
<1>7. f = [i \in 0 .. Len(keys) |->
                        IF i = 0 THEN [buf |-> <<>>, pos |-> 0, overflow |-> FALSE]
                        ELSE Emit(f[i - 1], keys[i], d[keys[i]], len)]
  BY <1>4, <1>5, <1>6 DEF NoRecords
<1>8. emitted = [i \in 0 .. Len(keys) |->
                        IF i = 0 THEN [buf |-> <<>>, pos |-> 0, overflow |-> FALSE]
                        ELSE Emit(emitted[i - 1], keys[i], d[keys[i]], len)]
  BY <1>7
<1>9. Pack(d, keys, len) = Ended(emitted[Len(keys)], len)
  BY DEF Pack, Ended
<1> HIDE DEF emitted
<1>8a. \A i \in 0 .. n : emitted[i] = 
                        IF i = 0 THEN [buf |-> <<>>, pos |-> 0, overflow |-> FALSE]
                        ELSE Emit(emitted[i - 1], keys[i], d[keys[i]], len)
  BY <1>6, <1>8, Zenon
<1>10. emitted[0] = NoRecords /\ \A i \in 1 .. n : emitted[i] = Emit(emitted[i - 1], keys[i], d[keys[i]], len)
  BY <1>8a DEF NoRecords
<1>11. \A i \in 0 .. n : emitted[i] \in Acc
  <2> DEFINE T == {i \in 0 .. n : emitted[i] \in Acc}
  <2>1. 0 \in T
    BY <1>1, <1>10
  <2>2. \A i \in 0 .. n : i > 0 /\ i - 1 \in T => i \in T
    BY <1>2, <1>10
  <2> HIDE DEF T
  <2>3. \A i \in 0 .. n : i \in T
    BY <2>1, <2>2, Reaches
  <2> QED
    BY <2>3 DEF T
<1>12. DOMAIN emitted = 0 .. n /\ emitted = [i \in DOMAIN emitted |-> emitted[i]]
  BY <1>6, <1>8
<1>13. emitted \in [0 .. n -> Acc]
  BY <1>11, <1>12
<1>14. Emitted(emitted, d, keys, n, len)
  BY <1>10, <1>13 DEF Emitted
<1> QED
  BY <1>6, <1>9, <1>14
-----------------------------------------------------------------------------
(* nvram_getall: the records in its buffer.                                *)

Record(k, v) == Name[k] \o <<"=">> \o v \o <<NUL>>

\* The record k=v begins at i.
RecordAt(buf, i, k, v) ==
  /\ i \in Nat \ {0} /\ i + Len(Name[k]) + Len(v) + 1 <= Len(buf)
  /\ \A j \in 1 .. Len(Name[k]) : buf[i + j - 1] = Name[k][j]
  /\ buf[i + Len(Name[k])] = "="
  /\ \A j \in 1 .. Len(v) : buf[i + Len(Name[k]) + j] = v[j]
  /\ buf[i + Len(Name[k]) + Len(v) + 1] = NUL

\* buf is the records of the variables K, in some order, and nothing else.
Records(buf, d, K) ==
  /\ buf \in Seq(Byte)
  /\ Len(buf) + 1 \in Starts(buf)
  /\ \A i \in Starts(buf) : i = Len(buf) + 1 \/ \E k \in K : RecordAt(buf, i, k, d[k])
  /\ \A k \in K : \E i \in Starts(buf) : RecordAt(buf, i, k, d[k])

\* What a caller can take apart.
PlainNames  == \A k \in Key : "=" \notin ToSet(Name[k])
PlainValues == \A v \in Val : NUL \notin ToSet(v)

LEMMA NameFacts ==
  ASSUME NEW k \in Key
  PROVE  /\ Name[k] \in Seq(Byte) /\ Len(Name[k]) \in Nat \ {0}
         /\ \A j \in 1 .. Len(Name[k]) : Name[k][j] # NUL
<1>1. Name[k] \in Seq(Byte) /\ Name[k] # <<>> /\ NUL \notin ToSet(Name[k])
  BY StringAssumption
<1>2. Len(Name[k]) # 0
  BY <1>1
<1> QED
  BY <1>1, <1>2 DEF ToSet

LEMMA ValFacts ==
  ASSUME PlainValues, NEW v \in Val
  PROVE  /\ v \in Seq(Byte) /\ Len(v) \in Nat
         /\ \A j \in 1 .. Len(v) : v[j] # NUL
<1>1. v \in Seq(Byte) /\ NUL \notin ToSet(v)
  BY StringAssumption DEF PlainValues
<1> QED
  BY <1>1 DEF ToSet

LEMMA RecordFacts ==
  ASSUME PlainValues, NEW k \in Key, NEW v \in Val
  PROVE  /\ Record(k, v) \in Seq(Byte)
         /\ Len(Record(k, v)) = Len(Name[k]) + Len(v) + 2
         /\ RecordAt(Record(k, v), 1, k, v)
         /\ \A j \in 1 .. Len(Name[k]) + Len(v) + 1 : Record(k, v)[j] # NUL
<1> DEFINE n == Name[k]
           a == n \o <<"=">>
           b == a \o v
           r == b \o <<NUL>>
<1>1. n \in Seq(Byte) /\ Len(n) \in Nat \ {0} /\ \A j \in 1 .. Len(n) : n[j] # NUL
  BY NameFacts
<1>2. v \in Seq(Byte) /\ Len(v) \in Nat /\ \A j \in 1 .. Len(v) : v[j] # NUL
  BY ValFacts
<1>3. <<"=">> \in Seq(Byte) /\ <<NUL>> \in Seq(Byte) /\ "=" # NUL
  BY StringAssumption DEF NUL
<1> HIDE DEF n
<1>4. a \in Seq(Byte) /\ Len(a) = Len(n) + 1 /\ a[Len(n) + 1] = "=" /\ \A j \in 1 .. Len(n) : a[j] = n[j]
  BY <1>1, <1>3
<1> HIDE DEF a
<1>5. b \in Seq(Byte) /\ Len(b) = Len(n) + 1 + Len(v)
  BY <1>2, <1>4
<1>6. \A j \in 1 .. Len(n) + 1 + Len(v) : b[j] = IF j <= Len(n) + 1 THEN a[j] ELSE v[j - (Len(n) + 1)]
  BY <1>1, <1>2, <1>4, ConcatProperties
<1> HIDE DEF b
<1>7. r \in Seq(Byte) /\ Len(r) = Len(n) + Len(v) + 2
  <2>1. Len(<<NUL>>) = 1
    OBVIOUS
  <2>2. r \in Seq(Byte) /\ Len(r) = Len(b) + Len(<<NUL>>)
    BY <1>3, <1>5, ConcatProperties
  <2> QED
    BY <1>1, <1>2, <1>5, <2>1, <2>2
<1>8. \A j \in 1 .. Len(n) + Len(v) + 2 : r[j] = IF j <= Len(n) + Len(v) + 1 THEN b[j] ELSE NUL
  BY <1>1, <1>2, <1>3, <1>5, ConcatProperties
<1> HIDE DEF r
<1>9. r = Record(k, v)
  BY DEF Record, r, b, a, n
<1>10. \A j \in 1 .. Len(n) : r[j] = n[j]
  BY <1>1, <1>2, <1>4, <1>6, <1>8
<1>11. r[Len(n) + 1] = "=" /\ r[Len(n) + Len(v) + 2] = NUL
  <2>1. r[Len(n) + Len(v) + 2] = NUL
    BY <1>1, <1>2, <1>8
  <2>2. r[Len(n) + 1] = b[Len(n) + 1]
    BY <1>1, <1>2, <1>8
  <2>3. b[Len(n) + 1] = a[Len(n) + 1]
    BY <1>1, <1>2, <1>6
  <2> QED
    BY <1>4, <2>1, <2>2, <2>3
<1>12. \A j \in 1 .. Len(v) : r[Len(n) + 1 + j] = v[j]
  BY <1>1, <1>2, <1>6, <1>8
<1>13. RecordAt(r, 1, k, v)
  <2>1. \A j \in 1 .. Len(n) : r[1 + j - 1] = n[j]
    BY <1>1, <1>10
  <2>2. r[1 + Len(n)] = "="
    BY <1>1, <1>11
  <2>3. \A j \in 1 .. Len(v) : r[1 + Len(n) + j] = v[j]
    BY <1>1, <1>2, <1>12
  <2>4. r[1 + Len(n) + Len(v) + 1] = NUL
    BY <1>1, <1>2, <1>11
  <2> QED
    BY <1>1, <1>2, <1>7, <2>1, <2>2, <2>3, <2>4 DEF RecordAt, n
<1>14. \A j \in 1 .. Len(n) + Len(v) + 1 : r[j] # NUL
  <2> SUFFICES ASSUME NEW j \in 1 .. Len(n) + Len(v) + 1 PROVE r[j] # NUL
    OBVIOUS
  <2>1. CASE j \in 1 .. Len(n)
    BY <1>1, <1>10, <2>1
  <2>2. CASE j = Len(n) + 1
    BY <1>3, <1>11, <2>2
  <2>3. CASE j > Len(n) + 1
    <3>1. j - (Len(n) + 1) \in 1 .. Len(v) /\ Len(n) + 1 + (j - (Len(n) + 1)) = j
      BY <1>1, <1>2, <2>3
    <3>2. r[j] = v[j - (Len(n) + 1)]
      BY <1>12, <3>1
    <3> QED
      BY <1>2, <3>1, <3>2
  <2> QED
    BY <1>1, <1>2, <2>1, <2>2, <2>3
<1> QED
  BY <1>7, <1>9, <1>13, <1>14 DEF n

\* What has been written is not disturbed by what is written after it.
LEMMA RecordKept ==
  ASSUME NEW s \in Seq(Byte), NEW t \in Seq(Byte), NEW i, NEW k \in Key, NEW v \in Seq(Byte),
         RecordAt(s, i, k, v)
  PROVE  RecordAt(s \o t, i, k, v)
<1> DEFINE u == s \o t
<1>1. Len(Name[k]) \in Nat /\ Len(v) \in Nat /\ Len(s) \in Nat /\ Len(t) \in Nat /\ i \in Nat \ {0}
      /\ i + Len(Name[k]) + Len(v) + 1 <= Len(s)
  BY NameFacts DEF RecordAt
<1>2. Len(u) = Len(s) + Len(t) /\ \A j \in 1 .. Len(s) : u[j] = s[j]
  BY <1>1, ConcatProperties
<1> HIDE DEF u
<1>3. ASSUME NEW j \in 1 .. Len(Name[k]) PROVE u[i + j - 1] = Name[k][j]
  <2>1. i + j - 1 \in 1 .. Len(s)
    BY <1>1
  <2>2. s[i + j - 1] = Name[k][j]
    BY DEF RecordAt
  <2> QED
    BY <1>2, <2>1, <2>2
<1>4. u[i + Len(Name[k])] = "=" /\ u[i + Len(Name[k]) + Len(v) + 1] = NUL
  <2>1. i + Len(Name[k]) \in 1 .. Len(s) /\ i + Len(Name[k]) + Len(v) + 1 \in 1 .. Len(s)
    BY <1>1
  <2>2. s[i + Len(Name[k])] = "=" /\ s[i + Len(Name[k]) + Len(v) + 1] = NUL
    BY DEF RecordAt
  <2> QED
    BY <1>2, <2>1, <2>2
<1>5. ASSUME NEW j \in 1 .. Len(v) PROVE u[i + Len(Name[k]) + j] = v[j]
  <2>1. i + Len(Name[k]) + j \in 1 .. Len(s)
    BY <1>1
  <2>2. s[i + Len(Name[k]) + j] = v[j]
    BY DEF RecordAt
  <2> QED
    BY <1>2, <2>1, <2>2
<1>6. i + Len(Name[k]) + Len(v) + 1 <= Len(u)
  BY <1>1, <1>2
<1>7. RecordAt(u, i, k, v)
  BY <1>1, <1>3, <1>4, <1>5, <1>6 DEF RecordAt
<1> QED
  BY <1>7 DEF u

\* A string begins at the beginning and after every NUL.
LEMMA StartsOfConcat ==
  ASSUME NEW s \in Seq(Byte), NEW t \in Seq(Byte)
  PROVE  Starts(s \o t) = Starts(s) \cup {Len(s) + i + 1 : i \in {j \in 1 .. Len(t) : t[j] = NUL}}
<1> DEFINE u == s \o t
           R == {Len(s) + i + 1 : i \in {j \in 1 .. Len(t) : t[j] = NUL}}
<1>1. Len(s) \in Nat /\ Len(t) \in Nat /\ DOMAIN s = 1 .. Len(s)
  OBVIOUS
<1>2. DOMAIN u = 1 .. Len(s) + Len(t) /\ \A i \in 1 .. Len(s) + Len(t) : u[i] = IF i <= Len(s) THEN s[i] ELSE t[i - Len(s)]
  BY <1>1, ConcatProperties
<1> HIDE DEF u
<1>3. ASSUME NEW x \in Starts(u) PROVE x \in Starts(s) \cup R
  <2>1. CASE x = 1
    BY <2>1 DEF Starts
  <2>2. ASSUME NEW i \in DOMAIN u, u[i] = NUL, x = i + 1
        PROVE  x \in Starts(s) \cup R
    <3>1. CASE i <= Len(s)
      BY <1>1, <1>2, <2>2, <3>1 DEF Starts
    <3>2. CASE i > Len(s)
      <4>1. i - Len(s) \in 1 .. Len(t) /\ t[i - Len(s)] = NUL /\ x = Len(s) + (i - Len(s)) + 1
        BY <1>1, <1>2, <2>2, <3>2
      <4> QED
        BY <4>1
    <3> QED
      BY <1>1, <1>2, <3>1, <3>2
  <2> QED
    BY <1>3, <2>1, <2>2 DEF Starts
<1>4. ASSUME NEW x \in Starts(s) PROVE x \in Starts(u)
  BY <1>1, <1>2, <1>4 DEF Starts
<1>5. ASSUME NEW x \in R PROVE x \in Starts(u)
  <2>1. PICK i \in 1 .. Len(t) : t[i] = NUL /\ x = Len(s) + i + 1
    BY <1>5
  <2>2. Len(s) + i \in DOMAIN u /\ u[Len(s) + i] = NUL /\ x = (Len(s) + i) + 1
    BY <1>1, <1>2, <2>1
  <2> QED
    BY <2>2 DEF Starts
<1> HIDE DEF R
<1>6. Starts(u) = Starts(s) \cup R
  BY <1>3, <1>4, <1>5
<1> QED
  BY <1>6 DEF u, R

LEMMA RecordAppended ==
  ASSUME PlainValues, NEW s \in Seq(Byte), NEW k \in Key, NEW v \in Val
  PROVE  RecordAt(s \o Record(k, v), Len(s) + 1, k, v)
<1> DEFINE n == Name[k]
           r == Record(k, v)
           u == s \o r
<1>1. Len(n) \in Nat \ {0} /\ Len(v) \in Nat /\ Len(s) \in Nat
  BY NameFacts, ValFacts
<1>2. r \in Seq(Byte) /\ Len(r) = Len(n) + Len(v) + 2 /\ RecordAt(r, 1, k, v)
  BY RecordFacts
<1> HIDE DEF r
<1>3. Len(u) = Len(s) + Len(n) + Len(v) + 2
  <2>1. Len(u) = Len(s) + Len(r)
    BY <1>2, ConcatProperties
  <2> HIDE DEF u
  <2> QED
    BY <1>1, <1>2, <2>1
<1>4. ASSUME NEW j \in 1 .. Len(n) + Len(v) + 2 PROVE u[Len(s) + j] = r[j]
  <2>1. Len(s) + j \in 1 .. Len(s) + Len(r) /\ ~(Len(s) + j <= Len(s)) /\ Len(s) + j - Len(s) = j
    BY <1>1, <1>2
  <2>2. u[Len(s) + j] = r[Len(s) + j - Len(s)]
    BY <1>2, <2>1, ConcatProperties
  <2> QED
    BY <2>1, <2>2
<1> HIDE DEF u, n
<1>5. ASSUME NEW j \in 1 .. Len(n) PROVE u[Len(s) + 1 + j - 1] = n[j]
  <2>1. r[1 + j - 1] = n[j]
    BY <1>2 DEF RecordAt, n
  <2> QED
    BY <1>1, <1>4, <2>1
<1>6. u[Len(s) + 1 + Len(n)] = "=" /\ u[Len(s) + 1 + Len(n) + Len(v) + 1] = NUL
  <2>1. r[1 + Len(n)] = "=" /\ r[1 + Len(n) + Len(v) + 1] = NUL
    BY <1>2 DEF RecordAt, n
  <2>2. 1 + Len(n) \in 1 .. Len(n) + Len(v) + 2 /\ 1 + Len(n) + Len(v) + 1 \in 1 .. Len(n) + Len(v) + 2
        /\ Len(s) + (1 + Len(n)) = Len(s) + 1 + Len(n)
        /\ Len(s) + (1 + Len(n) + Len(v) + 1) = Len(s) + 1 + Len(n) + Len(v) + 1
    BY <1>1
  <2>3. u[Len(s) + (1 + Len(n))] = "=" /\ u[Len(s) + (1 + Len(n) + Len(v) + 1)] = NUL
    BY <1>4, <2>1, <2>2
  <2> QED
    BY <2>2, <2>3
<1>7. ASSUME NEW j \in 1 .. Len(v) PROVE u[Len(s) + 1 + Len(n) + j] = v[j]
  <2>1. r[1 + Len(n) + j] = v[j]
    BY <1>2 DEF RecordAt, n
  <2>2. 1 + Len(n) + j \in 1 .. Len(n) + Len(v) + 2
        /\ Len(s) + (1 + Len(n) + j) = Len(s) + 1 + Len(n) + j
    BY <1>1
  <2>3. u[Len(s) + (1 + Len(n) + j)] = v[j]
    BY <1>4, <2>1, <2>2
  <2> QED
    BY <2>2, <2>3
<1>8. Len(s) + 1 \in Nat \ {0} /\ Len(s) + 1 + Len(n) + Len(v) + 1 <= Len(u)
  BY <1>1, <1>3
<1>9. RecordAt(u, Len(s) + 1, k, v)
  BY <1>5, <1>6, <1>7, <1>8 DEF RecordAt, n
<1> QED
  BY <1>9 DEF u, r

\* One record more.
LEMMA RecordsAppend ==
  ASSUME PlainValues, NEW s, NEW d, NEW K \in SUBSET Key, Records(s, d, K),
         \A j \in K : d[j] \in Val, NEW k \in Key, d[k] \in Val
  PROVE  Records(s \o Record(k, d[k]), d, K \cup {k})
<1> DEFINE r == Record(k, d[k])
           u == s \o r
<1>1. s \in Seq(Byte) /\ Len(s) \in Nat /\ Len(s) + 1 \in Starts(s)
  BY DEF Records
<1>2. /\ r \in Seq(Byte) /\ Len(r) \in Nat /\ Len(r) >= 2 /\ r[Len(r)] = NUL
      /\ \A j \in 1 .. Len(r) - 1 : r[j] # NUL
  <2> DEFINE a == Len(Name[k])
             b == Len(d[k])
  <2>1. a \in Nat \ {0} /\ b \in Nat
    BY NameFacts, ValFacts
  <2>2. r \in Seq(Byte) /\ Len(r) = a + b + 2
    BY RecordFacts
  <2>3. r[1 + a + b + 1] = NUL
    BY RecordFacts DEF RecordAt
  <2>4. \A j \in 1 .. a + b + 1 : r[j] # NUL
    BY RecordFacts
  <2> HIDE DEF r, a, b
  <2>5. Len(r) \in Nat /\ 1 + a + b + 1 = Len(r) /\ a + b + 1 = Len(r) - 1 /\ Len(r) >= 2
    BY <2>1, <2>2
  <2> QED
    BY <2>2, <2>3, <2>4, <2>5
<1>3. u \in Seq(Byte) /\ Len(u) = Len(s) + Len(r)
  BY <1>1, <1>2, ConcatProperties
<1>4. Starts(u) = Starts(s) \cup {Len(u) + 1}
  <2>1. Starts(u) = Starts(s) \cup {Len(s) + i + 1 : i \in {j \in 1 .. Len(r) : r[j] = NUL}}
    BY <1>1, <1>2, StartsOfConcat
  <2>2. {j \in 1 .. Len(r) : r[j] = NUL} = {Len(r)}
    BY <1>2
  <2>3. {Len(s) + i + 1 : i \in {j \in 1 .. Len(r) : r[j] = NUL}} = {Len(u) + 1}
    BY <1>1, <1>2, <1>3, <2>2
  <2> QED
    BY <2>1, <2>3
<1>5. RecordAt(u, Len(s) + 1, k, d[k])
  BY <1>1, RecordAppended
<1>6. \A i, j : j \in K /\ RecordAt(s, i, j, d[j]) => RecordAt(u, i, j, d[j])
  <2> SUFFICES ASSUME NEW i, NEW j \in K, RecordAt(s, i, j, d[j])
               PROVE  RecordAt(u, i, j, d[j])
    OBVIOUS
  <2>1. d[j] \in Seq(Byte) /\ j \in Key
    BY StringAssumption
  <2> QED
    BY <1>1, <1>2, <2>1, RecordKept
<1> HIDE DEF u
<1>7. ASSUME NEW i \in Starts(u) PROVE i = Len(u) + 1 \/ \E j \in K \cup {k} : RecordAt(u, i, j, d[j])
  <2>1. CASE i = Len(u) + 1
    BY <2>1
  <2>2. CASE i = Len(s) + 1
    BY <1>5, <2>2
  <2>3. CASE i \in Starts(s) /\ i # Len(s) + 1
    <3>1. PICK j \in K : RecordAt(s, i, j, d[j])
      BY <2>3 DEF Records
    <3> QED
      BY <1>6, <3>1
  <2> QED
    BY <1>4, <1>7, <2>1, <2>2, <2>3
<1>8. ASSUME NEW j \in K \cup {k} PROVE \E i \in Starts(u) : RecordAt(u, i, j, d[j])
  <2>1. CASE j = k
    BY <1>1, <1>4, <1>5, <2>1
  <2>2. CASE j \in K
    <3>1. PICK i \in Starts(s) : RecordAt(s, i, j, d[j])
      BY <2>2 DEF Records
    <3> QED
      BY <1>4, <1>6, <2>2, <3>1
  <2> QED
    BY <2>1, <2>2
<1>9. Records(u, d, K \cup {k})
  BY <1>3, <1>4, <1>7, <1>8 DEF Records
<1> QED
  BY <1>9 DEF u

LEMMA MinIs ==
  ASSUME NEW S \in SUBSET Int, NEW x \in S, \A y \in S : x <= y
  PROVE  Min(S) = x
<1>1. \A y \in S : (\A z \in S : y <= z) => y = x
  OBVIOUS
<1>2. (Min(S) \in S /\ \A z \in S : Min(S) <= z)
  BY DEF Min
<1> QED
  BY <1>1, <1>2

LEMMA SubSeqIs ==
  ASSUME NEW s \in Seq(Byte), NEW t \in Seq(Byte), NEW i \in Nat \ {0},
         i + Len(t) - 1 <= Len(s), \A j \in 1 .. Len(t) : s[i + j - 1] = t[j]
  PROVE  SubSeq(s, i, i + Len(t) - 1) = t
<1> DEFINE e == i + Len(t) - 1
           u == SubSeq(s, i, e)
<1>1. Len(s) \in Nat /\ Len(t) \in Nat /\ e \in Int
  OBVIOUS
<1>2. \A j \in i .. e : s[j] \in Byte
  BY <1>1
<1>3. e - i + 1 = Len(t)
  BY <1>1
<1> HIDE DEF e
<1>4. u \in Seq(Byte) /\ Len(u) = (IF i <= e THEN e - i + 1 ELSE 0)
      /\ \A j \in 1 .. e - i + 1 : u[j] = s[i + j - 1]
  BY <1>1, <1>2, SubSeqProperties
<1> HIDE DEF u
<1>5. Len(u) = Len(t)
  BY <1>1, <1>3, <1>4
<1>6. \A j \in 1 .. Len(u) : u[j] = t[j]
  BY <1>3, <1>4, <1>5
<1>7. u = t
  BY <1>4, <1>5, <1>6, SeqEqual
<1> QED
  BY <1>7 DEF u, e

\* A caller that finds the record at i takes it apart into name and value.
LEMMA RecordSplits ==
  ASSUME PlainNames, PlainValues, NEW s \in Seq(Byte), NEW i, NEW k \in Key, NEW v \in Val,
         RecordAt(s, i, k, v)
  PROVE  /\ SubSeq(s, i, EndOf(s, "=", i) - 1) = Name[k]
         /\ SubSeq(s, EndOf(s, "=", i) + 1, EndOf(s, NUL, i) - 1) = v
<1> DEFINE n == Name[k]
           a == Len(n)
           b == Len(v)
<1>1. n \in Seq(Byte) /\ a \in Nat \ {0} /\ \A j \in 1 .. a : n[j] # NUL /\ n[j] # "="
  BY NameFacts DEF PlainNames, ToSet
<1>2. v \in Seq(Byte) /\ b \in Nat /\ \A j \in 1 .. b : v[j] # NUL
  BY ValFacts
<1>3. /\ i \in Nat \ {0} /\ i + a + b + 1 <= Len(s) /\ Len(s) \in Nat
      /\ \A j \in 1 .. a : s[i + j - 1] = n[j]
      /\ s[i + a] = "="
      /\ \A j \in 1 .. b : s[i + a + j] = v[j]
      /\ s[i + a + b + 1] = NUL
  BY DEF RecordAt
<1> HIDE DEF n, a, b
<1>4. \A x \in i .. i + a - 1 : s[x] # NUL /\ s[x] # "="
  <2> SUFFICES ASSUME NEW x \in i .. i + a - 1 PROVE s[x] # NUL /\ s[x] # "="
    OBVIOUS
  <2>1. x - i + 1 \in 1 .. a /\ i + (x - i + 1) - 1 = x
    BY <1>1, <1>3
  <2>2. s[x] = n[x - i + 1]
    BY <1>3, <2>1
  <2> QED
    BY <1>1, <2>1, <2>2
<1>5. \A x \in i + a + 1 .. i + a + b : s[x] # NUL
  <2> SUFFICES ASSUME NEW x \in i + a + 1 .. i + a + b PROVE s[x] # NUL
    OBVIOUS
  <2>1. x - i - a \in 1 .. b /\ i + a + (x - i - a) = x
    BY <1>1, <1>2, <1>3
  <2>2. s[x] = v[x - i - a]
    BY <1>3, <2>1
  <2> QED
    BY <1>2, <2>1, <2>2
<1>6. EndOf(s, "=", i) = i + a
  <2> DEFINE S == {j \in i .. Len(s) : s[j] = "="}
  <2>1. S \in SUBSET Int /\ i + a \in S
    BY <1>1, <1>2, <1>3
  <2>2. \A y \in S : i + a <= y
    BY <1>1, <1>3, <1>4
  <2> HIDE DEF S
  <2>3. Min(S) = i + a
    BY <2>1, <2>2, MinIs
  <2> QED
    BY <2>3 DEF S, EndOf
<1>7. EndOf(s, NUL, i) = i + a + b + 1
  <2> DEFINE S == {j \in i .. Len(s) : s[j] = NUL}
  <2>1. S \in SUBSET Int /\ i + a + b + 1 \in S
    BY <1>1, <1>2, <1>3
  <2>2. \A y \in S : i + a + b + 1 <= y
    <3> SUFFICES ASSUME NEW y \in S, y < i + a + b + 1 PROVE FALSE
      BY <1>1, <1>2, <1>3
    <3>1. "=" # NUL
      BY DEF NUL
    <3>2. y \in i .. i + a - 1 \/ y = i + a \/ y \in i + a + 1 .. i + a + b
      BY <1>1, <1>2, <1>3
    <3> QED
      BY <1>3, <1>4, <1>5, <3>1, <3>2
  <2> HIDE DEF S
  <2>3. Min(S) = i + a + b + 1
    BY <2>1, <2>2, MinIs
  <2> QED
    BY <2>3 DEF S, EndOf
<1>8. SubSeq(s, i, i + a - 1) = n
  <2>1. i + Len(n) - 1 <= Len(s) /\ \A j \in 1 .. Len(n) : s[i + j - 1] = n[j]
    BY <1>1, <1>2, <1>3 DEF a
  <2> QED
    BY <1>1, <1>3, <2>1, SubSeqIs DEF a
<1>9. SubSeq(s, i + a + 1, i + a + b + 1 - 1) = v
  <2> DEFINE c == i + a + 1
  <2>1. c \in Nat \ {0} /\ c + Len(v) - 1 <= Len(s) /\ i + a + b + 1 - 1 = c + Len(v) - 1
    BY <1>1, <1>2, <1>3 DEF b
  <2>2. \A j \in 1 .. Len(v) : s[c + j - 1] = v[j]
    <3> SUFFICES ASSUME NEW j \in 1 .. Len(v) PROVE s[c + j - 1] = v[j]
      OBVIOUS
    <3>1. c + j - 1 = i + a + j
      BY <1>1, <1>3
    <3> QED
      BY <1>3, <3>1 DEF b
  <2> HIDE DEF c
  <2>3. SubSeq(s, c, c + Len(v) - 1) = v
    BY <1>2, <2>1, <2>2, SubSeqIs
  <2> QED
    BY <2>1, <2>3 DEF c
<1> DEFINE p == EndOf(s, "=", i)
           q == EndOf(s, NUL, i)
<1>p. p = i + a /\ q = i + a + b + 1
  BY <1>6, <1>7
<1> HIDE DEF p, q
<1>10. SubSeq(s, i, p - 1) = n
  <2>1. p - 1 = i + a - 1
    BY <1>1, <1>3, <1>p
  <2> QED
    BY <1>8, <2>1
<1>11. SubSeq(s, p + 1, q - 1) = v
  <2>1. p + 1 = i + a + 1 /\ q - 1 = i + a + b + 1 - 1
    BY <1>1, <1>2, <1>3, <1>p
  <2> QED
    BY <1>9, <2>1
<1> QED
  BY <1>10, <1>11 DEF n, p, q

\* The terminator is the only empty string, and what comes before it is the records.
LEMMA RecordsEnd ==
  ASSUME PlainNames, PlainValues, NEW s, NEW d, NEW K \in SUBSET Key, Records(s, d, K),
         \A j \in K : d[j] \in Val
  PROVE  /\ Empties(s \o <<NUL>>) = {Len(s) + 1}
         /\ Unpack(s \o <<NUL>>) = {<<Name[k], d[k]>> : k \in K}
<1> DEFINE u == s \o <<NUL>>
<1>1. s \in Seq(Byte) /\ Len(s) \in Nat /\ Len(s) + 1 \in Starts(s)
  BY DEF Records
<1>2. <<NUL>> \in Seq(Byte) /\ Len(<<NUL>>) = 1 /\ <<NUL>>[1] = NUL
  BY StringAssumption
<1>3. u \in Seq(Byte) /\ Len(u) = Len(s) + 1
  BY <1>1, <1>2, ConcatProperties
<1>4. u[Len(s) + 1] = NUL
  BY <1>1, <1>2, ConcatProperties
<1>5. Starts(u) = Starts(s) \cup {Len(s) + 2}
  <2>1. Starts(u) = Starts(s) \cup {Len(s) + i + 1 : i \in {j \in 1 .. Len(<<NUL>>) : <<NUL>>[j] = NUL}}
    BY <1>1, <1>2, StartsOfConcat
  <2>2. {j \in 1 .. Len(<<NUL>>) : <<NUL>>[j] = NUL} = {1}
    BY <1>2
  <2>3. {Len(s) + i + 1 : i \in {j \in 1 .. Len(<<NUL>>) : <<NUL>>[j] = NUL}} = {Len(s) + 2}
    BY <1>1, <2>2
  <2> QED
    BY <2>1, <2>3
<1>6. \A i \in Starts(s) : i \in Nat /\ i <= Len(s) + 1
  BY <1>1 DEF Starts
<1>7. \A i, j : j \in K /\ RecordAt(s, i, j, d[j]) =>
        RecordAt(u, i, j, d[j]) /\ i \in 1 .. Len(s) /\ u[i] # NUL
  <2> SUFFICES ASSUME NEW i, NEW j \in K, RecordAt(s, i, j, d[j])
               PROVE  RecordAt(u, i, j, d[j]) /\ i \in 1 .. Len(s) /\ u[i] # NUL
    OBVIOUS
  <2>1. d[j] \in Seq(Byte) /\ Len(d[j]) \in Nat /\ j \in Key
    BY ValFacts
  <2>2. RecordAt(u, i, j, d[j])
    BY <1>1, <1>2, <2>1, RecordKept
  <2> HIDE DEF u
  <2>3. Len(Name[j]) \in Nat \ {0} /\ Name[j][1] # NUL
    BY <2>1, NameFacts
  <2>4. i \in Nat \ {0} /\ i + Len(Name[j]) + Len(d[j]) + 1 <= Len(s)
    BY DEF RecordAt
  <2>5. u[i + 1 - 1] = Name[j][1]
    BY <2>2, <2>3 DEF RecordAt
  <2>6. u[i] = Name[j][1]
    BY <2>4, <2>5
  <2> DEFINE a == Len(Name[j])
             b == Len(d[j])
  <2>7. a \in Nat \ {0} /\ b \in Nat /\ i \in Nat \ {0} /\ i + a + b + 1 <= Len(s)
    BY <2>1, <2>3, <2>4
  <2> HIDE DEF a, b
  <2>8. i \in 1 .. Len(s)
    BY <1>1, <2>7
  <2> QED
    BY <2>2, <2>3, <2>6, <2>8
<1> HIDE DEF u
<1>8. Empties(u) = {Len(s) + 1}
  <2>1. DOMAIN u = 1 .. Len(s) + 1
    BY <1>3
  <2>2. ASSUME NEW i \in Starts(u) \cap DOMAIN u, u[i] = NUL PROVE i = Len(s) + 1
    <3>1. i \in Starts(s)
      BY <1>1, <1>5, <2>1
    <3>2. i = Len(s) + 1 \/ \E k \in K : RecordAt(s, i, k, d[k])
      BY <3>1 DEF Records
    <3> QED
      BY <1>7, <2>2, <3>2
  <2> QED
    BY <1>1, <1>4, <1>5, <2>1, <2>2 DEF Empties
<1>9. Min(Empties(u)) = Len(s) + 1
  <2>1. Len(s) + 1 \in Int
    BY <1>1
  <2> QED
    BY <1>8, <2>1, MinIs
<1> DEFINE Pair(i) == <<SubSeq(u, i, EndOf(u, "=", i) - 1),
                        SubSeq(u, EndOf(u, "=", i) + 1, EndOf(u, NUL, i) - 1)>>
           B == {j \in Starts(u) : j < Min(Empties(u))}
<1>10. \A i, j : j \in K /\ RecordAt(s, i, j, d[j]) => Pair(i) = <<Name[j], d[j]>>
  <2> SUFFICES ASSUME NEW i, NEW j \in K, RecordAt(s, i, j, d[j])
               PROVE  Pair(i) = <<Name[j], d[j]>>
    OBVIOUS
  <2>1. RecordAt(u, i, j, d[j]) /\ j \in Key /\ d[j] \in Val
    BY <1>7
  <2> QED
    BY <1>3, <2>1, RecordSplits
<1>11. Unpack(u) = {Pair(i) : i \in B}
  BY DEF Unpack
<1>12. B = Starts(s) \ {Len(s) + 1}
  BY <1>1, <1>5, <1>6, <1>9
<1> HIDE DEF Pair, B
<1>13. ASSUME NEW i \in B PROVE \E k \in K : Pair(i) = <<Name[k], d[k]>>
  BY <1>10, <1>12 DEF Records
<1>14. ASSUME NEW k \in K PROVE \E i \in B : Pair(i) = <<Name[k], d[k]>>
  <2>1. PICK i \in Starts(s) : RecordAt(s, i, k, d[k])
    BY DEF Records
  <2>2. i \in 1 .. Len(s)
    BY <1>7, <2>1
  <2>3. i # Len(s) + 1
    BY <1>1, <2>2
  <2> QED
    BY <1>10, <1>12, <2>1, <2>3
<1>15. Unpack(u) = {<<Name[k], d[k]>> : k \in K}
  BY <1>11, <1>13, <1>14
<1> QED
  BY <1>8, <1>15 DEF u

\* The variables of the first m records.
First(keys, m) == {keys[j] : j \in 1 .. m}

\* emit has been called i times: it has written the records of the first m, all of
\* them unless it has met one that does not fit, and there is room for the end.
Filled(acc, d, keys, i, len) ==
  /\ acc \in Acc /\ acc.pos = Len(acc.buf) /\ acc.pos < len
  /\ \E m \in 0 .. i : Records(acc.buf, d, First(keys, m)) /\ (acc.overflow <=> m < i)

LEMMA EmitFills ==
  ASSUME PlainValues, NEW d, NEW n \in Nat, NEW keys \in [1 .. n -> Key],
         \A j \in 1 .. n : d[keys[j]] \in Val, NEW len \in Nat, NEW i \in 1 .. n,
         NEW acc, Filled(acc, d, keys, i - 1, len)
  PROVE  Filled(Emit(acc, keys[i], d[keys[i]], len), d, keys, i, len)
<1> DEFINE k == keys[i]
           r == Record(k, d[k])
           e == Emit(acc, k, d[k], len)
<1>1. PICK m \in 0 .. i - 1 : Records(acc.buf, d, First(keys, m)) /\ (acc.overflow <=> m < i - 1)
  BY DEF Filled
<1>2. acc \in Acc /\ acc.pos = Len(acc.buf) /\ acc.pos < len /\ acc.pos \in Nat /\ acc.buf \in Seq(Byte)
  BY DEF Filled, Acc
<1>3. k \in Key /\ d[k] \in Val /\ e \in Acc
  BY <1>2, EmitType
<1>4. r \in Seq(Byte) /\ Len(r) \in Nat /\ Len(r) = Len(Name[k]) + 1 + Len(d[k]) + 1
  <2> DEFINE a == Len(Name[k])
             b == Len(d[k])
  <2>1. a \in Nat /\ b \in Nat /\ Len(r) = a + b + 2 /\ r \in Seq(Byte)
    BY <1>3, RecordFacts, NameFacts, ValFacts
  <2> HIDE DEF a, b, r
  <2>2. Len(r) = a + 1 + b + 1 /\ Len(r) \in Nat
    BY <2>1
  <2> QED
    BY <2>1, <2>2 DEF a, b
<1>5. CASE acc.overflow \/ Overflows(acc, k, d[k], len)
  <2>1. e = [acc EXCEPT !.overflow = TRUE]
    BY <1>5 DEF Emit
  <2>2. e.buf = acc.buf /\ e.pos = acc.pos /\ e.overflow = TRUE
    BY <1>2, <2>1 DEF Acc
  <2> HIDE DEF e
  <2>3. m \in 0 .. i /\ m < i
    OBVIOUS
  <2>4. Filled(e, d, keys, i, len)
    BY <1>1, <1>2, <1>3, <2>2, <2>3 DEF Filled
  <2> QED
    BY <2>4 DEF e
<1>6. CASE ~ acc.overflow /\ ~ Overflows(acc, k, d[k], len)
  <2>1. e = [acc EXCEPT !.buf = @ \o r, !.pos = @ + Len(r)]
    BY <1>6 DEF Emit, Record
  <2>2. e.buf = acc.buf \o r /\ e.pos = acc.pos + Len(r) /\ e.overflow = acc.overflow
    BY <1>2, <2>1 DEF Acc
  <2>3. m = i - 1
    BY <1>1, <1>6
  <2>4. First(keys, i) = First(keys, m) \cup {k}
    BY <2>3 DEF First
  <2>5. First(keys, m) \in SUBSET Key /\ \A j \in First(keys, m) : d[j] \in Val
    BY <2>3 DEF First
  <2>6. Records(acc.buf \o r, d, First(keys, m) \cup {k})
    BY <1>1, <1>3, <2>5, RecordsAppend
  <2>7. acc.pos + Len(r) + 1 <= len
    <3>1. ~(acc.pos + (Len(Name[k]) + 1 + Len(d[k]) + 1) + 1 > len)
      BY <1>6 DEF Overflows
    <3>2. ~(acc.pos + Len(r) + 1 > len)
      BY <1>4, <3>1
    <3>3. acc.pos \in Nat /\ Len(r) \in Nat /\ len \in Nat
      BY <1>2, <1>4
    <3> DEFINE p == acc.pos
               l == Len(r)
    <3> HIDE DEF p, l
    <3>4. p + l + 1 <= len
      BY <3>2, <3>3 DEF p, l
    <3> QED
      BY <3>4 DEF p, l
  <2> HIDE DEF e, r, k
  <2>8. Len(acc.buf \o r) = acc.pos + Len(r)
    <3>1. Len(acc.buf \o r) = Len(acc.buf) + Len(r)
      BY <1>2, <1>4, ConcatProperties
    <3> QED
      BY <1>2, <3>1
  <2>9. e.pos = Len(e.buf) /\ e.pos < len
    <3> DEFINE p == acc.pos
               l == Len(r)
    <3>1. p \in Nat /\ l \in Nat /\ p + l + 1 <= len /\ e.pos = p + l
      BY <1>2, <1>4, <2>2, <2>7
    <3> HIDE DEF p, l
    <3>2. e.pos < len
      BY <3>1
    <3> QED
      BY <2>2, <2>8, <3>2
  <2>10. Records(e.buf, d, First(keys, i)) /\ (e.overflow <=> i < i) /\ i \in 0 .. i
    BY <1>6, <2>2, <2>4, <2>6
  <2>11. Filled(e, d, keys, i, len)
    BY <1>3, <2>9, <2>10 DEF Filled
  <2> QED
    BY <2>11 DEF e, k
<1> QED
  BY <1>5, <1>6

\* r has the first m records, which is all of them unless it says otherwise.
Unpacked(r, d, keys, n) ==
  \E m \in 0 .. n : /\ Unpack(r.buf) = {<<Name[k], d[k]>> : k \in First(keys, m)}
                    /\ r.overflow <=> m < n

LEMMA PackFacts ==
  ASSUME PlainNames, PlainValues, NEW d, NEW n \in Nat, NEW keys \in [1 .. n -> Key],
         \A j \in 1 .. n : d[keys[j]] \in Val, NEW len \in Nat \ {0}
  PROVE  LET r == Pack(d, keys, len)
         IN  /\ Len(r.buf) <= len /\ Empties(r.buf) # {}
             /\ Unpacked(r, d, keys, n)
<1>0. PICK f : Emitted(f, d, keys, n, len) /\ Pack(d, keys, len) = Ended(f[n], len)
  BY PackLoop
<1>1. /\ f \in [0 .. n -> Acc] /\ f[0] = NoRecords
      /\ \A i \in 1 .. n : f[i] = Emit(f[i - 1], keys[i], d[keys[i]], len)
  BY <1>0 DEF Emitted
<1>2. Filled(f[0], d, keys, 0, len)
  <2>1. f[0] \in Acc /\ f[0].buf = <<>> /\ f[0].pos = 0 /\ f[0].overflow = FALSE
    <3>1. NoRecords.buf = <<>> /\ NoRecords.pos = 0 /\ NoRecords.overflow = FALSE
      BY DEF NoRecords
    <3> QED
      BY <1>1, <3>1
  <2>2. First(keys, 0) = {}
    BY DEF First
  <2>3. Starts(<<>>) = {1} /\ Len(<<>>) = 0 /\ <<>> \in Seq(Byte)
    BY DEF Starts
  <2>4. Records(<<>>, d, {})
    BY <2>3 DEF Records
  <2>5. Records(f[0].buf, d, First(keys, 0)) /\ f[0].pos = Len(f[0].buf)
    BY <2>1, <2>2, <2>3, <2>4
  <2>6. f[0].pos < len /\ 0 \in 0 .. 0 /\ (f[0].overflow <=> 0 < 0)
    BY <2>1
  <2> QED
    BY <2>1, <2>5, <2>6 DEF Filled
<1>3. Filled(f[n], d, keys, n, len)
  <2> DEFINE T == {i \in 0 .. n : Filled(f[i], d, keys, i, len)}
  <2>1. 0 \in T
    BY <1>2
  <2>2. ASSUME NEW i \in 0 .. n, i > 0, i - 1 \in T
        PROVE  i \in T
    <3>1. i \in 1 .. n /\ Filled(f[i - 1], d, keys, i - 1, len)
      BY <2>2
    <3>2. Filled(Emit(f[i - 1], keys[i], d[keys[i]], len), d, keys, i, len)
      BY <3>1, EmitFills
    <3> QED
      BY <1>1, <3>1, <3>2
  <2> HIDE DEF T
  <2>3. \A i \in 0 .. n : i > 0 /\ i - 1 \in T => i \in T
    BY <2>2
  <2>4. \A i \in 0 .. n : i \in T
    BY <2>1, <2>3, Reaches
  <2>5. n \in T
    BY <2>4
  <2> QED
    BY <2>5 DEF T
<1> DEFINE acc == f[n]
           s == acc.buf
<1>4. PICK m \in 0 .. n : Records(s, d, First(keys, m)) /\ (acc.overflow <=> m < n)
  BY <1>3 DEF Filled
<1>5. acc \in Acc /\ s \in Seq(Byte) /\ acc.pos = Len(s) /\ acc.pos < len /\ acc.pos \in Nat
  BY <1>3 DEF Filled, Acc
<1>6. Min({acc.pos, len - 1}) = Len(s)
  <2> DEFINE S == {acc.pos, len - 1}
  <2>1. S \in SUBSET Int /\ acc.pos \in S /\ \A y \in S : acc.pos <= y
    BY <1>5
  <2> HIDE DEF S
  <2>2. Min(S) = acc.pos
    BY <2>1, MinIs
  <2> QED
    BY <1>5, <2>2 DEF S
<1>7. SubSeq(s, 1, Len(s)) = s
  BY <1>5, SubSeqFull
<1>8. Pack(d, keys, len) = [acc EXCEPT !.buf = s \o <<NUL>>]
  BY <1>0, <1>6, <1>7 DEF Ended
<1>9. Pack(d, keys, len).buf = s \o <<NUL>> /\ Pack(d, keys, len).overflow = acc.overflow
  BY <1>5, <1>8 DEF Acc
<1>10. Len(s \o <<NUL>>) <= len
  <2>1. <<NUL>> \in Seq(Byte) /\ Len(<<NUL>>) = 1
    BY StringAssumption
  <2>2. Len(s \o <<NUL>>) = Len(s) + 1
    BY <1>5, <2>1, ConcatProperties
  <2> QED
    BY <1>5, <2>2
<1>11. First(keys, m) \in SUBSET Key /\ \A j \in First(keys, m) : d[j] \in Val
  BY DEF First
<1> HIDE DEF s
<1>12. Empties(s \o <<NUL>>) # {} /\ Unpack(s \o <<NUL>>) = {<<Name[k], d[k]>> : k \in First(keys, m)}
  <2>1. Empties(s \o <<NUL>>) = {Len(s) + 1} /\ Unpack(s \o <<NUL>>) = {<<Name[k], d[k]>> : k \in First(keys, m)}
    BY <1>4, <1>11, RecordsEnd
  <2> QED
    BY <2>1
<1> QED
  BY <1>4, <1>9, <1>10, <1>12 DEF Unpacked

\* The order of a call lists every variable once.
LEMMA OrderFacts ==
  ASSUME NEW S, IsFiniteSet(S), NEW keys \in SetToSeqs(S)
  PROVE  \E n \in Nat : /\ keys \in [1 .. n -> S] /\ First(keys, n) = S
                        /\ \A i, j \in 1 .. n : keys[i] = keys[j] => i = j
<1> DEFINE n == Cardinality(S)
<1>1. n \in Nat
  BY FS_CardinalityType
<1>2. keys \in [1 .. n -> S] /\ \A i, j \in 1 .. n : i # j => keys[i] # keys[j]
  BY DEF SetToSeqs
<1>3. keys \in Injection(1 .. n, S)
  BY <1>2 DEF Injection, IsInjective
<1>4. Cardinality(1 .. n) = n /\ IsFiniteSet(1 .. n)
  BY <1>1, FS_Interval
<1>5. keys \in Surjection(1 .. n, S)
  BY <1>3, <1>4, FS_Injection
<1>6. First(keys, n) = S
  BY <1>2, <1>5 DEF Surjection, First
<1> QED
  BY <1>1, <1>2, <1>6

\* What the two ends of nvram_getall are recorded as.
LEMMA AnswerFacts ==
  ASSUME NEW len, NEW ok, NEW buf, NEW met, Answer(len, ok, buf, met)
  PROVE  /\ last'.len = len /\ last'.ok = ok /\ last'.buf = buf
         /\ last'.met = RecordsOf(met) /\ last'.all = RecordsOf(Present)
BY DEF Answer

\* nvram_getall returns the records of what it met, or of a part of that if they do
\* not fit.
LEMMA EmitStep ==
  ASSUME PlainNames, PlainValues, Inv, NEW len \in Count, NEW live \in Met,
         NEW keys \in SetToSeqs(live),
         Answer(len, ~Pack(Listing, keys, len).overflow, Pack(Listing, keys, len).buf, live)
  PROVE  GetallUnpacks'
<1> DEFINE d  == Listing
           of == RecordsOf(live)
<1>1. d \in [Key -> Value] /\ len \in Nat \ {0}
  BY BufferAssumption DEF Inv, TypeInv, StoreType, Listing
<1>2. live \in SUBSET Present
  BY DEF Met
<1>3. live \in SUBSET Key /\ IsFiniteSet(live) /\ \A k \in live : d[k] \in Val
  <2>1. Present \in SUBSET Key /\ \A k \in Present : d[k] # Absent
    BY DEF Present
  <2> HIDE DEF d
  <2> QED
    BY <1>1, <1>2, <2>1, KeyAssumption, FS_Subset DEF Value
<1>4. of = {<<Name[k], d[k]>> : k \in live} /\ of \subseteq RecordsOf(Present)
  BY <1>2 DEF RecordsOf
<1> HIDE DEF d, of
<1>5. PICK n \in Nat : /\ keys \in [1 .. n -> live] /\ First(keys, n) = live
                       /\ \A i, j \in 1 .. n : keys[i] = keys[j] => i = j
  BY <1>3, OrderFacts
<1>6. keys \in [1 .. n -> Key] /\ \A j \in 1 .. n : d[keys[j]] \in Val
  BY <1>3, <1>5
<1> DEFINE r == Pack(d, keys, len)
<1>7. Len(r.buf) <= len /\ Empties(r.buf) # {} /\ Unpacked(r, d, keys, n)
  BY <1>1, <1>6, PackFacts
<1> HIDE DEF r
<1>8. PICK m \in 0 .. n : /\ Unpack(r.buf) = {<<Name[k], d[k]>> : k \in First(keys, m)}
                          /\ r.overflow <=> m < n
  BY <1>7 DEF Unpacked
<1>9. First(keys, m) \subseteq live
  BY <1>5 DEF First
<1>10. Unpack(r.buf) \subseteq of
  BY <1>4, <1>8, <1>9
<1>11. ~ r.overflow <=> Unpack(r.buf) = of
  <2>1. CASE m = n
    BY <1>4, <1>5, <1>8, <2>1
  <2>2. CASE m < n
    <3> DEFINE k == keys[m + 1]
    <3>1. m + 1 \in 1 .. n /\ k \in live /\ k \in Key
      BY <1>3, <1>5, <2>2
    <3>2. k \notin First(keys, m)
      BY <1>5, <3>1 DEF First
    <3> HIDE DEF k
    <3>3. \A j \in First(keys, m) : Name[j] # Name[k]
      BY <1>3, <1>9, <3>1, <3>2, StringAssumption
    <3>4. <<Name[k], d[k]>> \in of /\ <<Name[k], d[k]>> \notin Unpack(r.buf)
      BY <1>4, <1>8, <3>1, <3>3
    <3> QED
      BY <1>8, <2>2, <3>4
  <2> QED
    BY <2>1, <2>2
<1>12. r.buf # <<>>
  <2>1. Empties(<<>>) = {}
    BY DEF Empties
  <2> QED
    BY <1>7, <2>1
<1>13. /\ last'.len = len /\ last'.buf = r.buf /\ last'.ok = ~ r.overflow
       /\ last'.met = of /\ last'.all = RecordsOf(Present)
  BY AnswerFacts DEF r, d, of
<1> QED
  BY <1>4, <1>7, <1>10, <1>11, <1>12, <1>13 DEF GetallUnpacks

LEMMA GetallStep ==
  ASSUME PlainNames, PlainValues, Inv, NEW len \in Count, Getall(len)
  PROVE  GetallUnpacks'
<1>1. ASSUME NEW live \in Met, NEW keys \in SetToSeqs(live),
             Answer(len, ~Pack(Listing, keys, len).overflow, Pack(Listing, keys, len).buf, live)
      PROVE  GetallUnpacks'
  BY <1>1, EmitStep
<1>2. ASSUME Answer(len, FALSE, <<>>, {})
      PROVE  GetallUnpacks'
  <2>1. last'.len = len /\ last'.ok = FALSE /\ last'.buf = <<>>
    BY <1>2, AnswerFacts
  <2>2. Len(<<>>) <= len
    BY BufferAssumption
  <2> QED
    BY <2>1, <2>2 DEF GetallUnpacks
<1> QED
  BY <1>1, <1>2 DEF Getall

\* nvram_getall stays inside the caller's buffer.  It ends it with an empty string
\* that is the only one, unless it has no semaphore, when it touches nothing and
\* fails; taken apart, the buffer is what the call could read of the store if it
\* succeeded and a proper part of that if not, for any variables, order and size of
\* buffer, whichever files cannot be read.  A name with "=" in it, or a value with a
\* NUL, could not be taken apart.
THEOREM Unpacks ==
  ASSUME PlainNames, PlainValues
  PROVE  Spec => []GetallUnpacks
<1>1. Init => GetallUnpacks
  BY DEF Init, NoResult, GetallUnpacks
<1>2. ASSUME Inv, GetallUnpacks, [Next]_vars
      PROVE  GetallUnpacks'
  <2>1. CASE last'.op = "none"
    BY <2>1 DEF GetallUnpacks
  <2>2. CASE UNCHANGED vars
    BY <1>2, <2>2 DEF vars, GetallUnpacks
  <2>3. ASSUME NEW k \in Key, GetInt(k)
        PROVE  GetallUnpacks'
    <3>1. last'.op = "get_int"
      BY <2>3 DEF GetInt
    <3> QED
      BY <3>1 DEF GetallUnpacks
  <2> QED
    BY <1>2, <2>1, <2>2, <2>3, Answers, GetallStep
<1> QED
  BY <1>1, <1>2, Invariance, PTL DEF Spec
-----------------------------------------------------------------------------
(* nvram_get_int: parse_int and atoi read the same number.                 *)

State == [at : {"blank", "number", "done"}, neg : BOOLEAN, n : Nat]
Blank == [at |-> "blank", neg |-> FALSE, n |-> 0]

LEMMA DigitFacts ==
  /\ ~ IsDigit(" ") /\ ~ IsDigit("-") /\ ~ IsDigit("+")
  /\ \A c : IsDigit(c) => DigitOf(c) \in Nat
<1>1. DOMAIN Digits = 1 .. 10
  BY DEF Digits
<1>2. \A i \in 1 .. 10 : Digits[i] \in {"0", "1", "2", "3", "4", "5", "6", "7", "8", "9"}
  BY DEF Digits
<1>3. \A c : IsDigit(c) => c \in {"0", "1", "2", "3", "4", "5", "6", "7", "8", "9"}
  BY <1>1, <1>2 DEF IsDigit, ToSet
<1>4. ~ IsDigit(" ") /\ ~ IsDigit("-") /\ ~ IsDigit("+")
  <2>1. ASSUME NEW c, c \in {" ", "-", "+"} PROVE ~ IsDigit(c)
    <3>1. c \notin {"0", "1", "2", "3", "4", "5", "6", "7", "8", "9"}
      BY <2>1
    <3> QED
      BY <1>3, <3>1
  <2> QED
    BY <2>1
<1>5. ASSUME NEW c, IsDigit(c) PROVE DigitOf(c) \in Nat
  <2>1. \E i \in 1 .. 10 : Digits[i] = c
    BY <1>1, <1>5 DEF IsDigit, ToSet
  <2>2. (CHOOSE i \in 1 .. 10 : Digits[i] = c) \in 1 .. 10
    BY <2>1
  <2> DEFINE x == CHOOSE i \in 1 .. 10 : Digits[i] = c
  <2>3. x \in 1 .. 10
    BY <2>2
  <2> HIDE DEF x
  <2>4. x - 1 \in Nat
    BY <2>3
  <2> QED
    BY <2>4 DEF DigitOf, x
<1> QED
  BY <1>4, <1>5

\* atoi's four ways to take a byte.
LEMMA AtoiSkips ==
  ASSUME NEW s, NEW c, s.at = "blank", c = " "
  PROVE  AtoiStep(s, c) = s
BY DigitFacts DEF AtoiStep, Sign

LEMMA AtoiSigns ==
  ASSUME NEW s \in State, NEW c, s.at = "blank", c \in Sign
  PROVE  /\ AtoiStep(s, c) \in State
         /\ AtoiStep(s, c).at = "number" /\ AtoiStep(s, c).n = s.n
         /\ AtoiStep(s, c).neg = (c = "-")
<1>1. c # " " /\ ~ IsDigit(c)
  BY DigitFacts DEF Sign
<1>2. AtoiStep(s, c) = [s EXCEPT !.at = "number", !.neg = (c = "-")]
  BY <1>1 DEF AtoiStep
<1> QED
  BY <1>2 DEF State

LEMMA AtoiCounts ==
  ASSUME NEW s \in State, NEW c, s.at # "done", IsDigit(c)
  PROVE  /\ AtoiStep(s, c) \in State
         /\ AtoiStep(s, c).at = "number" /\ AtoiStep(s, c).neg = s.neg
         /\ AtoiStep(s, c).n = 10 * s.n + DigitOf(c)
<1>1. c # " " /\ c \notin Sign /\ DigitOf(c) \in Nat
  BY DigitFacts DEF Sign
<1>2. AtoiStep(s, c) = [s EXCEPT !.at = "number", !.n = 10 * @ + DigitOf(c)]
  BY <1>1 DEF AtoiStep
<1>3. s.n \in Nat /\ 10 * s.n + DigitOf(c) \in Nat
  <2>1. s.n \in Nat
    BY DEF State
  <2>2. \A x, y \in Nat : 10 * x + y \in Nat
    OBVIOUS
  <2> QED
    BY <1>1, <2>1, <2>2
<1> QED
  BY <1>2, <1>3 DEF State

LEMMA AtoiStops ==
  ASSUME NEW s \in State, NEW c,
         s.at # "blank" \/ (c # " " /\ c \notin Sign),
         s.at = "done" \/ ~ IsDigit(c)
  PROVE  /\ AtoiStep(s, c) \in State
         /\ AtoiStep(s, c).at = "done" /\ AtoiStep(s, c).neg = s.neg
         /\ AtoiStep(s, c).n = s.n
<1>1. AtoiStep(s, c) = [s EXCEPT !.at = "done"]
  BY DEF AtoiStep
<1> QED
  BY <1>1 DEF State

LEMMA AtoiType ==
  ASSUME NEW s \in State, NEW c
  PROVE  AtoiStep(s, c) \in State
<1>1. CASE s.at = "blank" /\ c = " "
  BY <1>1, AtoiSkips
<1>2. CASE s.at = "blank" /\ c \in Sign
  BY <1>2, AtoiSigns
<1>3. CASE s.at # "done" /\ IsDigit(c)
  BY <1>3, AtoiCounts
<1>4. CASE /\ s.at # "blank" \/ (c # " " /\ c \notin Sign)
           /\ s.at = "done" \/ ~ IsDigit(c)
  BY <1>4, AtoiStops
<1> QED
  BY <1>1, <1>2, <1>3, <1>4

\* f is where atoi is after each byte.
Scanned(f, t) ==
  /\ f \in [0 .. Len(t) -> State] /\ f[0] = Blank
  /\ \A i \in 1 .. Len(t) : f[i] = AtoiStep(f[i - 1], t[i])

LEMMA AtoiLoop ==
  ASSUME NEW t, Len(t) \in Nat
  PROVE  \E f : Scanned(f, t) /\ Atoi(t) = IF f[Len(t)].neg THEN -f[Len(t)].n ELSE f[Len(t)].n
<1> DEFINE n == Len(t)
           F == [i \in 1 .. n |-> [s \in State |-> AtoiStep(s, t[i])]]
<1>1. Blank \in State
  BY DEF Blank, State
<1>2. F \in [1 .. n -> [State -> State]]
  BY AtoiType
<1>3. \A s \in State, i \in 1 .. n : F[i][s] = AtoiStep(s, t[i])
  OBVIOUS
<1> HIDE DEF F
<1>4. Loops(n, State, Blank, F) # {}
  BY <1>1, <1>2, LoopExists
<1>5. PICK f \in [0 .. n -> State] : f[0] = Blank /\ \A i \in 1 .. n : f[i] = F[i][f[i - 1]]
  BY <1>4 DEF Loops
<1>6. \A i \in 1 .. n : f[i] = AtoiStep(f[i - 1], t[i])
  BY <1>3, <1>5
<1> DEFINE after == CHOOSE g : g = [i \in 0 .. Len(t) |->
                      IF i = 0 THEN [at |-> "blank", neg |-> FALSE, n |-> 0]
                      ELSE AtoiStep(g[i - 1], t[i])]
<1>7. f = [i \in 0 .. Len(t) |-> IF i = 0 THEN [at |-> "blank", neg |-> FALSE, n |-> 0]
                                 ELSE AtoiStep(f[i - 1], t[i])]
  BY <1>5, <1>6 DEF Blank
<1>8. after = [i \in 0 .. Len(t) |-> IF i = 0 THEN [at |-> "blank", neg |-> FALSE, n |-> 0]
                                     ELSE AtoiStep(after[i - 1], t[i])]
  BY <1>7
<1>9. Atoi(t) = IF after[Len(t)].neg THEN -after[Len(t)].n ELSE after[Len(t)].n
  BY DEF Atoi
<1> HIDE DEF after
<1>10. \A i \in 0 .. n : after[i] = IF i = 0 THEN [at |-> "blank", neg |-> FALSE, n |-> 0]
                                    ELSE AtoiStep(after[i - 1], t[i])
  BY <1>8, Zenon
<1>11. after[0] = Blank /\ \A i \in 1 .. n : after[i] = AtoiStep(after[i - 1], t[i])
  BY <1>10 DEF Blank
<1>12. \A i \in 0 .. n : after[i] \in State
  <2> DEFINE T == {i \in 0 .. n : after[i] \in State}
  <2>1. 0 \in T
    BY <1>1, <1>11
  <2>2. \A i \in 0 .. n : i > 0 /\ i - 1 \in T => i \in T
    BY <1>11, AtoiType
  <2> HIDE DEF T
  <2>3. \A i \in 0 .. n : i \in T
    BY <2>1, <2>2, Reaches
  <2> QED
    BY <2>3 DEF T
<1>13. DOMAIN after = 0 .. n /\ after = [i \in DOMAIN after |-> after[i]]
  BY <1>8
<1>14. after \in [0 .. n -> State]
  BY <1>12, <1>13
<1>15. Scanned(after, t)
  BY <1>11, <1>14 DEF Scanned
<1> QED
  BY <1>9, <1>15

\* f is the number that the first digits make.
Added(f, s) ==
  /\ f \in [0 .. Len(s) -> Nat] /\ f[0] = 0
  /\ \A i \in 1 .. Len(s) : f[i] = 10 * f[i - 1] + DigitOf(s[i])

\* parse_int, with the loop over the digits taken out.
Parsed(t, l, n) ==
  LET x == IF l.neg THEN -n ELSE n
  IN  IF BadByte \in ToSet(t) \/ l.digits = <<>> \/ x \notin CInt THEN 0 ELSE x

LEMMA ParseLoop ==
  ASSUME NEW t, NEW l, l = Leading(Trim(t)), Len(l.digits) \in Nat,
         \A i \in 1 .. Len(l.digits) : IsDigit(l.digits[i])
  PROVE  \E f : Added(f, l.digits) /\ ParseInt(t) = Parsed(t, l, f[Len(l.digits)])
<1> DEFINE s == l.digits
           n == Len(s)
           F == [i \in 1 .. n |-> [x \in Nat |-> 10 * x + DigitOf(s[i])]]
<1>1. \A x \in Nat, i \in 1 .. n : 10 * x + DigitOf(s[i]) \in Nat
  <2> SUFFICES ASSUME NEW x \in Nat, NEW i \in 1 .. n PROVE 10 * x + DigitOf(s[i]) \in Nat
    OBVIOUS
  <2>1. DigitOf(s[i]) \in Nat
    BY DigitFacts
  <2> QED
    BY <2>1
<1>2. F \in [1 .. n -> [Nat -> Nat]]
  BY <1>1
<1>3. \A x \in Nat, i \in 1 .. n : F[i][x] = 10 * x + DigitOf(s[i])
  OBVIOUS
<1> HIDE DEF F
<1>4. Loops(n, Nat, 0, F) # {}
  BY <1>2, LoopExists
<1>5. PICK f \in [0 .. n -> Nat] : f[0] = 0 /\ \A i \in 1 .. n : f[i] = F[i][f[i - 1]]
  BY <1>4 DEF Loops
<1>6. ASSUME NEW i \in 1 .. n PROVE f[i] = 10 * f[i - 1] + DigitOf(s[i])
  <2>1. f[i - 1] \in Nat /\ f[i] = F[i][f[i - 1]]
    BY <1>5
  <2> QED
    BY <1>3, <2>1, Zenon
<1> DEFINE read == CHOOSE g : g = [i \in 0 .. Len(l.digits) |->
                     IF i = 0 THEN 0 ELSE 10 * g[i - 1] + DigitOf(l.digits[i])]
<1>7. f = [i \in 0 .. Len(l.digits) |-> IF i = 0 THEN 0 ELSE 10 * f[i - 1] + DigitOf(l.digits[i])]
  BY <1>5, <1>6
<1>8. read = [i \in 0 .. Len(l.digits) |-> IF i = 0 THEN 0 ELSE 10 * read[i - 1] + DigitOf(l.digits[i])]
  BY <1>7
<1>9. ParseInt(t) = Parsed(t, l, read[Len(l.digits)])
  BY DEF ParseInt, Parsed
<1> HIDE DEF read
<1>10. \A i \in 0 .. n : read[i] = IF i = 0 THEN 0 ELSE 10 * read[i - 1] + DigitOf(s[i])
  BY <1>8, Zenon
<1>11. read[0] = 0 /\ \A i \in 1 .. n : read[i] = 10 * read[i - 1] + DigitOf(s[i])
  BY <1>10
<1>12. \A i \in 0 .. n : read[i] \in Nat
  <2> DEFINE T == {i \in 0 .. n : read[i] \in Nat}
  <2>1. 0 \in T
    BY <1>11
  <2>2. \A i \in 0 .. n : i > 0 /\ i - 1 \in T => i \in T
    BY <1>1, <1>11
  <2> HIDE DEF T
  <2>3. \A i \in 0 .. n : i \in T
    BY <2>1, <2>2, Reaches
  <2> QED
    BY <2>3 DEF T
<1>13. DOMAIN read = 0 .. n /\ read = [i \in DOMAIN read |-> read[i]]
  BY <1>8
<1>14. read \in [0 .. n -> Nat]
  BY <1>12, <1>13
<1>15. Added(read, s)
  BY <1>11, <1>14 DEF Added
<1> QED
  BY <1>9, <1>15

LEMMA MaxIs ==
  ASSUME NEW S \in SUBSET Int, NEW x \in S, \A y \in S : x >= y
  PROVE  Max(S) = x
<1>1. \A y \in S : (\A z \in S : y >= z) => y = x
  OBVIOUS
<1>2. Max(S) \in S /\ \A z \in S : Max(S) >= z
  BY DEF Max
<1> QED
  BY <1>1, <1>2

LEMMA PartFacts ==
  ASSUME NEW t \in Seq(Byte), NEW a \in Nat \ {0}, NEW b \in Nat, b <= Len(t), a <= b + 1
  PROVE  /\ SubSeq(t, a, b) \in Seq(Byte) /\ Len(SubSeq(t, a, b)) = b - a + 1
         /\ \A j \in 1 .. b - a + 1 : SubSeq(t, a, b)[j] = t[a + j - 1]
<1>1. Len(t) \in Nat /\ \A i \in a .. b : t[i] \in Byte
  OBVIOUS
<1> DEFINE u == SubSeq(t, a, b)
<1>2. u \in Seq(Byte) /\ Len(u) = (IF a <= b THEN b - a + 1 ELSE 0)
      /\ \A i \in 1 .. b - a + 1 : u[i] = t[a + i - 1]
  BY <1>1, SubSeqProperties
<1> HIDE DEF u
<1>3. Len(u) = b - a + 1
  BY <1>2
<1> QED
  BY <1>2, <1>3 DEF u

IsBlank(c) == c = " "
IsMinus(c) == c = "-"

\* s is t without the blanks before its byte a and after its byte b.
Trimmed(t, s, a, b) ==
  /\ a \in 1 .. Len(t) /\ b \in a .. Len(t)
  /\ ~ IsBlank(t[a])
  /\ \A i \in 1 .. a - 1 : IsBlank(t[i])
  /\ \A i \in b + 1 .. Len(t) : IsBlank(t[i])
  /\ s \in Seq(Byte) /\ Len(s) = b - a + 1
  /\ \A j \in 1 .. b - a + 1 : s[j] = t[a + j - 1]

LEMMA TrimFacts ==
  ASSUME NEW t \in Seq(Byte), \E i \in 1 .. Len(t) : ~ IsBlank(t[i])
  PROVE  \E a, b : Trimmed(t, Trim(t), a, b)
<1> DEFINE K == {i \in DOMAIN t : ~ IsBlank(t[i])}
<1>1. Len(t) \in Nat /\ DOMAIN t = 1 .. Len(t)
  OBVIOUS
<1>2. K # {} /\ K \in SUBSET Nat /\ K \in SUBSET Int /\ \A i \in K : i <= Len(t) /\ i >= 0
  BY <1>1
<1>3. PICK a \in K : \A j \in K : a <= j
  BY <1>2, LeastExists
<1>4. PICK b \in K : \A j \in K : b >= j
  BY <1>1, <1>2, GreatestExists
<1>5. Trim(t) = IF K = {} THEN <<>> ELSE SubSeq(t, Min(K), Max(K))
  BY DEF Trim, IsBlank
<1>6. a \in 1 .. Len(t) /\ b \in a .. Len(t) /\ ~ IsBlank(t[a])
  BY <1>1, <1>3, <1>4
<1>7. \A i \in 1 .. a - 1 : IsBlank(t[i])
  BY <1>1, <1>3
<1>8. \A i \in b + 1 .. Len(t) : IsBlank(t[i])
  BY <1>1, <1>4
<1> HIDE DEF K
<1>9. Min(K) = a /\ Max(K) = b
  BY <1>2, <1>3, <1>4, MinIs, MaxIs
<1>10. Trim(t) = SubSeq(t, a, b)
  BY <1>2, <1>5, <1>9
<1>11. Trimmed(t, SubSeq(t, a, b), a, b)
  BY <1>1, <1>6, <1>7, <1>8, PartFacts DEF Trimmed
<1> QED
  BY <1>10, <1>11

\* s has a sign in its first p bytes and digits up to byte e.
Led(s, l, p, e) ==
  /\ p \in {0, 1} /\ e \in p .. Len(s)
  /\ p = 1 => s[1] \in Sign
  /\ p = 0 => s = <<>> \/ s[1] \notin Sign
  /\ \A i \in p + 1 .. e : IsDigit(s[i])
  /\ e < Len(s) => ~ IsDigit(s[e + 1])
  /\ l.neg = (p = 1 /\ IsMinus(s[1]))
  /\ l.digits \in Seq(Byte) /\ Len(l.digits) = e - p
  /\ \A j \in 1 .. e - p : l.digits[j] = s[p + j]

LEMMA LeadingFacts ==
  ASSUME NEW s \in Seq(Byte)
  PROVE  \E p, e : Led(s, Leading(s), p, e)
<1> DEFINE p == IF s # <<>> /\ s[1] \in Sign THEN 1 ELSE 0
           R == {e \in DOMAIN s : \A i \in p + 1 .. e : IsDigit(s[i])}
           S == {p} \cup R
<1>1. Len(s) \in Nat /\ DOMAIN s = 1 .. Len(s) /\ (s # <<>> <=> Len(s) > 0)
  OBVIOUS
<1>2. p \in {0, 1} /\ p <= Len(s) /\ (p = 1 => s[1] \in Sign) /\ (p = 0 => s = <<>> \/ s[1] \notin Sign)
  BY <1>1
<1>3. Leading(s) = [neg |-> p = 1 /\ IsMinus(s[1]), digits |-> SubSeq(s, p + 1, Max(S))]
  BY DEF Leading, IsMinus
<1> HIDE DEF p
<1>4. S \in SUBSET Int /\ S # {} /\ \A i \in S : i <= Len(s) /\ i >= 0
  BY <1>1, <1>2
<1>5. PICK e \in S : \A j \in S : e >= j
  BY <1>1, <1>4, GreatestExists
<1>6. e \in p .. Len(s)
  BY <1>1, <1>2, <1>4, <1>5
<1>7. \A i \in p + 1 .. e : IsDigit(s[i])
  <2>1. CASE e = p
    BY <1>2, <2>1
  <2>2. CASE e \in R
    BY <2>2
  <2> QED
    BY <1>5, <2>1, <2>2
<1>8. e < Len(s) => ~ IsDigit(s[e + 1])
  <2> SUFFICES ASSUME e < Len(s), IsDigit(s[e + 1]) PROVE FALSE
    OBVIOUS
  <2>1. e + 1 \in DOMAIN s
    BY <1>1, <1>2, <1>6
  <2>2. \A i \in p + 1 .. e + 1 : IsDigit(s[i])
    BY <1>2, <1>6, <1>7
  <2>3. e + 1 \in S
    BY <2>1, <2>2
  <2> QED
    BY <1>5, <1>6, <2>3
<1> HIDE DEF R, S
<1>9. Max(S) = e
  BY <1>4, <1>5, MaxIs
<1> DEFINE l == Leading(s)
           g == SubSeq(s, p + 1, e)
<1>10. l.neg = (p = 1 /\ IsMinus(s[1])) /\ l.digits = g
  <2> DEFINE m == p = 1 /\ IsMinus(s[1])
             d == SubSeq(s, p + 1, Max(S))
  <2>0. l = [neg |-> m, digits |-> d]
    BY <1>3
  <2> HIDE DEF l, m, d
  <2>3. l.neg = m /\ l.digits = d
    BY <2>0
  <2>1. l.neg = (p = 1 /\ IsMinus(s[1]))
    BY <2>3 DEF m
  <2>2. l.digits = SubSeq(s, p + 1, Max(S))
    BY <2>3 DEF d
  <2> QED
    BY <1>9, <2>1, <2>2
<1>11. /\ g \in Seq(Byte) /\ Len(g) = e - (p + 1) + 1
       /\ \A j \in 1 .. e - (p + 1) + 1 : g[j] = s[p + 1 + j - 1]
  <2>1. p + 1 \in Nat \ {0} /\ e \in Nat /\ e <= Len(s) /\ p + 1 <= e + 1
    BY <1>2, <1>6
  <2> QED
    BY <2>1, PartFacts
<1> HIDE DEF g
<1>12. e - (p + 1) + 1 = e - p /\ \A j \in 1 .. e - p : p + 1 + j - 1 = p + j
  BY <1>2, <1>6
<1>13. g \in Seq(Byte) /\ Len(g) = e - p /\ \A j \in 1 .. e - p : g[j] = s[p + j]
  BY <1>11, <1>12
<1> HIDE DEF l
<1>14. Led(s, l, p, e)
  BY <1>2, <1>6, <1>7, <1>8, <1>10, <1>13 DEF Led
<1> QED
  BY <1>14 DEF l

\* Where atoi is after i bytes, and what it has read, in terms of parse_int.
ReadSoFar(x, i, a, p, e, l, g) ==
  /\ i <= a - 1 => x = Blank
  /\ i \in a - 1 + p .. a - 1 + e =>
       /\ x.n = g[i - (a - 1 + p)] /\ x.neg = l.neg
       /\ x.at = IF i = a - 1 THEN "blank" ELSE "number"
  /\ i > a - 1 + e => x.n = g[e - p] /\ x.neg = l.neg /\ x.at = "done"

LEMMA ScanStep ==
  ASSUME NEW t \in Seq(Byte), NEW s, NEW a, NEW b, Trimmed(t, s, a, b),
         NEW l, NEW p, NEW e, Led(s, l, p, e), NEW g, Added(g, l.digits),
         NEW i \in 1 .. Len(t), NEW x \in State, ReadSoFar(x, i - 1, a, p, e, l, g)
  PROVE  ReadSoFar(AtoiStep(x, t[i]), i, a, p, e, l, g)
<1> DEFINE y == AtoiStep(x, t[i])
           L == Len(s)
<1>1. /\ Len(t) \in Nat /\ a \in 1 .. Len(t) /\ b \in a .. Len(t) /\ ~ IsBlank(t[a])
      /\ s \in Seq(Byte) /\ L = b - a + 1
  BY DEF Trimmed
<1>2. /\ \A j \in 1 .. a - 1 : IsBlank(t[j])
      /\ \A j \in b + 1 .. Len(t) : IsBlank(t[j])
      /\ \A j \in 1 .. L : s[j] = t[a + j - 1]
  BY <1>1 DEF Trimmed
<1>3. /\ p \in {0, 1} /\ e \in p .. L /\ (p = 1 => s[1] \in Sign)
      /\ \A j \in p + 1 .. e : IsDigit(s[j])
      /\ e < L => ~ IsDigit(s[e + 1])
      /\ l.neg = (p = 1 /\ IsMinus(s[1]))
  BY DEF Led
<1>4. p = 0 => s[1] \notin Sign
  <2>1. s # <<>>
    BY <1>1
  <2> QED
    BY <2>1 DEF Led
<1>5. \A j \in 1 .. e - p : l.digits[j] = s[p + j]
  BY DEF Led
<1>6. /\ Len(l.digits) = e - p /\ g \in [0 .. e - p -> Nat] /\ g[0] = 0
      /\ \A j \in 1 .. e - p : g[j] = 10 * g[j - 1] + DigitOf(l.digits[j])
  BY DEF Led, Added
<1>7. \A c : IsBlank(c) => ~ IsDigit(c)
  BY DigitFacts DEF IsBlank
<1> HIDE DEF L, y
<1>8. CASE i <= a - 1
  <2>1. x = Blank /\ IsBlank(t[i])
    BY <1>1, <1>2, <1>8 DEF ReadSoFar
  <2>2. y = Blank
    <3>1. x.at = "blank" /\ t[i] = " "
      BY <2>1 DEF Blank, IsBlank
    <3>2. y = x
      BY <3>1, AtoiSkips DEF y
    <3> QED
      BY <2>1, <3>2
  <2>3. Blank.at = "blank" /\ Blank.neg = FALSE /\ Blank.n = 0
    BY DEF Blank
  <2>4. i <= a - 1 + e
    BY <1>1, <1>3, <1>8
  <2>5. i \in a - 1 + p .. a - 1 + e => i = a - 1 /\ p = 0 /\ i - (a - 1 + p) = 0
    BY <1>1, <1>3, <1>8
  <2>6. p = 0 => l.neg = FALSE
    <3>1. p = 0 => ~(p = 1)
      OBVIOUS
    <3> QED
      BY <1>3, <3>1, Zenon
  <2>7. ~(i > a - 1 + e)
    BY <1>1, <1>3, <2>4
  <2>8. ReadSoFar(y, i, a, p, e, l, g)
    BY <1>6, <2>2, <2>3, <2>5, <2>6, <2>7 DEF ReadSoFar
  <2> QED
    BY <2>8 DEF y
<1>9. CASE i = a /\ p = 1
  <2>1. x = Blank
    BY <1>1, <1>9 DEF ReadSoFar
  <2>2. t[i] = s[1]
    <3>1. 1 \in 1 .. L /\ a + 1 - 1 = a
      BY <1>1
    <3> QED
      BY <1>2, <1>9, <3>1
  <2>3. x.at = "blank" /\ x.n = 0
    BY <2>1 DEF Blank
  <2>4. y.at = "number" /\ y.n = 0 /\ y.neg = (IsMinus(s[1]))
    BY <1>3, <1>9, <2>2, <2>3, AtoiSigns DEF y, IsMinus
  <2>5. ~(i <= a - 1) /\ ~(i > a - 1 + e) /\ i # a - 1 /\ i - (a - 1 + p) = 0
    BY <1>1, <1>3, <1>9
  <2>7. y.neg = l.neg
    <3>1. CASE IsMinus(s[1])
      <4>1. (p = 1 /\ IsMinus(s[1])) = TRUE /\ IsMinus(s[1]) = TRUE
        BY <1>9, <3>1
      <4> QED
        BY <1>3, <2>4, <4>1
    <3>2. CASE ~ IsMinus(s[1])
      <4>1. (p = 1 /\ IsMinus(s[1])) = FALSE /\ IsMinus(s[1]) = FALSE
        BY <3>2
      <4> QED
        BY <1>3, <2>4, <4>1
    <3> QED
      BY <3>1, <3>2
  <2>6. ReadSoFar(y, i, a, p, e, l, g)
    BY <1>6, <2>4, <2>5, <2>7 DEF ReadSoFar
  <2> QED
    BY <2>6 DEF y
<1>10. CASE i \in a + p .. a - 1 + e
  <2> DEFINE j == i - (a - 1 + p)
  <2>1. /\ j \in 1 .. e - p /\ i - 1 - (a - 1 + p) = j - 1 /\ i - 1 \in a - 1 + p .. a - 1 + e
        /\ p + j \in 1 .. L /\ p + j \in p + 1 .. e /\ a + (p + j) - 1 = i
    BY <1>1, <1>3, <1>10
  <2>2. x.n = g[j - 1] /\ x.neg = l.neg /\ x.at # "done"
    BY <2>1 DEF ReadSoFar
  <2>3. t[i] = s[p + j] /\ l.digits[j] = s[p + j]
    <3>1. s[p + j] = t[a + (p + j) - 1]
      BY <1>2, <2>1
    <3> QED
      BY <1>5, <2>1, <3>1
  <2>4. IsDigit(t[i])
    BY <1>3, <2>1, <2>3
  <2>5. y.at = "number" /\ y.neg = x.neg /\ y.n = 10 * x.n + DigitOf(t[i])
    BY <2>2, <2>4, AtoiCounts DEF y
  <2>6. y.n = g[j]
    BY <1>6, <2>1, <2>2, <2>3, <2>5
  <2>7. ~(i <= a - 1) /\ ~(i > a - 1 + e) /\ i # a - 1
    BY <1>1, <1>3, <1>10
  <2>8. ReadSoFar(y, i, a, p, e, l, g)
    BY <2>2, <2>5, <2>6, <2>7 DEF ReadSoFar
  <2> QED
    BY <2>8 DEF y
<1>11. CASE i = a + e
  <2>1. i - 1 \in a - 1 + p .. a - 1 + e /\ i - 1 - (a - 1 + p) = e - p /\ (i - 1 = a - 1 => e = 0 /\ p = 0)
    BY <1>1, <1>3, <1>11
  <2>2. x.n = g[e - p] /\ x.neg = l.neg /\ x.at = IF i - 1 = a - 1 THEN "blank" ELSE "number"
    BY <2>1 DEF ReadSoFar
  <2>3. ~ IsDigit(t[i])
    <3>1. CASE e < L
      <4>1. e + 1 \in 1 .. L /\ a + (e + 1) - 1 = i
        BY <1>1, <1>3, <1>11, <3>1
      <4>2. s[e + 1] = t[a + (e + 1) - 1]
        BY <1>2, <4>1
      <4> QED
        BY <1>3, <3>1, <4>1, <4>2
    <3>2. CASE e = L
      <4>1. i \in b + 1 .. Len(t)
        BY <1>1, <1>11, <3>2
      <4> QED
        BY <1>2, <1>7, <4>1
    <3> QED
      BY <1>1, <1>3, <3>1, <3>2
  <2>4. x.at # "blank" \/ (~ IsBlank(t[i]) /\ t[i] \notin Sign)
    <3>1. CASE i - 1 = a - 1
      <4>1. i = a /\ p = 0 /\ 1 \in 1 .. L /\ a + 1 - 1 = a
        BY <1>1, <1>11, <2>1, <3>1
      <4>2. t[a] = s[1]
        BY <1>2, <4>1
      <4> QED
        BY <1>1, <1>4, <4>1, <4>2
    <3>2. CASE i - 1 # a - 1
      BY <2>2, <3>2
    <3> QED
      BY <3>1, <3>2
  <2>5. y.at = "done" /\ y.neg = x.neg /\ y.n = x.n
    BY <2>3, <2>4, AtoiStops DEF y, IsBlank
  <2>6. ~(i <= a - 1) /\ i > a - 1 + e /\ i \notin a - 1 + p .. a - 1 + e
    BY <1>1, <1>3, <1>11
  <2>7. ReadSoFar(y, i, a, p, e, l, g)
    BY <2>2, <2>5, <2>6 DEF ReadSoFar
  <2> QED
    BY <2>7 DEF y
<1>12. CASE i > a + e
  <2>1. i - 1 > a - 1 + e /\ ~(i <= a - 1) /\ i > a - 1 + e /\ i \notin a - 1 + p .. a - 1 + e
    BY <1>1, <1>3, <1>12
  <2>2. x.n = g[e - p] /\ x.neg = l.neg /\ x.at = "done"
    BY <2>1 DEF ReadSoFar
  <2>3. y.at = "done" /\ y.neg = x.neg /\ y.n = x.n
    BY <2>2, AtoiStops DEF y
  <2>4. ReadSoFar(y, i, a, p, e, l, g)
    BY <2>1, <2>2, <2>3 DEF ReadSoFar
  <2> QED
    BY <2>4 DEF y
<1>13. \/ i <= a - 1
       \/ (i = a /\ p = 1)
       \/ i \in a + p .. a - 1 + e
       \/ i = a + e
       \/ i > a + e
  <2>1. p \in {0, 1} /\ e \in Int /\ e >= p /\ a \in Int /\ i \in Int
    BY <1>1, <1>3
  <2>2. CASE p = 0
    <3>1. i <= a - 1 \/ (a <= i /\ i <= a - 1 + e) \/ i = a + e \/ i > a + e
      BY <2>1
    <3>2. a + p = a
      BY <2>1, <2>2
    <3>3. a <= i /\ i <= a - 1 + e => i \in a + p .. a - 1 + e
      BY <2>1, <3>2
    <3> QED
      BY <3>1, <3>3, Zenon
  <2>3. CASE p = 1
    BY <2>1, <2>3
  <2> QED
    BY <2>1, <2>2, <2>3
<1> QED
  BY <1>8, <1>9, <1>10, <1>11, <1>12, <1>13

LEMMA NoSign ==
  ASSUME NEW n, n = 0
  PROVE  -n = 0
<1> DEFINE m == -n
<1>1. m \in Int /\ n + m = 0
  OBVIOUS
<1> HIDE DEF m
<1>2. m = 0
  BY <1>1
<1> QED
  BY <1>2 DEF m

\* parse_int and atoi read the same number from every text.
LEMMA ReadAlike ==
  ASSUME NEW t \in Seq(Byte), BadByte \notin ToSet(t)
  PROVE  ParseInt(t) = Expected(t)
<1>1. Len(t) \in Nat
  OBVIOUS
<1>2. PICK f : Scanned(f, t) /\ Atoi(t) = IF f[Len(t)].neg THEN -f[Len(t)].n ELSE f[Len(t)].n
  BY <1>1, AtoiLoop
<1>3. f \in [0 .. Len(t) -> State] /\ f[0] = Blank
      /\ \A i \in 1 .. Len(t) : f[i] = AtoiStep(f[i - 1], t[i])
  BY <1>2 DEF Scanned
<1> DEFINE l == Leading(Trim(t))
           x == f[Len(t)]
           blank == \A i \in 1 .. Len(t) : IsBlank(t[i])
<1>4. ASSUME blank PROVE Trim(t) = <<>>
  <2>1. DOMAIN t = 1 .. Len(t)
    OBVIOUS
  <2>2. {i \in DOMAIN t : ~ IsBlank(t[i])} = {}
    BY <1>4, <2>1
  <2> QED
    BY <2>2, Zenon DEF Trim, IsBlank
<1>5. \E p, e, s : Led(s, l, p, e)
  <2>1. Trim(t) \in Seq(Byte)
    <3>1. CASE \E i \in 1 .. Len(t) : ~ IsBlank(t[i])
      <4>1. PICK a, b : Trimmed(t, Trim(t), a, b)
        BY <3>1, TrimFacts
      <4> QED
        BY <4>1 DEF Trimmed
    <3>2. CASE blank
      <4>1. Trim(t) = <<>>
        BY <1>4, <3>2, Zenon
      <4>2. <<>> \in Seq(Byte)
        OBVIOUS
      <4> QED
        BY <4>1, <4>2, Zenon
    <3> QED
      BY <3>1, <3>2
  <2> QED
    BY <2>1, LeadingFacts
<1>6. Len(l.digits) \in Nat /\ \A i \in 1 .. Len(l.digits) : IsDigit(l.digits[i])
  <2>1. PICK p, e, s : Led(s, l, p, e)
    BY <1>5
  <2>2. p \in {0, 1} /\ e \in Int /\ e >= p /\ Len(l.digits) = e - p
    BY <2>1 DEF Led
  <2>3. \A i \in 1 .. e - p : l.digits[i] = s[p + i]
    BY <2>1 DEF Led
  <2>4. \A i \in p + 1 .. e : IsDigit(s[i])
    BY <2>1 DEF Led
  <2>5. ASSUME NEW i \in 1 .. e - p PROVE IsDigit(l.digits[i])
    <3>1. p + i \in p + 1 .. e
      BY <2>2
    <3> QED
      BY <2>3, <2>4, <3>1
  <2> QED
    BY <2>2, <2>5
<1>7. PICK g : Added(g, l.digits) /\ ParseInt(t) = Parsed(t, l, g[Len(l.digits)])
  BY <1>6, ParseLoop
<1>8. x.n = g[Len(l.digits)] /\ (g[Len(l.digits)] = 0 \/ x.neg = l.neg) /\ x.n \in Nat
  <2>1. CASE \E i \in 1 .. Len(t) : ~ IsBlank(t[i])
    <3>1. PICK a, b : Trimmed(t, Trim(t), a, b)
      BY <2>1, TrimFacts
    <3>2. PICK p, e : Led(Trim(t), l, p, e)
      BY <3>1, LeadingFacts DEF Trimmed
    <3> DEFINE T == {i \in 0 .. Len(t) : ReadSoFar(f[i], i, a, p, e, l, g)}
    <3>0. /\ a \in 1 .. Len(t) /\ b \in a .. Len(t) /\ p \in {0, 1} /\ e \in p .. b - a + 1
          /\ Len(l.digits) = e - p /\ (p = 0 => l.neg = FALSE)
      <4>1. a \in 1 .. Len(t) /\ b \in a .. Len(t) /\ Len(Trim(t)) = b - a + 1
        BY <3>1 DEF Trimmed
      <4>2. p \in {0, 1} /\ e \in p .. Len(Trim(t)) /\ Len(l.digits) = e - p
            /\ l.neg = (p = 1 /\ IsMinus(Trim(t)[1]))
        BY <3>2 DEF Led
      <4>3. p = 0 => l.neg = FALSE
        <5>1. p = 0 => ~(p = 1)
          OBVIOUS
        <5> QED
          BY <4>2, <5>1, Zenon
      <4> QED
        BY <4>1, <4>2, <4>3
    <3>6. g \in [0 .. e - p -> Nat] /\ g[0] = 0
      BY <1>7, <3>0 DEF Added
    <3>3. 0 \in T
      <4>1. f[0].at = "blank" /\ f[0].neg = FALSE /\ f[0].n = 0 /\ f[0] = Blank
        BY <1>3 DEF Blank
      <4>2. 0 \in a - 1 + p .. a - 1 + e => 0 = a - 1 /\ p = 0 /\ 0 - (a - 1 + p) = 0
        BY <1>1, <3>0
      <4>3. ~(0 > a - 1 + e)
        BY <1>1, <3>0
      <4>4. ReadSoFar(f[0], 0, a, p, e, l, g)
        BY <3>0, <3>6, <4>1, <4>2, <4>3 DEF ReadSoFar
      <4> QED
        BY <1>1, <4>4
    <3>4. ASSUME NEW i \in 0 .. Len(t), i > 0, i - 1 \in T
          PROVE  i \in T
      <4>1. i \in 1 .. Len(t) /\ f[i - 1] \in State /\ ReadSoFar(f[i - 1], i - 1, a, p, e, l, g)
        BY <1>1, <1>3, <3>4
      <4>2. ReadSoFar(AtoiStep(f[i - 1], t[i]), i, a, p, e, l, g)
        BY <1>7, <3>1, <3>2, <4>1, ScanStep
      <4> QED
        BY <1>3, <4>1, <4>2
    <3>5. ReadSoFar(x, Len(t), a, p, e, l, g)
      <4> HIDE DEF T
      <4>1. \A i \in 0 .. Len(t) : i > 0 /\ i - 1 \in T => i \in T
        BY <3>4
      <4>2. \A i \in 0 .. Len(t) : i \in T
        BY <1>1, <3>3, <4>1, Reaches
      <4>3. Len(t) \in T
        BY <1>1, <4>2
      <4> QED
        BY <4>3 DEF T
    <3> HIDE DEF x, l
    <3>7. Len(t) > a - 1 + e \/ (Len(t) \in a - 1 + p .. a - 1 + e /\ Len(t) - (a - 1 + p) = e - p)
      BY <1>1, <3>0
    <3>8. x.n = g[e - p] /\ x.neg = l.neg
      BY <3>5, <3>7 DEF ReadSoFar
    <3>9. g[e - p] \in Nat
      BY <3>0, <3>6
    <3> QED
      BY <3>0, <3>8, <3>9
  <2>2. CASE blank
    <3> DEFINE T == {i \in 0 .. Len(t) : f[i] = Blank}
    <3>1. 0 \in T
      BY <1>1, <1>3
    <3>2. ASSUME NEW i \in 0 .. Len(t), i > 0, i - 1 \in T
          PROVE  i \in T
      <4>1. i \in 1 .. Len(t) /\ f[i - 1] = Blank
        BY <1>1, <3>2
      <4>2. AtoiStep(f[i - 1], t[i]) = f[i - 1]
        <5>1. f[i - 1].at = "blank"
          BY <4>1 DEF Blank
        <5>2. t[i] = " "
          BY <2>2, <4>1 DEF IsBlank
        <5> QED
          BY <5>1, <5>2, AtoiSkips
      <4>3. f[i] = Blank
        BY <1>3, <4>1, <4>2
      <4> QED
        BY <4>3
    <3>3. x = Blank
      <4> HIDE DEF T
      <4>1. \A i \in 0 .. Len(t) : i > 0 /\ i - 1 \in T => i \in T
        BY <3>2
      <4>2. \A i \in 0 .. Len(t) : i \in T
        BY <1>1, <3>1, <4>1, Reaches
      <4>3. Len(t) \in T
        BY <1>1, <4>2
      <4> QED
        BY <4>3 DEF T
    <3>4. Len(l.digits) = 0
      <4>1. <<>> \in Seq(Byte) /\ Len(<<>>) = 0
        OBVIOUS
      <4>2. PICK p, e : Led(<<>>, l, p, e)
        BY <1>4, <2>2, <4>1, LeadingFacts
      <4>3. p \in {0, 1} /\ e \in p .. 0 /\ Len(l.digits) = e - p
        BY <4>1, <4>2 DEF Led
      <4> QED
        BY <4>3
    <3>5. g[Len(l.digits)] = 0
      BY <1>7, <3>4 DEF Added
    <3>6. x.n = 0
      BY <3>3 DEF Blank
    <3> QED
      BY <3>5, <3>6
  <2> QED
    BY <2>1, <2>2
<1> DEFINE n == g[Len(l.digits)]
           v == IF l.neg THEN -n ELSE n
<1>9. l.digits = <<>> => n = 0
  BY <1>7 DEF Added
<1>10. Atoi(t) = v
  <2> HIDE DEF l, x
  <2>1. Atoi(t) = IF x.neg THEN -x.n ELSE x.n
    BY <1>2 DEF x
  <2> QED
    BY <1>8, <2>1
<1>11. ParseInt(t) = IF l.digits = <<>> \/ v \notin CInt THEN 0 ELSE v
  BY <1>7 DEF Parsed
<1> HIDE DEF l, n
<1>12. n = 0 => -n = 0
  BY NoSign
<1>13. l.digits = <<>> => v = 0
  BY <1>9, <1>12, Zenon
<1> HIDE DEF v
<1> QED
  BY <1>10, <1>11, <1>13 DEF Expected

\* nvram_get_int is what atoi() makes of the value its key has when it returns, hit
\* or miss, attached or not, for texts and values of every length.
THEOREM Ints ==
  ASSUME \A t \in Val : BadByte \notin ToSet(t)
  PROVE  Spec => []IntsAgree
<1>1. \A t \in Val \cup Text : BadByte \notin ToSet(t) => ParseInt(t) = Expected(t)
  BY ReadAlike, StringAssumption
<1>2. Init => IntInv
  BY DEF Init, NoResult, IntInv
<1>3. Inv /\ IntInv /\ [Next]_vars => IntInv'
  BY IntStep
<1>4. Inv /\ IntInv => IntsAgree
  <2> SUFFICES ASSUME Inv, IntInv, last.op = "get_int"
               PROVE  last.int = LET v == ViewOf(last.key, seg, mem, files)
                                 IN  IF v = Absent THEN 0 ELSE Expected(v)
    BY <1>1 DEF IntsAgree, Misread
  <2> DEFINE v == ViewOf(last.key, seg, mem, files)
  <2>1. last.key \in Key /\ last.int = IF v = Absent THEN 0 ELSE ParseInt(v)
    BY DEF IntInv
  <2>2. v \in Value
    BY <2>1, ViewType DEF Inv, TypeInv, StoreType
  <2>3. v # Absent => ParseInt(v) = Expected(v)
    BY <1>1, <2>2 DEF Value
  <2> QED
    BY <2>1, <2>3
<1> QED
  BY <1>2, <1>3, <1>4, Invariance, PTL DEF Spec
=============================================================================
