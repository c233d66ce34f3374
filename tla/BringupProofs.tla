--------------------------- MODULE BringupProofs ---------------------------
(***************************************************************************)
(* Proofs about Bringup, for any number of processes, keys and values, any *)
(* reattach interval and any set of failures:                              *)
(*   TypeCorrect  the state is well typed; a published object is sized     *)
(*   Matches      a segment of what is mounted was read from nothing else  *)
(*   Whole        a segment is published with every file that can be read  *)
(*   CaughtUp     a detached process finds a segment within the interval   *)
(*   Shared       without concurrent nvram_inits there is one segment      *)
(***************************************************************************)
EXTENDS Bringup, TLAPS

-----------------------------------------------------------------------------
(* The inductive invariants.                                               *)

Object == [sized : BOOLEAN, dev : SUBSET Dev, vars : [Key -> Value], ready : BOOLEAN,
           from : SUBSET Dev, had : [Key -> SUBSET Value]]

Caller   == {"new", "reattach", "init", "lost", "again"}
Locking  == {"semget", "setval", "semop"}
Building == {"size", "stat", "list", "load", "release", "abandon"}
Place    == {"off", "idle", "act", "open", "map", "ready", "ready2", "dev", "unlink",
             "excl", "unname"} \cup Locking \cup Building

Locals == [pc : Place, ret : Caller \cup {"none"}, fd : Nat, sid : Dev,
           then : {"none", "open", "ready2", "size"}, todo : SUBSET Key]

\* A process with locals x has created the object x.fd and is not through with it.
Builder(x) == x.pc \in Building \/ x.then = "size"

\* It looks at the object x.fd, having been called by x.ret.
Looking(x) == x.pc \in {"map", "ready", "ready2", "dev"} \/ x.then = "ready2"

\* n is the number of objects there are.
LocalsOK(x, n) ==
  /\ x \in Locals /\ x.fd \in 0 .. n
  /\ x.pc \in Locking <=> x.then # "none"
  /\ x.pc = "open" \/ x.then = "open" \/ Looking(x) => x.ret \in Caller
  /\ Looking(x) \/ Builder(x) => x.fd # 0

TypeInv ==
  /\ root \in Dev /\ fs \in [Dev -> [Key -> Value]]
  /\ obj \in Seq(Object) /\ name \in 0 .. Len(obj)
  /\ sem \in [Dev -> {"none", "zero", NoProc} \cup Proc]
  /\ run \in [Proc -> Locals] /\ \A p \in Proc : LocalsOK(run[p], Len(obj))
  /\ seg \in [Proc -> 0 .. Len(obj)] /\ ops \in [Proc -> 0 .. Interval - 1]
  /\ missed \in [Proc -> Nat] /\ raced \in BOOLEAN

\* What a creator has made of its object so far, o being the object.
BuiltSoFar(x, o) ==
  /\ o.ready <=> x.pc = "release"
  /\ x.pc \in {"stat", "list", "load", "release", "abandon"} => o.sized
  /\ x.pc \in {"list", "load", "release"} => o.dev # {}
  /\ x.pc \in {"size", "stat"} \cup Locking => o.dev = {}
  /\ x.pc \in {"size", "stat", "list"} \cup Locking => o.vars = Nothing

\* No two processes write to one object; what is ready is complete; what was read
\* was read after the device was recorded.
BuildInv ==
  /\ \A p \in Proc : Builder(run[p]) =>
       /\ BuiltSoFar(run[p], obj[run[p].fd])
       /\ \A q \in Proc : Builder(run[q]) /\ run[q].fd = run[p].fd => p = q
  /\ \A o \in DOMAIN obj : obj[o].ready => obj[o].sized /\ obj[o].dev # {}

\* A mount happens once: before it everything was recorded and read underneath it.
FromInv ==
  \A o \in DOMAIN obj :
    /\ obj[o].dev \in {{}, {Bare}, {Part}}
    /\ obj[o].dev = {} => obj[o].from = {}
    /\ obj[o].dev = {Part} => obj[o].from \subseteq {Part}
    /\ root = Bare => obj[o].dev \subseteq {Bare} /\ obj[o].from \subseteq {Bare}

\* A creator whose filesystem is still mounted: each key it is through with has a
\* value its file had, the others are not loaded.
WholeInv ==
  \A p \in Proc : LET o == obj[run[p].fd] IN
    run[p].pc \in {"list", "load"} /\ o.dev = {root} =>
      \A k \in Key :
        /\ fs[root][k] \in o.had[k]
        /\ run[p].pc = "load" => IF k \in run[p].todo THEN o.vars[k] = Absent
                                 ELSE o.vars[k] \in o.had[k]

\* p is looking for a segment because it had none at an operation.
Seeking(p) == run[p].ret = "reattach" /\ run[p].pc # "act"

\* Operations are missed only while there is a usable segment; a search that began
\* with one there finds it; between searches the count runs behind ops.
CatchInv ==
  \A p \in Proc :
    /\ missed[p] > 0 => Usable
    /\ IF Seeking(p)
       THEN /\ missed[p] <= Interval
            /\ missed[p] > 0 => /\ run[p].pc \in {"open", "map", "ready", "dev"}
                                /\ run[p].pc # "open" => run[p].fd = name
       ELSE missed[p] <= IF ops[p] = 0 THEN Interval - 1 ELSE ops[p] - 1

\* p has seen that there is nothing to attach to, or is making it.
Making(p) == run[p].pc \in {"unlink", "excl", "unname"} \/ Builder(run[p])

\* No two processes are inside nvram_init.
Alone == \A p, q \in Proc : InInit(p) /\ InInit(q) => p = q

\* Then the name stands for what nvram_init looks at or makes; and it makes a segment
\* only when no published one is of what is mounted.
Tidy(p) ==
  /\ run[p].ret \notin {"lost", "again"}
  /\ run[p].ret = "init" /\ Looking(run[p]) => run[p].fd = name
  /\ run[p].pc = "excl" => name = 0
  /\ Builder(run[p]) => run[p].fd = name
  /\ Making(p) /\ run[p].pc # "release" => ~Usable
  /\ run[p].pc \in {"list", "load"} =>
       \A o \in DOMAIN obj : obj[o].ready => obj[o].dev # obj[run[p].fd].dev

\* No two published objects are of one filesystem, and what is published of the one
\* that is mounted has the name.
Single ==
  /\ \A o \in DOMAIN obj : obj[o].ready /\ obj[o].dev = {root} => o = name
  /\ \A n, o \in DOMAIN obj : obj[n].ready /\ obj[o].ready /\ obj[n].dev = obj[o].dev => n = o

\* What a process uses, or is about to, is published.
Held(p) ==
  /\ seg[p] # 0 => obj[seg[p]].ready
  /\ run[p].pc = "dev" => obj[run[p].fd].ready

OneInv ==
  /\ \A p \in Proc : Held(p)
  /\ raced \/ (Alone /\ Single /\ \A p \in Proc : Tidy(p))

-----------------------------------------------------------------------------
(* Types.                                                                  *)

\* The objects are numbered from 1, and each has its fields.
LEMMA Objects ==
  ASSUME TypeInv
  PROVE  /\ Len(obj) \in Nat /\ DOMAIN obj = 1 .. Len(obj)
         /\ \A o \in DOMAIN obj : obj[o] \in Object
         /\ \A p \in Proc : run[p].fd # 0 => run[p].fd \in DOMAIN obj
BY DEF TypeInv, LocalsOK

\* A process that goes somewhere with nothing in its locals.
LEMMA AtFields ==
  ASSUME NEW here \in Place
  PROVE  /\ At(here) \in Locals /\ At(here).pc = here /\ At(here).ret = "none"
         /\ At(here).fd = 0 /\ At(here).then = "none" /\ At(here).todo = {}
         /\ At(here).sid = Bare
BY DEF At, Locals, Dev

\* Somewhere that neither waits for a semaphore, nor looks at an object, nor makes one.
LEMMA AtOK ==
  ASSUME NEW here \in {"off", "idle", "act", "unlink", "excl", "unname"}, NEW n \in Nat
  PROVE  LocalsOK(At(here), n) /\ ~Builder(At(here)) /\ ~Looking(At(here))
<1>1. here \in Place
  BY DEF Place
<1> QED
  BY <1>1, AtFields DEF LocalsOK, Builder, Looking, Locking, Building, Caller

\* A call of attach begins.
LEMMA AttachOK ==
  ASSUME NEW p, NEW c \in Caller, NEW n \in Nat
  PROVE  /\ LocalsOK(Attach(p, c), n) /\ ~Builder(Attach(p, c)) /\ ~Looking(Attach(p, c))
         /\ Attach(p, c).pc = "open" /\ Attach(p, c).ret = c /\ Attach(p, c).then = "none"
<1>1. "open" \in Place
  BY DEF Place
<1>2. Attach(p, c) = [At("open") EXCEPT !.ret = c]
  BY DEF Attach
<1> QED
  BY <1>1, <1>2, AtFields DEF Locals, LocalsOK, Builder, Looking, Locking, Building, Caller

\* What attach falls back to is one of: the operation on the files, the removal of
\* the name, a second look, or nothing.
LEMMA FailedOK ==
  ASSUME TypeInv, NEW p \in Proc, run[p].ret \in Caller
  PROVE  /\ LocalsOK(Failed(p), Len(obj))
         /\ ~Builder(Failed(p)) /\ ~Looking(Failed(p))
         /\ Failed(p).ret \in {"none", "again"}
         /\ Failed(p).pc \in {"idle", "act", "unlink", "semget"}
         /\ Failed(p).pc = "unlink" => run[p].ret = "init"
         /\ Failed(p).ret # "none" => run[p].ret = "lost"
<1>1. Len(obj) \in Nat
  BY Objects
<1>2. /\ run[p].ret = "new" => Failed(p) = At("idle")
      /\ run[p].ret = "reattach" => Failed(p) = At("act")
      /\ run[p].ret = "init" => Failed(p) = At("unlink")
      /\ run[p].ret = "lost" => Failed(p) = [At("semget") EXCEPT !.then = "open", !.ret = "again"]
      /\ run[p].ret = "again" => Failed(p) = At("idle")
  BY Zenon DEF Failed
<1>3. CASE run[p].ret = "lost"
  <2>1. At("semget") \in Locals /\ At("semget").pc = "semget" /\ At("semget").fd = 0
    BY AtFields DEF Place, Locking
  <2>2. ASSUME NEW x \in Locals
        PROVE  LET y == [x EXCEPT !.then = "open", !.ret = "again"]
               IN  /\ y \in Locals /\ y.pc = x.pc /\ y.fd = x.fd
                   /\ y.then = "open" /\ y.ret = "again"
    BY DEF Locals, Caller
  <2>3. PICK x \in Locals : x = At("semget")
    BY <2>1
  <2>4. Failed(p) = [x EXCEPT !.then = "open", !.ret = "again"]
    BY <1>2, <1>3, <2>3, Zenon
  <2>5. /\ Failed(p) \in Locals /\ Failed(p).pc = "semget" /\ Failed(p).fd = 0
        /\ Failed(p).then = "open" /\ Failed(p).ret = "again"
    BY <2>1, <2>2, <2>3, <2>4, Zenon
  <2> QED
    BY <1>1, <1>3, <2>5 DEF LocalsOK, Builder, Looking, Caller, Locking, Building
<1>4. CASE run[p].ret # "lost"
  <2>1. \/ Failed(p) = At("idle") \/ Failed(p) = At("act")
        \/ Failed(p) = At("unlink") /\ run[p].ret = "init"
    BY <1>2, <1>4 DEF Caller
  <2>2. \A h \in {"idle", "act", "unlink"} : At(h).ret = "none" /\ At(h).pc = h
    BY AtFields DEF Place
  <2> QED
    BY <1>1, <2>1, <2>2, AtOK
<1> QED
  BY <1>3, <1>4

\* A process keeps its locals but for pc.
Same(x, y) == y.ret = x.ret /\ y.fd = x.fd /\ y.then = x.then /\ y.todo = x.todo

\* It has the semaphore, or goes on without it.
Locked(x, y) == y.pc = x.then /\ y.then = "none" /\ y.ret = x.ret /\ y.fd = x.fd /\ y.todo = x.todo

\* Where the steps on the semaphore take a process.
LEMMA LockMoves ==
  ASSUME TypeInv, NEW p \in Proc
  PROVE  LET x == run[p]
             y == run'[p] IN
         /\ SemGet(p) => y \in Locals /\ x.pc = "semget" /\ y.pc \in {"setval", "semop"} /\ Same(x, y)
         /\ SetVal(p) => y \in Locals /\ x.pc = "setval" /\ y.pc = "semop" /\ Same(x, y)
         /\ SemOp(p)  => y \in Locals /\ x.pc = "semop" /\ Locked(x, y)
         /\ SemFails(p) => y \in Locals /\ x.pc = "semget" /\ Locked(x, y)
<1> DEFINE x == run[p]
<1>1. x \in Locals /\ root \in Dev /\ (x.pc \in Locking => x.then \in Place)
  BY DEF TypeInv, LocalsOK, Locals, Place, Building
<1>2. ASSUME NEW z, Go(p, z) PROVE run'[p] = z
  BY <1>2 DEF Go, TypeInv
<1>3. SemGet(p) => run'[p] \in Locals /\ x.pc = "semget" /\ run'[p].pc \in {"setval", "semop"} /\ Same(x, run'[p])
  <2>1. SUFFICES ASSUME SemGet(p)
                 PROVE  run'[p] \in Locals /\ x.pc = "semget" /\ run'[p].pc \in {"setval", "semop"} /\ Same(x, run'[p])
    OBVIOUS
  <2>2. PICK there \in {"setval", "semop"} : run'[p] = [x EXCEPT !.sid = root, !.pc = there]
    BY <2>1, <1>2 DEF SemGet
  <2> QED
    BY <1>1, <2>1, <2>2 DEF SemGet, Locals, Same, Place, Locking
<1>4. SetVal(p) => run'[p] \in Locals /\ x.pc = "setval" /\ run'[p].pc = "semop" /\ Same(x, run'[p])
  <2>1. SetVal(p) => run'[p] = [x EXCEPT !.pc = "semop"]
    BY <1>2 DEF SetVal
  <2> QED
    BY <1>1, <2>1 DEF SetVal, Locals, Same, Place, Locking
<1>5. SemOp(p)  => run'[p] \in Locals /\ x.pc = "semop" /\ Locked(x, run'[p])
  <2>1. SemOp(p) => run'[p] = [x EXCEPT !.pc = x.then, !.then = "none", !.sid = Bare]
    BY <1>2 DEF SemOp
  <2> QED
    BY <1>1, <2>1 DEF SemOp, Locals, Locked, Locking, Dev
<1>6. SemFails(p) => run'[p] \in Locals /\ x.pc = "semget" /\ Locked(x, run'[p])
  <2>1. SemFails(p) => run'[p] = [x EXCEPT !.pc = x.then, !.then = "none"]
    BY <1>2 DEF SemFails, MovesFailing
  <2> QED
    BY <1>1, <2>1 DEF SemFails, MovesFailing, Locals, Locked, Locking
<1> QED
  BY <1>3, <1>4, <1>5, <1>6

\* Where the steps of attach take a process.
LEMMA AttachMoves ==
  ASSUME TypeInv, NEW p \in Proc
  PROVE  LET x == run[p]
             y == run'[p] IN
         /\ Open(p) => /\ y \in Locals /\ x.pc = "open"
                       /\ IF name = 0 THEN y = Failed(p)
                          ELSE y.pc = "map" /\ y.fd = name /\ y.ret = x.ret /\ y.then = x.then
         /\ Map(p) => /\ y \in Locals /\ x.pc = "map"
                      /\ IF obj[x.fd].sized THEN y.pc = "ready" /\ Same(x, y) ELSE y = Failed(p)
         /\ Ready(p) => /\ y \in Locals /\ x.pc = "ready"
                        /\ IF obj[x.fd].ready THEN y.pc = "dev" /\ Same(x, y)
                           ELSE /\ y.pc = "semget" /\ y.then = "ready2" /\ y.ret = x.ret
                                /\ y.fd = x.fd
         /\ ReadyAgain(p) => /\ y \in Locals /\ x.pc = "ready2"
                             /\ IF obj[x.fd].ready THEN y.pc = "dev" /\ Same(x, y)
                                ELSE y = Failed(p)
         /\ CheckDevFails(p) => y \in Locals /\ x.pc = "dev" /\ y = Failed(p)
<1> DEFINE x == run[p]
<1>1. /\ x \in Locals /\ name \in Nat
      /\ x.pc \in {"open", "map", "ready", "ready2", "dev"} => x.ret \in Caller
  BY Objects DEF TypeInv, LocalsOK, Looking
<1>2. ASSUME NEW z, Go(p, z) PROVE run'[p] = z
  BY <1>2 DEF Go, TypeInv
<1>3. x.ret \in Caller => Failed(p) \in Locals
  BY FailedOK DEF LocalsOK
<1>4. Open(p) => /\ run'[p] \in Locals /\ x.pc = "open"
                 /\ IF name = 0 THEN run'[p] = Failed(p)
                    ELSE /\ run'[p].pc = "map" /\ run'[p].fd = name
                         /\ run'[p].ret = x.ret /\ run'[p].then = x.then
  <2>1. Open(p) => /\ x.pc = "open"
                   /\ run'[p] = IF name = 0 THEN Failed(p) ELSE [x EXCEPT !.pc = "map", !.fd = name]
    BY <1>2 DEF Open, Moves
  <2>2. LET z == [x EXCEPT !.pc = "map", !.fd = name]
        IN  z \in Locals /\ z.pc = "map" /\ z.fd = name /\ z.ret = x.ret /\ z.then = x.then
    BY <1>1 DEF Locals, Place
  <2> QED
    BY <1>1, <1>3, <2>1, <2>2
<1>5. \A there \in {"ready", "dev"} :
        LET z == [x EXCEPT !.pc = there] IN z \in Locals /\ z.pc = there /\ Same(x, z)
  BY <1>1 DEF Locals, Place, Same
<1>6. Map(p) => /\ run'[p] \in Locals /\ x.pc = "map"
                /\ IF obj[x.fd].sized THEN run'[p].pc = "ready" /\ Same(x, run'[p])
                   ELSE run'[p] = Failed(p)
  <2>1. Map(p) => /\ x.pc = "map"
                  /\ run'[p] = IF obj[x.fd].sized THEN [x EXCEPT !.pc = "ready"] ELSE Failed(p)
    BY <1>2 DEF Map, Moves
  <2> QED
    BY <1>1, <1>3, <2>1, <1>5
<1>7. Ready(p) => /\ run'[p] \in Locals /\ x.pc = "ready"
                  /\ IF obj[x.fd].ready THEN run'[p].pc = "dev" /\ Same(x, run'[p])
                     ELSE /\ run'[p].pc = "semget" /\ run'[p].then = "ready2"
                          /\ run'[p].ret = x.ret /\ run'[p].fd = x.fd
  <2>1. Ready(p) => /\ x.pc = "ready"
                    /\ run'[p] = IF obj[x.fd].ready THEN [x EXCEPT !.pc = "dev"]
                                 ELSE [x EXCEPT !.pc = "semget", !.then = "ready2"]
    BY <1>2 DEF Ready, Moves, Lock
  <2>2. LET z == [x EXCEPT !.pc = "semget", !.then = "ready2"]
        IN  z \in Locals /\ z.pc = "semget" /\ z.then = "ready2" /\ z.ret = x.ret /\ z.fd = x.fd
    BY <1>1 DEF Locals, Place, Locking
  <2> QED
    BY <1>1, <2>1, <2>2, <1>5
<1>8. ReadyAgain(p) => /\ run'[p] \in Locals /\ x.pc = "ready2"
                       /\ IF obj[x.fd].ready THEN run'[p].pc = "dev" /\ Same(x, run'[p])
                          ELSE run'[p] = Failed(p)
  <2>1. ReadyAgain(p) => /\ x.pc = "ready2"
                  /\ run'[p] = IF obj[x.fd].ready THEN [x EXCEPT !.pc = "dev"] ELSE Failed(p)
    BY <1>2 DEF ReadyAgain, Moves
  <2> QED
    BY <1>1, <1>3, <2>1, <1>5
<1>9. CheckDevFails(p) => run'[p] \in Locals /\ x.pc = "dev" /\ run'[p] = Failed(p)
  BY <1>1, <1>2, <1>3 DEF CheckDevFails
<1> QED
  BY <1>4, <1>6, <1>7, <1>8, <1>9

\* Where the steps of create take a process.
LEMMA BuildMoves ==
  ASSUME TypeInv, NEW p \in Proc
  PROVE  LET x == run[p]
             y == run'[p] IN
         /\ Create(p) => /\ y \in Locals /\ x.pc = "excl" /\ y.pc = "semget" /\ y.then = "size"
                         /\ y.fd = Len(obj) + 1 /\ y.ret = "none"
         /\ Truncate(p)  => y \in Locals /\ x.pc = "size" /\ y.pc = "stat" /\ Same(x, y)
         /\ RecordDev(p) => y \in Locals /\ x.pc = "stat" /\ y.pc = "list" /\ Same(x, y)
         /\ RecordDevFails(p) => y \in Locals /\ x.pc = "stat" /\ y.pc = "abandon" /\ Same(x, y)
         /\ List(p) => /\ y \in Locals /\ x.pc = "list" /\ y.pc = "load" /\ y.ret = x.ret
                       /\ y.fd = x.fd /\ y.then = x.then
                       /\ y.todo = {k \in Key : fs[root][k] # Absent}
         /\ ListFails(p) => y \in Locals /\ x.pc = "list" /\ y.pc = "abandon" /\ Same(x, y)
         /\ Load(p) => /\ y \in Locals /\ x.pc = "load" /\ y.pc = "load" /\ y.ret = x.ret
                       /\ y.fd = x.fd /\ y.then = x.then
         /\ LoadFails(p) => /\ y \in Locals /\ x.pc = "load" /\ y.pc = "abandon" /\ y.ret = x.ret
                            /\ y.fd = x.fd /\ y.then = x.then
         /\ Publish(p) => y \in Locals /\ x.pc = "load" /\ y.pc = "release" /\ Same(x, y)
<1> DEFINE x == run[p]
<1>1. x \in Locals /\ Len(obj) + 1 \in Nat
  BY Objects DEF TypeInv
<1>2. ASSUME NEW z, Go(p, z) PROVE run'[p] = z
  BY <1>2 DEF Go, TypeInv
<1>3. \A there \in {"stat", "list", "abandon", "release"} :
        LET z == [x EXCEPT !.pc = there] IN z \in Locals /\ z.pc = there /\ Same(x, z)
  BY <1>1 DEF Locals, Place, Same, Building
<1>4. ASSUME NEW t \in SUBSET Key, NEW there \in {"load", "abandon"}
      PROVE  LET z == [x EXCEPT !.pc = there, !.todo = t]
             IN  /\ z \in Locals /\ z.pc = there /\ z.ret = x.ret /\ z.fd = x.fd
                 /\ z.then = x.then /\ z.todo = t
  BY <1>1 DEF Locals, Place, Building
<1>5. Create(p) => /\ run'[p] \in Locals /\ x.pc = "excl" /\ run'[p].pc = "semget"
                   /\ run'[p].then = "size" /\ run'[p].fd = Len(obj) + 1 /\ run'[p].ret = "none"
  <2>1. At("semget") \in Locals /\ At("semget").pc = "semget" /\ At("semget").ret = "none"
    BY AtFields DEF Place, Locking
  <2>2. ASSUME NEW z \in Locals, NEW f \in Nat
        PROVE  LET v == [z EXCEPT !.then = "size", !.fd = f]
               IN  v \in Locals /\ v.pc = z.pc /\ v.then = "size" /\ v.fd = f /\ v.ret = z.ret
    BY DEF Locals
  <2>3. PICK z \in Locals : z = At("semget") /\ z.pc = "semget" /\ z.ret = "none"
    BY <2>1, Zenon
  <2>4. PICK f \in Nat : f = Len(obj) + 1
    BY <1>1
  <2>5. Create(p) => x.pc = "excl" /\ run'[p] = [z EXCEPT !.then = "size", !.fd = f]
    BY <1>2, <2>3, <2>4, Zenon DEF Create, Name
  <2>6. LET v == [z EXCEPT !.then = "size", !.fd = f]
        IN  v \in Locals /\ v.pc = "semget" /\ v.then = "size" /\ v.fd = f /\ v.ret = "none"
    BY <2>2, <2>3
  <2> QED
    BY <2>4, <2>5, <2>6
<1>6. Truncate(p) => run'[p] \in Locals /\ x.pc = "size" /\ run'[p].pc = "stat" /\ Same(x, run'[p])
  <2>1. Truncate(p) => x.pc = "size" /\ run'[p] = [x EXCEPT !.pc = "stat"]
    BY <1>2, Zenon DEF Truncate, Builds
  <2> QED
    BY <1>3, <2>1
<1>7. RecordDev(p) => run'[p] \in Locals /\ x.pc = "stat" /\ run'[p].pc = "list" /\ Same(x, run'[p])
  <2>1. RecordDev(p) => x.pc = "stat" /\ run'[p] = [x EXCEPT !.pc = "list"]
    BY <1>2, Zenon DEF RecordDev, Builds
  <2> QED
    BY <1>3, <2>1
<1>8. RecordDevFails(p) => run'[p] \in Locals /\ x.pc = "stat" /\ run'[p].pc = "abandon" /\ Same(x, run'[p])
  <2>1. RecordDevFails(p) => x.pc = "stat" /\ run'[p] = [x EXCEPT !.pc = "abandon"]
    BY <1>2, Zenon DEF RecordDevFails, MovesFailing
  <2> QED
    BY <1>3, <2>1
<1>9. List(p) => /\ run'[p] \in Locals /\ x.pc = "list" /\ run'[p].pc = "load" /\ run'[p].ret = x.ret
                 /\ run'[p].fd = x.fd /\ run'[p].then = x.then
                 /\ run'[p].todo = {k \in Key : fs[root][k] # Absent}
  <2>1. PICK t \in SUBSET Key : t = {k \in Key : fs[root][k] # Absent}
    OBVIOUS
  <2>2. List(p) => x.pc = "list" /\ run'[p] = [x EXCEPT !.pc = "load", !.todo = t]
    BY <1>2, <2>1, Zenon DEF List
  <2>3. LET z == [x EXCEPT !.pc = "load", !.todo = t]
        IN  /\ z \in Locals /\ z.pc = "load" /\ z.ret = x.ret /\ z.fd = x.fd
            /\ z.then = x.then /\ z.todo = t
    BY <1>4
  <2> QED
    BY <2>1, <2>2, <2>3
<1>10. ListFails(p) => run'[p] \in Locals /\ x.pc = "list" /\ run'[p].pc = "abandon" /\ Same(x, run'[p])
  <2>1. ListFails(p) => x.pc = "list" /\ run'[p] = [x EXCEPT !.pc = "abandon"]
    BY <1>2, Zenon DEF ListFails, MovesFailing
  <2> QED
    BY <1>3, <2>1
<1>11. Load(p) => /\ run'[p] \in Locals /\ x.pc = "load" /\ run'[p].pc = "load" /\ run'[p].ret = x.ret
                  /\ run'[p].fd = x.fd /\ run'[p].then = x.then
  <2>1. \A t \in SUBSET Key : LET z == [x EXCEPT !.todo = t]
           IN z \in Locals /\ z.pc = x.pc /\ z.ret = x.ret /\ z.fd = x.fd /\ z.then = x.then
    BY <1>1 DEF Locals
  <2>2. Load(p) => \E t \in SUBSET Key : x.pc = "load" /\ run'[p] = [x EXCEPT !.todo = t]
    BY <1>1, <1>2 DEF Load, Locals
  <2> QED
    BY <2>1, <2>2
<1>12. LoadFails(p) => /\ run'[p] \in Locals /\ x.pc = "load" /\ run'[p].pc = "abandon"
                       /\ run'[p].ret = x.ret /\ run'[p].fd = x.fd /\ run'[p].then = x.then
  <2>1. LoadFails(p) => x.pc = "load" /\ run'[p] = [x EXCEPT !.pc = "abandon", !.todo = {}]
    BY <1>2, Zenon DEF LoadFails, MovesFailing
  <2>2. LET z == [x EXCEPT !.pc = "abandon", !.todo = {}]
        IN  z \in Locals /\ z.pc = "abandon" /\ z.ret = x.ret /\ z.fd = x.fd /\ z.then = x.then
    BY <1>4
  <2> QED
    BY <2>1, <2>2
<1>13. Publish(p) => run'[p] \in Locals /\ x.pc = "load" /\ run'[p].pc = "release" /\ Same(x, run'[p])
  <2>1. Publish(p) => x.pc = "load" /\ run'[p] = [x EXCEPT !.pc = "release"]
    BY <1>2, Zenon DEF Publish, Builds
  <2> QED
    BY <1>3, <2>1
<1> QED
  BY <1>5, <1>6, <1>7, <1>8, <1>9, <1>10, <1>11, <1>12, <1>13

\* Object f changes and no other does.
Only(f) ==
  /\ obj' \in Seq(Object) /\ Len(obj') = Len(obj)
  /\ \A o \in DOMAIN obj : o # f => obj'[o] = obj[o]

\* A change of object f in its place.
LEMMA OnlyOne ==
  ASSUME TypeInv, NEW f \in DOMAIN obj, NEW c \in Object, obj' = [obj EXCEPT ![f] = c]
  PROVE  Only(f) /\ obj'[f] = c
<1>1. obj \in Seq(Object)
  BY DEF TypeInv
<1>2. Len(obj) \in Nat /\ DOMAIN obj = 1 .. Len(obj)
  BY Objects
<1> QED
  BY <1>1, <1>2 DEF Only

\* What the steps of the creator make of its object.
LEMMA ObjectSteps ==
  ASSUME TypeInv, NEW p \in Proc
  PROVE  LET f == run[p].fd
             b == obj[f]
             c == obj'[f] IN
         /\ Truncate(p) => /\ Only(f) /\ c.sized /\ c.dev = b.dev /\ c.vars = b.vars
                           /\ c.ready = b.ready /\ c.from = b.from /\ c.had = b.had
         /\ RecordDev(p) => /\ Only(f) /\ c.sized = b.sized /\ c.dev = {root} /\ c.vars = b.vars
                            /\ c.ready = b.ready /\ c.from = b.from
                            /\ c.had = [k \in Key |-> {fs[root][k]}]
         /\ List(p) => /\ Only(f) /\ c.sized = b.sized /\ c.dev = b.dev /\ c.vars = b.vars
                       /\ c.ready = b.ready /\ c.from = b.from \cup {root} /\ c.had = b.had
         /\ Publish(p) => /\ Only(f) /\ c.sized = b.sized /\ c.dev = b.dev /\ c.vars = b.vars
                          /\ c.ready /\ c.from = b.from /\ c.had = b.had
<1> DEFINE f == run[p].fd
           b == obj[f]
<1>1. run[p].pc \in Building => f \in DOMAIN obj /\ b \in Object
  BY Objects DEF TypeInv, LocalsOK, Builder
<1>2. root \in Dev /\ fs \in [Dev -> [Key -> Value]]
  BY DEF TypeInv
<1>3. ASSUME Truncate(p)
      PROVE  LET c == obj'[f] IN
             /\ Only(f) /\ c.sized /\ c.dev = b.dev /\ c.vars = b.vars
             /\ c.ready = b.ready /\ c.from = b.from /\ c.had = b.had
  <2>1. f \in DOMAIN obj /\ b \in Object
    BY <1>1, <1>3 DEF Truncate, Builds, Building
  <2>2. LET c == [b EXCEPT !.sized = TRUE] IN
        /\ c \in Object /\ c.sized /\ c.dev = b.dev /\ c.vars = b.vars
        /\ c.ready = b.ready /\ c.from = b.from /\ c.had = b.had
    BY <2>1 DEF Object
  <2>3. obj' = [obj EXCEPT ![f] = [b EXCEPT !.sized = TRUE]]
    BY <1>3, Zenon DEF Truncate, Builds, Mine
  <2> QED
    BY <2>1, <2>2, <2>3, OnlyOne
<1>4. ASSUME RecordDev(p)
      PROVE  LET c == obj'[f] IN
             /\ Only(f) /\ c.sized = b.sized /\ c.dev = {root} /\ c.vars = b.vars
             /\ c.ready = b.ready /\ c.from = b.from
             /\ c.had = [k \in Key |-> {fs[root][k]}]
  <2>1. f \in DOMAIN obj /\ b \in Object
    BY <1>1, <1>4 DEF RecordDev, Builds, Building
  <2> DEFINE h == [k \in Key |-> {fs[root][k]}]
  <2>2. LET c == [b EXCEPT !.dev = {root}, !.had = h] IN
        /\ c \in Object /\ c.sized = b.sized /\ c.dev = {root} /\ c.vars = b.vars
        /\ c.ready = b.ready /\ c.from = b.from /\ c.had = h
    <3>1. h \in [Key -> SUBSET Value] /\ {root} \in SUBSET Dev
      BY <1>2
    <3> HIDE DEF h
    <3> QED
      BY <2>1, <3>1 DEF Object
  <2>3. obj' = [obj EXCEPT ![f] = [b EXCEPT !.dev = {root}, !.had = h]]
    BY <1>4, Zenon DEF RecordDev, Builds, Mine
  <2> HIDE DEF h
  <2>4. LET c == obj'[f] IN
        /\ Only(f) /\ c.sized = b.sized /\ c.dev = {root} /\ c.vars = b.vars
        /\ c.ready = b.ready /\ c.from = b.from /\ c.had = h
    BY <2>1, <2>2, <2>3, OnlyOne
  <2> QED
    BY <2>4 DEF h
<1>5. ASSUME List(p)
      PROVE  LET c == obj'[f] IN
             /\ Only(f) /\ c.sized = b.sized /\ c.dev = b.dev /\ c.vars = b.vars
             /\ c.ready = b.ready /\ c.from = b.from \cup {root} /\ c.had = b.had
  <2>1. f \in DOMAIN obj /\ b \in Object
    BY <1>1, <1>5 DEF List, Building
  <2>2. LET c == [b EXCEPT !.from = b.from \cup {root}] IN
        /\ c \in Object /\ c.sized = b.sized /\ c.dev = b.dev /\ c.vars = b.vars
        /\ c.ready = b.ready /\ c.from = b.from \cup {root} /\ c.had = b.had
    BY <1>2, <2>1 DEF Object
  <2>3. obj' = [obj EXCEPT ![f] = [b EXCEPT !.from = b.from \cup {root}]]
    BY <1>5, Zenon DEF List
  <2> QED
    BY <2>1, <2>2, <2>3, OnlyOne
<1>6. ASSUME Publish(p)
      PROVE  LET c == obj'[f] IN
             /\ Only(f) /\ c.sized = b.sized /\ c.dev = b.dev /\ c.vars = b.vars
             /\ c.ready /\ c.from = b.from /\ c.had = b.had
  <2>1. f \in DOMAIN obj /\ b \in Object
    BY <1>1, <1>6 DEF Publish, Builds, Building
  <2>2. LET c == [b EXCEPT !.ready = TRUE] IN
        /\ c \in Object /\ c.sized = b.sized /\ c.dev = b.dev /\ c.vars = b.vars
        /\ c.ready /\ c.from = b.from /\ c.had = b.had
    BY <2>1 DEF Object
  <2>3. obj' = [obj EXCEPT ![f] = [b EXCEPT !.ready = TRUE]]
    BY <1>6, Zenon DEF Publish, Builds, Mine
  <2> QED
    BY <2>1, <2>2, <2>3, OnlyOne
<1> QED
  BY <1>3, <1>4, <1>5, <1>6

\* What reading one file makes of it.
LEMMA LoadStep ==
  ASSUME TypeInv, NEW p \in Proc, Load(p)
  PROVE  LET f == run[p].fd
             b == obj[f]
             c == obj'[f] IN
         /\ Only(f) /\ c.sized = b.sized /\ c.dev = b.dev /\ c.ready = b.ready
         /\ c.from \in {b.from, b.from \cup {root}}
         /\ \E k \in run[p].todo :
              /\ run'[p].todo = run[p].todo \ {k}
              /\ c.had = b.had
              /\ \/ c.vars = [b.vars EXCEPT ![k] = fs[root][k]]
                 \/ "read" \in Fault /\ c.vars = b.vars
<1> DEFINE x == run[p]
           f == x.fd
           b == obj[f]
           c == obj'[f]
<1>1. f \in DOMAIN obj /\ b \in Object /\ root \in Dev /\ fs \in [Dev -> [Key -> Value]] /\ x \in Locals
  BY Objects DEF TypeInv, LocalsOK, Builder, Load, Building
<1>2. PICK k \in x.todo :
        /\ Go(p, [x EXCEPT !.todo = @ \ {k}])
        /\ \/ obj' = [obj EXCEPT ![f].vars[k] = fs[root][k], ![f].from = @ \cup {root}]
           \/ "read" \in Fault /\ obj' = obj
  BY Zenon DEF Load, Fails
<1>3. k \in Key /\ fs[root][k] \in Value
  BY <1>1 DEF Locals, Value
<1>4. run'[p].todo = x.todo \ {k}
  <2>1. run'[p] = [x EXCEPT !.todo = x.todo \ {k}]
    BY <1>2 DEF Go, TypeInv
  <2> QED
    BY <1>1, <2>1 DEF Locals
<1>5. CASE obj' = [obj EXCEPT ![f].vars[k] = fs[root][k], ![f].from = @ \cup {root}]
  <2>1. PICK v \in Value : v = fs[root][k]
    BY <1>3
  <2> DEFINE w == [b.vars EXCEPT ![k] = v]
             d == [[b EXCEPT !.vars = w] EXCEPT !.from = b.from \cup {root}]
  <2>2. w \in [Key -> Value]
    BY <1>1, <1>3 DEF Object
  <2>3. /\ d \in Object /\ d.sized = b.sized /\ d.dev = b.dev /\ d.ready = b.ready
        /\ d.from = b.from \cup {root} /\ d.vars = w /\ d.had = b.had
    <3> HIDE DEF w
    <3> QED
      BY <1>1, <2>2 DEF Object
  <2>4. obj' = [obj EXCEPT ![f] = d]
    <3> DEFINE e == [obj EXCEPT ![f] = [b EXCEPT !.vars = w]]
    <3>1. obj' = [e EXCEPT ![f] = [e[f] EXCEPT !.from = e[f].from \cup {root}]]
      BY <1>5, <2>1, Zenon
    <3>2. e[f] = [b EXCEPT !.vars = w] /\ e[f].from = b.from
      BY <1>1, <2>2 DEF Object
    <3>3. \A y, z : [[obj EXCEPT ![f] = y] EXCEPT ![f] = z] = [obj EXCEPT ![f] = z]
      BY <1>1
    <3>4. [e[f] EXCEPT !.from = e[f].from \cup {root}] = d
      BY <3>2, Zenon
    <3> QED
      BY <3>1, <3>3, <3>4, Zenon
  <2> HIDE DEF d
  <2>5. Only(f) /\ c = d
    BY <1>1, <2>3, <2>4, OnlyOne
  <2> QED
    BY <1>4, <2>1, <2>3, <2>5
<1>6. CASE "read" \in Fault /\ obj' = obj
  <2>1. Only(f) /\ c = b
    BY <1>6 DEF Only, TypeInv
  <2> QED
    BY <1>4, <1>6, <2>1
<1> QED
  BY <1>2, <1>5, <1>6

\* A file that is written adds to what objects under construction may hold.
LEMMA WriteStep ==
  ASSUME TypeInv, NEW k \in Key, NEW v \in Value, Write(k, v)
  PROVE  /\ obj' \in Seq(Object) /\ Len(obj') = Len(obj)
         /\ \A o \in DOMAIN obj :
              /\ obj'[o].sized = obj[o].sized /\ obj'[o].dev = obj[o].dev
              /\ obj'[o].vars = obj[o].vars /\ obj'[o].ready = obj[o].ready
              /\ obj'[o].from = obj[o].from
              /\ \A j \in Key : obj[o].had[j] \subseteq obj'[o].had[j]
              /\ ~obj[o].ready /\ obj[o].dev = {root} => v \in obj'[o].had[k]
<1> DEFINE e(o) == [obj[o] EXCEPT !.had = [obj[o].had EXCEPT ![k] = obj[o].had[k] \cup {v}]]
           g(o) == IF obj[o].ready \/ obj[o].dev # {root} THEN obj[o] ELSE e(o)
<1>1. Len(obj) \in Nat /\ DOMAIN obj = 1 .. Len(obj) /\ \A o \in DOMAIN obj : obj[o] \in Object
  BY Objects
<1>2. ASSUME NEW o \in DOMAIN obj
      PROVE  /\ e(o) \in Object /\ e(o).sized = obj[o].sized /\ e(o).dev = obj[o].dev
             /\ e(o).vars = obj[o].vars /\ e(o).ready = obj[o].ready /\ e(o).from = obj[o].from
             /\ e(o).had = [obj[o].had EXCEPT ![k] = obj[o].had[k] \cup {v}]
  <2>1. [obj[o].had EXCEPT ![k] = obj[o].had[k] \cup {v}] \in [Key -> SUBSET Value]
    BY <1>1 DEF Object
  <2> QED
    BY <1>1, <2>1 DEF Object
<1>3. obj' = [o \in DOMAIN obj |-> g(o)]
  BY Zenon DEF Write
<1> HIDE DEF e
<1>4. \A o \in DOMAIN obj : g(o) \in Object
  BY <1>1, <1>2
<1>5. obj' \in Seq(Object) /\ Len(obj') = Len(obj) /\ \A o \in DOMAIN obj : obj'[o] = g(o)
  <2> HIDE DEF g
  <2> QED
    BY <1>1, <1>3, <1>4
<1>6. ASSUME NEW o \in DOMAIN obj
      PROVE  /\ g(o).sized = obj[o].sized /\ g(o).dev = obj[o].dev
             /\ g(o).vars = obj[o].vars /\ g(o).ready = obj[o].ready
             /\ g(o).from = obj[o].from
             /\ \A j \in Key : obj[o].had[j] \subseteq g(o).had[j]
             /\ ~obj[o].ready /\ obj[o].dev = {root} => v \in g(o).had[k]
  <2>1. obj[o].had \in [Key -> SUBSET Value]
    BY <1>1 DEF Object
  <2> QED
    BY <1>2, <2>1
<1> HIDE DEF g
<1> QED
  BY <1>5, <1>6

\* A step that is taken by process p.
Acts(p) == New(p) \/ InitCall(p) \/ Reattach(p) \/ Step(p) \/ Kill(p)

\* The others stay where they are.
LEMMA OthersStay ==
  ASSUME TypeInv, NEW p \in Proc, Acts(p)
  PROVE  run' = [q \in Proc |-> run'[q]] /\ \A q \in Proc : q # p => run'[q] = run[q]
<1>1. \E z : Go(p, z)
  BY Zenon DEF Acts, Step, New, InitCall, Reattach, Kill, SemGet, SetVal, SemOp, SemFails, Open,
     Map, Ready, ReadyAgain, CheckDev, Adopt, CheckDevFails, Unlink, Create, Name, CreateLoses,
     Truncate, TruncateFails, RecordDev, RecordDevFails, List, ListFails, Load, LoadFails,
     Publish, Builds, Release, Abandon, Unname, Operate, Moves, MovesFailing
<1> QED
  BY <1>1 DEF Go, TypeInv

\* Where the other steps take a process.
LEMMA PlainMoves ==
  ASSUME TypeInv, NEW p \in Proc
  PROVE  LET x == run[p]
             y == run'[p] IN
         /\ New(p)      => x.pc = "off" /\ y = Attach(p, "new")
         /\ InitCall(p) => x.pc = "idle" /\ y = Attach(p, "init")
         /\ Reattach(p) => /\ x.pc = "idle"
                           /\ y = IF ops[p] = 0 THEN Attach(p, "reattach") ELSE At("act")
         /\ CheckDev(p) => x.pc = "dev" /\ y = At(IF x.ret = "reattach" THEN "act" ELSE "idle")
         /\ Unlink(p)      => x.pc = "unlink" /\ y = At("excl")
         /\ CreateLoses(p) => x.pc = "excl" /\ y = Attach(p, "lost")
         /\ TruncateFails(p) => x.pc = "size" /\ y = At("idle")
         /\ Release(p) => x.pc = "release" /\ y = At("idle")
         /\ Abandon(p) => x.pc = "abandon" /\ y = At("unname")
         /\ Unname(p)  => x.pc = "unname" /\ y = At("idle")
         /\ Operate(p) => x.pc = "act" /\ y = At("idle")
         /\ Kill(p)    => x.pc # "off" /\ y = At("off")
<1>1. ASSUME NEW z, Go(p, z) PROVE run'[p] = z
  BY <1>1 DEF Go, TypeInv
<1>2. /\ New(p)      => run[p].pc = "off" /\ run'[p] = Attach(p, "new")
      /\ InitCall(p) => run[p].pc = "idle" /\ run'[p] = Attach(p, "init")
      /\ CreateLoses(p) => run[p].pc = "excl" /\ run'[p] = Attach(p, "lost")
      /\ Operate(p) => run[p].pc = "act" /\ run'[p] = At("idle")
  BY <1>1, Zenon DEF New, InitCall, CreateLoses, Operate, Moves
<1>3. /\ Reattach(p) => /\ run[p].pc = "idle"
                        /\ run'[p] = IF ops[p] = 0 THEN Attach(p, "reattach") ELSE At("act")
      /\ CheckDev(p) => /\ run[p].pc = "dev"
                        /\ run'[p] = At(IF run[p].ret = "reattach" THEN "act" ELSE "idle")
  BY <1>1, Zenon DEF Reattach, CheckDev, Adopt
<1>4. /\ Unlink(p) => run[p].pc = "unlink" /\ run'[p] = At("excl")
      /\ TruncateFails(p) => run[p].pc = "size" /\ run'[p] = At("idle")
      /\ Unname(p) => run[p].pc = "unname" /\ run'[p] = At("idle")
  BY <1>1, Zenon DEF Unlink, TruncateFails, Unname, Name
<1>5. /\ Release(p) => run[p].pc = "release" /\ run'[p] = At("idle")
      /\ Abandon(p) => run[p].pc = "abandon" /\ run'[p] = At("unname")
      /\ Kill(p) => run[p].pc # "off" /\ run'[p] = At("off")
  BY <1>1 DEF Release, Abandon, Kill, Adopt
<1> QED
  BY <1>2, <1>3, <1>4, <1>5, Zenon

\* Nothing but the creation of an object changes how many there are.
LEMMA LengthStep ==
  ASSUME TypeInv, NEW p \in Proc, Acts(p)
  PROVE  /\ obj' \in Seq(Object)
         /\ IF Create(p) THEN obj' = Append(obj, NewObject) ELSE Len(obj') = Len(obj)
         /\ \A o \in DOMAIN obj : o # run[p].fd => obj'[o] = obj[o]
<1>1. obj \in Seq(Object)
  BY DEF TypeInv
<1>2. NewObject \in Object
  BY DEF NewObject, Object, Nothing, Value
<1>3. CASE Create(p)
  BY <1>1, <1>2, <1>3 DEF Create
<1>4. CASE Truncate(p) \/ RecordDev(p) \/ List(p) \/ Publish(p) \/ Load(p)
  BY <1>4, ObjectSteps, LoadStep, BuildMoves DEF Only
<1>5. CASE ~Create(p) /\ ~(Truncate(p) \/ RecordDev(p) \/ List(p) \/ Publish(p) \/ Load(p))
  <2>1. obj' = obj
    BY <1>5, Zenon DEF Acts, Step, New, InitCall, Reattach, Kill, SemGet, SetVal, SemOp, SemFails,
       Open, Map, Ready, ReadyAgain, CheckDev, CheckDevFails, Unlink, CreateLoses, TruncateFails,
       RecordDevFails, ListFails, LoadFails, Release, Abandon, Unname, Operate, Moves,
       MovesFailing, shared
  <2> QED
    BY <1>1, <1>5, <2>1
<1> QED
  BY <1>3, <1>4, <1>5

\* What a process may do to the rest of the state.
LEMMA Changes ==
  ASSUME NEW p \in Proc, Acts(p)
  PROVE  /\ root' = root /\ fs' = fs
         /\ \/ name' = name \/ Create(p)
            \/ name' = 0 /\ (Unlink(p) \/ TruncateFails(p) \/ Unname(p))
         /\ \/ sem' = sem \/ sem' = Released(p)
            \/ SemGet(p) \/ SetVal(p) \/ SemOp(p)
         /\ \/ seg' = seg \/ Kill(p)
            \/ seg' = [seg EXCEPT ![p] = run[p].fd] /\ (CheckDev(p) \/ Release(p))
         /\ \/ ops' = ops \/ ops' = [ops EXCEPT ![p] = 0]
            \/ Reattach(p)
         /\ \/ missed' = missed \/ missed' = [missed EXCEPT ![p] = 0]
            \/ missed' = [q \in Proc |-> 0] \/ Reattach(p)
         /\ raced' = raced \/ InitCall(p)
BY Zenon DEF Acts, Step, New, InitCall, Reattach, Kill, SemGet, SetVal, SemOp, SemFails, Open,
     Map, Ready, ReadyAgain, CheckDev, Adopt, CheckDevFails, Unlink, Create, Name, CreateLoses,
     Truncate, TruncateFails, RecordDev, RecordDevFails, List, ListFails, Load, LoadFails,
     Publish, Builds, Release, Abandon, Unname, Operate, Moves, MovesFailing, shared

\* Its own locals are well typed after the step.
LEMMA LocalsStep ==
  ASSUME TypeInv, NEW p \in Proc, Acts(p)
  PROVE  LocalsOK(run'[p], Len(obj'))
<1> DEFINE x == run[p]
           y == run'[p]
           n == Len(obj')
<1>1. /\ Len(obj) \in Nat /\ n \in Nat /\ Len(obj) <= n
      /\ x \in Locals /\ LocalsOK(x, Len(obj)) /\ name \in 0 .. Len(obj)
      /\ n = IF Create(p) THEN Len(obj) + 1 ELSE Len(obj)
  BY Objects, LengthStep DEF TypeInv
<1>2. \A z : LocalsOK(z, Len(obj)) => LocalsOK(z, n)
  BY <1>1 DEF LocalsOK, Locals
<1>3. CASE SemGet(p) \/ SetVal(p) \/ SemOp(p) \/ SemFails(p)
  <2>1. y \in Locals /\ x.pc \in Locking
    BY <1>3, LockMoves DEF Locking
  <2>2. CASE Same(x, y) /\ y.pc \in {"setval", "semop"}
    BY <1>1, <1>2, <2>1, <2>2 DEF LocalsOK, Looking, Builder, Same, Locking, Building
  <2>3. CASE Locked(x, y)
    BY <1>1, <1>2, <2>1, <2>3 DEF LocalsOK, Locals, Looking, Builder, Locked, Locking, Building
  <2> QED
    BY <1>3, <2>2, <2>3, LockMoves
<1>4. CASE Open(p) \/ Map(p) \/ Ready(p) \/ ReadyAgain(p) \/ CheckDevFails(p)
  <2>1. x.pc \in {"open", "map", "ready", "ready2", "dev"} /\ y \in Locals
    BY <1>4, AttachMoves
  <2>2. x.ret \in Caller /\ x.then = "none"
    BY <1>1, <2>1 DEF LocalsOK, Looking, Locking
  <2>3. CASE y = Failed(p)
    BY <1>2, <2>2, <2>3, FailedOK
  <2>4. CASE /\ y.pc \in {"map", "ready", "dev"} /\ y.ret = x.ret /\ y.then = x.then
             /\ y.fd \in 1 .. Len(obj)
    BY <1>1, <2>1, <2>2, <2>4 DEF LocalsOK, Looking, Builder, Locking, Building
  <2>5. CASE /\ y.pc = "semget" /\ y.then = "ready2" /\ y.ret = x.ret
             /\ y.fd \in 1 .. Len(obj)
    BY <1>1, <2>1, <2>2, <2>5 DEF LocalsOK, Looking, Builder, Locking, Building
  <2>6. x.pc # "open" => x.fd \in 1 .. Len(obj)
    BY <1>1, <2>1 DEF LocalsOK, Looking
  <2> QED
    BY <1>1, <1>4, <2>3, <2>4, <2>5, <2>6, AttachMoves DEF Same
<1>5. CASE Create(p)
  BY <1>1, <1>5, BuildMoves DEF LocalsOK, Looking, Builder, Locking, Building
<1>6. CASE Truncate(p) \/ RecordDev(p) \/ RecordDevFails(p) \/ List(p) \/ ListFails(p)
           \/ Load(p) \/ LoadFails(p) \/ Publish(p)
  <2>1. /\ x.pc \in Building /\ y.pc \in Building /\ y \in Locals
        /\ y.fd = x.fd /\ y.then = x.then /\ y.ret = x.ret
    BY <1>6, BuildMoves DEF Same, Building
  <2> QED
    BY <1>1, <1>2, <2>1 DEF LocalsOK, Looking, Builder, Locking, Building
<1>7. CASE New(p) \/ InitCall(p) \/ Reattach(p) \/ CheckDev(p) \/ Unlink(p) \/ CreateLoses(p)
           \/ TruncateFails(p) \/ Release(p) \/ Abandon(p) \/ Unname(p) \/ Operate(p) \/ Kill(p)
  <2>1. \/ \E here \in {"off", "idle", "act", "unlink", "excl", "unname"} : y = At(here)
        \/ \E c \in Caller : y = Attach(p, c)
    BY <1>7, PlainMoves DEF Caller
  <2> QED
    BY <1>1, <2>1, AtOK, AttachOK
<1> QED
  BY <1>3, <1>4, <1>5, <1>6, <1>7 DEF Acts, Step

\* Every step keeps the state well typed.
LEMMA TypeNext ==
  ASSUME TypeInv, [Next]_vars
  PROVE  TypeInv'
<1>1. ASSUME NEW p \in Proc, Acts(p)
      PROVE  TypeInv'
  <2>1. obj' \in Seq(Object) /\ Len(obj) \in Nat /\ Len(obj') \in Nat /\ Len(obj) <= Len(obj')
    BY <1>1, Objects, LengthStep DEF TypeInv
  <2>2. run' \in [Proc -> Locals] /\ \A q \in Proc : LocalsOK(run'[q], Len(obj'))
    <3>1. \A q \in Proc : LocalsOK(run'[q], Len(obj'))
      <4>1. \A q \in Proc : LocalsOK(run[q], Len(obj'))
        BY <2>1 DEF TypeInv, LocalsOK, Locals
      <4> QED
        BY <1>1, <4>1, OthersStay, LocalsStep
    <3>2. run' = [q \in Proc |-> run'[q]]
      BY <1>1, OthersStay
    <3> QED
      BY <3>1, <3>2 DEF LocalsOK
  <2>3. root' = root /\ fs' = fs
    BY <1>1, Changes
  <2>4. name' \in 0 .. Len(obj')
    <3>1. Create(p) => name' = Len(obj) + 1 /\ obj' = Append(obj, NewObject)
      BY DEF Create, Name
    <3> QED
      BY <1>1, <2>1, <3>1, Changes DEF TypeInv
  <2>5. sem' \in [Dev -> {"none", "zero", NoProc} \cup Proc]
    <3>1. SemGet(p) => sem' \in [Dev -> {"none", "zero", NoProc} \cup Proc]
      BY DEF SemGet, TypeInv
    <3>2. SetVal(p) => sem' \in [Dev -> {"none", "zero", NoProc} \cup Proc]
      BY DEF SetVal, TypeInv
    <3>3. SemOp(p) => sem' \in [Dev -> {"none", "zero", NoProc} \cup Proc]
      BY DEF SemOp, TypeInv
    <3>4. Released(p) \in [Dev -> {"none", "zero", NoProc} \cup Proc]
      BY DEF Released, TypeInv
    <3> QED
      BY <1>1, <3>1, <3>2, <3>3, <3>4, Changes DEF TypeInv
  <2>6. seg' \in [Proc -> 0 .. Len(obj')] /\ ops' \in [Proc -> 0 .. Interval - 1]
    <3>1. seg' \in [Proc -> 0 .. Len(obj')]
      <4>1. run[p].fd \in 0 .. Len(obj') /\ seg \in [Proc -> 0 .. Len(obj')]
        BY <2>1 DEF TypeInv, LocalsOK
      <4>2. Kill(p) => seg' = [seg EXCEPT ![p] = 0]
        BY DEF Kill
      <4> QED
        BY <1>1, <2>1, <4>1, <4>2, Changes
    <3>2. ops' \in [Proc -> 0 .. Interval - 1]
      <4>1. \A i \in Nat : i % Interval \in 0 .. Interval - 1
        BY BoundAssumption
      <4>2. Reattach(p) => ops' = [ops EXCEPT ![p] = (ops[p] + 1) % Interval]
        BY DEF Reattach
      <4>3. ops[p] + 1 \in Nat
        BY BoundAssumption DEF TypeInv
      <4>4. PICK i : i = (ops[p] + 1) % Interval /\ i \in 0 .. Interval - 1
        BY <4>1, <4>3
      <4>5. 0 \in 0 .. Interval - 1
        BY BoundAssumption
      <4> QED
        BY <1>1, <4>2, <4>4, <4>5, Changes DEF TypeInv
    <3> QED
      BY <3>1, <3>2
  <2>7. missed' \in [Proc -> Nat] /\ raced' \in BOOLEAN
    <3>1. Reattach(p) => missed' = [missed EXCEPT ![p] = IF Usable THEN missed[p] + 1 ELSE 0]
      BY DEF Reattach
    <3>2. InitCall(p) => raced' \in BOOLEAN
      BY DEF InitCall
    <3> QED
      BY <1>1, <3>1, <3>2, Changes DEF TypeInv
  <2> QED
    BY <2>1, <2>2, <2>3, <2>4, <2>5, <2>6, <2>7 DEF TypeInv
<1>2. ASSUME NEW k \in Key, NEW v \in Value, Write(k, v)
      PROVE  TypeInv'
  BY <1>2, WriteStep DEF TypeInv, Write
<1>3. CASE Mount
  BY <1>3 DEF TypeInv, Mount, Dev
<1>4. CASE UNCHANGED vars
  BY <1>4 DEF TypeInv, vars
<1> QED
  BY <1>1, <1>2, <1>3, <1>4 DEF Next, Acts

-----------------------------------------------------------------------------
(* Who builds what.                                                        *)

\* A process is a creator only of the object it has made; only its creator changes
\* an object.
LEMMA BuilderStep ==
  ASSUME TypeInv, NEW p \in Proc, Acts(p)
  PROVE  /\ Builder(run'[p]) /\ ~Create(p) => Builder(run[p]) /\ run'[p].fd = run[p].fd
         /\ Create(p) => /\ ~Builder(run[p]) /\ Builder(run'[p])
                         /\ run'[p].fd = Len(obj) + 1 /\ Len(obj') = Len(obj) + 1
                         /\ obj'[Len(obj) + 1] = NewObject
         /\ \A o \in DOMAIN obj : ~(Builder(run[p]) /\ o = run[p].fd) => obj'[o] = obj[o]
         /\ DOMAIN obj \subseteq DOMAIN obj'
         /\ ~Create(p) => DOMAIN obj' = DOMAIN obj
<1> DEFINE x == run[p]
           y == run'[p]
<1>1. /\ Len(obj) \in Nat /\ DOMAIN obj = 1 .. Len(obj) /\ obj \in Seq(Object)
      /\ LocalsOK(x, Len(obj)) /\ x \in Locals
  BY Objects DEF TypeInv
<1>2. Create(p) => /\ Len(obj') = Len(obj) + 1 /\ obj'[Len(obj) + 1] = NewObject
                   /\ \A o \in DOMAIN obj : obj'[o] = obj[o]
  BY <1>1, LengthStep
<1>3. /\ DOMAIN obj \subseteq DOMAIN obj'
      /\ ~Create(p) => DOMAIN obj' = DOMAIN obj
  BY <1>1, <1>2, LengthStep
<1>4. Create(p) => ~Builder(x) /\ Builder(y) /\ y.fd = Len(obj) + 1
  BY <1>1, BuildMoves DEF Builder, Building, LocalsOK, Locking
<1>5. CASE SemGet(p) \/ SetVal(p) \/ SemOp(p) \/ SemFails(p)
  <2>1. x.pc \in Locking /\ obj' = obj /\ ~Create(p)
    BY <1>5, LockMoves, BuildMoves DEF Locking, SemGet, SetVal, SemOp, SemFails, MovesFailing, shared
  <2>2. Builder(y) => Builder(x) /\ y.fd = x.fd
    <3>1. x.then \in {"none", "open", "ready2", "size"}
      BY <1>1 DEF Locals
    <3> QED
      BY <1>5, <3>1, LockMoves DEF Same, Locked, Builder, Building
  <2> QED
    BY <1>3, <2>1, <2>2
<1>6. CASE Open(p) \/ Map(p) \/ Ready(p) \/ ReadyAgain(p) \/ CheckDevFails(p)
  <2>1. x.pc \in {"open", "map", "ready", "ready2", "dev"} /\ obj' = obj /\ ~Create(p)
    BY <1>6, AttachMoves, BuildMoves
       DEF Open, Map, Ready, ReadyAgain, Moves, CheckDevFails, shared
  <2>2. x.ret \in Caller /\ x.then = "none"
    BY <1>1, <2>1 DEF LocalsOK, Looking, Locking
  <2>3. ~Builder(y)
    BY <1>6, <2>2, AttachMoves, FailedOK DEF Same, Builder, Building
  <2> QED
    BY <1>3, <2>1, <2>3
<1>7. CASE Truncate(p) \/ RecordDev(p) \/ RecordDevFails(p) \/ List(p) \/ ListFails(p)
           \/ Load(p) \/ LoadFails(p) \/ Publish(p)
  <2>1. x.pc \in Building /\ y.fd = x.fd /\ ~Create(p)
    BY <1>7, BuildMoves DEF Same, Building
  <2> QED
    BY <1>3, <2>1, LengthStep DEF Builder
<1>8. CASE New(p) \/ InitCall(p) \/ Reattach(p) \/ CheckDev(p) \/ Unlink(p) \/ CreateLoses(p)
           \/ TruncateFails(p) \/ Release(p) \/ Abandon(p) \/ Unname(p) \/ Operate(p) \/ Kill(p)
  <2>1. \/ \E here \in {"off", "idle", "act", "unlink", "excl", "unname"} : y = At(here)
        \/ \E c \in Caller : y = Attach(p, c)
    BY <1>8, PlainMoves DEF Caller
  <2>2. ~Builder(y)
    BY <1>1, <2>1, AtOK, AttachOK
  <2>3. obj' = obj
    BY <1>8 DEF New, InitCall, Reattach, CheckDev, Unlink, CreateLoses, TruncateFails, Release,
       Abandon, Unname, Operate, Kill, Moves, shared
  <2> QED
    BY <1>3, <1>4, <2>2, <2>3
<1> QED
  BY <1>2, <1>3, <1>4, <1>5, <1>6, <1>7, <1>8 DEF Acts, Step

\* What its creator has made of an object after a step of the creator.
LEMMA BuiltStep ==
  ASSUME TypeInv, BuildInv, NEW p \in Proc, Acts(p), Builder(run'[p])
  PROVE  LET o == obj'[run'[p].fd] IN
         BuiltSoFar(run'[p], o) /\ (o.ready => o.sized /\ o.dev # {})
<1> DEFINE x == run[p]
           y == run'[p]
<1>1. CASE Create(p)
  <2>1. NewObject.sized = FALSE /\ NewObject.dev = {} /\ NewObject.vars = Nothing /\ NewObject.ready = FALSE
    BY DEF NewObject
  <2> QED
    BY <1>1, <2>1, BuilderStep, BuildMoves DEF BuiltSoFar, Locking
<1>2. CASE ~Create(p)
  <2>1. Builder(x) /\ y.fd = x.fd /\ BuiltSoFar(x, obj[x.fd])
    BY <1>2, BuilderStep DEF BuildInv
  <2>2. x.fd \in DOMAIN obj /\ (obj[x.fd].ready => obj[x.fd].sized /\ obj[x.fd].dev # {})
    BY <2>1, Objects DEF BuildInv, TypeInv, LocalsOK
  <2>3. CASE SemGet(p) \/ SetVal(p) \/ SemOp(p) \/ SemFails(p)
    <3>1. obj' = obj
      BY <2>3 DEF SemGet, SetVal, SemOp, SemFails, MovesFailing, shared
    <3>2. x.pc \in Locking => x.then = "size"
      BY <2>1 DEF Builder, Building, Locking
    <3> QED
      BY <2>1, <2>2, <2>3, <3>1, <3>2, LockMoves DEF BuiltSoFar, Same, Locked, Locking
  <2>4. CASE RecordDevFails(p) \/ ListFails(p) \/ LoadFails(p)
    <3>1. obj' = obj
      BY <2>4 DEF RecordDevFails, ListFails, LoadFails, MovesFailing, shared
    <3> QED
      BY <2>1, <2>2, <2>4, <3>1, BuildMoves DEF BuiltSoFar, Locking
  <2>5. CASE Truncate(p) \/ RecordDev(p) \/ List(p) \/ Publish(p)
    <3>1. CASE Truncate(p)
      <4>1. x.pc = "size" /\ y.pc = "stat" /\ x.then = y.then
        BY <3>1, BuildMoves DEF Same
      <4> QED
        BY <2>1, <2>2, <3>1, <4>1, ObjectSteps DEF BuiltSoFar, Locking
    <3>2. CASE RecordDev(p)
      <4>1. x.pc = "stat" /\ y.pc = "list"
        BY <3>2, BuildMoves DEF Same
      <4> QED
        BY <2>1, <2>2, <3>2, <4>1, ObjectSteps DEF BuiltSoFar, Locking
    <3>3. CASE List(p)
      <4>1. x.pc = "list" /\ y.pc = "load"
        BY <3>3, BuildMoves DEF Same
      <4>2. /\ obj'[x.fd].sized = obj[x.fd].sized /\ obj'[x.fd].dev = obj[x.fd].dev
            /\ obj'[x.fd].ready = obj[x.fd].ready
        BY <3>3, ObjectSteps
      <4> QED
        BY <2>1, <2>2, <4>1, <4>2 DEF BuiltSoFar, Locking
    <3>4. CASE Publish(p)
      <4>1. x.pc = "load" /\ y.pc = "release"
        BY <3>4, BuildMoves DEF Same
      <4> QED
        BY <2>1, <2>2, <3>4, <4>1, ObjectSteps DEF BuiltSoFar, Locking
    <3> QED
      BY <2>5, <3>1, <3>2, <3>3, <3>4
  <2>6. CASE Load(p)
    BY <2>1, <2>2, <2>6, BuildMoves, LoadStep DEF BuiltSoFar, Locking
  <2>7. CASE Open(p) \/ Map(p) \/ Ready(p) \/ ReadyAgain(p) \/ CheckDevFails(p)
    <3>1. x.pc \in {"open", "map", "ready", "ready2", "dev"}
      BY <2>7, AttachMoves
    <3>2. x.then = "none"
      BY <3>1 DEF TypeInv, LocalsOK, Locking
    <3> QED
      BY <2>1, <3>1, <3>2 DEF Builder, Building
  <2>8. CASE New(p) \/ InitCall(p) \/ Reattach(p) \/ CheckDev(p) \/ Unlink(p) \/ CreateLoses(p)
             \/ TruncateFails(p) \/ Release(p) \/ Abandon(p) \/ Unname(p) \/ Operate(p) \/ Kill(p)
    <3>1. \/ \E here \in {"off", "idle", "act", "unlink", "excl", "unname"} : y = At(here)
          \/ \E c \in Caller : y = Attach(p, c)
      BY <2>8, PlainMoves DEF Caller
    <3> QED
      BY <3>1, AtOK, AttachOK, Objects
  <2> QED
    BY <1>2, <2>3, <2>4, <2>5, <2>6, <2>7, <2>8 DEF Acts, Step
<1> QED
  BY <1>1, <1>2

\* Every step keeps the objects in order.
LEMMA BuildNext ==
  ASSUME TypeInv, BuildInv, [Next]_vars
  PROVE  BuildInv'
<1>1. ASSUME NEW p \in Proc, Acts(p)
      PROVE  BuildInv'
  <2>1. \A q \in Proc : Builder(run[q]) => run[q].fd \in DOMAIN obj
    BY Objects DEF TypeInv, LocalsOK
  <2>2. Len(obj) \in Nat /\ DOMAIN obj = 1 .. Len(obj)
    BY Objects
  <2>3. ASSUME NEW q \in Proc, Builder(run'[q])
        PROVE  /\ BuiltSoFar(run'[q], obj'[run'[q].fd])
               /\ \A r \in Proc : Builder(run'[r]) /\ run'[r].fd = run'[q].fd => q = r
    <3>1. \A r \in Proc : r # p /\ Builder(run'[r]) => run'[r] = run[r] /\ run[r].fd \in DOMAIN obj
      BY <1>1, <2>1, OthersStay
    <3>2. \A r \in Proc : r # p /\ Builder(run'[r]) /\ Builder(run'[p]) => run'[r].fd # run'[p].fd
      BY <1>1, <2>2, <3>1, BuilderStep DEF BuildInv
    <3>3. \A r \in Proc : Builder(run'[r]) /\ run'[r].fd = run'[q].fd => q = r
      BY <2>3, <3>1, <3>2 DEF BuildInv
    <3>4. BuiltSoFar(run'[q], obj'[run'[q].fd])
      <4>1. CASE q = p
        BY <1>1, <2>3, <4>1, BuiltStep
      <4>2. CASE q # p
        <5>1. run'[q] = run[q] /\ obj'[run[q].fd] = obj[run[q].fd]
          BY <1>1, <2>3, <3>1, <4>2, BuilderStep DEF BuildInv
        <5> QED
          BY <2>3, <5>1 DEF BuildInv
      <4> QED
        BY <4>1, <4>2
    <3> QED
      BY <3>3, <3>4
  <2>4. ASSUME NEW o \in DOMAIN obj', obj'[o].ready
        PROVE  obj'[o].sized /\ obj'[o].dev # {}
    <3>1. CASE o \in DOMAIN obj /\ obj'[o] = obj[o]
      BY <2>4, <3>1 DEF BuildInv
    <3>2. CASE Builder(run'[p]) /\ o = run'[p].fd
      BY <1>1, <2>4, <3>2, BuiltStep
    <3>3. CASE o \in DOMAIN obj /\ Builder(run[p]) /\ o = run[p].fd /\ ~Builder(run'[p])
      <4>1. obj' = obj
        <5>1. ~(Create(p) \/ Truncate(p) \/ RecordDev(p) \/ List(p) \/ Load(p) \/ Publish(p))
          BY <3>3, BuildMoves DEF Builder, Building
        <5> QED
          BY <1>1, <5>1, Zenon DEF Acts, Step, New, InitCall, Reattach, Kill, SemGet, SetVal, SemOp,
             SemFails, Open, Map, Ready, ReadyAgain, CheckDev, CheckDevFails, Unlink, CreateLoses,
             TruncateFails, RecordDevFails, ListFails, LoadFails, Release, Abandon, Unname, Operate,
             Moves, MovesFailing, shared
      <4> QED
        BY <2>4, <3>3, <4>1 DEF BuildInv
    <3>4. CASE o \notin DOMAIN obj
      <4>1. Create(p)
        BY <1>1, <3>4, BuilderStep
      <4>2. o = Len(obj) + 1
        <5>1. DOMAIN obj' = 1 .. Len(obj')
          BY <1>1, LengthStep
        <5>2. Len(obj') = Len(obj) + 1
          BY <1>1, <4>1, BuilderStep
        <5> QED
          BY <2>2, <2>4, <3>4, <5>1, <5>2
      <4> QED
        BY <1>1, <2>4, <4>1, <4>2, BuilderStep DEF NewObject
    <3> QED
      BY <1>1, <3>1, <3>2, <3>3, <3>4, BuilderStep
  <2> QED
    BY <2>3, <2>4 DEF BuildInv
<1>2. ASSUME NEW k \in Key, NEW v \in Value, Write(k, v)
      PROVE  BuildInv'
  <2>1. run' = run
    BY <1>2 DEF Write
  <2>2. DOMAIN obj' = DOMAIN obj
    BY <1>2, WriteStep, Objects
  <2>3. \A q \in Proc : Builder(run[q]) => run[q].fd \in DOMAIN obj
    BY Objects DEF TypeInv, LocalsOK
  <2> QED
    BY <1>2, <2>1, <2>2, <2>3, WriteStep DEF BuildInv, BuiltSoFar
<1>3. CASE Mount
  BY <1>3 DEF BuildInv, Mount
<1>4. CASE UNCHANGED vars
  BY <1>4 DEF BuildInv, vars
<1> QED
  BY <1>1, <1>2, <1>3, <1>4 DEF Next, Acts

-----------------------------------------------------------------------------
(* Where a segment was read.                                               *)

\* An object is as it was, or new, or its creator has just worked on it.
LEMMA ObjectCases ==
  ASSUME TypeInv, NEW p \in Proc, Acts(p), NEW o \in DOMAIN obj'
  PROVE  \/ o \in DOMAIN obj /\ obj'[o] = obj[o]
         \/ Create(p) /\ o \notin DOMAIN obj /\ o = run'[p].fd /\ o = name' /\ obj'[o] = NewObject
         \/ /\ Truncate(p) \/ RecordDev(p) \/ List(p) \/ Load(p) \/ Publish(p)
            /\ o \in DOMAIN obj /\ o = run[p].fd
<1>1. CASE Create(p)
  <2>1. Len(obj) \in Nat /\ DOMAIN obj = 1 .. Len(obj) /\ DOMAIN obj' = 1 .. Len(obj')
    BY Objects, LengthStep
  <2>2. Len(obj') = Len(obj) + 1 /\ obj'[Len(obj) + 1] = NewObject /\ run'[p].fd = Len(obj) + 1
    BY <1>1, BuilderStep
  <2>3. \A n \in DOMAIN obj : obj'[n] = obj[n]
    BY <1>1, BuilderStep
  <2>4. name' = Len(obj) + 1
    BY <1>1 DEF Create, Name
  <2> QED
    BY <1>1, <2>1, <2>2, <2>3, <2>4
<1>2. CASE Truncate(p) \/ RecordDev(p) \/ List(p) \/ Load(p) \/ Publish(p)
  <2>1. ~Create(p)
    BY <1>2, BuildMoves
  <2> QED
    BY <1>2, <2>1, BuilderStep
<1>3. CASE ~(Create(p) \/ Truncate(p) \/ RecordDev(p) \/ List(p) \/ Load(p) \/ Publish(p))
  <2>1. obj' = obj
    BY <1>3, Zenon DEF Acts, Step, New, InitCall, Reattach, Kill, SemGet, SetVal, SemOp,
       SemFails, Open, Map, Ready, ReadyAgain, CheckDev, CheckDevFails, Unlink, CreateLoses,
       TruncateFails, RecordDevFails, ListFails, LoadFails, Release, Abandon, Unname, Operate,
       Moves, MovesFailing, shared
  <2> QED
    BY <2>1
<1> QED
  BY <1>1, <1>2, <1>3

\* Every step keeps apart what is read before the mount and after it.
LEMMA FromNext ==
  ASSUME TypeInv, BuildInv, FromInv, [Next]_vars
  PROVE  FromInv'
<1>1. ASSUME NEW p \in Proc, Acts(p)
      PROVE  FromInv'
  <2>1. root' = root /\ root \in {Bare, Part} /\ Bare # Part
    BY <1>1, Changes, DirAssumption DEF TypeInv, Dev
  <2>2. SUFFICES ASSUME NEW o \in DOMAIN obj'
                 PROVE  /\ obj'[o].dev \in {{}, {Bare}, {Part}}
                        /\ obj'[o].dev = {} => obj'[o].from = {}
                        /\ obj'[o].dev = {Part} => obj'[o].from \subseteq {Part}
                        /\ root = Bare => obj'[o].dev \subseteq {Bare} /\ obj'[o].from \subseteq {Bare}
    BY <2>1 DEF FromInv
  <2>3. CASE o \in DOMAIN obj /\ obj'[o] = obj[o]
    BY <2>3 DEF FromInv
  <2>4. CASE obj'[o] = NewObject
    BY <2>4 DEF NewObject
  <2>5. CASE /\ Truncate(p) \/ RecordDev(p) \/ List(p) \/ Load(p) \/ Publish(p)
             /\ o \in DOMAIN obj /\ o = run[p].fd
    <3> DEFINE b == obj[o]
               c == obj'[o]
    <3>1. /\ b.dev \in {{}, {Bare}, {Part}} /\ (b.dev = {} => b.from = {})
          /\ b.dev = {Part} => b.from \subseteq {Part}
          /\ root = Bare => b.dev \subseteq {Bare} /\ b.from \subseteq {Bare}
      BY <2>5 DEF FromInv
    <3>2. BuiltSoFar(run[p], b)
      BY <2>5, BuildMoves DEF BuildInv, Builder, Building
    <3>3. CASE Truncate(p) \/ Publish(p)
      <4>1. c.dev = b.dev /\ c.from = b.from
        BY <2>5, <3>3, ObjectSteps
      <4> QED
        BY <3>1, <4>1
    <3>4. CASE RecordDev(p)
      <4>1. c.dev = {root} /\ c.from = b.from /\ b.dev = {}
        BY <2>5, <3>2, <3>4, ObjectSteps, BuildMoves DEF BuiltSoFar
      <4> QED
        BY <2>1, <3>1, <4>1
    <3>5. CASE List(p) \/ Load(p)
      <4>1. c.dev = b.dev /\ c.from \in {b.from, b.from \cup {root}} /\ b.dev # {}
        <5>1. CASE List(p)
          BY <2>5, <3>2, <5>1, ObjectSteps, BuildMoves DEF BuiltSoFar
        <5>2. CASE Load(p)
          BY <2>5, <3>2, <5>2, LoadStep, BuildMoves DEF BuiltSoFar
        <5> QED
          BY <3>5, <5>1, <5>2
      <4> QED
        BY <2>1, <3>1, <4>1
    <3> QED
      BY <2>5, <3>3, <3>4, <3>5
  <2> QED
    BY <1>1, <2>3, <2>4, <2>5, ObjectCases
<1>2. ASSUME NEW k \in Key, NEW v \in Value, Write(k, v)
      PROVE  FromInv'
  <2>1. root' = root
    BY <1>2 DEF Write
  <2>2. DOMAIN obj' = DOMAIN obj
    BY <1>2, WriteStep, Objects
  <2> QED
    BY <1>2, <2>1, <2>2, WriteStep DEF FromInv
<1>3. CASE Mount
  <2>1. root = Bare /\ root' = Part /\ obj' = obj /\ Bare # Part
    BY <1>3, DirAssumption DEF Mount
  <2> QED
    BY <2>1 DEF FromInv
<1>4. CASE UNCHANGED vars
  BY <1>4 DEF FromInv, vars
<1> QED
  BY <1>1, <1>2, <1>3, <1>4 DEF Next, Acts

\* Before anything has happened.
LEMMA InitInv ==
  ASSUME Init
  PROVE  TypeInv /\ BuildInv /\ FromInv
<1>1. obj = <<>> /\ obj \in Seq(Object) /\ Len(obj) = 0 /\ DOMAIN obj = {}
  BY DEF Init
<1>2. \A p \in Proc : run[p] = At("off") /\ run[p] \in Locals
  BY AtFields DEF Init, Place
<1>3. \A p \in Proc : LocalsOK(run[p], 0) /\ ~Builder(run[p])
  BY <1>2, AtOK
<1>4. TypeInv
  <2>1. run \in [Proc -> Locals]
    BY <1>2 DEF Init
  <2>2. /\ root \in Dev /\ fs \in [Dev -> [Key -> Value]] /\ name \in 0 .. Len(obj)
        /\ sem \in [Dev -> {"none", "zero", NoProc} \cup Proc]
        /\ missed \in [Proc -> Nat] /\ raced \in BOOLEAN
    <3>1. root \in Dev
      BY DEF Init, Dev
    <3>2. fs \in [Dev -> [Key -> Value]] /\ name = 0 /\ raced \in BOOLEAN
      BY Zenon DEF Init
    <3>3. sem \in [Dev -> {"none", "zero", NoProc} \cup Proc] /\ missed \in [Proc -> Nat]
      BY DEF Init
    <3> QED
      BY <1>1, <3>1, <3>2, <3>3
  <2>3. seg \in [Proc -> 0 .. Len(obj)] /\ ops \in [Proc -> 0 .. Interval - 1]
    <3>1. 0 \in 0 .. Len(obj) /\ 0 \in 0 .. Interval - 1
      BY <1>1, BoundAssumption
    <3> QED
      BY <3>1 DEF Init
  <2> QED
    BY <1>1, <1>3, <2>1, <2>2, <2>3 DEF TypeInv
<1> QED
  BY <1>1, <1>3, <1>4 DEF BuildInv, FromInv

\* The three hold together.
LEMMA BaseInvariant == Spec => [](TypeInv /\ BuildInv /\ FromInv)
<1>1. Init => TypeInv /\ BuildInv /\ FromInv
  BY InitInv
<1>2. TypeInv /\ BuildInv /\ FromInv /\ [Next]_vars => (TypeInv /\ BuildInv /\ FromInv)'
  BY TypeNext, BuildNext, FromNext
<1> QED
  BY <1>1, <1>2, PTL DEF Spec

\* Whatever fails, whoever is killed and whenever something is mounted on /nvram: the
\* state stays well typed, and a published object is sized and records its filesystem.
THEOREM TypeCorrect == Spec => []TypeOK
<1>1. TypeInv /\ BuildInv => TypeOK
  <2> SUFFICES ASSUME TypeInv, BuildInv PROVE TypeOK
    OBVIOUS
  <2>1. \A o \in DOMAIN obj : obj[o].vars \in [Key -> Value]
    BY Objects DEF Object
  <2>2. \A p \in Proc : run[p].fd \in 0 .. Len(obj) /\ run[p].todo \subseteq Key
    BY DEF TypeInv, LocalsOK, Locals
  <2> QED
    BY <2>1, <2>2 DEF TypeOK, TypeInv, BuildInv
<1> QED
  BY <1>1, BaseInvariant, PTL

\* Whenever the mount happens, before, between or after the steps of
\* Segment::create: a segment that records the filesystem mounted now (store_dev) was
\* read from that filesystem only.
THEOREM Matches == Spec => []SegmentMatchesMount
<1>1. TypeInv /\ FromInv => SegmentMatchesMount
  <2> SUFFICES ASSUME TypeInv, FromInv, NEW o \in DOMAIN obj, obj[o].dev = {root}
               PROVE  obj[o].from \subseteq {root}
    BY DEF SegmentMatchesMount, InUse
  <2> QED
    BY DEF FromInv, TypeInv, Dev
<1> QED
  BY <1>1, BaseInvariant, PTL

-----------------------------------------------------------------------------
(* A segment is published whole.                                           *)

\* Only these steps leave a process listing or loading.
LEMMA ReachLoad ==
  ASSUME TypeInv, NEW p \in Proc, Acts(p), run'[p].pc \in {"list", "load"}
  PROVE  RecordDev(p) \/ List(p) \/ Load(p)
<1>1. CASE SemGet(p) \/ SetVal(p) \/ SemOp(p) \/ SemFails(p)
  <2>1. run[p].then \in {"none", "open", "ready2", "size"}
    BY DEF TypeInv, Locals
  <2> QED
    BY <1>1, <2>1, LockMoves DEF Locked
<1>2. CASE Open(p) \/ Map(p) \/ Ready(p) \/ ReadyAgain(p) \/ CheckDevFails(p)
  <2>1. run[p].ret \in Caller
    BY <1>2, AttachMoves DEF TypeInv, LocalsOK, Looking
  <2> QED
    BY <1>2, <2>1, AttachMoves, FailedOK
<1>3. CASE Create(p) \/ Truncate(p) \/ RecordDevFails(p) \/ ListFails(p) \/ LoadFails(p) \/ Publish(p)
  BY <1>3, BuildMoves
<1>4. CASE New(p) \/ InitCall(p) \/ Reattach(p) \/ CheckDev(p) \/ Unlink(p) \/ CreateLoses(p)
           \/ TruncateFails(p) \/ Release(p) \/ Abandon(p) \/ Unname(p) \/ Operate(p) \/ Kill(p)
  <2>1. \/ \E here \in {"off", "idle", "act", "unlink", "excl", "unname"} : run'[p] = At(here)
        \/ \E c \in Caller : run'[p] = Attach(p, c)
    BY <1>4, PlainMoves DEF Caller
  <2> QED
    BY <2>1, AtOK, AttachOK, Objects DEF Builder, Building
<1> QED
  BY <1>1, <1>2, <1>3, <1>4 DEF Acts, Step

\* Every step keeps what is loaded up to date with what the files have held.
LEMMA WholeNext ==
  ASSUME "read" \notin Fault, TypeInv, BuildInv, FromInv, WholeInv, [Next]_vars
  PROVE  WholeInv'
<1>0. \A q \in Proc : run[q].pc \in {"list", "load"} =>
        /\ Builder(run[q]) /\ run[q].fd \in DOMAIN obj
        /\ obj[run[q].fd] \in Object /\ BuiltSoFar(run[q], obj[run[q].fd])
  BY Objects DEF BuildInv, Builder, Building, TypeInv, LocalsOK
<1>1. ASSUME NEW p \in Proc, Acts(p)
      PROVE  WholeInv'
  <2>1. root' = root /\ fs' = fs /\ fs[root] \in [Key -> Value]
    BY <1>1, Changes DEF TypeInv
  <2>2. SUFFICES ASSUME NEW q \in Proc, run'[q].pc \in {"list", "load"},
                        obj'[run'[q].fd].dev = {root}, NEW k \in Key
                 PROVE  LET o == obj'[run'[q].fd] IN
                        /\ fs[root][k] \in o.had[k]
                        /\ run'[q].pc = "load" => IF k \in run'[q].todo THEN o.vars[k] = Absent
                                                  ELSE o.vars[k] \in o.had[k]
    BY <2>1 DEF WholeInv
  <2>3. CASE q # p
    <3>1. run'[q] = run[q]
      BY <1>1, <2>3, OthersStay
    <3>2. obj'[run[q].fd] = obj[run[q].fd]
      BY <1>0, <1>1, <2>2, <2>3, <3>1, BuilderStep DEF BuildInv
    <3> QED
      BY <2>2, <3>1, <3>2 DEF WholeInv
  <2>4. CASE q = p
    <3> DEFINE x == run[p]
               b == obj[x.fd]
               y == run'[p]
               c == obj'[x.fd]
    <3>1. CASE RecordDev(p)
      <4>1. y.pc = "list" /\ y.fd = x.fd /\ c.had = [j \in Key |-> {fs[root][j]}]
        BY <3>1, BuildMoves, ObjectSteps DEF Same
      <4> QED
        BY <2>4, <4>1
    <3>2. CASE List(p)
      <4>1. /\ x.pc = "list" /\ y.fd = x.fd /\ y.todo = {j \in Key : fs[root][j] # Absent}
            /\ c.had = b.had /\ c.vars = b.vars /\ c.dev = b.dev
        BY <3>2, BuildMoves, ObjectSteps
      <4>2. b.vars = Nothing /\ fs[root][k] \in b.had[k]
        BY <1>0, <2>2, <2>4, <4>1 DEF BuiltSoFar, WholeInv
      <4>3. b.vars[k] = Absent
        BY <4>2 DEF Nothing
      <4> QED
        BY <2>4, <4>1, <4>2, <4>3
    <3>3. CASE Load(p)
      <4>1. x.pc = "load" /\ y.fd = x.fd /\ c.dev = b.dev
        BY <3>3, BuildMoves, LoadStep
      <4>2. /\ fs[root][k] \in b.had[k]
            /\ IF k \in x.todo THEN b.vars[k] = Absent ELSE b.vars[k] \in b.had[k]
        BY <2>2, <2>4, <4>1 DEF WholeInv
      <4>3. b.vars \in [Key -> Value] /\ b.had \in [Key -> SUBSET Value]
        BY <1>0, <4>1 DEF Object
      <4>4. PICK j \in x.todo :
              /\ y.todo = x.todo \ {j}
              /\ c.had = b.had /\ c.vars = [b.vars EXCEPT ![j] = fs[root][j]]
        BY <3>3, LoadStep
      <4> QED
        BY <2>4, <4>1, <4>2, <4>3, <4>4
    <3> QED
      BY <1>1, <2>2, <2>4, <3>1, <3>2, <3>3, ReachLoad
  <2> QED
    BY <2>3, <2>4
<1>2. ASSUME NEW k \in Key, NEW v \in Value, Write(k, v)
      PROVE  WholeInv'
  <2>1. root' = root /\ run' = run /\ fs' = [fs EXCEPT ![root][k] = v]
    BY <1>2 DEF Write
  <2>2. \A j \in Key : fs'[root][j] = IF j = k THEN v ELSE fs[root][j]
    BY <2>1 DEF TypeInv
  <2>3. SUFFICES ASSUME NEW q \in Proc, run[q].pc \in {"list", "load"},
                        obj'[run[q].fd].dev = {root}, NEW j \in Key
                 PROVE  LET o == obj'[run[q].fd] IN
                        /\ fs'[root][j] \in o.had[j]
                        /\ run[q].pc = "load" => IF j \in run[q].todo THEN o.vars[j] = Absent
                                                 ELSE o.vars[j] \in o.had[j]
    BY <2>1 DEF WholeInv
  <2> DEFINE b == obj[run[q].fd]
             c == obj'[run[q].fd]
  <2>4. ~b.ready /\ run[q].fd \in DOMAIN obj
    BY <1>0, <2>3 DEF BuiltSoFar
  <2>5. /\ c.dev = b.dev /\ c.vars = b.vars /\ \A i \in Key : b.had[i] \subseteq c.had[i]
        /\ b.dev = {root} => v \in c.had[k]
    BY <1>2, <2>4, WriteStep
  <2>6. /\ fs[root][j] \in b.had[j]
        /\ run[q].pc = "load" => IF j \in run[q].todo THEN b.vars[j] = Absent
                                 ELSE b.vars[j] \in b.had[j]
    BY <2>3, <2>5 DEF WholeInv
  <2> QED
    BY <2>2, <2>3, <2>5, <2>6
<1>3. CASE Mount
  <2>1. root = Bare /\ root' = Part /\ obj' = obj /\ run' = run /\ Bare # Part
    BY <1>3, DirAssumption DEF Mount
  <2>2. \A o \in DOMAIN obj : obj[o].dev # {Part}
    BY <2>1 DEF FromInv
  <2> QED
    BY <1>0, <2>1, <2>2 DEF WholeInv
<1>4. CASE UNCHANGED vars
  BY <1>4 DEF WholeInv, vars
<1> QED
  BY <1>1, <1>2, <1>3, <1>4 DEF Next, Acts

\* A segment that a step publishes is complete.
LEMMA PublishStep ==
  ASSUME TypeInv, BuildInv, WholeInv, [Next]_vars,
         NEW o \in DOMAIN obj, obj'[o].ready, ~obj[o].ready, obj[o].dev = {root}, NEW k \in Key
  PROVE  obj[o].vars[k] \in obj[o].had[k]
<1>1. ASSUME NEW p \in Proc, Acts(p)
      PROVE  obj[o].vars[k] \in obj[o].had[k]
  <2>1. o \in DOMAIN obj'
    BY <1>1, BuilderStep
  <2>2. /\ Truncate(p) \/ RecordDev(p) \/ List(p) \/ Load(p) \/ Publish(p)
        /\ o = run[p].fd
    BY <1>1, <2>1, ObjectCases
  <2>3. Publish(p)
    BY <2>2, ObjectSteps, LoadStep
  <2>4. run[p].pc = "load" /\ run[p].todo = {}
    BY <2>3, BuildMoves DEF Publish
  <2> QED
    BY <2>2, <2>4 DEF WholeInv
<1>2. ASSUME NEW j \in Key, NEW v \in Value, Write(j, v)
      PROVE  FALSE
  BY <1>2, WriteStep
<1>3. CASE Mount \/ UNCHANGED vars
  BY <1>3 DEF Mount, vars
<1> QED
  BY <1>1, <1>2, <1>3 DEF Next, Acts

\* Segment::create stores `ready` last: what it publishes of the filesystem that is
\* mounted holds, for every variable, a value its file has had since the device was
\* recorded, however many files other processes change while it loads them, as long
\* as no file that is there fails to be read: load_all passes over one that does.
THEOREM Whole ==
  ASSUME "read" \notin Fault
  PROVE  Spec => PublishesWhole
<1>1. Init => WholeInv
  <2>1. Init => \A p \in Proc : run[p].pc = "off"
    BY AtFields DEF Init, Place
  <2> QED
    BY <2>1 DEF WholeInv
<1>2. TypeInv /\ BuildInv /\ FromInv /\ WholeInv /\ [Next]_vars => WholeInv'
  BY WholeNext
<1>3. TypeInv /\ BuildInv /\ WholeInv /\ [Next]_vars =>
        [\A o \in DOMAIN obj : obj'[o].ready /\ ~obj[o].ready /\ obj[o].dev = {root}
           => \A k \in Key : obj[o].vars[k] \in obj[o].had[k]]_vars
  BY PublishStep
<1> QED
  BY <1>1, <1>2, <1>3, BaseInvariant, PTL DEF Spec, PublishesWhole

-----------------------------------------------------------------------------
(* A detached process catches up.                                          *)

\* The segment that is there to be found stays as it is while it has the name.
LEMMA UsableStep ==
  ASSUME TypeInv, BuildInv, NEW p \in Proc, Acts(p), Usable, name' = name
  PROVE  Usable' /\ obj[name].sized
<1>1. name \in DOMAIN obj /\ name \in DOMAIN obj'
  BY Objects, BuilderStep DEF TypeInv, Usable
<1>2. root' = root
  BY Changes
<1>3. obj'[name] = obj[name]
  <2>1. ASSUME Truncate(p) \/ RecordDev(p) \/ List(p) \/ Load(p) \/ Publish(p), name = run[p].fd
        PROVE  FALSE
    <3>1. run[p].pc \in {"size", "stat", "list", "load"}
      BY <2>1, BuildMoves
    <3>2. BuiltSoFar(run[p], obj[run[p].fd])
      BY <3>1 DEF BuildInv, Builder, Building
    <3> QED
      BY <2>1, <3>1, <3>2 DEF BuiltSoFar, Usable
  <2> QED
    BY <1>1, <2>1, ObjectCases
<1> QED
  BY <1>1, <1>2, <1>3 DEF Usable, BuildInv

\* What becomes of the counts.
LEMMA MissedCases ==
  ASSUME TypeInv, NEW p \in Proc, Acts(p)
  PROVE  \/ missed' = [q \in Proc |-> 0] /\ ops' = ops
         \/ /\ name' = name /\ missed' = [missed EXCEPT ![p] = 0]
            /\ ops' = ops \/ ops' = [ops EXCEPT ![p] = 0]
         \/ name' = name /\ Reattach(p)
         \/ /\ name' = name /\ missed' = missed /\ ops' = ops
            /\ \/ New(p) \/ InitCall(p) \/ CreateLoses(p) \/ Abandon(p) \/ Operate(p)
               \/ SemGet(p) \/ SetVal(p) \/ SemOp(p) \/ SemFails(p)
               \/ Open(p) \/ Map(p) \/ Ready(p) \/ ReadyAgain(p)
               \/ Truncate(p) \/ RecordDev(p) \/ RecordDevFails(p) \/ List(p) \/ ListFails(p)
               \/ Load(p) \/ LoadFails(p) \/ Publish(p)
BY Zenon DEF Acts, Step, New, InitCall, Reattach, Kill, SemGet, SetVal, SemOp, SemFails, Open,
     Map, Ready, ReadyAgain, CheckDev, Adopt, CheckDevFails, Unlink, Create, Name, CreateLoses,
     Truncate, TruncateFails, RecordDev, RecordDevFails, List, ListFails, Load, LoadFails,
     Publish, Builds, Release, Abandon, Unname, Operate, Moves, MovesFailing, shared

\* A process that searches with a usable segment there goes on towards it; one that
\* does not search does not begin to, but in Reattach.
LEMMA SeekStep ==
  ASSUME TypeInv, BuildInv, NEW p \in Proc, Usable,
         \/ New(p) \/ InitCall(p) \/ CreateLoses(p) \/ Abandon(p) \/ Operate(p)
         \/ SemGet(p) \/ SetVal(p) \/ SemOp(p) \/ SemFails(p)
         \/ Open(p) \/ Map(p) \/ Ready(p) \/ ReadyAgain(p)
         \/ Truncate(p) \/ RecordDev(p) \/ RecordDevFails(p) \/ List(p) \/ ListFails(p)
         \/ Load(p) \/ LoadFails(p) \/ Publish(p)
  PROVE  /\ ~Seeking(p) => ~Seeking(p)'
         /\ Seeking(p) /\ run[p].pc \in {"open", "map", "ready", "dev"}
              /\ (run[p].pc # "open" => run[p].fd = name)
              => Seeking(p)' /\ run'[p].pc \in {"map", "ready", "dev"} /\ run'[p].fd = name
<1> DEFINE x == run[p]
           y == run'[p]
<1>1. name # 0 /\ obj[name].sized /\ obj[name].ready
  BY Objects DEF Usable, BuildInv, TypeInv
<1>2. CASE Open(p) \/ Map(p) \/ Ready(p) \/ ReadyAgain(p)
  <2>1. x.pc \in {"open", "map", "ready", "ready2"} /\ x.ret \in Caller
    BY <1>2, AttachMoves DEF TypeInv, LocalsOK, Looking
  <2>2. Failed(p).ret \in {"none", "again"}
    BY <2>1, FailedOK
  <2>3. ~Seeking(p) => ~Seeking(p)'
    BY <1>2, <2>1, <2>2, AttachMoves DEF Seeking, Same
  <2>4. ASSUME Seeking(p), x.pc \in {"open", "map", "ready", "dev"}, x.pc # "open" => x.fd = name
        PROVE  Seeking(p)' /\ y.pc \in {"map", "ready", "dev"} /\ y.fd = name
    <3>1. CASE Open(p)
      BY <1>1, <2>4, <3>1, AttachMoves DEF Seeking
    <3>2. CASE Map(p)
      BY <1>1, <2>4, <3>2, AttachMoves DEF Seeking, Same
    <3>3. CASE Ready(p)
      BY <1>1, <2>4, <3>3, AttachMoves DEF Seeking, Same
    <3>4. CASE ReadyAgain(p)
      BY <2>4, <3>4, AttachMoves
    <3> QED
      BY <1>2, <3>1, <3>2, <3>3, <3>4
  <2> QED
    BY <2>3, <2>4
<1>3. CASE SemGet(p) \/ SetVal(p) \/ SemOp(p) \/ SemFails(p)
  BY <1>3, LockMoves DEF Seeking, Same, Locked
<1>4. CASE Truncate(p) \/ RecordDev(p) \/ RecordDevFails(p) \/ List(p) \/ ListFails(p)
           \/ Load(p) \/ LoadFails(p) \/ Publish(p)
  BY <1>4, BuildMoves DEF Seeking, Same
<1>5. CASE New(p) \/ InitCall(p) \/ CreateLoses(p) \/ Abandon(p) \/ Operate(p)
  <2>1. \/ \E here \in {"idle", "unname"} : y = At(here)
        \/ \E c \in {"new", "init", "lost"} : y = Attach(p, c)
    BY <1>5, PlainMoves
  <2>2. y.ret # "reattach"
    <3>1. \A here \in {"idle", "unname"} : At(here).ret = "none"
      BY AtFields DEF Place
    <3>2. \A c \in {"new", "init", "lost"} : Attach(p, c).ret = c
      BY AttachOK DEF Caller
    <3> QED
      BY <2>1, <3>1, <3>2
  <2>3. x.pc \in {"off", "idle", "excl", "abandon", "act"}
    BY <1>5, PlainMoves
  <2> QED
    BY <2>2, <2>3 DEF Seeking
<1> QED
  BY <1>2, <1>3, <1>4, <1>5

\* How the count of operations goes round.
LEMMA Round ==
  ASSUME NEW i \in 0 .. Interval - 1
  PROVE  (i + 1) % Interval = IF i + 1 = Interval THEN 0 ELSE i + 1
BY BoundAssumption

\* Every step keeps the counts in step with the search.
LEMMA CatchNext ==
  ASSUME TypeInv, BuildInv, CatchInv, [Next]_vars
  PROVE  CatchInv'
<1>0. Interval \in Nat \ {0} /\ \A q \in Proc : ops[q] \in 0 .. Interval - 1 /\ missed[q] \in Nat
  BY BoundAssumption DEF TypeInv
<1>1. ASSUME NEW p \in Proc, Acts(p)
      PROVE  CatchInv'
  <2>0. \A q \in Proc : ops'[q] \in 0 .. Interval - 1 /\ missed'[q] \in Nat
    <3>1. TypeInv'
      BY <1>1, TypeNext DEF Next, Acts
    <3> QED
      BY <3>1 DEF TypeInv
  <2>1. SUFFICES ASSUME NEW q \in Proc, missed'[q] > 0
                 PROVE  /\ Usable'
                        /\ IF Seeking(q)'
                           THEN /\ missed'[q] <= Interval
                                /\ run'[q].pc \in {"open", "map", "ready", "dev"}
                                /\ run'[q].pc # "open" => run'[q].fd = name'
                           ELSE missed'[q] <= IF ops'[q] = 0 THEN Interval - 1 ELSE ops'[q] - 1
    BY <1>0, <2>0 DEF CatchInv
  <2>2. name' = name /\ (q # p => missed'[q] = missed[q] /\ ops'[q] = ops[q] /\ run'[q] = run[q])
    <3>1. CASE Reattach(p)
      BY <1>1, <3>1, OthersStay DEF Reattach, shared, TypeInv
    <3>2. CASE ~Reattach(p)
      BY <1>1, <2>1, <3>2, OthersStay, MissedCases DEF TypeInv
    <3> QED
      BY <3>1, <3>2
  <2>3. CASE q # p
    <3>1. Usable'
      BY <1>1, <2>1, <2>2, <2>3, UsableStep DEF CatchInv
    <3>2. Seeking(q)' <=> Seeking(q)
      BY <2>2, <2>3 DEF Seeking
    <3> QED
      BY <2>1, <2>2, <2>3, <3>1, <3>2 DEF CatchInv
  <2>4. CASE q = p /\ Reattach(p)
    <3>1. /\ run[p].pc = "idle" /\ Usable /\ missed'[p] = missed[p] + 1
          /\ ops'[p] = (ops[p] + 1) % Interval
          /\ run'[p] = IF ops[p] = 0 THEN Attach(p, "reattach") ELSE At("act")
      <4>1. /\ missed' = [missed EXCEPT ![p] = IF Usable THEN missed[p] + 1 ELSE 0]
            /\ ops' = [ops EXCEPT ![p] = (ops[p] + 1) % Interval]
        BY <2>4, Zenon DEF Reattach
      <4>2. ops'[p] = (ops[p] + 1) % Interval
        BY <4>1 DEF TypeInv
      <4>3. missed'[p] = IF Usable THEN missed[p] + 1 ELSE 0
        BY <4>1 DEF TypeInv
      <4>4. Usable
        BY <2>1, <2>4, <4>3
      <4> QED
        BY <2>4, <4>2, <4>3, <4>4, PlainMoves
    <3>2. Usable'
      BY <1>1, <2>2, <3>1, UsableStep
    <3>3. missed[p] <= IF ops[p] = 0 THEN Interval - 1 ELSE ops[p] - 1
      BY <1>0, <3>1 DEF CatchInv
    <3>4. CASE ops[p] = 0
      <4>1. run'[p].pc = "open" /\ run'[p].ret = "reattach"
        BY <3>1, <3>4, AttachOK, Objects DEF Caller
      <4> QED
        BY <1>0, <2>4, <3>1, <3>2, <3>3, <3>4, <4>1 DEF Seeking
    <3>5. CASE ops[p] # 0
      <4>1. run'[p].pc = "act"
        BY <3>1, <3>5, AtFields DEF Place
      <4>2. ops'[p] = IF ops[p] + 1 = Interval THEN 0 ELSE ops[p] + 1
        BY <1>0, <3>1, Round
      <4>3. missed'[p] <= IF ops'[p] = 0 THEN Interval - 1 ELSE ops'[p] - 1
        BY <1>0, <3>1, <3>3, <3>5, <4>2
      <4> QED
        BY <2>4, <3>2, <4>1, <4>3 DEF Seeking
    <3> QED
      BY <3>4, <3>5
  <2>5. CASE q = p /\ ~Reattach(p)
    <3>1. /\ missed' = missed /\ ops' = ops
          /\ \/ New(p) \/ InitCall(p) \/ CreateLoses(p) \/ Abandon(p) \/ Operate(p)
             \/ SemGet(p) \/ SetVal(p) \/ SemOp(p) \/ SemFails(p)
             \/ Open(p) \/ Map(p) \/ Ready(p) \/ ReadyAgain(p)
             \/ Truncate(p) \/ RecordDev(p) \/ RecordDevFails(p) \/ List(p) \/ ListFails(p)
             \/ Load(p) \/ LoadFails(p) \/ Publish(p)
      <4>1. ~(missed' = [r \in Proc |-> 0]) /\ ~(missed' = [missed EXCEPT ![p] = 0])
        BY <2>1, <2>5 DEF TypeInv
      <4> QED
        BY <1>1, <2>5, <4>1, MissedCases, Zenon
    <3>2. Usable
      BY <2>1, <2>5, <3>1 DEF CatchInv
    <3>3. Usable'
      BY <1>1, <2>2, <3>2, UsableStep
    <3>4. /\ ~Seeking(p) => ~Seeking(p)'
          /\ Seeking(p) /\ run[p].pc \in {"open", "map", "ready", "dev"}
               /\ (run[p].pc # "open" => run[p].fd = name)
               => Seeking(p)' /\ run'[p].pc \in {"map", "ready", "dev"} /\ run'[p].fd = name
      BY <3>1, <3>2, SeekStep
    <3> QED
      BY <2>1, <2>2, <2>5, <3>1, <3>3, <3>4 DEF CatchInv
  <2> QED
    BY <2>3, <2>4, <2>5
<1>2. ASSUME NEW k \in Key, NEW v \in Value, Write(k, v)
      PROVE  CatchInv'
  <2>1. UNCHANGED <<root, name, run, ops, missed>>
    BY <1>2 DEF Write
  <2>2. Usable => Usable'
    <3>1. name # 0 => name \in DOMAIN obj
      BY Objects DEF TypeInv
    <3>2. name # 0 => obj'[name].ready = obj[name].ready /\ obj'[name].dev = obj[name].dev
      BY <1>2, <3>1, WriteStep
    <3> QED
      BY <2>1, <3>2 DEF Usable
  <2> QED
    BY <2>1, <2>2 DEF CatchInv, Seeking
<1>3. CASE Mount
  <2>1. missed' = [q \in Proc |-> 0] /\ ops' = ops
    BY <1>3 DEF Mount
  <2> QED
    BY <1>0, <2>1 DEF CatchInv
<1>4. CASE UNCHANGED vars
  BY <1>4 DEF CatchInv, Seeking, Usable, vars
<1> QED
  BY <1>1, <1>2, <1>3, <1>4 DEF Next, Acts

\* Store::reattach looks at every REATTACH_INTERVAL-th operation, and what it finds
\* there is published and sized: a process without a segment begins at most
\* REATTACH_INTERVAL operations while there is one it could have.
THEOREM CaughtUp == Spec => []CatchesUp
<1>1. Init => CatchInv
  <2> SUFFICES ASSUME Init PROVE CatchInv
    OBVIOUS
  <2>1. Interval \in Nat \ {0} /\ \A p \in Proc : missed[p] = 0 /\ ops[p] = 0
    BY BoundAssumption DEF Init
  <2>2. ~(0 > 0) /\ 0 <= Interval /\ 0 <= Interval - 1
    BY <2>1
  <2> QED
    BY <2>1, <2>2, Zenon DEF CatchInv
<1>2. TypeInv /\ BuildInv /\ CatchInv /\ [Next]_vars => CatchInv'
  BY CatchNext
<1>3. TypeInv /\ CatchInv => CatchesUp
  <2> SUFFICES ASSUME TypeInv, CatchInv, NEW p \in Proc PROVE missed[p] <= Interval
    BY DEF CatchesUp
  <2>1. Interval \in Nat \ {0} /\ ops[p] \in 0 .. Interval - 1 /\ missed[p] \in Nat
    BY BoundAssumption DEF TypeInv
  <2> QED
    BY <2>1 DEF CatchInv
<1> QED
  BY <1>1, <1>2, <1>3, BaseInvariant, PTL DEF Spec

-----------------------------------------------------------------------------
(* One segment.                                                            *)

\* A published object does not change any more; what is published by a step is what
\* its creator publishes.
LEMMA ReadyStep ==
  ASSUME TypeInv, BuildInv, NEW p \in Proc, Acts(p)
  PROVE  /\ \A o \in DOMAIN obj : obj[o].ready => o \in DOMAIN obj' /\ obj'[o] = obj[o]
         /\ \A o \in DOMAIN obj' : obj'[o].ready =>
              \/ o \in DOMAIN obj /\ obj[o].ready /\ obj'[o] = obj[o]
              \/ Publish(p) /\ o \in DOMAIN obj /\ o = run[p].fd /\ obj'[o].dev = obj[o].dev
<1>1. Truncate(p) \/ RecordDev(p) \/ List(p) \/ Load(p) \/ Publish(p) => ~obj[run[p].fd].ready
  BY BuildMoves DEF BuildInv, Builder, Building, BuiltSoFar
<1>2. ASSUME NEW o \in DOMAIN obj, obj[o].ready
      PROVE  o \in DOMAIN obj' /\ obj'[o] = obj[o]
  BY <1>1, <1>2, ObjectCases, BuilderStep
<1>3. ASSUME NEW o \in DOMAIN obj', obj'[o].ready
      PROVE  \/ o \in DOMAIN obj /\ obj[o].ready /\ obj'[o] = obj[o]
             \/ Publish(p) /\ o \in DOMAIN obj /\ o = run[p].fd /\ obj'[o].dev = obj[o].dev
  <2>1. CASE o \in DOMAIN obj /\ obj'[o] = obj[o]
    BY <1>3, <2>1
  <2>2. CASE obj'[o] = NewObject
    BY <1>3, <2>2 DEF NewObject
  <2>3. CASE /\ Truncate(p) \/ RecordDev(p) \/ List(p) \/ Load(p) \/ Publish(p)
             /\ o \in DOMAIN obj /\ o = run[p].fd
    <3>1. CASE Truncate(p)
      BY <1>1, <1>3, <2>3, <3>1, ObjectSteps
    <3>2. CASE RecordDev(p)
      BY <1>1, <1>3, <2>3, <3>2, ObjectSteps
    <3>3. CASE List(p)
      BY <1>1, <1>3, <2>3, <3>3, ObjectSteps
    <3>4. CASE Load(p)
      BY <1>1, <1>3, <2>3, <3>4, LoadStep
    <3>5. CASE Publish(p)
      BY <2>3, <3>5, ObjectSteps
    <3> QED
      BY <2>3, <3>1, <3>2, <3>3, <3>4, <3>5
  <2> QED
    BY <2>1, <2>2, <2>3, ObjectCases
<1> QED
  BY <1>2, <1>3

\* Who makes a segment, or writes to an object, is inside nvram_init.
LEMMA MakersAreInInit ==
  ASSUME NEW p
  PROVE  Making(p) \/ Builder(run[p]) => Making(p) /\ InInit(p)
BY DEF Making, Builder, Building, InInit

\* While nobody else is inside nvram_init a process gets there only by calling it.
LEMMA InInitStep ==
  ASSUME TypeInv, NEW p \in Proc, Acts(p), ~InitCall(p), InInit(p)',
         run[p].ret \notin {"lost", "again"}
  PROVE  InInit(p)
<1> DEFINE x == run[p]
           y == run'[p]
<1>1. CASE SemGet(p) \/ SetVal(p) \/ SemOp(p) \/ SemFails(p)
  <2>1. x.then \in {"none", "open", "ready2", "size"}
    BY DEF TypeInv, Locals
  <2> QED
    BY <1>1, <2>1, LockMoves DEF InInit, Same, Locked
<1>2. CASE Open(p) \/ Map(p) \/ Ready(p) \/ ReadyAgain(p) \/ CheckDevFails(p)
  <2>1. x.pc \in {"open", "map", "ready", "ready2", "dev"} /\ x.ret \in Caller /\ x.then = "none"
    BY <1>2, AttachMoves DEF TypeInv, LocalsOK, Looking, Locking
  <2>2. CASE y = Failed(p)
    <3>1. Failed(p).ret = "none" /\ ~Builder(Failed(p))
      BY <2>1, FailedOK
    <3> QED
      BY <2>1, <2>2, <3>1, FailedOK DEF InInit, Builder
  <2>3. CASE /\ y.pc \in {"map", "ready", "dev", "semget"} /\ y.ret = x.ret
             /\ y.then \in {"none", "ready2"}
    BY <2>3 DEF InInit
  <2> QED
    BY <1>2, <2>1, <2>2, <2>3, AttachMoves DEF Same
<1>3. CASE Create(p) \/ Truncate(p) \/ RecordDev(p) \/ RecordDevFails(p) \/ List(p)
           \/ ListFails(p) \/ Load(p) \/ LoadFails(p) \/ Publish(p)
  BY <1>3, BuildMoves DEF InInit
<1>4. CASE Unlink(p) \/ CreateLoses(p) \/ TruncateFails(p) \/ Release(p) \/ Abandon(p) \/ Unname(p)
  BY <1>4, PlainMoves DEF InInit
<1>5. CASE New(p) \/ Reattach(p) \/ CheckDev(p) \/ Operate(p) \/ Kill(p)
  <2>1. \/ \E here \in {"off", "idle", "act"} : y = At(here)
        \/ \E c \in {"new", "reattach"} : y = Attach(p, c)
    BY <1>5, PlainMoves
  <2>2. \A here \in {"off", "idle", "act"} :
          At(here).pc = here /\ At(here).ret = "none" /\ At(here).then = "none"
    BY AtFields DEF Place
  <2>3. \A c \in {"new", "reattach"} :
          Attach(p, c).pc = "open" /\ Attach(p, c).ret = c /\ Attach(p, c).then = "none"
    BY AttachOK DEF Caller
  <2> QED
    BY <2>1, <2>2, <2>3 DEF InInit
<1> QED
  BY <1>1, <1>2, <1>3, <1>4, <1>5 DEF Acts, Step

\* A step changes the name only as part of making a segment.
LEMMA NameStep ==
  ASSUME TypeInv, NEW p \in Proc, Acts(p), name' # name
  PROVE  /\ Making(p) /\ run[p].pc # "release"
         /\ name' = 0 \/ Create(p)
<1>1. CASE Create(p)
  BY <1>1, BuildMoves DEF Making
<1>2. CASE name' = 0 /\ (Unlink(p) \/ TruncateFails(p) \/ Unname(p))
  BY <1>2, PlainMoves DEF Making, Builder, Building
<1> QED
  BY <1>1, <1>2, Changes

\* The steps of the others do not disturb a process.
LEMMA TidyOthers ==
  ASSUME TypeInv, BuildInv, Alone, NEW p \in Proc, Acts(p), NEW q \in Proc, q # p, Tidy(q)
  PROVE  Tidy(q)'
<1>1. run'[q] = run[q] /\ root' = root
  BY OthersStay, Changes
<1>2. CASE ~InInit(q)
  <2>1. /\ run[q].ret \notin {"init", "lost", "again"} /\ run[q].pc \notin {"excl", "list", "load"}
        /\ ~Builder(run[q]) /\ ~Making(q)
    BY <1>2, MakersAreInInit DEF InInit
  <2>2. ~Making(q)'
    BY <1>1, <2>1 DEF Making
  <2> QED
    BY <1>1, <2>1, <2>2 DEF Tidy
<1>3. CASE InInit(q)
  <2>1. ~Making(p) /\ ~Builder(run[p])
    BY <1>3, MakersAreInInit DEF Alone
  <2>2. name' = name
    BY <2>1, NameStep
  <2>3. ~Create(p) /\ ~Publish(p)
    BY <2>1, BuildMoves DEF Making, Builder, Building
  <2>4. DOMAIN obj' = DOMAIN obj /\ \A o \in DOMAIN obj : obj'[o] = obj[o]
    BY <2>1, <2>3, BuilderStep
  <2>5. Usable' <=> Usable
    <3>1. name # 0 => name \in DOMAIN obj
      BY Objects DEF TypeInv
    <3> QED
      BY <1>1, <2>2, <2>4, <3>1 DEF Usable
  <2>6. Making(q)' <=> Making(q)
    BY <1>1 DEF Making
  <2>7. run[q].pc \in {"list", "load"} => run[q].fd \in DOMAIN obj
    BY Objects DEF TypeInv, LocalsOK, Builder, Building
  <2> QED
    BY <1>1, <2>2, <2>4, <2>5, <2>6, <2>7 DEF Tidy
<1> QED
  BY <1>2, <1>3

\* Nor do its own.
LEMMA TidyStep ==
  ASSUME TypeInv, BuildInv, Single, NEW p \in Proc, Acts(p), Tidy(p), Held(p),
         "restat" \notin Fault
  PROVE  Tidy(p)'
<1> DEFINE x == run[p]
           y == run'[p]
<1>1. CASE SemGet(p) \/ SetVal(p) \/ SemOp(p) \/ SemFails(p)
  <2>1. UNCHANGED <<root, name, obj>>
    BY <1>1 DEF SemGet, SetVal, SemOp, SemFails, MovesFailing, shared
  <2>2. x.then \in {"none", "open", "ready2", "size"}
    BY DEF TypeInv, Locals
  <2>3. y.pc \in {"setval", "semop", "none", "open", "ready2", "size"} /\ y.fd = x.fd /\ y.ret = x.ret
    BY <1>1, <2>2, LockMoves DEF Same, Locked
  <2>4. x.pc \in Locking
    BY <1>1, LockMoves DEF Locking
  <2>5. (Looking(y) => Looking(x)) /\ (Builder(y) => Builder(x)) /\ (Making(p)' => Making(p))
    BY <1>1, <2>2, <2>3, <2>4, LockMoves DEF Looking, Builder, Making, Same, Locked, Building, Locking
  <2>6. Usable' <=> Usable
    BY <2>1 DEF Usable
  <2> QED
    BY <2>1, <2>3, <2>4, <2>5, <2>6 DEF Tidy, Locking
<1>2. CASE Open(p) \/ Map(p) \/ Ready(p) \/ ReadyAgain(p) \/ CheckDevFails(p)
  <2>1. x.pc \in {"open", "map", "ready", "ready2", "dev"} /\ x.ret \in Caller /\ x.then = "none"
    BY <1>2, AttachMoves DEF TypeInv, LocalsOK, Looking, Locking
  <2>2. UNCHANGED <<root, name, obj>>
    BY <1>2 DEF Open, Map, Ready, ReadyAgain, CheckDevFails, Moves, shared
  <2>3. Usable' <=> Usable
    BY <2>2 DEF Usable
  <2>4. CASE y = Failed(p)
    <3>1. y.ret = "none" /\ y.pc \in {"idle", "act", "unlink", "semget"}
      BY <2>1, <2>4, FailedOK DEF Tidy
    <3>2. ~Builder(y) /\ ~Looking(y) /\ (y.pc = "unlink" => x.ret = "init")
      BY <2>1, <2>4, FailedOK
    <3>3. y.pc = "unlink" => ~Usable
      <4>1. SUFFICES ASSUME x.ret = "init", Usable PROVE FALSE
        BY <3>2
      <4>2. name # 0 /\ obj[name].ready /\ obj[name].sized /\ obj[name].dev = {root}
        BY <4>1, Objects DEF Usable, BuildInv, TypeInv
      <4>3. x.pc # "open" => x.fd = name
        BY <2>1, <4>1 DEF Tidy, Looking
      <4>4. y.pc \notin {"map", "dev", "ready"} /\ y.then # "ready2"
        BY <3>1, <3>2 DEF Looking
      <4>5. ~CheckDevFails(p)
        <5>1. CheckDevFails(p) => x.pc = "dev" /\ (obj[x.fd].dev # {root} \/ "restat" \in Fault)
          BY DEF CheckDevFails, Fails
        <5> QED
          BY <4>2, <4>3, <5>1
      <4> QED
        BY <1>2, <4>2, <4>3, <4>4, <4>5, AttachMoves
    <3>4. Making(p)' => y.pc = "unlink"
      BY <3>1, <3>2 DEF Making
    <3> QED
      BY <2>3, <3>1, <3>2, <3>3, <3>4 DEF Tidy
  <2>5. CASE /\ y.pc \in {"map", "ready", "dev", "semget"} /\ y.ret = x.ret
             /\ y.then \in {"none", "ready2"}
             /\ y.fd = IF Open(p) THEN name ELSE x.fd
    <3>1. ~Builder(y) /\ ~Making(p)'
      BY <2>5 DEF Builder, Building, Making
    <3>2. y.fd = name \/ (y.fd = x.fd /\ Looking(x))
      <4>1. ~Open(p) => x.pc # "open"
        BY <1>2, AttachMoves
      <4> QED
        BY <2>1, <2>5, <4>1 DEF Looking
    <3> QED
      BY <2>2, <2>5, <3>1, <3>2 DEF Tidy
  <2>6. Open(p) => x.pc = "open"
    BY AttachMoves
  <2> QED
    BY <1>2, <2>1, <2>4, <2>5, <2>6, AttachMoves DEF Same
<1>3. CASE Create(p)
  <2>1. /\ y.pc = "semget" /\ y.then = "size" /\ y.ret = "none" /\ y.fd = Len(obj) + 1
        /\ name' = Len(obj) + 1
    BY <1>3, BuildMoves DEF Create, Name
  <2>2. ~Usable'
    <3>1. obj'[name'] = NewObject
      BY <1>3, <2>1, BuilderStep
    <3> QED
      BY <3>1 DEF Usable, NewObject
  <2> QED
    BY <2>1, <2>2 DEF Tidy, Looking
<1>4. CASE Truncate(p) \/ RecordDev(p) \/ RecordDevFails(p) \/ List(p) \/ ListFails(p)
           \/ Load(p) \/ LoadFails(p) \/ Publish(p)
  <2>1. /\ x.pc \in {"size", "stat", "list", "load"} /\ y.pc \in Building
        /\ y.fd = x.fd /\ y.ret = x.ret /\ y.then = x.then
    BY <1>4, BuildMoves DEF Same, Building
  <2>2. x.then = "none" /\ Builder(x) /\ Builder(y) /\ ~Looking(y)
    BY <2>1 DEF TypeInv, LocalsOK, Locking, Builder, Building, Looking
  <2>3. name' = name /\ x.fd = name /\ root' = root
    <3>1. ~Create(p) /\ ~Unlink(p) /\ ~TruncateFails(p) /\ ~Unname(p)
      BY <1>4, BuildMoves, PlainMoves, <2>2, AtOK, Objects
    <3> QED
      BY <2>2, <3>1, Changes DEF Tidy
  <2>4. BuiltSoFar(x, obj[x.fd]) /\ BuiltSoFar(y, obj'[x.fd])
    BY <2>1, <2>2, BuiltStep DEF BuildInv
  <2>5. y.pc # "release" => ~Usable'
    BY <2>3, <2>4 DEF Usable, BuiltSoFar
  <2>6. ASSUME y.pc \in {"list", "load"}, NEW o \in DOMAIN obj', obj'[o].ready
        PROVE  obj'[o].dev # obj'[y.fd].dev
    <3>1. o \in DOMAIN obj /\ obj[o].ready /\ obj'[o] = obj[o]
      BY <2>6, ReadyStep, BuildMoves
    <3>2. CASE RecordDev(p)
      <4>1. obj'[x.fd].dev = {root} /\ ~obj[x.fd].ready
        BY <2>1, <2>4, <3>2, ObjectSteps DEF BuiltSoFar
      <4> QED
        BY <2>1, <2>3, <3>1, <4>1 DEF Single
    <3>3. CASE List(p)
      <4>1. obj'[x.fd].dev = obj[x.fd].dev /\ x.pc = "list"
        BY <3>3, ObjectSteps, BuildMoves
      <4> QED
        BY <2>1, <3>1, <4>1 DEF Tidy
    <3>4. CASE Load(p)
      <4>1. obj'[x.fd].dev = obj[x.fd].dev /\ x.pc = "load"
        BY <3>4, LoadStep, BuildMoves
      <4> QED
        BY <2>1, <3>1, <4>1 DEF Tidy
    <3> QED
      BY <2>6, <3>2, <3>3, <3>4, ReachLoad
  <2>7. y.pc # "excl"
    BY <2>1 DEF Building
  <2> QED
    BY <2>1, <2>2, <2>3, <2>5, <2>6, <2>7 DEF Tidy
<1>5. CASE Unlink(p)
  <2>1. name' = 0 /\ y = At("excl")
    BY <1>5, PlainMoves DEF Unlink, Name
  <2>2. y.pc = "excl" /\ y.ret = "none" /\ ~Builder(y) /\ ~Looking(y)
    BY <2>1, AtFields, AtOK, Objects DEF Place
  <2> QED
    BY <2>1, <2>2 DEF Tidy, Usable
<1>6. CASE Abandon(p)
  <2>1. UNCHANGED <<root, name, obj>> /\ x.pc = "abandon" /\ y = At("unname")
    BY <1>6, PlainMoves DEF Abandon
  <2>2. y.pc = "unname" /\ y.ret = "none" /\ ~Builder(y) /\ ~Looking(y)
    BY <2>1, AtFields, AtOK, Objects DEF Place
  <2>3. Making(p)
    BY <2>1 DEF Making, Builder, Building
  <2> QED
    BY <2>1, <2>2, <2>3 DEF Tidy, Usable
<1>7. CASE CreateLoses(p)
  BY <1>7, PlainMoves DEF CreateLoses, Tidy
<1>8. CASE New(p) \/ InitCall(p) \/ Reattach(p) \/ CheckDev(p) \/ TruncateFails(p) \/ Release(p)
           \/ Unname(p) \/ Operate(p) \/ Kill(p)
  <2>1. \/ \E here \in {"off", "idle", "act"} : y = At(here)
        \/ \E c \in {"new", "init", "reattach"} : y = Attach(p, c)
    BY <1>8, PlainMoves
  <2>2. \A here \in {"off", "idle", "act"} :
          /\ At(here).pc = here /\ At(here).ret = "none"
          /\ ~Builder(At(here)) /\ ~Looking(At(here))
    BY AtFields, AtOK, Objects DEF Place
  <2>3. \A c \in {"new", "init", "reattach"} :
          /\ Attach(p, c).pc = "open" /\ Attach(p, c).ret = c
          /\ ~Builder(Attach(p, c)) /\ ~Looking(Attach(p, c))
    BY AttachOK, Objects DEF Caller
  <2>4. /\ y.pc \in {"off", "idle", "act", "open"} /\ y.ret \notin {"lost", "again"}
        /\ ~Builder(y) /\ ~Looking(y)
    BY <2>1, <2>2, <2>3
  <2> QED
    BY <2>4 DEF Tidy, Making
<1> QED
  BY <1>1, <1>2, <1>3, <1>4, <1>5, <1>6, <1>7, <1>8 DEF Acts, Step

\* The objects stay single.
LEMMA SingleStep ==
  ASSUME TypeInv, BuildInv, Single, NEW p \in Proc, Acts(p), Tidy(p)
  PROVE  Single'
<1>1. root' = root
  BY Changes
<1>2. \A o \in DOMAIN obj' : obj'[o].ready =>
        \/ o \in DOMAIN obj /\ obj[o].ready /\ obj'[o] = obj[o]
        \/ Publish(p) /\ o \in DOMAIN obj /\ o = run[p].fd /\ obj'[o].dev = obj[o].dev
  BY ReadyStep
<1>3. Publish(p) => /\ run[p].pc = "load" /\ Builder(run[p]) /\ run[p].fd = name /\ name' = name
  <2>1. Publish(p) => run[p].pc = "load" /\ Builder(run[p]) /\ name' = name
    BY BuildMoves DEF Builder, Building, Publish, Builds
  <2> QED
    BY <2>1 DEF Tidy
<1>4. ASSUME NEW o \in DOMAIN obj', obj'[o].ready, obj'[o].dev = {root}
      PROVE  o = name'
  <2>1. CASE Publish(p) /\ o = run[p].fd
    BY <1>3, <2>1
  <2>2. CASE o \in DOMAIN obj /\ obj[o].ready /\ obj'[o] = obj[o]
    <3>1. o = name /\ o # 0
      BY <1>4, <2>2, Objects DEF Single
    <3>2. Usable
      BY <1>4, <2>2, <3>1 DEF Usable
    <3>3. name' = name
      BY <3>2, NameStep DEF Tidy
    <3> QED
      BY <3>1, <3>3
  <2> QED
    BY <1>2, <1>4, <2>1, <2>2
<1>5. ASSUME NEW n \in DOMAIN obj', NEW o \in DOMAIN obj', obj'[n].ready, obj'[o].ready,
             obj'[n].dev = obj'[o].dev
      PROVE  n = o
  <2>1. CASE Publish(p)
    BY <1>2, <1>3, <1>5, <2>1 DEF Tidy, Single
  <2>2. CASE ~Publish(p)
    BY <1>2, <1>5, <2>2 DEF Single
  <2> QED
    BY <2>1, <2>2
<1> QED
  BY <1>1, <1>4, <1>5 DEF Single

\* What is used stays published.
LEMMA HeldStep ==
  ASSUME TypeInv, BuildInv, NEW p \in Proc, Acts(p), \A q \in Proc : Held(q)
  PROVE  \A q \in Proc : Held(q)'
<1>1. \A o \in DOMAIN obj : obj[o].ready => obj'[o].ready
  BY ReadyStep
<1>2. /\ \A q \in Proc : seg[q] # 0 => seg[q] \in DOMAIN obj
      /\ \A q \in Proc : run[q].pc \in {"dev", "release"} => run[q].fd \in DOMAIN obj
  BY Objects DEF TypeInv, LocalsOK, Looking, Builder, Building
<1>3. SUFFICES ASSUME NEW q \in Proc
               PROVE  /\ seg'[q] # 0 => obj'[seg'[q]].ready
                      /\ run'[q].pc = "dev" => obj'[run'[q].fd].ready
  BY DEF Held
<1>4. seg'[q] # 0 => obj'[seg'[q]].ready
  <2>1. CASE seg'[q] = seg[q]
    BY <1>1, <1>2, <2>1 DEF Held
  <2>2. CASE Kill(p)
    BY <1>1, <1>2, <2>2 DEF Held, Kill, TypeInv
  <2>3. CASE q = p /\ seg'[q] = run[p].fd /\ (CheckDev(p) \/ Release(p))
    <3>1. obj[run[p].fd].ready /\ run[p].fd \in DOMAIN obj
      <4>1. CASE CheckDev(p)
        BY <1>2, <4>1, PlainMoves DEF Held
      <4>2. CASE Release(p)
        BY <1>2, <4>2, PlainMoves DEF BuildInv, BuiltSoFar, Builder, Building
      <4> QED
        BY <2>3, <4>1, <4>2
    <3> QED
      BY <1>1, <2>3, <3>1
  <2> QED
    BY <2>1, <2>2, <2>3, Changes DEF TypeInv
<1>5. run'[q].pc = "dev" => obj'[run'[q].fd].ready
  <2>1. CASE q # p
    BY <1>1, <1>2, <2>1, OthersStay DEF Held
  <2>2. CASE q = p
    <3>1. SUFFICES ASSUME run'[p].pc = "dev" PROVE obj'[run'[p].fd].ready
      BY <2>2
    <3>2. /\ Ready(p) \/ ReadyAgain(p)
      <4>1. CASE SemGet(p) \/ SetVal(p) \/ SemOp(p) \/ SemFails(p)
        <5>1. run[p].then \in {"none", "open", "ready2", "size"}
          BY DEF TypeInv, Locals
        <5> QED
          BY <3>1, <4>1, <5>1, LockMoves DEF Locked
      <4>2. CASE Open(p) \/ Map(p) \/ CheckDevFails(p)
        <5>1. run[p].ret \in Caller
          BY <4>2, AttachMoves DEF TypeInv, LocalsOK, Looking
        <5> QED
          BY <3>1, <4>2, <5>1, AttachMoves, FailedOK
      <4>3. CASE Create(p) \/ Truncate(p) \/ RecordDev(p) \/ RecordDevFails(p) \/ List(p)
                 \/ ListFails(p) \/ Load(p) \/ LoadFails(p) \/ Publish(p)
        BY <3>1, <4>3, BuildMoves
      <4>4. CASE New(p) \/ InitCall(p) \/ Reattach(p) \/ CheckDev(p) \/ Unlink(p) \/ CreateLoses(p)
                 \/ TruncateFails(p) \/ Release(p) \/ Abandon(p) \/ Unname(p) \/ Operate(p) \/ Kill(p)
        <5>1. \/ \E here \in {"off", "idle", "act", "unlink", "excl", "unname"} : run'[p] = At(here)
              \/ \E c \in Caller : run'[p] = Attach(p, c)
          BY <4>4, PlainMoves DEF Caller
        <5> QED
          BY <3>1, <5>1, AtOK, AttachOK, Objects DEF Looking
      <4> QED
        BY <4>1, <4>2, <4>3, <4>4 DEF Acts, Step
    <3>3. run[p].ret \in Caller /\ run[p].fd \in DOMAIN obj
      BY <3>2, AttachMoves, Objects DEF TypeInv, LocalsOK, Looking
    <3>4. obj[run[p].fd].ready /\ run'[p].fd = run[p].fd
      BY <3>1, <3>2, <3>3, AttachMoves, FailedOK DEF Same
    <3> QED
      BY <1>1, <3>3, <3>4
  <2> QED
    BY <2>1, <2>2
<1> QED
  BY <1>4, <1>5

\* Every step keeps all of it, as long as what is mounted can be looked at.
LEMMA OneNext ==
  ASSUME TypeInv, BuildInv, FromInv, OneInv, [Next]_vars, "restat" \notin Fault
  PROVE  OneInv'
<1>0. /\ \A q \in Proc : run[q].pc \in {"dev", "list", "load"} => run[q].fd \in DOMAIN obj
      /\ \A q \in Proc : seg[q] # 0 => seg[q] \in DOMAIN obj
      /\ name # 0 => name \in DOMAIN obj
  BY Objects DEF TypeInv, LocalsOK, Looking, Builder, Building
<1>1. ASSUME NEW p \in Proc, Acts(p)
      PROVE  OneInv'
  <2>1. \A q \in Proc : Held(q)'
    BY <1>1, HeldStep DEF OneInv
  <2>2. ASSUME ~raced'
        PROVE  Alone' /\ Single' /\ \A q \in Proc : Tidy(q)'
    <3>1. ~raced /\ (InitCall(p) => ~\E q \in Proc : InInit(q))
      BY <1>1, <2>2, Changes DEF InitCall
    <3>2. Alone /\ Single /\ \A q \in Proc : Tidy(q)
      BY <3>1 DEF OneInv
    <3>3. \A q \in Proc : q # p => (InInit(q)' <=> InInit(q))
      BY <1>1, OthersStay DEF InInit
    <3>4. InInit(p)' => InInit(p) \/ InitCall(p)
      BY <1>1, <3>2, InInitStep DEF Tidy
    <3>5. Alone'
      BY <3>1, <3>2, <3>3, <3>4 DEF Alone
    <3>6. Single'
      BY <1>1, <3>2, SingleStep
    <3>7. \A q \in Proc : Tidy(q)'
      BY <1>1, <3>2, TidyOthers, TidyStep DEF OneInv
    <3> QED
      BY <3>5, <3>6, <3>7
  <2> QED
    BY <2>1, <2>2 DEF OneInv
<1>2. ASSUME NEW k \in Key, NEW v \in Value, Write(k, v)
      PROVE  OneInv'
  <2>1. UNCHANGED <<root, name, run, seg, raced>>
    BY <1>2 DEF Write
  <2>2. /\ DOMAIN obj' = DOMAIN obj
        /\ \A o \in DOMAIN obj : obj'[o].ready = obj[o].ready /\ obj'[o].dev = obj[o].dev
    BY <1>2, WriteStep, Objects
  <2>3. Usable' <=> Usable
    BY <1>0, <2>1, <2>2 DEF Usable
  <2>4. \A q \in Proc : Held(q)'
    BY <1>0, <2>1, <2>2 DEF OneInv, Held
  <2>5. ASSUME ~raced
        PROVE  Alone' /\ Single' /\ \A q \in Proc : Tidy(q)'
    <3>1. Alone /\ Single /\ \A q \in Proc : Tidy(q)
      BY <2>5 DEF OneInv
    <3>2. Alone'
      BY <2>1, <3>1 DEF Alone, InInit
    <3>3. Single'
      BY <2>1, <2>2, <3>1 DEF Single
    <3>4. \A q \in Proc : Making(q)' <=> Making(q)
      BY <2>1 DEF Making
    <3>5. \A q \in Proc : Tidy(q)'
      BY <1>0, <2>1, <2>2, <2>3, <3>1, <3>4 DEF Tidy
    <3> QED
      BY <3>2, <3>3, <3>5
  <2> QED
    BY <2>1, <2>4, <2>5 DEF OneInv
<1>3. CASE Mount
  <2>1. UNCHANGED <<name, obj, run, seg, raced>> /\ root = Bare /\ root' = Part /\ Bare # Part
    BY <1>3, DirAssumption DEF Mount
  <2>2. \A o \in DOMAIN obj : obj[o].dev # {Part}
    BY <2>1 DEF FromInv
  <2>3. ~Usable'
    BY <1>0, <2>1, <2>2 DEF Usable
  <2>4. \A q \in Proc : Held(q)'
    BY <2>1 DEF OneInv, Held
  <2>5. ASSUME ~raced
        PROVE  Alone' /\ Single' /\ \A q \in Proc : Tidy(q)'
    <3>1. Alone /\ Single /\ \A q \in Proc : Tidy(q)
      BY <2>5 DEF OneInv
    <3>2. Alone'
      BY <2>1, <3>1 DEF Alone, InInit
    <3>3. Single'
      BY <2>1, <2>2, <3>1 DEF Single
    <3>4. \A q \in Proc : Tidy(q)'
      BY <2>1, <2>3, <3>1 DEF Tidy
    <3> QED
      BY <3>2, <3>3, <3>4
  <2> QED
    BY <2>1, <2>4, <2>5 DEF OneInv
<1>4. CASE UNCHANGED vars
  <2>1. \A q \in Proc : (Tidy(q)' <=> Tidy(q)) /\ (Held(q)' <=> Held(q))
    BY <1>4 DEF Tidy, Held, Making, Usable, vars
  <2>2. (Alone' <=> Alone) /\ (Single' <=> Single) /\ (raced' <=> raced)
    BY <1>4 DEF Alone, Single, InInit, vars
  <2> QED
    BY <2>1, <2>2 DEF OneInv
<1> QED
  BY <1>1, <1>2, <1>3, <1>4 DEF Next, Acts

\* nvram_init is idempotent: however often it is called, and whoever is killed,
\* restarted or refused on the way, the processes that use segments built from one
\* filesystem use one segment, as long as no two of them were inside it at once.  The
\* hypothesis is that the stat of /nvram at the end of Segment::validate does not fail:
\* one that fails is taken for another device, and nvram_init then replaces a segment
\* that is in use.
THEOREM Shared ==
  ASSUME "restat" \notin Fault
  PROVE  Spec => []OneSegment
<1>1. Init => OneInv
  <2> SUFFICES ASSUME Init PROVE OneInv
    OBVIOUS
  <2>1. \A p \in Proc : run[p].pc = "off" /\ run[p].ret = "none" /\ run[p].then = "none" /\ seg[p] = 0
    BY AtFields DEF Init, Place
  <2>2. DOMAIN obj = {}
    BY DEF Init
  <2>3. \A p \in Proc : Held(p) /\ ~InInit(p) /\ ~Making(p)
    BY <2>1 DEF Held, InInit, Making, Builder, Building
  <2>4. \A p \in Proc : Tidy(p)
    BY <2>1, <2>3 DEF Tidy, Builder, Building
  <2> QED
    BY <2>2, <2>3, <2>4 DEF OneInv, Alone, Single
<1>2. TypeInv /\ BuildInv /\ FromInv /\ OneInv /\ [Next]_vars => OneInv'
  BY OneNext
<1>3. TypeInv /\ OneInv => OneSegment
  <2> SUFFICES ASSUME TypeInv, OneInv, ~raced, NEW p \in Proc, NEW q \in Proc,
                      seg[p] # 0, seg[q] # 0, obj[seg[p]].dev = obj[seg[q]].dev
               PROVE  seg[p] = seg[q]
    BY DEF OneSegment, LoserAttaches
  <2>1. seg[p] \in DOMAIN obj /\ seg[q] \in DOMAIN obj
    BY Objects DEF TypeInv
  <2> QED
    BY <2>1 DEF OneInv, Held, Single
<1> QED
  BY <1>1, <1>2, <1>3, BaseInvariant, PTL DEF Spec
=============================================================================
