------------------------------ MODULE Bringup ------------------------------
(***************************************************************************)
(* How processes come to share a segment: nvram_init() builds it from the  *)
(* files of /nvram, every other call attaches to it or, without one, works *)
(* on the files.  One action per system call that other processes can see: *)
(* shm_open, ftruncate, stat, the listing and the reads of /nvram, the     *)
(* store to `ready`, shm_unlink, and the calls on the writer semaphore.    *)
(*                                                                         *)
(* /nvram is a directory of the root filesystem until something is mounted *)
(* on it, at any moment.  The semaphore is found with ftok(), which takes  *)
(* the device and inode of /nvram, so a mount changes it as well.          *)
(*                                                                         *)
(* What an operation does to the store once it has its segment, or has     *)
(* none, is module Store and module Capi: here an operation only looks for *)
(* a segment, and files may change at any moment, by the set of a detached *)
(* process, the commit or clear of an attached one, or another program.    *)
(***************************************************************************)
EXTENDS Naturals, Sequences

CONSTANTS
  Proc, Key, Val, Absent,
  Bare,      \* the directory /nvram of the root filesystem
  Part,      \* the filesystem that may be mounted on it
  NoProc,    \* a semaphore that is free
  Interval,  \* REATTACH_INTERVAL
  Fault,     \* the failures the environment may produce
  MaxInits,  \* bound: calls of nvram_init that find no segment attached
  MaxFaults, \* bound: processes killed and system calls failed
  MaxWrites  \* bound: changes of files

Faults == {"kill", "mount", "sem", "truncate", "stat", "restat", "list", "full", "read", "setval"}

ASSUME DirAssumption   == Bare # Part /\ Absent \notin Val /\ NoProc \notin Proc
ASSUME FaultAssumption == Fault \subseteq Faults
ASSUME BoundAssumption ==
  /\ Interval \in Nat \ {0}
  /\ MaxInits \in Nat /\ MaxFaults \in Nat /\ MaxWrites \in Nat

Dev   == {Bare, Part}
Value == Val \cup {Absent}

VARIABLES
  root,    \* what /nvram shows
  fs,      \* the files of both filesystems
  name,    \* the object that the shared memory name stands for, or 0
  obj,     \* the shared memory objects made so far
  sem,     \* the writer semaphore of each filesystem
  run,     \* where each process is, and its locals
  seg,     \* Store::seg of each process, or 0
  ops,     \* Store::detached_ops modulo Interval
  inits,   \* how many calls of nvram_init got past the first test
  faults,  \* how many processes were killed and system calls failed
  writes,  \* how many changes of files there have been
  missed,  \* ghost: operations begun detached since a usable segment has existed
  raced    \* ghost: some nvram_init began while another was under way

shared == <<root, fs, name, obj, sem>>
vars   == <<root, fs, name, obj, sem, run, seg, ops, inits, faults, writes, missed, raced>>

-----------------------------------------------------------------------------
Nothing == [k \in Key |-> Absent]

\* What ftruncate leaves: all zero.  `from` and `had` are ghosts: where its
\* contents were read, and the contents every file has had since the device was
\* recorded.
NewObject == [sized |-> FALSE, dev |-> {}, vars |-> Nothing, ready |-> FALSE,
              from |-> {}, had |-> [k \in Key |-> {}]]

\* pc; the caller of attach; the object opened; the semaphore looked up and where
\* to go once it is had; the names still to be loaded.
At(here) == [pc |-> here, ret |-> "none", fd |-> 0, sid |-> Bare, then |-> "none",
             todo |-> {}]

Init ==
  /\ root = Bare
  /\ fs \in [Dev -> [Key -> Value]] /\ fs[Bare] = Nothing
  /\ name = 0 /\ obj = <<>>
  /\ sem = [d \in Dev |-> "none"]
  /\ run = [p \in Proc |-> At("off")]
  /\ seg = [p \in Proc |-> 0] /\ ops = [p \in Proc |-> 0]
  /\ inits = 0 /\ faults = 0 /\ writes = 0
  /\ missed = [p \in Proc |-> 0] /\ raced = FALSE

\* A segment that a process could attach to.
Usable == name # 0 /\ obj[name].ready /\ obj[name].dev = {root}

Go(p, x) == run' = [run EXCEPT ![p] = x]

\* The environment makes something fail.
Fails(f) == f \in Fault /\ faults < MaxFaults /\ faults' = faults + 1

\* A step that moves p on and changes nothing else.
Moves(p, here, x) ==
  /\ run[p].pc = here /\ Go(p, x)
  /\ UNCHANGED <<shared, seg, ops, inits, faults, writes, missed, raced>>

\* The same when the system call f fails.
MovesFailing(p, f, here, x) ==
  /\ Fails(f)
  /\ run[p].pc = here /\ Go(p, x)
  /\ UNCHANGED <<shared, seg, ops, inits, writes, missed, raced>>

-----------------------------------------------------------------------------
(* The writer semaphore: sem_get and Guard::lock.  An acquire whose guard  *)
(* is dropped at once only waits.                                          *)

\* p is about to acquire and to go on at `there`.
Lock(p, there) == [run[p] EXCEPT !.pc = "semget", !.then = there]

\* semget, exclusively: whoever creates the set has to give it its value.
SemGet(p) ==
  /\ run[p].pc = "semget"
  /\ sem' = [sem EXCEPT ![root] = IF @ = "none" THEN "zero" ELSE @]
  /\ Go(p, [run[p] EXCEPT !.sid = root,
                          !.pc = IF sem[root] = "none" THEN "setval" ELSE "semop"])
  /\ UNCHANGED <<root, fs, name, obj, seg, ops, inits, faults, writes, missed, raced>>

SetVal(p) ==
  /\ run[p].pc = "setval"
  /\ sem' = [sem EXCEPT ![run[p].sid] = NoProc]
  /\ Go(p, [run[p] EXCEPT !.pc = "semop"])
  /\ UNCHANGED <<root, fs, name, obj, seg, ops, inits, faults, writes, missed, raced>>

\* semop(-1): blocks until the value is 1.
SemOp(p) ==
  /\ run[p].pc = "semop" /\ sem[run[p].sid] = NoProc
  /\ sem' = IF run[p].then = "size" THEN [sem EXCEPT ![run[p].sid] = p] ELSE sem
  /\ Go(p, [run[p] EXCEPT !.pc = run[p].then, !.then = "none", !.sid = Bare])
  /\ UNCHANGED <<root, fs, name, obj, seg, ops, inits, faults, writes, missed, raced>>

\* Guard::acquire returns None, which neither create nor validate looks at.
SemFails(p) ==
  MovesFailing(p, "sem", "semget", [run[p] EXCEPT !.pc = run[p].then, !.then = "none"])

\* What the semaphores are once p has let go of them.
Released(p) == [d \in Dev |-> IF sem[d] = p THEN NoProc ELSE sem[d]]

-----------------------------------------------------------------------------
(* Segment::attach, map and validate.                                      *)

Attach(p, caller) == [At("open") EXCEPT !.ret = caller]

\* What the caller does without a segment: reattach goes on with its operation
\* on the files, init removes the name, create waits for the winner and tries
\* once more, then gives up.
Failed(p) ==
  CASE run[p].ret = "new"      -> At("idle")
    [] run[p].ret = "reattach" -> At("act")
    [] run[p].ret = "init"     -> At("unlink")
    [] run[p].ret = "lost"     -> [At("semget") EXCEPT !.then = "open", !.ret = "again"]
    [] run[p].ret = "again"    -> At("idle")

Open(p) ==
  Moves(p, "open", IF name = 0 THEN Failed(p)
                   ELSE [run[p] EXCEPT !.pc = "map", !.fd = name])

\* fstat: an object its creator has not sized yet is refused.
Map(p) ==
  Moves(p, "map", IF obj[run[p].fd].sized THEN [run[p] EXCEPT !.pc = "ready"]
                  ELSE Failed(p))

\* Not ready: wait for the creator's lock and look again.
Ready(p) ==
  Moves(p, "ready", IF obj[run[p].fd].ready THEN [run[p] EXCEPT !.pc = "dev"]
                    ELSE Lock(p, "ready2"))

ReadyAgain(p) ==
  Moves(p, "ready2", IF obj[run[p].fd].ready THEN [run[p] EXCEPT !.pc = "dev"]
                     ELSE Failed(p))

\* Store::adopt.
Adopt(p, o, x) ==
  /\ seg' = [seg EXCEPT ![p] = o]
  /\ ops' = [ops EXCEPT ![p] = 0]
  /\ missed' = [missed EXCEPT ![p] = 0]
  /\ Go(p, x)

\* The end of validate: is it built from what is mounted now?
CheckDev(p) ==
  /\ run[p].pc = "dev" /\ obj[run[p].fd].dev = {root}
  /\ Adopt(p, run[p].fd, At(IF run[p].ret = "reattach" THEN "act" ELSE "idle"))
  /\ UNCHANGED <<shared, inits, faults, writes, raced>>

CheckDevFails(p) ==
  /\ run[p].pc = "dev"
  /\ IF obj[run[p].fd].dev = {root} THEN Fails("restat") ELSE UNCHANGED faults
  /\ missed' = [missed EXCEPT ![p] = 0]
  /\ Go(p, Failed(p))
  /\ UNCHANGED <<shared, seg, ops, inits, writes, raced>>

-----------------------------------------------------------------------------
(* Store::new, on the first call of a process; Store::init.                *)

New(p) == Moves(p, "off", Attach(p, "new"))

InInit(p) == \/ run[p].pc \in {"unlink", "excl", "size", "stat", "list", "load",
                               "abandon", "unname", "release"}
             \/ run[p].ret \in {"init", "lost", "again"} \/ run[p].then = "size"

\* Mutant: build it without looking for one that is there.
InitBlindly(p) ==
  /\ run[p].pc = "idle" /\ seg[p] = 0
  /\ inits < MaxInits /\ inits' = inits + 1
  /\ Go(p, At("unlink"))
  /\ raced' = (raced \/ \E q \in Proc : InInit(q))
  /\ UNCHANGED <<shared, seg, ops, faults, writes, missed>>

\* nvram_init of a process without a segment (with one there is nothing to do).
InitCall(p) ==
  /\ run[p].pc = "idle" /\ seg[p] = 0
  /\ inits < MaxInits /\ inits' = inits + 1
  /\ Go(p, Attach(p, "init"))
  /\ raced' = (raced \/ \E q \in Proc : InInit(q))
  /\ UNCHANGED <<shared, seg, ops, faults, writes, missed>>

\* The shared memory name stands for x from now on.
Name(p, here, x, there) ==
  /\ run[p].pc = here
  /\ name' = x
  /\ missed' = [q \in Proc |-> 0]
  /\ Go(p, there)
  /\ UNCHANGED <<root, fs, seg, ops, inits, writes, raced>>

\* Segment::unlink.
Unlink(p) == Name(p, "unlink", 0, At("excl")) /\ UNCHANGED <<obj, sem, faults>>

-----------------------------------------------------------------------------
(* Segment::create.                                                        *)

\* O_CREAT | O_EXCL: the winner makes an object and locks, the loser attaches.
Create(p) ==
  /\ name = 0
  /\ Name(p, "excl", Len(obj) + 1,
          [At("semget") EXCEPT !.then = "size", !.fd = Len(obj) + 1])
  /\ obj' = Append(obj, NewObject)
  /\ UNCHANGED <<sem, faults>>

CreateLoses(p) == name # 0 /\ Moves(p, "excl", Attach(p, "lost"))

\* A step of the creator on its own object.
Builds(p, here, there, o) ==
  /\ run[p].pc = here
  /\ Go(p, [run[p] EXCEPT !.pc = there])
  /\ obj' = [obj EXCEPT ![run[p].fd] = o]
  /\ UNCHANGED <<root, fs, name, sem, seg, ops, inits, faults, writes, missed, raced>>

Mine(p) == obj[run[p].fd]

Truncate(p) == Builds(p, "size", "stat", [Mine(p) EXCEPT !.sized = TRUE])

\* ftruncate or mmap fails: remove the name, whosever it is by now.
TruncateFails(p) ==
  /\ Fails("truncate")
  /\ Name(p, "size", 0, At("idle"))
  /\ sem' = Released(p) /\ UNCHANGED obj

\* Mutant: the device is not recorded.
RecordDevForgotten(p) == Builds(p, "stat", "list", Mine(p))

\* The device is recorded before anything is read from it.
RecordDev(p) ==
  Builds(p, "stat", "list", [Mine(p) EXCEPT !.dev = {root},
                                            !.had = [k \in Key |-> {fs[root][k]}]])

RecordDevFails(p) ==
  MovesFailing(p, "stat", "stat", [run[p] EXCEPT !.pc = "abandon"])

\* disk::load_all: the listing.
List(p) ==
  /\ run[p].pc = "list"
  /\ Go(p, [run[p] EXCEPT !.pc = "load", !.todo = {k \in Key : fs[root][k] # Absent}])
  /\ obj' = [obj EXCEPT ![run[p].fd].from = @ \cup {root}]
  /\ UNCHANGED <<root, fs, name, sem, seg, ops, inits, faults, writes, missed, raced>>

\* Mutant: what cannot be listed is taken for empty.
ListFailsOpen(p) ==
  MovesFailing(p, "list", "list", [run[p] EXCEPT !.pc = "load"])

ListFails(p) == MovesFailing(p, "list", "list", [run[p] EXCEPT !.pc = "abandon"])

\* One file is read, by its path, and put; one that is gone, or cannot be read, is
\* passed over without a word.
Load(p) ==
  /\ run[p].pc = "load"
  /\ \E k \in run[p].todo :
       /\ Go(p, [run[p] EXCEPT !.todo = @ \ {k}])
       /\ \/ /\ obj' = [obj EXCEPT ![run[p].fd].vars[k] = fs[root][k],
                                   ![run[p].fd].from = @ \cup {root}]
             /\ UNCHANGED faults
          \/ Fails("read") /\ UNCHANGED obj
  /\ UNCHANGED <<root, fs, name, sem, seg, ops, inits, writes, missed, raced>>

\* A put fails: the whole populate does.
LoadFails(p) ==
  /\ run[p].todo # {}
  /\ MovesFailing(p, "full", "load", [run[p] EXCEPT !.pc = "abandon", !.todo = {}])

\* Mutant: the device is recorded together with `ready`.
PublishRecordsDev(p) ==
  /\ run[p].todo = {}
  /\ Builds(p, "load", "release", [Mine(p) EXCEPT !.ready = TRUE, !.dev = {root}])

\* `ready` is the last store; then the lock goes, and the creator adopts its
\* segment as it is.
Publish(p) ==
  /\ run[p].todo = {}
  /\ Builds(p, "load", "release", [Mine(p) EXCEPT !.ready = TRUE])

Release(p) ==
  /\ run[p].pc = "release"
  /\ sem' = Released(p)
  /\ Adopt(p, run[p].fd, At("idle"))
  /\ UNCHANGED <<root, fs, name, obj, inits, faults, writes, raced>>

\* populate failed: the lock goes first, then the name.
Abandon(p) ==
  /\ run[p].pc = "abandon"
  /\ sem' = Released(p)
  /\ Go(p, At("unname"))
  /\ UNCHANGED <<root, fs, name, obj, seg, ops, inits, faults, writes, missed, raced>>

Unname(p) == Name(p, "unname", 0, At("idle")) /\ UNCHANGED <<obj, sem, faults>>

-----------------------------------------------------------------------------
(* The operations.  Each begins with Store::reattach.                      *)

\* Mutant: the count runs to twice the interval.
ReattachLate(p) ==
  /\ run[p].pc = "idle" /\ seg[p] = 0
  /\ ops' = [ops EXCEPT ![p] = (@ + 1) % (2 * Interval)]
  /\ missed' = [missed EXCEPT ![p] = IF Usable THEN @ + 1 ELSE 0]
  /\ Go(p, IF ops[p] = 0 THEN Attach(p, "reattach") ELSE At("act"))
  /\ UNCHANGED <<shared, seg, inits, faults, writes, raced>>

\* A detached process looks for a segment at every Interval-th operation.
Reattach(p) ==
  /\ run[p].pc = "idle" /\ seg[p] = 0
  /\ ops' = [ops EXCEPT ![p] = (@ + 1) % Interval]
  /\ missed' = [missed EXCEPT ![p] = IF Usable THEN @ + 1 ELSE 0]
  /\ Go(p, IF ops[p] = 0 THEN Attach(p, "reattach") ELSE At("act"))
  /\ UNCHANGED <<shared, seg, inits, faults, writes, raced>>

\* The rest of the operation.
Operate(p) == Moves(p, "act", At("idle"))

-----------------------------------------------------------------------------
(* The environment.                                                        *)

\* A file is written or removed.
Write(k, v) ==
  /\ v # fs[root][k]
  /\ writes < MaxWrites /\ writes' = writes + 1
  /\ fs' = [fs EXCEPT ![root][k] = v]
  /\ obj' = [o \in DOMAIN obj |->
       IF obj[o].ready \/ obj[o].dev # {root} THEN obj[o]
       ELSE [obj[o] EXCEPT !.had[k] = @ \cup {v}]]
  /\ UNCHANGED <<root, name, sem, run, seg, ops, inits, faults, missed, raced>>

Mount ==
  /\ "mount" \in Fault /\ root = Bare /\ root' = Part
  /\ missed' = [p \in Proc |-> 0]
  /\ UNCHANGED <<fs, name, obj, sem, run, seg, ops, inits, faults, writes, raced>>

\* Mutant: no SEM_UNDO.
KillNoUndo(p) ==
  /\ Fails("kill")
  /\ run[p].pc \notin {"off", "setval"}
  /\ Go(p, At("off"))
  /\ seg' = [seg EXCEPT ![p] = 0] /\ ops' = [ops EXCEPT ![p] = 0]
  /\ missed' = [missed EXCEPT ![p] = 0]
  /\ UNCHANGED <<shared, inits, writes, raced>>

\* A process is killed; SEM_UNDO gives its semaphore back, and a new one may be
\* started in its place.
Kill(p) ==
  /\ Fails("kill")
  /\ run[p].pc \notin {"off", "setval"} \/ (run[p].pc = "setval" /\ "setval" \in Fault)
  /\ Go(p, At("off"))
  /\ sem' = Released(p)
  /\ seg' = [seg EXCEPT ![p] = 0] /\ ops' = [ops EXCEPT ![p] = 0]
  /\ missed' = [missed EXCEPT ![p] = 0]
  /\ UNCHANGED <<root, fs, name, obj, inits, writes, raced>>

-----------------------------------------------------------------------------
Step(p) ==
  \/ SemGet(p) \/ SetVal(p) \/ SemOp(p) \/ SemFails(p)
  \/ Open(p) \/ Map(p) \/ Ready(p) \/ ReadyAgain(p) \/ CheckDev(p) \/ CheckDevFails(p)
  \/ Unlink(p) \/ Create(p) \/ CreateLoses(p) \/ Truncate(p) \/ TruncateFails(p)
  \/ RecordDev(p) \/ RecordDevFails(p) \/ List(p) \/ ListFails(p)
  \/ Load(p) \/ LoadFails(p) \/ Publish(p) \/ Release(p) \/ Abandon(p) \/ Unname(p)
  \/ Operate(p)

Next ==
  \/ \E p \in Proc : New(p) \/ InitCall(p) \/ Reattach(p) \/ Step(p) \/ Kill(p)
  \/ \E k \in Key, v \in Value : Write(k, v)
  \/ Mount

Spec == Init /\ [][Next]_vars

\* A process inside a call is scheduled.
FairSpec == Spec /\ \A p \in Proc : WF_vars(Step(p))

-----------------------------------------------------------------------------
(* Properties.                                                             *)

TypeOK ==
  /\ root \in Dev /\ fs \in [Dev -> [Key -> Value]]
  /\ name \in 0 .. Len(obj)
  /\ \A o \in DOMAIN obj :
       /\ obj[o].vars \in [Key -> Value]
       /\ obj[o].ready => obj[o].sized /\ obj[o].dev # {}
  /\ sem \in [Dev -> {"none", "zero", NoProc} \cup Proc]
  /\ seg \in [Proc -> 0 .. Len(obj)] /\ ops \in [Proc -> 0 .. Interval - 1]
  /\ \A p \in Proc : run[p].fd \in 0 .. Len(obj) /\ run[p].todo \subseteq Key

\* nvram_init is "safe to call from more than one process; the loser of the
\* creation race attaches to the winner's segment": processes that use segments
\* built from one filesystem use one segment.
LoserAttaches ==
  \A p, q \in Proc :
    seg[p] # 0 /\ seg[q] # 0 /\ obj[seg[p]].dev = obj[seg[q]].dev => seg[p] = seg[q]

\* nvram_init is idempotent: processes share one segment, whoever was killed,
\* restarted or refused on the way, as long as no two of them were inside
\* nvram_init at once.
OneSegment == raced \/ LoserAttaches

\* A segment that is published, or that somebody uses, and that records the
\* filesystem mounted now.
InUse(o) == (obj[o].ready \/ \E p \in Proc : seg[p] = o) /\ obj[o].dev = {root}

\* Such a segment was read from that filesystem and from nowhere else: a mount at
\* whatever moment of its construction does not make what lay underneath the
\* store of the rest of the boot (Header::store_dev).
SegmentMatchesMount == \A o \in DOMAIN obj : InUse(o) => obj[o].from \subseteq {root}

\* A segment is published with every variable of the filesystem it records: each
\* has a value that its file had while the segment was being built, so that
\* "absent from the segment" means "does not exist".  (Segment::create: "a
\* partially populated segment must never be published")
PublishesWhole ==
  [][\A o \in DOMAIN obj : obj'[o].ready /\ ~obj[o].ready /\ obj[o].dev = {root}
       => \A k \in Key : obj[o].vars[k] \in obj[o].had[k]]_vars

\* A process without a segment finds one that is there to be found within
\* REATTACH_INTERVAL operations.
CatchesUp == \A p \in Proc : missed[p] <= Interval

\* Every call returns: who waits for a creator gets the semaphore when the
\* creator is through, has given up or is dead.
CallsReturn == \A p \in Proc : run[p].pc \notin {"off", "idle"} ~> run[p].pc \in {"off", "idle"}
=============================================================================
