------------------------------- MODULE Nvram -------------------------------
(***************************************************************************)
(* What the library promises its callers (the contract at the top of       *)
(* src/src/lib.rs), with neither segment, semaphore nor file in it.        *)
(*                                                                         *)
(* There is one value per name, the same for every process: a set is       *)
(* visible everywhere at once, and a copy a process may still use is that  *)
(* value.  A set is not durable.  A crash gives a name any value it has    *)
(* had since the last barrier, each name on its own; a barrier is a commit *)
(* or a clear that reported success, and counts from the moment it looked  *)
(* at memory.  For a name whose file somebody else changed the barrier     *)
(* answers less: that file may be left as it is.                           *)
(***************************************************************************)
CONSTANTS Proc, Key, Value, Absent

VARIABLES
  mem,      \* the value of every name
  since,    \* the values it has had since the last barrier
  running,  \* the values it has had since the running barrier looked, if any
  foreign,  \* names whose file is not the library's doing
  copy      \* what each process may serve without looking: one value or none

vars == <<mem, since, running, foreign, copy>>

NoBarrier == [k \in Key |-> {}]
Record(h, k, v) == [h EXCEPT ![k] = @ \cup {v}]
RecordRunning(k, v) ==
  running' = IF running = NoBarrier THEN NoBarrier ELSE Record(running, k, v)

\* A copy is of the value, or is not to be used.
CopiesCurrent == \A p \in Proc, k \in Key : copy[p][k] \subseteq {mem[k]}

Init ==
  /\ mem \in [Key -> Value]
  /\ since = [k \in Key |-> {mem[k]}]
  /\ running = NoBarrier
  /\ foreign = {}
  /\ CopiesCurrent

\* nvram_set; nvram_unset with v = Absent.
Assign(k, v) ==
  /\ mem' = [mem EXCEPT ![k] = v]
  /\ since' = Record(since, k, v)
  /\ RecordRunning(k, v)
  /\ UNCHANGED foreign

\* Somebody edits a file.
Outside(k, v) ==
  /\ since' = Record(since, k, v)
  /\ RecordRunning(k, v)
  /\ foreign' = foreign \cup {k}
  /\ UNCHANGED mem

\* nvram_commit looks at memory.
Begin ==
  /\ running' \in [Key -> SUBSET Value]
  /\ \A k \in Key :
       /\ mem[k] \in running'[k] /\ running'[k] \subseteq since[k]
       /\ k \notin foreign => running'[k] = {mem[k]}
  /\ UNCHANGED <<mem, since, foreign>>

\* nvram_clear empties memory.
Clear ==
  /\ mem' = [k \in Key |-> Absent]
  /\ since' = [k \in Key |-> since[k] \cup {Absent}]
  /\ running' = [k \in Key |-> {Absent}]
  /\ foreign' \subseteq Key

\* The barrier reports success.
Succeed ==
  /\ running # NoBarrier
  /\ since' = running /\ running' = NoBarrier
  /\ UNCHANGED <<mem, foreign>>

\* The barrier fails, or its process dies.
GiveUp ==
  /\ running' = NoBarrier
  /\ UNCHANGED <<mem, since, foreign>>

\* A file is the library's again; copies come and go.
Settle ==
  /\ foreign' \subseteq foreign
  /\ UNCHANGED <<mem, since, running>>

Crash ==
  /\ mem' \in [Key -> Value]
  /\ \A k \in Key : mem'[k] \in since[k]
  /\ since' = [k \in Key |-> {mem'[k]}]
  /\ running' = NoBarrier
  /\ foreign' = {}

Next ==
  /\ \/ \E k \in Key, v \in Value : Assign(k, v) \/ Outside(k, v)
     \/ Begin \/ Clear \/ Succeed \/ GiveUp \/ Settle \/ Crash
  /\ CopiesCurrent'

Spec == Init /\ [][Next]_vars
=============================================================================
