----------------------------- MODULE Registers -----------------------------
(***************************************************************************)
(* What Store takes the shared segment for (src/src/shm.rs): one value per *)
(* variable, with neither index, arena nor counter in it.  A write that    *)
(* returns has given its variable its value, and no other variable         *)
(* another; one that has no room changes nothing; one that is killed       *)
(* leaves its variable old, new or empty.  A read returns a value that its *)
(* variable had since the read began.  A copy that a reader may use        *)
(* without looking is an answer it was given, and is the variable's value  *)
(* still; only a clear that is about to return has copies to catch up with *)
(* it.                                                                     *)
(***************************************************************************)
EXTENDS Naturals

CONSTANTS Reader, Key, NoKey, Val, Absent, Empty

VARIABLES
  value,   \* the value of every variable
  call,    \* the write under way, if any
  asked,   \* the key that each reader is reading, if any
  may,     \* the values that read may return
  answer,  \* the one it will return, once it is settled
  deaths,  \* how many writers have been killed
  copy     \* what each reader may use without looking: one value or none

vars == <<value, call, asked, may, answer, deaths, copy>>

Variables == [k \in Key |-> Absent]

Init ==
  /\ value \in [Key -> Val \cup {Absent}]
  /\ call = {} /\ deaths = 0
  /\ asked = [r \in Reader |-> {}] /\ may = asked /\ answer = asked
  /\ copy = [r \in Reader |-> [k \in Key |-> {}]]

-----------------------------------------------------------------------------
(* Writes.                                                                 *)

\* Reads under way may return the new value too.
WriteStep ==
  /\ may' = [r \in Reader |-> may[r] \cup {value'[k] : k \in asked[r]}]
  /\ UNCHANGED <<asked, answer>>

Begins(c) == call = {} /\ call' = {c} /\ UNCHANGED <<value, deaths>>

\* put has room or has still to look for it; remove needs none.
Write(k, v, stage) == Begins([key |-> k, val |-> v, stage |-> stage])

\* Room has been found.
Grant(c) ==
  /\ c.stage = "asked" /\ call' = {[c EXCEPT !.stage = "granted"]}
  /\ UNCHANGED <<value, deaths>>

\* There is none: put fails.
Refuse(c) == c.stage = "asked" /\ call' = {} /\ UNCHANGED <<value, deaths>>

\* put or remove returns.
Return(c) ==
  /\ c.stage = "granted" /\ call' = {}
  /\ value' = [value EXCEPT ![c.key] = c.val]
  /\ UNCHANGED deaths

\* Its process is killed.
Killed(c) ==
  /\ c.stage = "granted" /\ call' = {} /\ deaths' = deaths + 1
  /\ \E v \in {value[c.key], c.val, Empty} : value' = [value EXCEPT ![c.key] = v]

\* clear: everything at once; then it returns.
Empties(c) ==
  /\ c.stage = "clearing" /\ call' = {[c EXCEPT !.stage = "cleared"]}
  /\ value' = Variables
  /\ UNCHANGED deaths

Cleared(c) == c.stage = "cleared" /\ call' = {} /\ UNCHANGED <<value, deaths>>

-----------------------------------------------------------------------------
(* Reads.                                                                  *)

Ask(r, k) ==
  /\ asked[r] = {}
  /\ asked' = [asked EXCEPT ![r] = {k}] /\ may' = [may EXCEPT ![r] = {value[k]}]
  /\ UNCHANGED <<value, call, answer, deaths>>

Answer(r, v) ==
  /\ asked[r] # {} /\ answer[r] = {} /\ v \in may[r]
  /\ answer' = [answer EXCEPT ![r] = {v}]
  /\ UNCHANGED <<value, call, asked, may, deaths>>

Told(r) ==
  /\ answer[r] # {}
  /\ asked' = [asked EXCEPT ![r] = {}] /\ may' = [may EXCEPT ![r] = {}]
  /\ answer' = [answer EXCEPT ![r] = {}]
  /\ UNCHANGED <<value, call, deaths>>

\* A copy is not to be used any more.
Forget == UNCHANGED <<value, call, asked, may, answer, deaths>>

\* The answer a reader has just been given for k.
Given(r, k) == IF k \in asked[r] \ asked'[r] THEN answer[r] ELSE {}

\* What every step does with the copies.
Copies ==
  /\ \A r \in Reader, k \in Key : copy'[r][k] \subseteq copy[r][k] \cup Given(r, k)
  /\ (\A c \in call' : c.stage # "cleared") =>
       \A r \in Reader, k \in Key : copy'[r][k] \subseteq {value'[k]}

-----------------------------------------------------------------------------
Next ==
  /\ \/ /\ \/ \E k \in Key, v \in Val \cup {Absent} : Write(k, v, "granted")
           \/ \E k \in Key, v \in Val : Write(k, v, "asked")
           \/ Begins([key |-> NoKey, val |-> Absent, stage |-> "clearing"])
           \/ \E c \in call : \/ Grant(c) \/ Refuse(c) \/ Return(c) \/ Killed(c)
                              \/ Empties(c) \/ Cleared(c)
        /\ WriteStep
     \/ \E r \in Reader : \/ \E k \in Key : Ask(r, k)
                          \/ \E v \in may[r] : Answer(r, v)
                          \/ Told(r)
     \/ Forget
  /\ Copies

Spec == Init /\ [][Next]_vars
=============================================================================
