------------------------------ MODULE Dispatch ------------------------------
(***************************************************************************)
(* The LLM dispatcher: workers walk a chain of agents, and call an agent   *)
(* only inside two mkdir locks, the lane's and then the agent's.           *)
(*                                                                         *)
(* A lock is a directory; its owner file is written by a later step, and a *)
(* waiter that finds the owner dead, or the directory old, decides first   *)
(* and removes it later.  Back-offs and failure streaks are one file per   *)
(* agent, read and replaced without a lock.  Every step below is one       *)
(* system call on those files, or the provider call itself.                *)
(***************************************************************************)
EXTENDS Integers, FiniteSets, Sequences

CONSTANTS Worker, NoOne,  \* processes that dispatch one request each
          Lane, Chain,    \* of a worker: its queue lock, its sequence of agents
          Agents, Lanes,  \* the locks: one per agent, one per lane
          OpenAgents,     \* agents whose calls take the provider lock
          Hurried,        \* workers with an overall deadline
          Patient,        \* workers whose queue wait has no cap of its own
          Mortal,         \* workers that may be killed
          Slow            \* workers that may keep a lock longer than stale_sec

ASSUME DispatchAssumption ==
  /\ NoOne \notin Worker
  /\ Lane \in [Worker -> Lanes] /\ Chain \in [Worker -> Seq(Agents)]
  /\ Agents \cap Lanes = {} /\ OpenAgents \subseteq Agents
  /\ Hurried \cup Patient \cup Mortal \cup Slow \subseteq Worker

VARIABLES
  dir,      \* the lock directories
  job,      \* of each worker: where it is in dispatch()
  late,     \* workers whose overall deadline has passed
  backoff,  \* of each agent: its back-off file
  streak,   \* of each agent: its failure streak file (0: no file)
  limited   \* agents under a back-off that has been recorded and not passed

vars == <<dir, job, late, backoff, streak, limited>>

Locks   == Agents \cup Lanes
Free    == [there |-> FALSE, owner |-> NoOne, old |-> FALSE]
Results == {"none", "ok", "rate", "fail", "reject", "deadline", "giveup"}
Pcs     == {"idle", "pick", "unlink", "try", "sign", "inspect", "reap", "wait", "call", "calling",
            "read", "rm", "verdict", "streak", "backoff", "done", "dead"}

TypeOK ==
  /\ dir \in [Locks -> [there : BOOLEAN, owner : Worker \cup {NoOne}, old : BOOLEAN]]
  /\ job \in [Worker -> [pc : Pcs, i : Nat \ {0}, stage : {"queue", "provider"}, has : SUBSET Locks,
                         res : Results, seen : Nat]]
  /\ late \subseteq Hurried /\ limited \subseteq Agents
  /\ backoff \in [Agents -> {"none", "live", "expired"}] /\ streak \in [Agents -> Nat]

Init ==
  /\ dir = [l \in Locks |-> Free]
  /\ job = [w \in Worker |-> [pc |-> "idle", i |-> 1, stage |-> "queue", has |-> {},
                              res |-> "none", seen |-> 0]]
  /\ late = {} /\ limited = {}
  /\ backoff \in [Agents -> {"none", "expired"}]
  /\ streak = [a \in Agents |-> 0]

Agent(w)  == Chain[w][job[w].i]
LockOf(w) == IF job[w].stage = "queue" THEN Lane[w] ELSE Agent(w)
Alive(w)  == job[w].pc # "dead"
At(w, pc) == job[w].pc = pc
Goto(w, pc) == job' = [job EXCEPT ![w].pc = pc]

Store == <<backoff, streak, limited>>

-----------------------------------------------------------------------------
(* Choosing an agent: BackoffStore.remaining, then the deadline            *)

Begin(w) == /\ At(w, "idle") /\ Goto(w, "pick")
            /\ UNCHANGED <<dir, late, Store>>

Exhausted(w) == /\ At(w, "pick") /\ job[w].i > Len(Chain[w])
                /\ Goto(w, "done")
                /\ UNCHANGED <<dir, late, Store>>

Reads(w, state) == /\ At(w, "pick") /\ job[w].i <= Len(Chain[w])
                   /\ backoff[Agent(w)] = state

Skip(w) == /\ Reads(w, "live")
           /\ job' = [job EXCEPT ![w].i = @ + 1]
           /\ UNCHANGED <<dir, late, Store>>

Enter(w) == job' = [job EXCEPT ![w].pc = IF w \in late THEN "done" ELSE "try",
                               ![w].stage = "queue", ![w].res = "none"]

NotBackedOff(w) == Reads(w, "none") /\ Enter(w) /\ UNCHANGED <<dir, late, Store>>
SeesExpired(w)  == Reads(w, "expired") /\ Goto(w, "unlink") /\ UNCHANGED <<dir, late, Store>>

(* The file that was read as expired is removed, whatever it says by now.  *)
Unlink(w) == /\ At(w, "unlink")
             /\ backoff' = [backoff EXCEPT ![Agent(w)] = "none"]
             /\ Enter(w)
             /\ UNCHANGED <<dir, late, streak, limited>>

-----------------------------------------------------------------------------
(* FileLock.acquire                                                        *)

(* Mutant of Mkdir: a directory that is there already will do.             *)
MkdirAnyway(w) == /\ At(w, "try")
                  /\ dir' = [dir EXCEPT ![LockOf(w)] = [Free EXCEPT !.there = TRUE]]
                  /\ Goto(w, "sign")
                  /\ UNCHANGED <<late, Store>>

Mkdir(w) == /\ At(w, "try") /\ ~dir[LockOf(w)].there
            /\ dir' = [dir EXCEPT ![LockOf(w)] = [Free EXCEPT !.there = TRUE]]
            /\ Goto(w, "sign")
            /\ UNCHANGED <<late, Store>>

Exists(w) == /\ At(w, "try") /\ dir[LockOf(w)].there
             /\ Goto(w, "inspect")
             /\ UNCHANGED <<dir, late, Store>>

(* Mutant of OwnerDead: a process that cannot be signalled is dead.        *)
OwnerForeign(l) == dir[l].owner # NoOne

(* Mutant of Stale: the age of the directory is not looked at.             *)
StaleByOwner(l) == dir[l].there /\ dir[l].owner # NoOne /\ ~Alive(dir[l].owner)

OwnerDead(l) == dir[l].owner # NoOne /\ ~Alive(dir[l].owner)
Stale(l)     == dir[l].there /\ (OwnerDead(l) \/ dir[l].old)

Inspect(w) == /\ At(w, "inspect")
              /\ Goto(w, IF Stale(LockOf(w)) THEN "reap" ELSE "wait")
              /\ UNCHANGED <<dir, late, Store>>

Reap(w) == /\ At(w, "reap")
           /\ dir' = [dir EXCEPT ![LockOf(w)] = Free]
           /\ Goto(w, "wait")
           /\ UNCHANGED <<late, Store>>

Retry(w) == /\ At(w, "wait") /\ w \notin late
            /\ Goto(w, "try")
            /\ UNCHANGED <<dir, late, Store>>

(* Mutant of GiveUp: the locks are released only after a call.             *)
GiveUpEarly(w) ==
  /\ At(w, "wait") /\ (w \in late \/ w \notin Patient)
  /\ job' = [job EXCEPT ![w].pc = "verdict", ![w].res = "fail"]
  /\ UNCHANGED <<dir, late, Store>>

(* LockTimeout.  A provider slot that was not free in time counts as a     *)
(* failure of the agent.                                                   *)
GiveUp(w) ==
  /\ At(w, "wait") /\ (w \in late \/ w \notin Patient)
  /\ job' = [job EXCEPT ![w].pc = "read",
                        ![w].res = IF w \in late THEN "deadline"
                                   ELSE IF job[w].stage = "queue" THEN "giveup" ELSE "fail"]
  /\ UNCHANGED <<dir, late, Store>>

(* The owner file: the lock is acquired.                                   *)
Sign(w) ==
  LET onward == job[w].stage = "queue" /\ Agent(w) \in OpenAgents
  IN /\ At(w, "sign") /\ dir[LockOf(w)].there
     /\ dir' = [dir EXCEPT ![LockOf(w)] = [there |-> TRUE, owner |-> w, old |-> FALSE]]
     /\ job' = [job EXCEPT ![w].has = @ \cup {LockOf(w)},
                           ![w].pc = IF onward THEN "try" ELSE "call",
                           ![w].stage = IF onward THEN "provider" ELSE @]
     /\ UNCHANGED <<late, Store>>

(* Its directory was removed meanwhile: the error ends the attempt.        *)
SignLost(w) ==
  /\ At(w, "sign") /\ ~dir[LockOf(w)].there
  /\ job' = [job EXCEPT ![w].pc = "read", ![w].res = "fail"]
  /\ UNCHANGED <<dir, late, Store>>

-----------------------------------------------------------------------------
(* The provider call                                                       *)

Call(w) ==
  /\ At(w, "call")
  /\ job' = IF w \in late THEN [job EXCEPT ![w].pc = "read", ![w].res = "deadline"]
                          ELSE [job EXCEPT ![w].pc = "calling"]
  /\ UNCHANGED <<dir, late, Store>>

Answer(w) ==
  /\ At(w, "calling")
  /\ \E out \in {"ok", "rate", "fail", "reject"} :
       job' = [job EXCEPT ![w].pc = "read", ![w].res = out]
  /\ UNCHANGED <<dir, late, Store>>

-----------------------------------------------------------------------------
(* FileLock.release, of the agent's lock and then of the lane's            *)

Released(w) == job' = [job EXCEPT ![w].has = @ \ {LockOf(w)},
                                  ![w].pc = IF job[w].stage = "provider" THEN "read" ELSE "verdict",
                                  ![w].stage = "queue"]

ReadMine(w) == /\ At(w, "read") /\ dir[LockOf(w)].owner = w
               /\ Goto(w, "rm")
               /\ UNCHANGED <<dir, late, Store>>

ReadOther(w) == /\ At(w, "read") /\ dir[LockOf(w)].owner # w
                /\ Released(w)
                /\ UNCHANGED <<dir, late, Store>>

Remove(w) == /\ At(w, "rm")
             /\ dir' = [dir EXCEPT ![LockOf(w)] = Free]
             /\ Released(w)
             /\ UNCHANGED <<late, Store>>

-----------------------------------------------------------------------------
(* What the result does to the agent's record, and where dispatch goes on  *)

Judges(w, results) == At(w, "verdict") /\ job[w].res \in results
NextAgent(w)       == job' = [job EXCEPT ![w].pc = "pick", ![w].i = @ + 1]
Records(a)         == /\ backoff' = [backoff EXCEPT ![a] = "live"]
                      /\ limited' = limited \cup {a}

ReturnEarly(w) == /\ Judges(w, {"deadline", "giveup"})
                  /\ Goto(w, "done")
                  /\ UNCHANGED <<dir, late, Store>>

(* Mutant of Succeed: a success makes up for one failure.                  *)
SucceedOnce(w) == /\ Judges(w, {"ok"})
                  /\ streak' = [streak EXCEPT ![Agent(w)] = @ - 1]
                  /\ Goto(w, "done")
                  /\ UNCHANGED <<dir, late, backoff, limited>>

Succeed(w) == /\ Judges(w, {"ok"})
              /\ streak' = [streak EXCEPT ![Agent(w)] = 0]
              /\ Goto(w, "done")
              /\ UNCHANGED <<dir, late, backoff, limited>>

Rejected(w) == /\ Judges(w, {"reject"})
               /\ NextAgent(w)
               /\ UNCHANGED <<dir, late, Store>>

RateLimited(w) == /\ Judges(w, {"rate"})
                  /\ Records(Agent(w))
                  /\ NextAgent(w)
                  /\ UNCHANGED <<dir, late, streak>>

(* record_failure reads the streak, and replaces it by what it has read.   *)
ReadStreak(w) == /\ Judges(w, {"fail"})
                 /\ job' = [job EXCEPT ![w].pc = "streak", ![w].seen = streak[Agent(w)]]
                 /\ UNCHANGED <<dir, late, Store>>

WriteStreak(w) == /\ At(w, "streak")
                  /\ streak' = [streak EXCEPT ![Agent(w)] = job[w].seen + 1]
                  /\ Goto(w, "backoff")
                  /\ UNCHANGED <<dir, late, backoff, limited>>

BackOff(w) == /\ At(w, "backoff")
              /\ Records(Agent(w))
              /\ NextAgent(w)
              /\ UNCHANGED <<dir, late, streak>>

-----------------------------------------------------------------------------
(* The environment: time passes, processes are killed                      *)

Uses(w, l) == Alive(w) /\ (l \in job[w].has \/ (At(w, "sign") /\ LockOf(w) = l))

Age(l) == /\ dir[l].there /\ ~dir[l].old
          /\ \A w \in Worker : Uses(w, l) => w \in Slow
          /\ dir' = [dir EXCEPT ![l].old = TRUE]
          /\ UNCHANGED <<job, late, Store>>

DeadlinePasses(w) == /\ w \in Hurried \ late
                     /\ late' = late \cup {w}
                     /\ UNCHANGED <<dir, job, Store>>

BackoffPasses(a) == /\ backoff[a] = "live"
                    /\ backoff' = [backoff EXCEPT ![a] = "expired"]
                    /\ limited' = limited \ {a}
                    /\ UNCHANGED <<dir, job, late, streak>>

Kill(w) == /\ w \in Mortal /\ job[w].pc \notin {"idle", "done", "dead"}
           /\ Goto(w, "dead")
           /\ UNCHANGED <<dir, late, Store>>

-----------------------------------------------------------------------------
AcquireStep(w) == \/ Mkdir(w) \/ Exists(w) \/ Inspect(w) \/ Reap(w) \/ Retry(w)
                  \/ GiveUp(w) \/ Sign(w) \/ SignLost(w)

WorkerStep(w) ==
  \/ Exhausted(w) \/ Skip(w) \/ NotBackedOff(w) \/ SeesExpired(w) \/ Unlink(w)
  \/ AcquireStep(w) \/ Call(w) \/ Answer(w)
  \/ ReadMine(w) \/ ReadOther(w) \/ Remove(w)
  \/ ReturnEarly(w) \/ Succeed(w) \/ Rejected(w) \/ RateLimited(w)
  \/ ReadStreak(w) \/ WriteStreak(w) \/ BackOff(w)

Next ==
  \/ \E w \in Worker : Begin(w) \/ WorkerStep(w) \/ DeadlinePasses(w) \/ Kill(w)
  \/ \E l \in Locks : Age(l)
  \/ \E a \in Agents : BackoffPasses(a)

Spec == Init /\ [][Next]_vars

(* Every call has a timeout, a poll recurs, and a directory nobody uses    *)
(* becomes older than stale_sec.                                           *)
Fairness == /\ \A w \in Worker : WF_vars(WorkerStep(w))
            /\ \A l \in Locks : WF_vars(Age(l))

FairSpec == Spec /\ Fairness

-----------------------------------------------------------------------------
(* Properties                                                              *)

Holders(l) == {w \in Worker : Alive(w) /\ l \in job[w].has}

(* A lane generates one text at a time, and an agent has one call at a     *)
(* time, whichever lanes call it: acquire returned to one live process.    *)
OneHolder == \A l \in Locks : \A v, w \in Holders(l) : v = w

(* A dispatch that is over has left no lock directory in its name, however *)
(* it ended: its lane would wait for stale_sec.                            *)
NothingLeft == \A l \in Locks, w \in Worker : At(w, "done") => dir[l].owner # w

(* Whoever dies, and at whatever step, every dispatch of the others ends:  *)
(* the locks of the dead are reaped, the ones nobody signed grow old.      *)
DispatchEnds == \A w \in Worker : At(w, "pick") ~> job[w].pc \in {"done", "dead"}

(* A back-off that was recorded for an agent stays on file until it has    *)
(* passed, so that the next dispatch skips the agent.                      *)
BackoffKept == \A a \in limited : backoff[a] = "live"
=============================================================================
