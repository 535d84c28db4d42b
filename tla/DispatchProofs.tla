--------------------------- MODULE DispatchProofs ---------------------------
(***************************************************************************)
(* The mkdir locks of the dispatcher, for any workers, chains and lanes:   *)
(* what a worker has is what the owner files say, nothing is left behind   *)
(* by a dispatch that is over, and when a lock has one holder at a time.   *)
(***************************************************************************)
EXTENDS Dispatch, TLAPS

AcquirePcs == {"try", "sign", "inspect", "reap", "wait"}
InsidePcs  == AcquirePcs \cup {"call", "calling", "read", "rm"}
JudgePcs   == {"verdict", "streak", "backoff"}
AgentPcs   == InsidePcs \cup JudgePcs \cup {"unlink"}

(* Between the choice of an agent and the verdict there is an agent; the   *)
(* provider's lock is sought only for an agent that takes one, and not     *)
(* beyond the call.                                                        *)
Placed(w) == /\ job[w].pc \in AgentPcs => job[w].i <= Len(Chain[w])
             /\ job[w].stage = "provider" /\ Alive(w) =>
                  job[w].pc \in InsidePcs /\ Agent(w) \in OpenAgents

(* What a worker has: its lane's lock behind it while it seeks the         *)
(* provider's, nothing outside of an attempt.                              *)
BehindLocks(w) == IF job[w].stage = "provider" THEN {Lane[w]} ELSE {}
Carries(w) ==
  /\ job[w].has \subseteq BehindLocks(w) \cup {LockOf(w)}
  /\ job[w].pc \in AcquirePcs => job[w].has \subseteq BehindLocks(w)
  /\ job[w].pc \notin InsidePcs => job[w].has = {}
  /\ job[w].pc = "rm" => LockOf(w) \in job[w].has

(* Whatever names a worker as its owner, that worker has.                  *)
Answers(w) == \A l \in Locks : dir[l].owner = w => l \in job[w].has

Orderly(w) == Placed(w) /\ (Alive(w) => Carries(w) /\ Answers(w))
TypeInv    == TypeOK /\ \A w \in Worker : Orderly(w)

LEMMA AgentTyped ==
  ASSUME TypeInv, NEW w \in Worker, job[w].pc \in AgentPcs
  PROVE  Agent(w) \in Agents /\ Lane[w] \in Lanes /\ LockOf(w) \in Locks
<1>1. Chain[w] \in Seq(Agents) /\ Lane[w] \in Lanes BY DispatchAssumption
<1>2. job[w].i \in 1 .. Len(Chain[w]) BY <1>1 DEF TypeInv, TypeOK, Orderly, Placed
<1> QED BY <1>1, <1>2 DEF Agent, LockOf, Locks

-----------------------------------------------------------------------------
(* What a worker's step does to its record                                 *)

Jobs == [pc : Pcs, i : Nat \ {0}, stage : {"queue", "provider"}, has : SUBSET Locks,
         res : Results, seen : Nat]

(* Only w moves, and this is where.                                        *)
Moves(w, pc, i, stage, has) ==
  /\ job' \in [Worker -> Jobs] /\ \A v \in Worker \ {w} : job'[v] = job[v]
  /\ job'[w].pc = pc /\ job'[w].i = i /\ job'[w].stage = stage /\ job'[w].has = has

LEMMA JobFields ==
  ASSUME TypeInv, NEW w \in Worker
  PROVE  /\ job \in [Worker -> Jobs]
         /\ job[w].pc \in Pcs /\ job[w].i \in Nat /\ job[w].i > 0
         /\ job[w].stage \in {"queue", "provider"} /\ job[w].has \subseteq Locks
         /\ job[w].seen \in Nat
BY DEF TypeInv, TypeOK, Jobs

LEMMA UpdateMoves ==
  ASSUME TypeInv, NEW w \in Worker, NEW f \in Jobs, job' = [job EXCEPT ![w] = f]
  PROVE  Moves(w, f.pc, f.i, f.stage, f.has)
<1>1. job \in [Worker -> Jobs] BY JobFields
<1> QED BY <1>1 DEF Moves

LEMMA GotoMoves ==
  ASSUME TypeInv, NEW w \in Worker, NEW pc \in Pcs, Goto(w, pc)
  PROVE  Moves(w, pc, job[w].i, job[w].stage, job[w].has)
<1> DEFINE f == [job[w] EXCEPT !.pc = pc]
<1>1. job \in [Worker -> Jobs] BY JobFields
<1>2. job' = [job EXCEPT ![w] = f] BY DEF Goto
<1>3. /\ f \in Jobs /\ f.pc = pc /\ f.i = job[w].i
      /\ f.stage = job[w].stage /\ f.has = job[w].has
  BY <1>1 DEF Jobs
<1> HIDE DEF f
<1> QED BY <1>2, <1>3, UpdateMoves

LEMMA ResultMoves ==
  ASSUME TypeInv, NEW w \in Worker, NEW pc \in Pcs, NEW res \in Results,
         job' = [job EXCEPT ![w].pc = pc, ![w].res = res]
  PROVE  Moves(w, pc, job[w].i, job[w].stage, job[w].has)
<1> DEFINE f == [job[w] EXCEPT !.pc = pc, !.res = res]
<1>1. job \in [Worker -> Jobs] BY JobFields
<1>2. job' = [job EXCEPT ![w] = f] BY <1>1
<1>3. /\ f \in Jobs /\ f.pc = pc /\ f.i = job[w].i
      /\ f.stage = job[w].stage /\ f.has = job[w].has
  BY <1>1 DEF Jobs
<1> HIDE DEF f
<1> QED BY <1>2, <1>3, UpdateMoves

LEMMA EnterMoves ==
  ASSUME TypeInv, NEW w \in Worker, Enter(w)
  PROVE  Moves(w, IF w \in late THEN "done" ELSE "try", job[w].i, "queue", job[w].has)
<1> DEFINE pc == IF w \in late THEN "done" ELSE "try"
           f == [job[w] EXCEPT !.pc = pc, !.stage = "queue", !.res = "none"]
<1>1. job \in [Worker -> Jobs] BY JobFields
<1>2. job' = [job EXCEPT ![w] = f] BY <1>1 DEF Enter
<1>3. /\ f \in Jobs /\ f.pc = pc /\ f.i = job[w].i
      /\ f.stage = "queue" /\ f.has = job[w].has
  BY <1>1 DEF Jobs, Pcs, Results
<1> HIDE DEF f, pc
<1>4. Moves(w, pc, job[w].i, "queue", job[w].has) BY <1>2, <1>3, UpdateMoves
<1> QED BY <1>4 DEF pc

LEMMA OnwardMoves ==
  ASSUME TypeInv, NEW w \in Worker, NEW pc \in Pcs, NEW i \in Nat \ {0}, NEW s \in Nat,
         job' = [job EXCEPT ![w] = [job[w] EXCEPT !.pc = pc, !.i = i, !.seen = s]]
  PROVE  Moves(w, pc, i, job[w].stage, job[w].has)
<1> DEFINE f == [job[w] EXCEPT !.pc = pc, !.i = i, !.seen = s]
<1>1. job \in [Worker -> Jobs] BY JobFields
<1>3. /\ f \in Jobs /\ f.pc = pc /\ f.i = i
      /\ f.stage = job[w].stage /\ f.has = job[w].has
  BY <1>1 DEF Jobs
<1> HIDE DEF f
<1>4. job' = [job EXCEPT ![w] = f] BY DEF f
<1> QED BY <1>3, <1>4, UpdateMoves

LEMMA HandMoves ==
  ASSUME TypeInv, NEW w \in Worker, NEW pc \in Pcs, NEW stage \in {"queue", "provider"},
         NEW has \in SUBSET Locks,
         job' = [job EXCEPT ![w] = [job[w] EXCEPT !.has = has, !.pc = pc, !.stage = stage]]
  PROVE  Moves(w, pc, job[w].i, stage, has)
<1> DEFINE f == [job[w] EXCEPT !.has = has, !.pc = pc, !.stage = stage]
<1>1. job \in [Worker -> Jobs] BY JobFields
<1>3. /\ f \in Jobs /\ f.pc = pc /\ f.i = job[w].i
      /\ f.stage = stage /\ f.has = has
  BY <1>1 DEF Jobs
<1> HIDE DEF f
<1>4. job' = [job EXCEPT ![w] = f] BY DEF f
<1> QED BY <1>3, <1>4, UpdateMoves

-----------------------------------------------------------------------------
(* How a step preserves the invariant                                      *)

DirType == [Locks -> [there : BOOLEAN, owner : Worker \cup {NoOne}, old : BOOLEAN]]

(* A lock directory changes hands only to w, or to nobody.                 *)
Passes(w) == /\ dir' \in DirType
             /\ \A l \in Locks : dir'[l].owner \in {dir[l].owner, NoOne, w}

StoreTyped == /\ late \subseteq Hurried /\ limited \subseteq Agents
              /\ backoff \in [Agents -> {"none", "live", "expired"}] /\ streak \in [Agents -> Nat]

LEMMA OthersOrderly ==
  ASSUME TypeInv, NEW w \in Worker, NEW pc, NEW i, NEW stage, NEW has,
         Moves(w, pc, i, stage, has), Passes(w), StoreTyped', Orderly(w)'
  PROVE  TypeInv'
<1>1. TypeOK' BY DEF Moves, Jobs, Passes, DirType, StoreTyped, TypeOK
<1>2. ASSUME NEW v \in Worker, v # w PROVE Orderly(v)'
  <2>1. job'[v] = job[v] BY <1>2 DEF Moves
  <2>2. \A l \in Locks : dir'[l].owner = v => dir[l].owner = v
    BY <1>2, DispatchAssumption DEF Passes
  <2> QED
    BY <2>1, <2>2 DEF TypeInv, Orderly, Placed, Carries, Answers, BehindLocks, LockOf, Agent, Alive
<1> QED BY <1>1, <1>2 DEF TypeInv

(* A step that leaves the lock directories and what w has alone.           *)
LEMMA QuietOrderly ==
  ASSUME TypeInv, NEW w \in Worker, NEW pc \in Pcs, NEW i, NEW stage,
         Moves(w, pc, i, stage, job[w].has), dir' = dir, StoreTyped',
         pc \in AgentPcs => i <= Len(Chain[w]),
         \/ pc = "dead"
         \/ stage = "provider" /\ pc \in InsidePcs /\ Chain[w][i] \in OpenAgents
         \/ stage = "queue",
         \/ pc = "dead"
         \/ i = job[w].i /\ stage = job[w].stage /\ job[w].pc \in InsidePcs
              /\ (pc \in AcquirePcs => job[w].pc \in AcquirePcs)
              /\ pc \in InsidePcs
              /\ (pc = "rm" => LockOf(w) \in job[w].has)
         \/ job[w].has = {} /\ pc # "rm",
         Alive(w)
  PROVE  TypeInv'
<1>1. /\ job'[w].pc = pc /\ job'[w].i = i /\ job'[w].stage = stage /\ job'[w].has = job[w].has
  BY DEF Moves
<1>2. Orderly(w) BY DEF TypeInv
<1>3. Placed(w)' BY <1>1 DEF Placed, Alive, Agent
<1>4. pc # "dead" => Carries(w)'
  BY <1>1, <1>2 DEF Orderly, Carries, BehindLocks, LockOf, Agent
<1>5. Answers(w)' BY <1>1, <1>2 DEF Orderly, Answers
<1>6. Orderly(w)' BY <1>1, <1>3, <1>4, <1>5 DEF Orderly, Alive
<1>7. Passes(w) BY DEF TypeInv, TypeOK, Passes, DirType
<1> QED BY <1>6, <1>7, OthersOrderly

(* Choosing an agent, and what the result does to its record: nothing is   *)
(* held.                                                                   *)
ChoosingStep(w) == \/ Begin(w) \/ Exhausted(w) \/ Skip(w) \/ NotBackedOff(w) \/ SeesExpired(w)
                   \/ Unlink(w)
JudgingStep(w)  == \/ ReturnEarly(w) \/ Succeed(w) \/ Rejected(w) \/ RateLimited(w)
                   \/ ReadStreak(w) \/ WriteStreak(w) \/ BackOff(w)

LEMMA ChoosingOrderly ==
  ASSUME TypeInv, NEW w \in Worker, ChoosingStep(w)
  PROVE  TypeInv'
<1> USE DEF At, Pcs, AgentPcs, InsidePcs, AcquirePcs, JudgePcs, Alive
<1>1. /\ job[w].pc \in {"idle", "pick", "unlink"} /\ dir' = dir
      /\ UNCHANGED <<late, streak, limited>>
  BY DEF ChoosingStep, Begin, Exhausted, Skip, NotBackedOff, SeesExpired, Unlink, Reads, Store
<1>2. job[w].has = {} /\ job[w].stage = "queue"
  BY <1>1, JobFields DEF TypeInv, Orderly, Placed, Carries
<1>3. ASSUME NEW pc \in {"pick", "done", "unlink"}, Goto(w, pc), backoff' = backoff,
             pc = "unlink" => job[w].i <= Len(Chain[w])
      PROVE  TypeInv'
  <2>1. Moves(w, pc, job[w].i, "queue", job[w].has) BY <1>2, <1>3, GotoMoves
  <2>2. StoreTyped' BY <1>1, <1>3 DEF TypeInv, TypeOK, StoreTyped
  <2>3. pc \in Pcs /\ pc # "rm" /\ Alive(w) BY <1>1
  <2>4. pc \in AgentPcs => job[w].i <= Len(Chain[w]) BY <1>3
  <2> HIDE DEF At, Pcs, AgentPcs, InsidePcs, AcquirePcs, JudgePcs, Alive
  <2> QED BY <1>1, <1>2, <2>1, <2>2, <2>3, <2>4, QuietOrderly
<1>4. ASSUME Enter(w), job[w].i <= Len(Chain[w]), StoreTyped' PROVE TypeInv'
  <2>1. PICK pc \in {"done", "try"} : Moves(w, pc, job[w].i, "queue", job[w].has)
    BY <1>4, EnterMoves
  <2> QED BY <1>1, <1>2, <1>4, <2>1, QuietOrderly
<1>5. CASE Begin(w) \/ Exhausted(w) \/ SeesExpired(w)
  BY <1>3, <1>5 DEF Begin, Exhausted, SeesExpired, Reads, Store
<1>6. CASE Skip(w)
  <2>1. job' = [job EXCEPT ![w] = [job[w] EXCEPT !.pc = "pick", !.i = job[w].i + 1, !.seen = job[w].seen]]
    BY <1>6, JobFields DEF Skip, Reads, Jobs
  <2>2. job[w].i + 1 \in Nat \ {0} /\ job[w].seen \in Nat BY JobFields
  <2>3. Moves(w, "pick", job[w].i + 1, "queue", job[w].has)
    BY <1>2, <2>1, <2>2, OnwardMoves
  <2>4. StoreTyped' BY <1>6 DEF Skip, Store, TypeInv, TypeOK, StoreTyped
  <2> QED BY <1>1, <1>2, <2>3, <2>4, QuietOrderly
<1>7. CASE NotBackedOff(w)
  <2>1. StoreTyped' BY <1>7 DEF NotBackedOff, Store, TypeInv, TypeOK, StoreTyped
  <2> QED BY <1>4, <1>7, <2>1 DEF NotBackedOff, Reads
<1>8. CASE Unlink(w)
  <2>1. StoreTyped' BY <1>1, <1>8 DEF Unlink, TypeInv, TypeOK, StoreTyped
  <2>2. job[w].i <= Len(Chain[w]) BY <1>8 DEF Unlink, TypeInv, Orderly, Placed
  <2> QED BY <1>4, <1>8, <2>1, <2>2 DEF Unlink
<1> QED BY <1>5, <1>6, <1>7, <1>8 DEF ChoosingStep

LEMMA JudgingOrderly ==
  ASSUME TypeInv, NEW w \in Worker, JudgingStep(w)
  PROVE  TypeInv'
<1> USE DEF At, Pcs, AgentPcs, InsidePcs, AcquirePcs, JudgePcs, Alive
<1>1. job[w].pc \in JudgePcs /\ dir' = dir /\ late' = late
  BY DEF JudgingStep, Judges, ReturnEarly, Succeed, Rejected, RateLimited, ReadStreak,
         WriteStreak, BackOff, Store
<1>2. job[w].has = {} /\ job[w].stage = "queue" /\ job[w].i <= Len(Chain[w])
  BY <1>1, JobFields DEF TypeInv, Orderly, Placed, Carries
<1>3. Agent(w) \in Agents BY <1>1, AgentTyped
<1>4. StoreTyped'
  BY <1>1, <1>3, JobFields
  DEF JudgingStep, ReturnEarly, Succeed, Rejected, RateLimited, ReadStreak,
      WriteStreak, BackOff, Store, Records, TypeInv, TypeOK, StoreTyped
<1>5. ASSUME NEW pc \in {"done", "backoff"}, Goto(w, pc) PROVE TypeInv'
  <2>1. Moves(w, pc, job[w].i, "queue", job[w].has) BY <1>2, <1>5, GotoMoves
  <2> QED BY <1>1, <1>2, <1>4, <2>1, QuietOrderly
<1>6. ASSUME NextAgent(w) PROVE TypeInv'
  <2>1. job' = [job EXCEPT ![w] = [job[w] EXCEPT !.pc = "pick", !.i = job[w].i + 1, !.seen = job[w].seen]]
    BY <1>6, JobFields DEF NextAgent, Jobs
  <2>2. job[w].i + 1 \in Nat \ {0} /\ job[w].seen \in Nat BY JobFields
  <2>3. Moves(w, "pick", job[w].i + 1, "queue", job[w].has)
    BY <1>2, <2>1, <2>2, OnwardMoves
  <2> QED BY <1>1, <1>2, <1>4, <2>3, QuietOrderly
<1>7. ASSUME ReadStreak(w) PROVE TypeInv'
  <2>1. streak[Agent(w)] \in Nat BY <1>3 DEF TypeInv, TypeOK
  <2>2. job' = [job EXCEPT ![w] = [job[w] EXCEPT !.pc = "streak", !.i = job[w].i, !.seen = streak[Agent(w)]]]
    BY <1>7, JobFields DEF ReadStreak, Jobs
  <2>3. job[w].i \in Nat \ {0} BY JobFields
  <2>4. Moves(w, "streak", job[w].i, "queue", job[w].has)
    BY <1>2, <2>1, <2>2, <2>3, OnwardMoves
  <2> QED BY <1>1, <1>2, <1>4, <2>4, QuietOrderly
<1> QED
  BY <1>5, <1>6, <1>7
  DEF JudgingStep, ReturnEarly, Succeed, Rejected, RateLimited, WriteStreak, BackOff

(* Seeking, holding and releasing a lock.                                  *)

LEMMA InsideOrderly ==
  ASSUME TypeInv, NEW w \in Worker, NEW pc \in InsidePcs, job[w].pc \in InsidePcs,
         Moves(w, pc, job[w].i, job[w].stage, job[w].has), dir' = dir, UNCHANGED <<late, Store>>,
         pc \in AcquirePcs => job[w].pc \in AcquirePcs,
         pc = "rm" => LockOf(w) \in job[w].has
  PROVE  TypeInv'
<1>1. StoreTyped' BY DEF StoreTyped, Store, TypeInv, TypeOK
<1>2. pc \in Pcs /\ Alive(w) /\ job[w].pc \in AgentPcs
  BY DEF AgentPcs, InsidePcs, AcquirePcs, Pcs, Alive
<1>3. /\ job[w].i <= Len(Chain[w])
      /\ job[w].stage = "queue" \/ (job[w].stage = "provider" /\ Chain[w][job[w].i] \in OpenAgents)
  BY <1>2, JobFields DEF TypeInv, Orderly, Placed, Agent
<1> QED BY <1>1, <1>2, <1>3, QuietOrderly

InsideStep(w) == \/ Exists(w) \/ Inspect(w) \/ Retry(w) \/ GiveUp(w) \/ SignLost(w)
                 \/ Call(w) \/ Answer(w) \/ ReadMine(w)

LEMMA InsideStepOrderly ==
  ASSUME TypeInv, NEW w \in Worker, InsideStep(w)
  PROVE  TypeInv'
<1> USE DEF At, InsidePcs, AcquirePcs
<1>1. job[w].pc \in InsidePcs /\ dir' = dir /\ UNCHANGED <<late, Store>>
  BY DEF InsideStep, Exists, Inspect, Retry, GiveUp, SignLost, Call, Answer, ReadMine
<1>2. ASSUME NEW pc \in {"inspect", "reap", "wait", "try"}, job[w].pc \in AcquirePcs, Goto(w, pc)
      PROVE  TypeInv'
  <2>1. Moves(w, pc, job[w].i, job[w].stage, job[w].has) BY <1>2, GotoMoves DEF Pcs
  <2> QED BY <1>1, <1>2, <2>1, InsideOrderly
<1>3. ASSUME NEW res \in Results, job' = [job EXCEPT ![w].pc = "read", ![w].res = res]
      PROVE  TypeInv'
  <2>1. Moves(w, "read", job[w].i, job[w].stage, job[w].has) BY <1>3, ResultMoves DEF Pcs
  <2> QED BY <1>1, <2>1, InsideOrderly
<1>4. CASE Exists(w) \/ Inspect(w) \/ Retry(w)
  <2>1. PICK pc \in {"inspect", "reap", "wait", "try"} : Goto(w, pc)
    BY <1>4 DEF Exists, Inspect, Retry
  <2>2. job[w].pc \in AcquirePcs BY <1>4 DEF Exists, Inspect, Retry
  <2> QED BY <1>2, <2>1, <2>2
<1>5. CASE GiveUp(w)
  <2>1. PICK res \in Results : job' = [job EXCEPT ![w].pc = "read", ![w].res = res]
    BY <1>5 DEF GiveUp, Results
  <2> QED BY <1>3, <2>1
<1>6. CASE SignLost(w)
  BY <1>3, <1>6 DEF SignLost, Results
<1>7. CASE Call(w) /\ w \in late
  BY <1>3, <1>7 DEF Call, Results
<1>8. CASE Call(w) /\ w \notin late
  <2>1. Goto(w, "calling") BY <1>8 DEF Call, Goto
  <2>2. Moves(w, "calling", job[w].i, job[w].stage, job[w].has) BY <2>1, GotoMoves DEF Pcs
  <2> QED BY <1>1, <2>2, InsideOrderly
<1>9. CASE Answer(w)
  <2>1. PICK res \in Results : job' = [job EXCEPT ![w].pc = "read", ![w].res = res]
    BY <1>9 DEF Answer, Results
  <2> QED BY <1>3, <2>1
<1>10. CASE ReadMine(w)
  <2>1. Moves(w, "rm", job[w].i, job[w].stage, job[w].has) BY <1>10, GotoMoves DEF ReadMine, Pcs
  <2>2. LockOf(w) \in Locks BY <1>1, AgentTyped DEF AgentPcs
  <2>3. LockOf(w) \in job[w].has
    BY <1>10, <2>2 DEF ReadMine, TypeInv, Orderly, Answers, Alive
  <2> QED BY <1>1, <2>1, <2>3, InsideOrderly
<1> QED BY <1>4, <1>5, <1>6, <1>7, <1>8, <1>9, <1>10 DEF InsideStep

LEMMA DirPasses ==
  ASSUME TypeInv, NEW w \in Worker, NEW l \in Locks,
         NEW r \in [there : BOOLEAN, owner : {w, NoOne}, old : BOOLEAN],
         dir' = [dir EXCEPT ![l] = r]
  PROVE  /\ Passes(w)
         /\ dir'[l] = r
         /\ \A k \in Locks \ {l} : dir'[k] = dir[k]
<1>1. dir \in DirType BY DEF TypeInv, TypeOK, DirType
<1>2. dir'[l] = r /\ \A k \in Locks \ {l} : dir'[k] = dir[k] BY <1>1 DEF DirType
<1>3. dir' \in DirType BY <1>1 DEF DirType
<1> QED BY <1>2, <1>3 DEF Passes

LEMMA FreeRecords ==
  ASSUME NEW w
  PROVE  /\ Free \in [there : BOOLEAN, owner : {w, NoOne}, old : BOOLEAN]
         /\ [Free EXCEPT !.there = TRUE] \in [there : BOOLEAN, owner : {w, NoOne}, old : BOOLEAN]
         /\ [there |-> TRUE, owner |-> w, old |-> FALSE]
              \in [there : BOOLEAN, owner : {w, NoOne}, old : BOOLEAN]
         /\ Free.owner = NoOne /\ [Free EXCEPT !.there = TRUE].owner = NoOne
         /\ ~Free.there /\ [Free EXCEPT !.there = TRUE].there
         /\ ~Free.old /\ ~[Free EXCEPT !.there = TRUE].old
BY DEF Free

(* mkdir, and the removal of a lock that was found stale: nobody's lock.   *)
LEMMA SeekingOrderly ==
  ASSUME TypeInv, NEW w \in Worker, Mkdir(w) \/ Reap(w)
  PROVE  TypeInv'
<1> USE DEF At, AgentPcs, InsidePcs, AcquirePcs, Alive
<1>1. job[w].pc \in AcquirePcs /\ UNCHANGED <<late, Store>> BY DEF Mkdir, Reap
<1>2. LockOf(w) \in Locks BY <1>1, AgentTyped
<1>3. PICK pc \in {"sign", "wait"} : Goto(w, pc) BY DEF Mkdir, Reap
<1>4. Moves(w, pc, job[w].i, job[w].stage, job[w].has) BY <1>3, GotoMoves DEF Pcs
<1>5. PICK r \in [there : BOOLEAN, owner : {w, NoOne}, old : BOOLEAN] :
        r.owner = NoOne /\ dir' = [dir EXCEPT ![LockOf(w)] = r]
  BY FreeRecords DEF Mkdir, Reap
<1>6. /\ Passes(w) /\ dir'[LockOf(w)] = r
      /\ \A k \in Locks \ {LockOf(w)} : dir'[k] = dir[k]
  BY <1>2, <1>5, DirPasses
<1>7. StoreTyped' BY <1>1 DEF StoreTyped, Store, TypeInv, TypeOK
<1>8. Orderly(w)
  BY DEF TypeInv
<1>9. /\ job'[w].pc = pc /\ job'[w].i = job[w].i
      /\ job'[w].stage = job[w].stage /\ job'[w].has = job[w].has
  BY <1>4 DEF Moves
<1>10. Placed(w)' BY <1>1, <1>3, <1>8, <1>9 DEF Orderly, Placed, Agent
<1>11. Carries(w)' BY <1>1, <1>3, <1>8, <1>9 DEF Orderly, Carries, BehindLocks, LockOf, Agent
<1>12. ASSUME NEW l \in Locks, dir'[l].owner = w PROVE l \in job'[w].has
  <2>1. l # LockOf(w) BY <1>5, <1>6, <1>12, DispatchAssumption
  <2>2. dir[l].owner = w BY <1>6, <1>12, <2>1
  <2> QED BY <1>1, <1>8, <1>9, <2>2 DEF Orderly, Answers
<1>13. Orderly(w)' BY <1>10, <1>11, <1>12 DEF Orderly, Answers
<1> QED BY <1>4, <1>6, <1>7, <1>13, OthersOrderly

LEMMA SignOrderly ==
  ASSUME TypeInv, NEW w \in Worker, Sign(w)
  PROVE  TypeInv'
<1> DEFINE onward == job[w].stage = "queue" /\ Agent(w) \in OpenAgents
           pc == IF onward THEN "try" ELSE "call"
           stage == IF onward THEN "provider" ELSE job[w].stage
           has == job[w].has \cup {LockOf(w)}
           r == [there |-> TRUE, owner |-> w, old |-> FALSE]
<1> USE DEF At, AgentPcs, InsidePcs, AcquirePcs, Alive
<1>1. job[w].pc = "sign" /\ UNCHANGED <<late, Store>> BY DEF Sign
<1>2. LockOf(w) \in Locks BY <1>1, AgentTyped
<1>3. /\ job[w].i <= Len(Chain[w]) /\ job[w].has \subseteq BehindLocks(w)
      /\ job[w].stage = "provider" => Agent(w) \in OpenAgents
      /\ Answers(w)
  BY <1>1 DEF TypeInv, Orderly, Placed, Carries
<1>4. pc \in Pcs /\ stage \in {"queue", "provider"} /\ has \in SUBSET Locks
  BY <1>2, JobFields DEF Pcs
<1>5. job' = [job EXCEPT ![w] = [job[w] EXCEPT !.has = has, !.pc = pc, !.stage = stage]]
  <2>1. job \in [Worker -> Jobs] BY JobFields
  <2> QED BY <2>1 DEF Sign, Jobs
<1>6. Moves(w, pc, job[w].i, stage, has)
  <2> HIDE DEF pc, stage, has
  <2> QED BY <1>4, <1>5, HandMoves
<1>7. /\ Passes(w) /\ dir'[LockOf(w)] = r
      /\ \A k \in Locks \ {LockOf(w)} : dir'[k] = dir[k]
  <2>1. r \in [there : BOOLEAN, owner : {w, NoOne}, old : BOOLEAN] BY FreeRecords
  <2>2. dir' = [dir EXCEPT ![LockOf(w)] = r] BY DEF Sign
  <2> HIDE DEF r
  <2> QED BY <1>2, <2>1, <2>2, DirPasses
<1>8. StoreTyped' BY <1>1 DEF StoreTyped, Store, TypeInv, TypeOK
<1>9. /\ job'[w].pc = pc /\ job'[w].i = job[w].i
      /\ job'[w].stage = stage /\ job'[w].has = has
  BY <1>6 DEF Moves
<1>10. Placed(w)' BY <1>3, <1>9 DEF Placed, Agent
<1>11. Carries(w)'
  <2>1. CASE onward
    <3>1. has = {Lane[w]} BY <1>3, <2>1 DEF BehindLocks, LockOf
    <3> QED BY <1>9, <2>1, <3>1 DEF Carries, BehindLocks
  <2>2. CASE ~onward
    <3>1. LockOf(w)' = LockOf(w) /\ BehindLocks(w)' = BehindLocks(w)
      BY <1>9, <2>2 DEF BehindLocks, LockOf, Agent
    <3> QED BY <1>3, <1>9, <2>2, <3>1 DEF Carries
  <2> QED BY <2>1, <2>2
<1>12. Answers(w)' BY <1>3, <1>7, <1>9 DEF Answers
<1>13. Orderly(w)' BY <1>10, <1>11, <1>12 DEF Orderly
<1> HIDE DEF pc, stage, has
<1> QED BY <1>6, <1>7, <1>8, <1>13, OthersOrderly

LEMMA ReleaseOrderly ==
  ASSUME TypeInv, NEW w \in Worker, ReadOther(w) \/ Remove(w)
  PROVE  TypeInv'
<1> DEFINE pc == IF job[w].stage = "provider" THEN "read" ELSE "verdict"
           has == job[w].has \ {LockOf(w)}
<1> USE DEF At, AgentPcs, InsidePcs, AcquirePcs, JudgePcs, Alive
<1>1. job[w].pc \in {"read", "rm"} /\ Released(w) /\ UNCHANGED <<late, Store>>
  BY DEF ReadOther, Remove
<1>2. LockOf(w) \in Locks BY <1>1, AgentTyped
<1>3. /\ job[w].i <= Len(Chain[w]) /\ job[w].has \subseteq BehindLocks(w) \cup {LockOf(w)}
      /\ Answers(w)
  BY <1>1 DEF TypeInv, Orderly, Placed, Carries
<1>4. pc \in Pcs /\ has \in SUBSET Locks BY JobFields DEF Pcs
<1>5. job' = [job EXCEPT ![w] = [job[w] EXCEPT !.has = has, !.pc = pc, !.stage = "queue"]]
  <2>1. job \in [Worker -> Jobs] BY JobFields
  <2> QED BY <1>1, <2>1 DEF Released, Jobs
<1>6. Moves(w, pc, job[w].i, "queue", has)
  <2> HIDE DEF pc, has
  <2> QED BY <1>4, <1>5, HandMoves
<1>7. /\ Passes(w) /\ dir'[LockOf(w)].owner # w
      /\ \A k \in Locks \ {LockOf(w)} : dir'[k] = dir[k]
  <2>1. CASE ReadOther(w)
    BY <2>1 DEF ReadOther, Passes, TypeInv, TypeOK, DirType
  <2>2. CASE Remove(w)
    <3>1. dir' = [dir EXCEPT ![LockOf(w)] = Free] BY <2>2 DEF Remove
    <3>2. Free \in [there : BOOLEAN, owner : {w, NoOne}, old : BOOLEAN] /\ Free.owner # w
      BY FreeRecords, DispatchAssumption
    <3> QED BY <1>2, <3>1, <3>2, DirPasses
  <2> QED BY <2>1, <2>2
<1>8. StoreTyped' BY <1>1 DEF StoreTyped, Store, TypeInv, TypeOK
<1>9. /\ job'[w].pc = pc /\ job'[w].i = job[w].i
      /\ job'[w].stage = "queue" /\ job'[w].has = has
  BY <1>6 DEF Moves
<1>10. Placed(w)' BY <1>3, <1>9 DEF Placed
<1>11. Carries(w)'
  <2>1. LockOf(w)' = Lane[w] /\ BehindLocks(w)' = {} BY <1>9 DEF LockOf, BehindLocks
  <2>2. CASE job[w].stage = "provider"
    BY <1>3, <1>9, <2>1, <2>2 DEF Carries, BehindLocks
  <2>3. CASE job[w].stage # "provider"
    BY <1>3, <1>9, <2>1, <2>3 DEF Carries, BehindLocks
  <2> QED BY <2>2, <2>3
<1>12. Answers(w)' BY <1>3, <1>7, <1>9 DEF Answers
<1>13. Orderly(w)' BY <1>10, <1>11, <1>12 DEF Orderly
<1> HIDE DEF pc, has
<1> QED BY <1>6, <1>7, <1>8, <1>13, OthersOrderly

LEMMA KillOrderly ==
  ASSUME TypeInv, NEW w \in Worker, Kill(w)
  PROVE  TypeInv'
<1>1. Moves(w, "dead", job[w].i, job[w].stage, job[w].has) BY GotoMoves DEF Kill, Pcs
<1>2. StoreTyped' BY DEF Kill, StoreTyped, Store, TypeInv, TypeOK
<1>3. Alive(w) /\ dir' = dir BY DEF Kill, Alive
<1>4. "dead" \in Pcs /\ "dead" \notin AgentPcs
  BY DEF Pcs, AgentPcs, InsidePcs, AcquirePcs, JudgePcs
<1> QED BY <1>1, <1>2, <1>3, <1>4, QuietOrderly

(* Time passes: no worker moves, and no owner file is written.             *)
TimeStep == \/ \E w \in Worker : DeadlinePasses(w)
            \/ \E l \in Locks : Age(l)
            \/ \E a \in Agents : BackoffPasses(a)

LEMMA TimeOrderly ==
  ASSUME TypeInv, TimeStep
  PROVE  TypeInv'
<1>1. /\ job' = job /\ dir' \in DirType
      /\ \A l \in Locks : dir'[l].owner = dir[l].owner
  <2>1. dir \in DirType BY DEF TypeInv, TypeOK, DirType
  <2>2. ASSUME NEW l \in Locks, dir' = [dir EXCEPT ![l].old = TRUE]
        PROVE  dir' \in DirType /\ \A k \in Locks : dir'[k].owner = dir[k].owner
    <3>1. dir' \in DirType BY <2>1, <2>2 DEF DirType
    <3> QED BY <2>1, <2>2, <3>1 DEF DirType
  <2>3. CASE \E l \in Locks : Age(l) BY <2>2, <2>3 DEF Age
  <2>4. CASE ~\E l \in Locks : Age(l)
    BY <2>1, <2>4 DEF TimeStep, DeadlinePasses, BackoffPasses
  <2> QED BY <2>3, <2>4 DEF TimeStep, Age, DeadlinePasses, BackoffPasses
<1>2. StoreTyped'
  BY DEF TimeStep, DeadlinePasses, Age, BackoffPasses, Store, TypeInv, TypeOK, StoreTyped
<1>3. TypeOK' BY <1>1, <1>2 DEF TypeInv, TypeOK, StoreTyped, DirType
<1>4. ASSUME NEW w \in Worker PROVE Orderly(w)'
  BY <1>1
  DEF TypeInv, Orderly, Placed, Carries, Answers, BehindLocks, LockOf, Agent, Alive
<1> QED BY <1>3, <1>4 DEF TypeInv

LEMMA StepKinds ==
  ASSUME Next
  PROVE  \/ TimeStep
         \/ \E w \in Worker : \/ ChoosingStep(w) \/ JudgingStep(w) \/ InsideStep(w)
                              \/ Mkdir(w) \/ Reap(w) \/ Sign(w)
                              \/ ReadOther(w) \/ Remove(w) \/ Kill(w)
BY DEF Next, TimeStep, WorkerStep, AcquireStep, ChoosingStep, JudgingStep, InsideStep

LEMMA NextOrderly ==
  ASSUME TypeInv, [Next]_vars
  PROVE  TypeInv'
<1>1. CASE Next
  BY <1>1, StepKinds, TimeOrderly, ChoosingOrderly, JudgingOrderly, InsideStepOrderly,
     SeekingOrderly, SignOrderly, ReleaseOrderly, KillOrderly
<1>2. CASE UNCHANGED vars
  <2>1. TypeOK' BY <1>2 DEF vars, Store, TypeInv, TypeOK
  <2>2. ASSUME NEW w \in Worker PROVE Orderly(w)'
    BY <1>2 DEF vars, TypeInv, Orderly, Placed, Carries, Answers, BehindLocks, LockOf, Agent, Alive
  <2> QED BY <2>1, <2>2 DEF TypeInv
<1> QED BY <1>1, <1>2

LEMMA InitOrderly == Init => TypeInv
<1> SUFFICES ASSUME Init PROVE TypeInv OBVIOUS
<1>1. TypeOK BY DEF Init, TypeOK, Free, Locks, Pcs, Results
<1>2. ASSUME NEW w \in Worker PROVE Orderly(w)
  <2>1. job[w].pc = "idle" /\ job[w].stage = "queue" /\ job[w].has = {} BY DEF Init
  <2>2. \A l \in Locks : dir[l].owner = NoOne BY DEF Init, Free
  <2> QED
    BY <2>1, <2>2, DispatchAssumption
    DEF Orderly, Placed, Carries, Answers, AgentPcs, InsidePcs, AcquirePcs, JudgePcs
<1> QED BY <1>1, <1>2 DEF TypeInv

LEMMA AlwaysOrderly == Spec => []TypeInv
<1>1. Init => TypeInv BY InitOrderly
<1>2. TypeInv /\ [Next]_vars => TypeInv' BY NextOrderly
<1> QED BY <1>1, <1>2, PTL DEF Spec

(* The dispatcher's files and records stay what the code reads them as: a  *)
(* lock directory names a worker or nobody, and a dispatch is at one step  *)
(* of dispatch_agents, whatever is reaped, killed or late around it.       *)
THEOREM DispatchTyped == Spec => []TypeOK
<1>1. TypeInv => TypeOK BY DEF TypeInv
<1> QED BY <1>1, AlwaysOrderly, PTL

(* No dispatch that is over has a lock directory in its name: release reads*)
(* the owner file before it removes, a lock reaped under a live worker is  *)
(* no longer in its name, and every way out of an attempt goes through     *)
(* release.                                                                *)
THEOREM LeavesNothing == Spec => []NothingLeft
<1>1. TypeInv => NothingLeft
  BY DEF TypeInv, Orderly, Carries, Answers, NothingLeft, At, Alive, InsidePcs, AcquirePcs
<1> QED BY <1>1, AlwaysOrderly, PTL

-----------------------------------------------------------------------------
(* One holder at a time                                                    *)

(* The workers that ever take a lock: its lane's, or those whose chain has *)
(* the agent, if its calls take the provider's lock.                       *)
Takers(l) == {w \in Worker : \/ l = Lane[w]
                             \/ l \in OpenAgents /\ \E i \in 1 .. Len(Chain[w]) : Chain[w][i] = l}

(* No worker keeps a lock longer than stale_sec, and where one of a lock's *)
(* takers may be killed it has two of them: with more, a waiter that found *)
(* the dead owner removes the directory that another waiter has made since.*)
Undisturbed == /\ Slow = {}
               /\ \A l \in Locks : \/ Takers(l) \cap Mortal = {}
                                   \/ \E u, v \in Worker : Takers(l) \subseteq {u, v}

(* A lock directory is as young, and as signed, as the one worker that uses*)
(* it says; one that is there with no user has a dead one.                 *)
SharedOf(l) ==
  /\ \A w \in Worker : Uses(w, l) =>
       /\ dir[l].there /\ ~dir[l].old
       /\ dir[l].owner = IF l \in job[w].has THEN w ELSE NoOne
  /\ \A v, w \in Worker : Uses(v, l) /\ Uses(w, l) => v = w
  /\ dir[l].there => \E w \in Takers(l) : Uses(w, l) \/ ~Alive(w)

(* A worker that is about to remove a lock has a dead taker of it.         *)
ReapOf(w) == At(w, "reap") => \E v \in Takers(LockOf(w)) : ~Alive(v)

ShareInv == /\ \A l \in Locks : SharedOf(l)
            /\ \A w \in Worker : ReapOf(w) /\ (~Alive(w) => w \in Mortal)

LEMMA UsersTake ==
  ASSUME TypeInv, NEW w \in Worker, NEW l \in Locks,
         Uses(w, l) \/ (job[w].pc \in AcquirePcs /\ LockOf(w) = l)
  PROVE  w \in Takers(l)
<1> USE DEF AcquirePcs, InsidePcs, AgentPcs, Alive
<1>1. /\ job[w].pc \in InsidePcs
      /\ l \in BehindLocks(w) \cup {LockOf(w)}
  BY DEF Uses, At, TypeInv, Orderly, Carries
<1>2. CASE l = Lane[w] BY <1>2 DEF Takers
<1>3. CASE l # Lane[w]
  <2>1. job[w].stage = "provider" /\ l = Agent(w)
    BY <1>1, <1>3, JobFields DEF BehindLocks, LockOf
  <2>2. Agent(w) \in OpenAgents /\ job[w].i \in 1 .. Len(Chain[w])
    <3>1. Agent(w) \in OpenAgents /\ job[w].i <= Len(Chain[w])
      BY <1>1, <2>1 DEF TypeInv, Orderly, Placed
    <3>2. Chain[w] \in Seq(Agents) BY DispatchAssumption
    <3> QED BY <3>1, <3>2, JobFields
  <2> QED BY <2>1, <2>2 DEF Takers, Agent
<1> QED BY <1>2, <1>3

(* Before a worker has signed, the lock it seeks is not one it has.        *)
LEMMA SoughtNotHad ==
  ASSUME TypeInv, NEW w \in Worker, job[w].pc \in AcquirePcs
  PROVE  LockOf(w) \notin job[w].has
<1> USE DEF AcquirePcs, InsidePcs, AgentPcs, Alive
<1>1. job[w].has \subseteq BehindLocks(w) BY DEF TypeInv, Orderly, Carries
<1>2. CASE job[w].stage = "provider"
  <2>1. LockOf(w) \in Agents /\ Lane[w] \in Lanes BY <1>2, AgentTyped DEF LockOf
  <2> QED BY <1>1, <1>2, <2>1, DispatchAssumption DEF BehindLocks
<1>3. CASE job[w].stage # "provider" BY <1>1, <1>3 DEF BehindLocks
<1> QED BY <1>2, <1>3

(* Where a taker is dead, a live taker is the only one.                    *)
LEMMA SoleTaker ==
  ASSUME Undisturbed, ShareInv, NEW l \in Locks,
         NEW v \in Takers(l), ~Alive(v), NEW w \in Takers(l), Alive(w)
  PROVE  \A u \in Takers(l) : Alive(u) => u = w
<1>1. v \in Mortal BY DEF ShareInv, Takers
<1>2. PICK x, y \in Worker : Takers(l) \subseteq {x, y} BY <1>1 DEF Undisturbed
<1>3. v # w OBVIOUS
<1> QED BY <1>2, <1>3

-----------------------------------------------------------------------------
(* How a step preserves it                                                 *)

OnlyMoves(w) == \A v \in Worker \ {w} : job'[v] = job[v]

LEMMA OthersUse ==
  ASSUME NEW w \in Worker, OnlyMoves(w), NEW v \in Worker, v # w
  PROVE  /\ \A l : (Uses(v, l)' <=> Uses(v, l)) /\ (l \in job'[v].has <=> l \in job[v].has)
         /\ Alive(v)' <=> Alive(v)
BY DEF OnlyMoves, Uses, Alive, At, LockOf, Agent

(* A lock that w neither takes nor gives up.                               *)
LEMMA OthersShared ==
  ASSUME ShareInv, NEW w \in Worker, OnlyMoves(w), Alive(w),
         NEW l \in Locks, dir'[l] = dir[l],
         Alive(w)' => ((Uses(w, l)' <=> Uses(w, l)) /\ (l \in job'[w].has <=> l \in job[w].has)),
         Uses(w, l) => w \in Takers(l)
  PROVE  SharedOf(l)'
<1>1. SharedOf(l) BY DEF ShareInv
<1>2. \A v \in Worker : Uses(v, l)' => Uses(v, l) /\ (l \in job'[v].has <=> l \in job[v].has)
  BY OthersUse DEF Uses
<1>3. dir[l].there => \E v \in Takers(l) : Uses(v, l)' \/ ~Alive(v)'
  <2> SUFFICES ASSUME dir[l].there PROVE \E v \in Takers(l) : Uses(v, l)' \/ ~Alive(v)'
    OBVIOUS
  <2>1. PICK v \in Takers(l) : Uses(v, l) \/ ~Alive(v) BY <1>1 DEF SharedOf
  <2>2. v \in Worker BY DEF Takers
  <2>3. CASE v = w BY <2>1, <2>3 DEF Uses
  <2>4. CASE v # w BY <2>1, <2>2, <2>4, OthersUse
  <2> QED BY <2>3, <2>4
<1> QED BY <1>1, <1>2, <1>3 DEF SharedOf, Takers

LEMMA OthersReap ==
  ASSUME ShareInv, NEW w \in Worker, OnlyMoves(w), Alive(w),
         At(w, "reap")' => \E v \in Takers(LockOf(w)') : ~Alive(v),
         Alive(w)' \/ w \in Mortal
  PROVE  \A v \in Worker : ReapOf(v)' /\ (~Alive(v)' => v \in Mortal)
<1>1. \A v \in Worker : ~Alive(v) => ~Alive(v)' BY OthersUse
<1>2. ASSUME NEW v \in Worker PROVE ReapOf(v)'
  <2>1. CASE v = w BY <1>1, <2>1 DEF ReapOf, Takers
  <2>2. CASE v # w
    <3>1. job'[v] = job[v] BY <2>2 DEF OnlyMoves
    <3>2. LockOf(v)' = LockOf(v) /\ (At(v, "reap")' <=> At(v, "reap")) BY <3>1 DEF LockOf, Agent, At
    <3>3. ReapOf(v) BY DEF ShareInv
    <3> QED BY <1>1, <3>2, <3>3 DEF ReapOf, Takers
  <2> QED BY <2>1, <2>2
<1>3. ASSUME NEW v \in Worker, ~Alive(v)' PROVE v \in Mortal
  BY <1>3, OthersUse DEF ShareInv
<1> QED BY <1>2, <1>3

LEMMA QuietShared ==
  ASSUME TypeInv, ShareInv, NEW w \in Worker, OnlyMoves(w), Alive(w), Alive(w)',
         dir' = dir, job'[w].has = job[w].has, ~At(w, "sign"), ~At(w, "sign")',
         At(w, "reap")' => \E v \in Takers(LockOf(w)') : ~Alive(v)
  PROVE  ShareInv'
<1>1. \A l : (Uses(w, l)' <=> Uses(w, l)) /\ (l \in job'[w].has <=> l \in job[w].has)
  BY DEF Uses
<1>2. \A l \in Locks : SharedOf(l)' BY <1>1, UsersTake, OthersShared
<1>3. \A v \in Worker : ReapOf(v)' /\ (~Alive(v)' => v \in Mortal) BY OthersReap
<1> QED BY <1>2, <1>3 DEF ShareInv

(* A directory that is there and stale has lost its taker.                 *)
LEMMA StaleMeansDead ==
  ASSUME TypeInv, ShareInv, NEW l \in Locks, Stale(l)
  PROVE  \E v \in Takers(l) : ~Alive(v)
<1>1. SharedOf(l) BY DEF ShareInv
<1>2. PICK u \in Takers(l) : Uses(u, l) \/ ~Alive(u) BY <1>1 DEF SharedOf, Stale
<1>3. CASE ~Alive(u) BY <1>3
<1>4. CASE Uses(u, l)
  <2>1. Alive(u) /\ ~dir[l].old /\ dir[l].owner \in {u, NoOne}
    BY <1>1, <1>4 DEF SharedOf, Uses, Takers
  <2> QED BY <2>1 DEF Stale, OwnerDead
<1> QED BY <1>2, <1>3, <1>4

(* Nobody has lost a directory before signing it.                          *)
LEMMA SignersKeep ==
  ASSUME TypeInv, ShareInv, NEW w \in Worker, At(w, "sign")
  PROVE  dir[LockOf(w)].there
<1>1. LockOf(w) \in Locks
  BY AgentTyped DEF At, AgentPcs, InsidePcs, AcquirePcs
<1>2. Uses(w, LockOf(w)) BY DEF Uses, Alive, At
<1> QED BY <1>1, <1>2 DEF ShareInv, SharedOf

QuietStep(w) == \/ ChoosingStep(w) \/ JudgingStep(w)
                \/ Exists(w) \/ Inspect(w) \/ Retry(w) \/ GiveUp(w)
                \/ Call(w) \/ Answer(w) \/ ReadMine(w)

LEMMA QuietSteps ==
  ASSUME TypeInv, ShareInv, NEW w \in Worker, QuietStep(w)
  PROVE  ShareInv'
<1>1. job \in [Worker -> Jobs] BY JobFields
<1>2. OnlyMoves(w) /\ Alive(w) /\ ~At(w, "sign")
  <2>1. CASE ChoosingStep(w)
    BY <1>1, <2>1
    DEF ChoosingStep, Begin, Exhausted, Skip, NotBackedOff, SeesExpired, Unlink, Reads, Enter,
        Goto, OnlyMoves, Alive, At
  <2>2. CASE JudgingStep(w)
    BY <1>1, <2>2
    DEF JudgingStep, ReturnEarly, Succeed, Rejected, RateLimited, ReadStreak, WriteStreak,
        BackOff, Judges, NextAgent, Goto, OnlyMoves, Alive, At
  <2>3. CASE Exists(w) \/ Inspect(w) \/ Retry(w) \/ GiveUp(w) \/ Call(w) \/ Answer(w) \/ ReadMine(w)
    BY <1>1, <2>3
    DEF Exists, Inspect, Retry, GiveUp, Call, Answer, ReadMine, Goto, OnlyMoves, Alive, At
  <2> QED BY <2>1, <2>2, <2>3 DEF QuietStep
<1>3. dir' = dir
  BY DEF QuietStep, ChoosingStep, JudgingStep, Begin, Exhausted, Skip, NotBackedOff,
         SeesExpired, Unlink, ReturnEarly, Succeed, Rejected, RateLimited, ReadStreak,
         WriteStreak, BackOff, Exists, Inspect, Retry, GiveUp, Call, Answer, ReadMine
<1>4. job'[w].has = job[w].has /\ job'[w].pc \notin {"sign", "dead"}
      /\ (job'[w].pc = "reap" => Inspect(w))
  <2>1. CASE ChoosingStep(w)
    BY <1>1, <2>1
    DEF ChoosingStep, Begin, Exhausted, Skip, NotBackedOff, SeesExpired, Unlink, Reads, Enter,
        Goto, At, Jobs
  <2>2. CASE JudgingStep(w)
    BY <1>1, <2>2
    DEF JudgingStep, ReturnEarly, Succeed, Rejected, RateLimited, ReadStreak, WriteStreak,
        BackOff, Judges, NextAgent, Goto, At, Jobs
  <2>3. CASE Exists(w) \/ Inspect(w) \/ Retry(w) \/ GiveUp(w) \/ Call(w) \/ Answer(w) \/ ReadMine(w)
    BY <1>1, <2>3
    DEF Exists, Inspect, Retry, GiveUp, Call, Answer, ReadMine, Goto, At, Jobs
  <2> QED BY <2>1, <2>2, <2>3 DEF QuietStep
<1>5. Inspect(w) /\ job'[w].pc = "reap" => \E v \in Takers(LockOf(w)') : ~Alive(v)
  <2> SUFFICES ASSUME Inspect(w), job'[w].pc = "reap"
               PROVE  \E v \in Takers(LockOf(w)') : ~Alive(v)
    OBVIOUS
  <2>1. job[w].pc = "inspect" /\ Stale(LockOf(w)) BY <1>1 DEF Inspect, Goto, At, Jobs
  <2>2. LockOf(w) \in Locks BY <2>1, AgentTyped DEF AgentPcs, InsidePcs, AcquirePcs
  <2>3. LockOf(w)' = LockOf(w) BY <1>1 DEF Inspect, Goto, LockOf, Agent, Jobs
  <2> QED BY <2>1, <2>2, <2>3, StaleMeansDead
<1> QED BY <1>2, <1>3, <1>4, <1>5, QuietShared DEF At, Alive

LEMMA ReadOtherShared ==
  ASSUME TypeInv, ShareInv, NEW w \in Worker, ReadOther(w)
  PROVE  ShareInv'
<1>1. job \in [Worker -> Jobs] BY JobFields
<1>2. job[w].pc = "read" /\ dir[LockOf(w)].owner # w /\ dir' = dir BY DEF ReadOther, At
<1>3. LockOf(w) \in Locks BY <1>2, AgentTyped DEF AgentPcs, InsidePcs
<1>4. LockOf(w) \notin job[w].has
  BY <1>2, <1>3 DEF ShareInv, SharedOf, Uses, Alive
<1>5. /\ OnlyMoves(w) /\ job'[w].has = job[w].has
      /\ job'[w].pc \notin {"sign", "dead", "reap"}
  BY <1>1, <1>4 DEF ReadOther, Released, OnlyMoves, Jobs
<1> QED BY <1>2, <1>5, QuietShared DEF At, Alive

LEMMA MkdirShared ==
  ASSUME TypeInv, ShareInv, NEW w \in Worker, Mkdir(w)
  PROVE  ShareInv'
<1>1. job \in [Worker -> Jobs] BY JobFields
<1>2. job[w].pc = "try" /\ ~dir[LockOf(w)].there BY DEF Mkdir, At
<1>3. PICK l \in Locks : l = LockOf(w)
  BY <1>2, AgentTyped DEF AgentPcs, InsidePcs, AcquirePcs
<1>4. /\ OnlyMoves(w) /\ job'[w].has = job[w].has /\ job'[w].pc = "sign"
      /\ LockOf(w)' = l
  BY <1>1, <1>3 DEF Mkdir, Goto, OnlyMoves, LockOf, Agent, Jobs
<1>5. /\ dir'[l].there /\ ~dir'[l].old /\ dir'[l].owner = NoOne
      /\ \A k \in Locks \ {l} : dir'[k] = dir[k]
  <2>1. dir' = [dir EXCEPT ![l] = [Free EXCEPT !.there = TRUE]] BY <1>3 DEF Mkdir
  <2>2. [Free EXCEPT !.there = TRUE] \in [there : BOOLEAN, owner : {w, NoOne}, old : BOOLEAN]
    BY FreeRecords
  <2>3. dir'[l] = [Free EXCEPT !.there = TRUE] /\ \A k \in Locks \ {l} : dir'[k] = dir[k]
    BY <2>1, <2>2, DirPasses
  <2> QED BY <2>3, FreeRecords
<1>6. l \notin job[w].has BY <1>2, <1>3, SoughtNotHad DEF AcquirePcs
<1>7. \A v \in Worker : ~Uses(v, l) BY <1>2, <1>3 DEF ShareInv, SharedOf
<1>8. ASSUME NEW k \in Locks, k # l PROVE SharedOf(k)'
  <2>1. Uses(w, k)' <=> Uses(w, k) BY <1>2, <1>3, <1>4, <1>8 DEF Uses, Alive, At
  <2> QED BY <1>2, <1>4, <1>5, <1>8, <2>1, UsersTake, OthersShared DEF Alive
<1>9. SharedOf(l)'
  <2>1. Uses(w, l)' BY <1>4 DEF Uses, Alive, At
  <2>2. \A v \in Worker : Uses(v, l)' => v = w BY <1>4, <1>7, OthersUse
  <2>3. w \in Takers(l) BY <1>2, <1>3, UsersTake DEF AcquirePcs
  <2> QED BY <1>4, <1>5, <1>6, <2>1, <2>2, <2>3 DEF SharedOf, Takers
<1>10. \A v \in Worker : ReapOf(v)' /\ (~Alive(v)' => v \in Mortal)
  BY <1>2, <1>4, OthersReap DEF At, Alive
<1> QED BY <1>8, <1>9, <1>10 DEF ShareInv

LEMMA ReapShared ==
  ASSUME Undisturbed, TypeInv, ShareInv, NEW w \in Worker, Reap(w)
  PROVE  ShareInv'
<1>1. job \in [Worker -> Jobs] BY JobFields
<1>2. job[w].pc = "reap" BY DEF Reap, At
<1>3. PICK l \in Locks : l = LockOf(w)
  BY <1>2, AgentTyped DEF AgentPcs, InsidePcs, AcquirePcs
<1>4. OnlyMoves(w) /\ job'[w].has = job[w].has /\ job'[w].pc = "wait"
  BY <1>1 DEF Reap, Goto, OnlyMoves, Jobs
<1>5. ~dir'[l].there /\ \A k \in Locks \ {l} : dir'[k] = dir[k]
  <2>1. dir' = [dir EXCEPT ![l] = Free] BY <1>3 DEF Reap
  <2>2. Free \in [there : BOOLEAN, owner : {w, NoOne}, old : BOOLEAN]
    BY FreeRecords
  <2>3. dir'[l] = Free /\ \A k \in Locks \ {l} : dir'[k] = dir[k]
    BY <2>1, <2>2, DirPasses
  <2> QED BY <2>3, FreeRecords
<1>6. l \notin job[w].has BY <1>2, <1>3, SoughtNotHad DEF AcquirePcs
<1>7. \A v \in Worker : ~Uses(v, l)
  <2>1. PICK u \in Takers(l) : ~Alive(u) BY <1>2, <1>3 DEF ShareInv, ReapOf, At
  <2>2. w \in Takers(l) /\ Alive(w) BY <1>2, <1>3, UsersTake DEF AcquirePcs, Alive
  <2>3. \A v \in Takers(l) : Alive(v) => v = w BY <1>3, <2>1, <2>2, SoleTaker
  <2>4. ~Uses(w, l) BY <1>2, <1>6 DEF Uses, At
  <2> QED BY <1>3, <2>3, <2>4, UsersTake DEF Uses
<1>8. ASSUME NEW k \in Locks, k # l PROVE SharedOf(k)'
  <2>1. Uses(w, k)' <=> Uses(w, k) BY <1>2, <1>3, <1>4, <1>8 DEF Uses, Alive, At
  <2> QED BY <1>2, <1>4, <1>5, <1>8, <2>1, UsersTake, OthersShared DEF Alive
<1>9. SharedOf(l)'
  <2>1. \A v \in Worker : ~Uses(v, l)' BY <1>4, <1>6, <1>7, OthersUse DEF Uses, At
  <2> QED BY <1>5, <2>1 DEF SharedOf
<1>10. \A v \in Worker : ReapOf(v)' /\ (~Alive(v)' => v \in Mortal)
  BY <1>2, <1>4, OthersReap DEF At, Alive
<1> QED BY <1>8, <1>9, <1>10 DEF ShareInv

LEMMA SignShared ==
  ASSUME TypeInv, ShareInv, NEW w \in Worker, Sign(w)
  PROVE  ShareInv'
<1>1. job \in [Worker -> Jobs] BY JobFields
<1>2. job[w].pc = "sign" BY DEF Sign, At
<1>3. PICK l \in Locks : l = LockOf(w)
  BY <1>2, AgentTyped DEF AgentPcs, InsidePcs, AcquirePcs
<1>4. OnlyMoves(w) /\ job'[w].has = job[w].has \cup {l} /\ job'[w].pc \in {"try", "call"}
  BY <1>1, <1>3 DEF Sign, OnlyMoves, Jobs
<1>5. /\ dir'[l].there /\ ~dir'[l].old /\ dir'[l].owner = w
      /\ \A k \in Locks \ {l} : dir'[k] = dir[k]
  <2>1. dir' = [dir EXCEPT ![l] = [there |-> TRUE, owner |-> w, old |-> FALSE]] BY <1>3 DEF Sign
  <2>2. [there |-> TRUE, owner |-> w, old |-> FALSE] \in [there : BOOLEAN, owner : {w, NoOne}, old : BOOLEAN]
    BY FreeRecords
  <2>3. dir'[l] = [there |-> TRUE, owner |-> w, old |-> FALSE] /\ \A k \in Locks \ {l} : dir'[k] = dir[k]
    BY <2>1, <2>2, DirPasses
  <2> QED BY <2>3, FreeRecords
<1>6. Uses(w, l) BY <1>2, <1>3 DEF Uses, Alive, At
<1>7. ASSUME NEW k \in Locks, k # l PROVE SharedOf(k)'
  <2>1. Uses(w, k)' <=> Uses(w, k) BY <1>2, <1>3, <1>4, <1>7 DEF Uses, Alive, At
  <2> QED BY <1>2, <1>4, <1>5, <1>7, <2>1, UsersTake, OthersShared DEF Alive
<1>8. SharedOf(l)'
  <2>1. Uses(w, l)' /\ l \in job'[w].has BY <1>4 DEF Uses, Alive
  <2>2. \A v \in Worker : Uses(v, l)' => v = w
    BY <1>3, <1>4, <1>6, OthersUse DEF ShareInv, SharedOf
  <2>3. w \in Takers(l) BY <1>3, <1>6, UsersTake
  <2> QED BY <1>5, <2>1, <2>2, <2>3 DEF SharedOf, Takers
<1>9. \A v \in Worker : ReapOf(v)' /\ (~Alive(v)' => v \in Mortal)
  BY <1>2, <1>4, OthersReap DEF At, Alive
<1> QED BY <1>7, <1>8, <1>9 DEF ShareInv

LEMMA RemoveShared ==
  ASSUME TypeInv, ShareInv, NEW w \in Worker, Remove(w)
  PROVE  ShareInv'
<1>1. job \in [Worker -> Jobs] BY JobFields
<1>2. job[w].pc = "rm" BY DEF Remove, At
<1>3. PICK l \in Locks : l = LockOf(w)
  BY <1>2, AgentTyped DEF AgentPcs, InsidePcs
<1>4. OnlyMoves(w) /\ job'[w].has = job[w].has \ {l} /\ job'[w].pc \in {"read", "verdict"}
  BY <1>1, <1>3 DEF Remove, Released, OnlyMoves, Jobs
<1>5. ~dir'[l].there /\ \A k \in Locks \ {l} : dir'[k] = dir[k]
  <2>1. dir' = [dir EXCEPT ![l] = Free] BY <1>3 DEF Remove
  <2>2. Free \in [there : BOOLEAN, owner : {w, NoOne}, old : BOOLEAN]
    BY FreeRecords
  <2>3. dir'[l] = Free /\ \A k \in Locks \ {l} : dir'[k] = dir[k]
    BY <2>1, <2>2, DirPasses
  <2> QED BY <2>3, FreeRecords
<1>6. Uses(w, l) BY <1>2, <1>3 DEF Uses, Alive, TypeInv, Orderly, Carries
<1>7. ASSUME NEW k \in Locks, k # l PROVE SharedOf(k)'
  <2>1. Uses(w, k)' <=> Uses(w, k) BY <1>2, <1>3, <1>4, <1>7 DEF Uses, Alive, At
  <2> QED BY <1>2, <1>4, <1>5, <1>7, <2>1, UsersTake, OthersShared DEF Alive
<1>8. SharedOf(l)'
  <2>1. \A v \in Worker : ~Uses(v, l)'
    BY <1>3, <1>4, <1>6, OthersUse DEF ShareInv, SharedOf, Uses, At
  <2> QED BY <1>5, <2>1 DEF SharedOf
<1>9. \A v \in Worker : ReapOf(v)' /\ (~Alive(v)' => v \in Mortal)
  BY <1>2, <1>4, OthersReap DEF At, Alive
<1> QED BY <1>7, <1>8, <1>9 DEF ShareInv

LEMMA KillShared ==
  ASSUME TypeInv, ShareInv, NEW w \in Worker, Kill(w)
  PROVE  ShareInv'
<1>1. job \in [Worker -> Jobs] BY JobFields
<1>2. OnlyMoves(w) /\ Alive(w) /\ ~Alive(w)' /\ dir' = dir
  BY <1>1 DEF Kill, Goto, OnlyMoves, Alive, Jobs
<1>3. \A l \in Locks : SharedOf(l)' BY <1>2, UsersTake, OthersShared
<1>4. \A v \in Worker : ReapOf(v)' /\ (~Alive(v)' => v \in Mortal)
  BY <1>2, OthersReap DEF Kill, At, Alive
<1> QED BY <1>3, <1>4 DEF ShareInv

(* A directory grows old only with no user, where none is slow.            *)
LEMMA TimeShared ==
  ASSUME Undisturbed, TypeInv, ShareInv, TimeStep
  PROVE  ShareInv'
<1>1. job' = job BY DEF TimeStep, DeadlinePasses, Age, BackoffPasses
<1>2. /\ \A w \in Worker, l \in Locks : Uses(w, l)' <=> Uses(w, l)
      /\ \A w \in Worker : (ReapOf(w)' <=> ReapOf(w)) /\ (Alive(w)' <=> Alive(w))
  BY <1>1 DEF Uses, Alive, At, LockOf, Agent, ReapOf, Takers
<1>3. ASSUME NEW l \in Locks
      PROVE  /\ dir'[l].there = dir[l].there /\ dir'[l].owner = dir[l].owner
             /\ dir'[l].old = dir[l].old \/ \A w \in Worker : ~Uses(w, l)
  <2>1. dir \in DirType BY DEF TypeInv, TypeOK, DirType
  <2>2. CASE dir' = dir BY <2>2
  <2>3. ASSUME NEW k \in Locks, Age(k)
        PROVE  /\ dir'[l].there = dir[l].there /\ dir'[l].owner = dir[l].owner
               /\ dir'[l].old = dir[l].old \/ \A w \in Worker : ~Uses(w, l)
    <3>1. dir' = [dir EXCEPT ![k].old = TRUE] BY <2>3 DEF Age
    <3>2. \A w \in Worker : ~Uses(w, k) BY <2>3 DEF Age, Undisturbed
    <3> QED BY <2>1, <3>1, <3>2 DEF DirType
  <2> QED BY <2>2, <2>3 DEF TimeStep, DeadlinePasses, BackoffPasses
<1>4. ASSUME NEW l \in Locks PROVE SharedOf(l)'
  <2>1. SharedOf(l) BY DEF ShareInv
  <2> QED BY <1>1, <1>2, <1>3, <2>1 DEF SharedOf, Takers
<1> QED BY <1>2, <1>4 DEF ShareInv

LEMMA NextShared ==
  ASSUME Undisturbed, TypeInv, ShareInv, [Next]_vars
  PROVE  ShareInv'
<1>1. CASE TimeStep BY <1>1, TimeShared
<1>2. ASSUME NEW w \in Worker, SignLost(w) PROVE FALSE
  BY <1>2, SignersKeep DEF SignLost
<1>3. ASSUME NEW w \in Worker,
             \/ ChoosingStep(w) \/ JudgingStep(w) \/ InsideStep(w)
             \/ Mkdir(w) \/ Reap(w) \/ Sign(w) \/ ReadOther(w) \/ Remove(w) \/ Kill(w)
      PROVE  ShareInv'
  <2>1. QuietStep(w) => ShareInv' BY QuietSteps
  <2> QED
    BY <1>2, <1>3, <2>1, MkdirShared, ReapShared, SignShared, ReadOtherShared, RemoveShared,
       KillShared
    DEF QuietStep, InsideStep
<1>4. CASE UNCHANGED vars
  <2>1. job' = job /\ dir' = dir BY <1>4 DEF vars
  <2>2. ASSUME NEW l \in Locks PROVE SharedOf(l)'
    BY <2>1 DEF ShareInv, SharedOf, Uses, Alive, At, LockOf, Agent, Takers
  <2>3. ASSUME NEW w \in Worker PROVE ReapOf(w)' /\ (~Alive(w)' => w \in Mortal)
    BY <2>1 DEF ShareInv, ReapOf, Alive, At, LockOf, Agent, Takers
  <2> QED BY <2>2, <2>3 DEF ShareInv
<1> QED BY <1>1, <1>3, <1>4, StepKinds

LEMMA InitShared == Init => ShareInv
<1> SUFFICES ASSUME Init PROVE ShareInv OBVIOUS
<1>1. \A w \in Worker : job[w].pc = "idle" /\ job[w].has = {} BY DEF Init
<1>2. \A l \in Locks : ~dir[l].there BY DEF Init, Free
<1> QED BY <1>1, <1>2 DEF ShareInv, SharedOf, ReapOf, Uses, Alive, At

(* One call per agent and one generation per lane at a time, provided that *)
(* no holder outlasts stale_sec and no lock whose taker may be killed has  *)
(* a third one: then an owner file names the one worker that uses the lock,*)
(* and what a waiter removes was left by a dead one.                       *)
THEOREM OneHolderAtATime == Undisturbed => (Spec => []OneHolder)
<1> SUFFICES ASSUME Undisturbed PROVE Spec => []OneHolder OBVIOUS
<1>1. Init => TypeInv /\ ShareInv BY InitOrderly, InitShared
<1>2. TypeInv /\ ShareInv /\ [Next]_vars => (TypeInv /\ ShareInv)'
  BY NextOrderly, NextShared
<1>3. ShareInv => OneHolder
  BY DEF ShareInv, SharedOf, Uses, OneHolder, Holders
<1> QED BY <1>1, <1>2, <1>3, PTL DEF Spec
=============================================================================
