--------------------------- MODULE SwitchRequests ---------------------------
(***************************************************************************)
(* What becomes of a request: the entry points, the FIFO queue, and the    *)
(* claim of the canonical document.                                        *)
(***************************************************************************)
EXTENDS SwitchDriver

(* Entry points                                                            *)

(* _execute: take the lock for a request. The busy answer changes nothing. *)
Request(d, r) ==
  /\ proc[d].pc = "off"
  /\ Acquire(d, [Off EXCEPT !.pc = "dispatch", !.req = r])
  /\ UNCHANGED <<Disk, World, faults>>

(* recover                                                                 *)
Recover(d) ==
  /\ proc[d].pc = "off"
  /\ Acquire(d, [Off EXCEPT !.pc = "recover", !.mode = "recover"])
  /\ UNCHANGED <<Disk, World, faults>>

(* maintain_fifo, first transaction: only an expired drain is touched; its *)
(* cancellation runs with the lock released.                               *)
MaintainDrain(d) ==
  /\ proc[d].pc = "off" /\ lock = NoDriver
  /\ ExpiredDrain
  /\ UNCHANGED <<Disk, World, faults>>
  /\ WaitAt(d, [Off EXCEPT !.mode = "maintain"], "expire")

(* resume_queued: read the FIFO head under the lock, then let go of it and *)
(* replay the head as a request. A head past its hard deadline is finished *)
(* here; a rotate head is left where it is.                                *)
ResumeHead(d) ==
  /\ proc[d].pc = "off" /\ lock = NoDriver
  /\ canon.phase \in StablePhases
  /\ \E h \in Req :
       /\ IsHead(receipts, h)
       /\ \/ /\ OpOf[h] # "rotate"
             /\ Release(d, [Off EXCEPT !.pc = "resume", !.mode = "maintain", !.req = h])
             /\ UNCHANGED <<receipts, faults>>
          \/ /\ h \in CappedReq /\ Fault
             /\ SetStatus(h, "failed")
             /\ UNCHANGED <<lock, proc>>
  /\ UNCHANGED <<canon, World>>

Resume(d) ==
  /\ proc[d].pc = "resume"
  /\ Acquire(d, [proc[d] EXCEPT !.pc = "dispatch"])
  /\ UNCHANGED <<Disk, World, faults>>

ResumeBusy(d) ==
  /\ proc[d].pc = "resume" /\ lock # NoDriver
  /\ proc' = [proc EXCEPT ![d] = Off]
  /\ UNCHANGED <<Disk, lock, World, faults>>

-----------------------------------------------------------------------------
(* _execute_locked: what to do with a request, from the durable state      *)

(* restart is bound to the active game when its receipt is first written.  *)
RequestGoal(r) == IF receipts[r].st # "none" THEN receipts[r].goal
                  ELSE IF OpOf[r] = "restart" THEN canon.active.game ELSE GoalOf[r]

RotationGoals == IF Games = {canon.active.game} THEN Games ELSE Games \ {canon.active.game}

(* Mutant of BehindQueue: the queue is not consulted.                      *)
NeverBehind(r) == FALSE

(* Mutant of BehindQueue: the head of the queue is not let through.        *)
BehindAnyQueue(r) == Queued(receipts) # {}

BehindQueue(r) == Queued(receipts) # {} /\ ~IsHead(receipts, r)

NeedsRecovery == canon.phase \in {"failed", "recovery_required"}

MustEnqueue(r) == /\ receipts[r].st = "none"
                  /\ \/ canon.phase \notin StablePhases
                     \/ BehindQueue(r)

(* Mutant of AlreadyDone: whatever the state of the receipt.               *)
DoneInAnyState(r) ==
  \/ (OpOf[r] \in {"start", "switch"} /\ canon.active # NoRt /\ canon.active.game = RequestGoal(r))
  \/ (OpOf[r] = "stop" /\ canon.active = NoRt)

(* A queued request that finds its goal already reached is finished as     *)
(* succeeded without touching the game.                                    *)
AlreadyDone(r) ==
  /\ receipts[r].st = "queued"
  /\ \/ (OpOf[r] \in {"start", "switch"} /\ canon.active # NoRt /\ canon.active.game = RequestGoal(r))
     \/ (OpOf[r] = "stop" /\ canon.active = NoRt)

(* Answers that leave the receipt alone: start while a game is active,     *)
(* restart or stop with no active game.                                    *)
AnswerOnly(r) ==
  \/ (OpOf[r] = "start" /\ canon.active # NoRt)
  \/ (OpOf[r] = "restart" /\ canon.active = NoRt /\ receipts[r].st = "none")
  \/ (OpOf[r] = "stop" /\ canon.active = NoRt)

DispatchRefused(d) ==
  LET r == proc[d].req IN
  /\ At(d, "dispatch")
  /\ \/ NeedsRecovery
     \/ /\ canon.phase = "draining"
        /\ \/ Terminal(r)
           \/ ~canon.expired /\ (receipts[r].st = "queued" \/ (receipts[r].st # "none" /\ r = canon.req))
     \/ /\ canon.phase # "draining" /\ ~NeedsRecovery /\ ~MustEnqueue(r)
        /\ \/ BehindQueue(r)
           \/ (~AlreadyDone(r) /\ AnswerOnly(r))
  /\ Leave(d)
  /\ UNCHANGED <<Disk, World, faults>>

(* The bound MaxGen is reached: the request is not taken any further.      *)
NoGenerationLeft == \A g \in 1..MaxGen : ~IsFreshGeneration(canon, receipts, g)

(* First of the two writes of _enqueue_request_locked.                     *)
DispatchEnqueue(d) ==
  LET r == proc[d].req IN
  /\ At(d, "dispatch")
  /\ ~NeedsRecovery /\ MustEnqueue(r)
  /\ OpOf[r] = "restart" => canon.active # NoRt
  /\ \E g \in 1..MaxGen :
       /\ IsFreshGeneration(canon, receipts, g)
       /\ receipts' = [receipts EXCEPT ![r] = [st |-> "queued", gen |-> g, goal |-> RequestGoal(r)]]
  /\ Goto(d, "enqueue")
  /\ UNCHANGED <<canon, World, faults>>

(* A restart that cannot name its target is refused, not queued.           *)
DispatchUnqueueable(d) ==
  LET r == proc[d].req IN
  /\ At(d, "dispatch")
  /\ ~NeedsRecovery /\ MustEnqueue(r)
  /\ \/ OpOf[r] = "restart" /\ canon.active = NoRt
     \/ NoGenerationLeft
  /\ Leave(d)
  /\ UNCHANGED <<Disk, World, faults>>

(* Second write; then an expired drain is recovered in the same call.      *)
Enqueue(d) ==
  /\ At(d, "enqueue")
  /\ canon' = [canon EXCEPT !.nextGen = receipts[proc[d].req].gen + 1]
  /\ IF ExpiredDrain THEN WaitAt(d, proc[d], "expire") ELSE Leave(d)
  /\ UNCHANGED <<receipts, World, faults>>

(* An expired drain met by a request that is queued, or by its owner's     *)
(* resend, is recovered first.                                             *)
DispatchExpired(d) ==
  LET r == proc[d].req IN
  /\ At(d, "dispatch") /\ ExpiredDrain
  /\ receipts[r].st = "queued" \/ (r \in InFlight(receipts) /\ r = canon.req)
  /\ UNCHANGED <<Disk, World, faults>>
  /\ WaitAt(d, proc[d], "expire")

DispatchDone(d) ==
  LET r == proc[d].req IN
  /\ At(d, "dispatch")
  /\ canon.phase # "draining" /\ ~NeedsRecovery /\ ~BehindQueue(r) /\ AlreadyDone(r)
  /\ SetStatus(r, "succeeded")
  /\ Leave(d)
  /\ UNCHANGED <<canon, World, faults>>

DispatchAccept(d) ==
  LET r == proc[d].req IN
  /\ At(d, "dispatch")
  /\ canon.phase # "draining" /\ ~NeedsRecovery /\ ~MustEnqueue(r)
  /\ ~BehindQueue(r) /\ ~AlreadyDone(r) /\ ~AnswerOnly(r)
  /\ \E g \in IF OpOf[r] = "rotate" THEN RotationGoals ELSE {RequestGoal(r)} :
       Become(d, [proc[d] EXCEPT !.pc = "accept", !.goal = g])
  /\ UNCHANGED <<Disk, World, faults>>

-----------------------------------------------------------------------------
(* _accept_request_locked: claim the canonical document for a request      *)

(* Mutant of Claimable: other receipts in flight are overlooked.           *)
ClaimableAlone(r) == ~Terminal(r) /\ canon.req \in {NoReq, r}

Claimable(r) == /\ ~Terminal(r)
                /\ canon.req \in {NoReq, r}
                /\ InFlight(receipts) \ {r} = {}

(* The commit, or another terminal result, of r is already in canon.       *)
ResultRecorded(r) == canon.last.req = r /\ canon.last.st \in TerminalStatuses
RetiredBy(r) == \E e \in canon.retiring : e.proof = r

Orphaned(r) == receipts[r].st = "accepted" /\ canon.req = NoReq

AcceptRefused(d) ==
  LET r == proc[d].req IN
  /\ At(d, "accept")
  /\ \/ ~Claimable(r)
     \/ /\ receipts[r].st = "allocating"
        /\ canon.phase # (IF canon.req = r THEN "validating" ELSE "idle")
        /\ canon.req = NoReq => canon.phase # "ready"
     \/ receipts[r].st = "queued" /\ canon.req = r
     \/ Orphaned(r) /\ ResultRecorded(r) /\ ~RetiredBy(r) /\ canon.last.src
  /\ Leave(d)
  /\ UNCHANGED <<Disk, World, faults>>

(* A receipt written just before a crash may be ahead of next_generation.  *)
AcceptBump(d) ==
  LET r == proc[d].req IN
  /\ At(d, "accept") /\ Claimable(r)
  /\ receipts[r].st # "none" /\ canon.nextGen <= receipts[r].gen
  /\ canon' = [canon EXCEPT !.nextGen = receipts[r].gen + 1]
  /\ UNCHANGED <<receipts, lock, proc, World, faults>>

Bumped(r) == canon.nextGen > receipts[r].gen

(* Fresh request: receipt allocating, canon validating, receipt accepted.  *)
AcceptFresh(d) ==
  LET r == proc[d].req IN
  /\ At(d, "accept") /\ Claimable(r)
  /\ receipts[r].st = "none"
  /\ \/ /\ \E g \in 1..MaxGen :
             /\ IsFreshGeneration(canon, receipts, g)
             /\ receipts' = [receipts EXCEPT ![r] =
                   [st |-> "allocating", gen |-> g,
                    goal |-> IF OpOf[r] = "rotate" THEN NoGame ELSE proc[d].goal]]
        /\ Goto(d, "alloc")
     \/ NoGenerationLeft /\ Leave(d) /\ UNCHANGED receipts
  /\ UNCHANGED <<canon, World, faults>>

Alloc(d) ==
  LET r == proc[d].req IN
  /\ At(d, "alloc")
  /\ canon' = [canon EXCEPT !.phase = "validating", !.req = r,
                            !.nextGen = receipts[r].gen + 1]
  /\ Goto(d, "allocated")
  /\ UNCHANGED <<receipts, World, faults>>

(* The FIFO head: canon validating, then receipt accepted. A head past its *)
(* hard deadline is finished instead, before the claim or right after it.  *)
AcceptClaim(d) ==
  LET r == proc[d].req IN
  /\ At(d, "accept") /\ Claimable(r) /\ Bumped(r)
  /\ receipts[r].st = "queued" /\ canon.req = NoReq
  /\ \/ /\ canon' = [canon EXCEPT !.phase = "validating", !.req = r]
        /\ Goto(d, "claim")
        /\ UNCHANGED <<receipts, faults>>
     \/ /\ r \in CappedReq /\ Fault
        /\ SetStatus(r, "failed")
        /\ Leave(d)
        /\ UNCHANGED canon
  /\ UNCHANGED World

(* Mutant of AcceptAllocating: only a request that owns canon already.     *)
AcceptAllocatingOwned(d) ==
  LET r == proc[d].req IN
  /\ At(d, "accept") /\ Claimable(r) /\ Bumped(r)
  /\ receipts[r].st = "allocating"
  /\ IF canon.req = r THEN Goto(d, "replay") ELSE Leave(d)
  /\ UNCHANGED <<Disk, World, faults>>

(* The receipt of a request that crashed while allocating.                 *)
AcceptAllocating(d) ==
  LET r == proc[d].req IN
  /\ At(d, "accept") /\ Claimable(r) /\ Bumped(r)
  /\ receipts[r].st = "allocating"
  /\ canon.phase \in (IF canon.req = r THEN {"validating"} ELSE StablePhases)
  /\ canon' = [canon EXCEPT !.phase = "validating", !.req = r]
  /\ Goto(d, "replay")
  /\ UNCHANGED <<receipts, World, faults>>

MarkAccepted(d) ==
  LET r == proc[d].req IN
  /\ \/ At(d, "allocated") /\ Goto(d, "run") /\ Benign
     \/ At(d, "claim") /\ Goto(d, "run") /\ Benign
     \/ At(d, "claim") /\ r \in CappedReq /\ Goto(d, "overdue") /\ Fault
     \/ At(d, "replay") /\ Goto(d, "recover") /\ Benign
  /\ SetStatus(r, "accepted")
  /\ UNCHANGED <<canon, World>>

Overdue(d) ==
  /\ At(d, "overdue")
  /\ Settle(IF canon.active = NoRt THEN "idle" ELSE "ready", canon.active,
            canon.previous, canon.retiring, Result(proc[d].req, "failed"))
  /\ FinishAs(d, "finishLeave", "failed")
  /\ UNCHANGED <<receipts, World, faults>>

(* An accepted request that still owns canon lost its driver: recover it,  *)
(* never run it a second time.                                             *)
AcceptReplay(d) ==
  LET r == proc[d].req IN
  /\ At(d, "accept") /\ Claimable(r) /\ Bumped(r)
  /\ receipts[r].st = "accepted" /\ canon.req = r
  /\ Goto(d, "recover")
  /\ UNCHANGED <<Disk, World, faults>>

(* Mutant of AcceptOrphan: it is queued again whatever became of it.       *)
RequeueOrphan(d) ==
  LET r == proc[d].req IN
  /\ At(d, "accept") /\ Claimable(r) /\ Bumped(r) /\ Orphaned(r)
  /\ SetStatus(r, "queued")
  /\ UNCHANGED <<canon, lock, proc, World, faults>>

(* One that does not own canon any more: finish it from the recorded       *)
(* result when there is one, else queue it again and claim it.             *)
AcceptOrphan(d) ==
  LET r == proc[d].req IN
  /\ At(d, "accept") /\ Claimable(r) /\ Bumped(r) /\ Orphaned(r)
  /\ \/ /\ RetiredBy(r)
        /\ SetStatus(r, "succeeded")
        /\ Goto(d, "finalize")
     \/ /\ ~RetiredBy(r) /\ ResultRecorded(r) /\ ~canon.last.src
        /\ SetStatus(r, canon.last.st)
        /\ Goto(d, "finalize")
     \/ /\ ~RetiredBy(r) /\ ~ResultRecorded(r)
        /\ SetStatus(r, "queued")
        /\ UNCHANGED <<lock, proc>>
  /\ UNCHANGED <<canon, World, faults>>
=============================================================================
