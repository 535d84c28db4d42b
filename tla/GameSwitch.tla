----------------------------- MODULE GameSwitch -----------------------------
(***************************************************************************)
(* The replace-mode coordinator that switches the game on air.             *)
(*                                                                         *)
(* Drivers are the short-lived processes that call the coordinator (the    *)
(* CLI, the corner owners, the maintenance timer).  They share only two    *)
(* kinds of file, each replaced atomically: the canonical document and one *)
(* receipt per request.  An exclusive flock serialises them, except while  *)
(* a driver waits for a game's round boundary: then the lock is released.  *)
(* Every step below is one durable write, or one adapter call.  A driver   *)
(* may die between any two of them; a game process may die at any time.    *)
(***************************************************************************)
EXTENDS SwitchRecovery

(* The environment: a driver is killed, a game process exits.              *)

Crash(d) ==
  /\ proc[d].pc # "off" /\ Fault
  /\ proc' = [proc EXCEPT ![d] = Off]
  /\ lock' = IF lock = d THEN NoDriver ELSE lock
  /\ UNCHANGED <<Disk, World>>

GameDies(rt) ==
  /\ rt \in live /\ Fault
  /\ live' = live \ {rt}
  /\ UNCHANGED <<Disk, lock, proc, committed>>

-----------------------------------------------------------------------------
DispatchStep(d) ==
  \/ DispatchRefused(d) \/ DispatchEnqueue(d) \/ DispatchUnqueueable(d) \/ Enqueue(d)
  \/ DispatchExpired(d) \/ DispatchDone(d) \/ DispatchAccept(d)

AcceptStep(d) ==
  \/ AcceptRefused(d) \/ AcceptBump(d) \/ AcceptFresh(d) \/ Alloc(d) \/ AcceptClaim(d)
  \/ AcceptAllocating(d) \/ MarkAccepted(d) \/ Overdue(d) \/ AcceptReplay(d) \/ AcceptOrphan(d)

SwitchFails(d) ==
  \/ At(d, "run") /\ OpOf[proc[d].req] # "stop" /\ StepFails(d, "run")
  \/ \E pc \in {"prepare", "quiesced", "materialized", "probe", "commit"} : StepFails(d, pc)

SwitchStep(d) ==
  \/ RunSwitch(d) \/ Quiesce(d) \/ Drain(d) \/ DrainUnsupported(d) \/ StopOld(d)
  \/ Starting(d) \/ Materialize(d) \/ Probing(d) \/ Probe(d) \/ ProbeFindsNothing(d)
  \/ Commit(d) \/ SwitchFails(d)

BoundaryStep(d) ==
  \/ BoundaryReached(d) \/ BoundaryFailed(d) \/ WaitLost(d) \/ Cancelled(d)
  \/ CancelRefused(d) \/ Retain(d) \/ RetireDead(d) \/ CollectDead(d)
  \/ ExpireDrain(d) \/ ExpireRefused(d) \/ ExpireOvertaken(d)

StopStep(d) == RunStop(d) \/ StopAgent(d) \/ StopGame(d)

RestoreStep(d) ==
  \/ UndoCandidate(d) \/ PickPrevious(d) \/ NothingToRestore(d) \/ RestoreRefused(d)
  \/ RestoreAlive(d) \/ RestartAgent(d) \/ RestoreFresh(d) \/ Restart(d) \/ Publish(d)
  \/ DropRestart(d) \/ Abandon(d) \/ AbandonRecovery(d)

FinishStep(d) == Finish(d) \/ FinalizeReceipt(d) \/ Finalize(d) \/ Reconcile(d)

RecoverStep(d) ==
  \/ RecoverDraining(d) \/ RecoverIdle(d) \/ RecoverReady(d) \/ RecoverDead(d)
  \/ RecoverCandidate(d) \/ RecoverLeftovers(d) \/ ResolveRestore(d) \/ ResolveStop(d)
  \/ ResolveIdle(d) \/ RecoverStop(d) \/ RecoverSwitch(d)

(* A driver goes on with what it is doing.                                 *)
DriverStep(d) ==
  \/ Resume(d) \/ ResumeBusy(d) \/ DispatchStep(d) \/ AcceptStep(d) \/ SwitchStep(d)
  \/ BoundaryStep(d) \/ StopStep(d) \/ RestoreStep(d) \/ FinishStep(d) \/ RecoverStep(d)

(* The maintenance timer's entry points.                                   *)
Maintain(d) == MaintainDrain(d) \/ ResumeHead(d)

Next ==
  \/ \E d \in Driver : \/ \E r \in Req : Request(d, r)
                       \/ Recover(d) \/ Maintain(d) \/ DriverStep(d) \/ Crash(d)
  \/ Expire
  \/ \E rt \in live : GameDies(rt)

Spec == Init /\ [][Next]_vars

(* Every adapter call has a timeout, so a driver goes on; a deadline       *)
(* passes.  The timer fires every 30 seconds, an operator recovers a       *)
(* switch that needs it, and a client repeats a request that has no        *)
(* terminal result; none of them holds the lock at every tick of another.  *)
Unfinished(r)   == receipts[r].st \in {"allocating", "accepted", "queued"}
Resend(r)       == Unfinished(r) /\ \E d \in Driver : Request(d, r)
NeededRecover   == /\ canon.phase \notin StablePhases \/ InFlight(receipts) # {}
                   /\ \E d \in Driver : Recover(d)
Timer           == \E d \in Driver : Maintain(d)
Reacquire(d)    == Cancelled(d) \/ ExpireDrain(d) \/ Resume(d)

Fairness == /\ \A d \in Driver : WF_vars(DriverStep(d)) /\ SF_vars(Reacquire(d))
            /\ WF_vars(Expire)
            /\ SF_vars(Timer)
            /\ SF_vars(NeededRecover)
            /\ \A r \in Req : SF_vars(Resend(r))

FairSpec == Spec /\ Fairness

-----------------------------------------------------------------------------
(* Properties                                                              *)

(* The coordinator never tries to save a canonical document that its own   *)
(* validate_state refuses (a refused save kills the driver half way).      *)
CanonicalValid == ValidState(canon)

(* Whatever crashes, every game process that still runs is named by the    *)
(* canonical document: in a slot, or among the retirees to be collected.   *)
NoOrphanGame == live \subseteq Tracked(canon)

(* Replace mode: the active, the candidate and the previous runtime never  *)
(* play at the same time, also when their drivers died in between.         *)
OneGameOnAir == Cardinality(live \cap Slots(canon)) <= 1

(* A candidate is started only when nothing but retirees still runs, and a *)
(* restore starts its game only when nothing runs at all.                  *)
StartsAlone ==
  \A d \in Driver :
    /\ proc[d].pc \in {"quiesced", "materialize"} => live \subseteq {e.rt : e \in canon.retiring}
    /\ proc[d].pc = "restart" => live = {}

(* A driver that acts on a game for a request owns the canonical document  *)
(* in that request's name, and the request is accepted: a driver back from *)
(* a wait that was overtaken never acts for, or over, another request.     *)
Working(d) == proc[d].pc \in {"run", "prepare", "stopOld", "quiesced", "materialize",
                              "materialized", "probe", "commit", "retain",
                              "stopAgent", "stopGame"}

DriverOwnsCanonical ==
  \A d \in Driver : Working(d) => /\ lock = d
                                  /\ canon.req = proc[d].req
                                  /\ receipts[proc[d].req].st = "accepted"

(* At most one request is in flight, across crashes and resends; and it is *)
(* the one that owns the canonical document when that has an owner.        *)
OneInFlight == /\ Cardinality(InFlight(receipts)) <= 1
               /\ canon.req # NoReq => InFlight(receipts) \subseteq {canon.req}

(* The receipt that a retiree offers as proof of its commit can always be  *)
(* settled as succeeded; otherwise the retiree would never be collected.   *)
RetireesProvable ==
  \A e \in canon.retiring :
    e.proof # NoReq => receipts[e.proof].st \in {"accepted", "succeeded"}

(* A request whose commit replaced a game is never answered as failed or   *)
(* rolled back, however its driver ended.                                  *)
CommitsHonoured ==
  \A c \in committed : c.src => receipts[c.req].st \notin {"failed", "rolled_back"}

(* A failed switch that still has a game to restore names the request it   *)
(* failed for: recover restores in that request's name.                    *)
RecoverableIdentity ==
  canon.phase = "failed" /\ canon.previous # NoRt => canon.last.req # NoReq

(* A terminal receipt is never written again.                              *)
ReceiptsFinal == [][\A r \in Req : Terminal(r) => receipts'[r] = receipts[r]]_vars

(* The canonical document is claimed only by a request that no queued      *)
(* request is ahead of.                                                    *)
Claims    == canon.phase # "validating" /\ canon'.phase = "validating"
FifoOrder == [][Claims => \A q \in Queued(receipts) :
                            receipts[canon'.req].gen <= receipts[q].gen]_vars

(* A request whose commit replaced a game is never run a second time.      *)
NotRepeated == [][\A c \in committed : c.src => ~(Claims /\ canon'.req = c.req)]_vars

(* Under Fairness: a switch that is in flight ends, a queued request is    *)
(* taken from the queue, and the canonical document settles again and      *)
(* again, whatever failed.                                                 *)
InFlightEnds == \A r \in Req : r \in InFlight(receipts) ~> r \notin InFlight(receipts)
QueuedServed == \A r \in Req : r \in Queued(receipts) ~> r \notin Queued(receipts)
Settles      == []<>(canon.phase \in StablePhases)

-----------------------------------------------------------------------------
(* What comments, messages and documents say, and the code does not do     *)

(* "Fail closed so the caller reconciles the receipt instead of            *)
(* re-executing an already-committed operation": of every commit, also one *)
(* that found no game to replace.                                          *)
CommittedNotRepeated == [][\A c \in committed : ~(Claims /\ canon'.req = c.req)]_vars

(* "restore it as a fresh generation": the generation that a restore takes *)
(* is nobody else's, so the next candidate's is still free.                *)
GenerationsFresh == \A d \in Driver : proc[d].pc = "quiesced" => GenerationFree(Candidate(d).gen)

(* "A failed restore leaves phase=failed with previous retained so         *)
(* recover() can retry".                                                   *)
FailedRestoreLeavesFailed ==
  [][\A d \in Driver : proc[d].pc = "abandon" /\ proc'[d].pc # "abandon" /\ faults' = faults
       => canon'.phase = "failed"]_vars

(* A stop answered as succeeded because no game runs: no game runs.        *)
StopMeansStopped ==
  [][\A r \in Req : OpOf[r] = "stop" /\ receipts[r].st # "succeeded" /\ receipts'[r].st = "succeeded"
       => live \cap Slots(canon) = {}]_vars
=============================================================================
