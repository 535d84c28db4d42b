---------------------------- MODULE SwitchSteps -----------------------------
(***************************************************************************)
(* Running a claimed request: the switch of games, the wait for a round    *)
(* boundary with the lock released, and the stop.                          *)
(***************************************************************************)
EXTENDS SwitchRequests

(* _switch_locked: start, switch, restart, rotate                          *)

RollBack(d) == Transition("rolling_back") /\ Goto(d, "undo")

(* A step that fails before the commit starts the rollback.                *)
StepFails(d, pc) == /\ At(d, pc) /\ Fault
                    /\ RollBack(d)
                    /\ UNCHANGED <<receipts, World>>

RunSwitch(d) ==
  /\ At(d, "run") /\ OpOf[proc[d].req] # "stop"
  /\ canon' = [canon EXCEPT !.phase = "preparing", !.expired = FALSE]
  /\ Become(d, [proc[d] EXCEPT !.pc = "prepare", !.old = canon.active])
  /\ UNCHANGED <<receipts, World, faults>>

(* Mutant of Quiesce: the old runtime is left running.                     *)
QuiesceNoStop(d) ==
  LET old == proc[d].old IN
  /\ At(d, "prepare")
  /\ old \notin live \/ old.game \notin BoundaryGames
  /\ canon' = [canon EXCEPT !.phase = "quiescing", !.active = NoRt, !.previous = old]
  /\ Goto(d, "quiesced")
  /\ UNCHANGED <<receipts, World, faults>>

(* The old runtime leaves active for previous before it is stopped. A dead *)
(* one has no boundary to wait for; an inconclusive probe is not death.    *)
Quiesce(d) ==
  LET old == proc[d].old IN
  /\ At(d, "prepare")
  /\ old \notin live \/ old.game \notin BoundaryGames
  /\ canon' = [canon EXCEPT !.phase = "quiescing", !.active = NoRt, !.previous = old]
  /\ Goto(d, IF old = NoRt THEN "quiesced" ELSE "stopOld")
  /\ UNCHANGED <<receipts, World, faults>>

Drain(d) ==
  LET old == proc[d].old IN
  /\ At(d, "prepare")
  /\ old # NoRt /\ old.game \in BoundaryGames
  /\ IF old \in live THEN Benign ELSE Fault
  /\ Transition("draining")
  /\ WaitAt(d, proc[d], "await")
  /\ UNCHANGED <<receipts, World>>

(* A game that requires a boundary and has no method to ask for it: no     *)
(* request was made, so the drain is given up without cancelling one.      *)
DrainUnsupported(d) ==
  LET old == proc[d].old IN
  /\ At(d, "prepare") /\ Fault
  /\ old \in live /\ old.game \in BoundaryGames
  /\ Transition("draining")
  /\ Goto(d, "retain")
  /\ UNCHANGED <<receipts, World>>

StopOld(d) ==
  /\ At(d, "stopOld")
  /\ \/ TornDown(proc[d].old) /\ Goto(d, "quiesced") /\ UNCHANGED canon
     \/ NotTornDown(proc[d].old) /\ RollBack(d)
  /\ UNCHANGED <<receipts, committed>>

Candidate(d) == [gen |-> receipts[proc[d].req].gen, game |-> proc[d].goal]

(* canonical.save refuses a document with a duplicated generation, and the *)
(* driver dies of it.                                                      *)
GenerationFree(g) == g \notin Generations(canon) /\ g < canon.nextGen

Starting(d) ==
  /\ At(d, "quiesced")
  /\ IF GenerationFree(Candidate(d).gen)
     THEN /\ canon' = [canon EXCEPT !.phase = "starting", !.candidate = Candidate(d)]
          /\ Goto(d, "materialize")
     ELSE Leave(d) /\ UNCHANGED canon
  /\ UNCHANGED <<receipts, World, faults>>

Materialize(d) ==
  /\ At(d, "materialize")
  /\ \/ /\ live' = live \cup {canon.candidate} /\ Benign
        /\ Goto(d, "materialized")
        /\ UNCHANGED canon
     \/ /\ live' \in {live, live \cup {canon.candidate}} /\ Fault
        /\ RollBack(d)
  /\ UNCHANGED <<receipts, committed>>

Probing(d) ==
  /\ At(d, "materialized")
  /\ Transition("probing")
  /\ Goto(d, "probe")
  /\ UNCHANGED <<receipts, World, faults>>

(* readiness and start_agent: both need the game process.                  *)
Probe(d) ==
  /\ At(d, "probe") /\ canon.candidate \in live
  /\ Goto(d, "commit")
  /\ UNCHANGED <<Disk, World, faults>>

ProbeFindsNothing(d) ==
  /\ At(d, "probe") /\ canon.candidate \notin live
  /\ RollBack(d)
  /\ UNCHANGED <<receipts, World, faults>>

(* Mutant of Commit: the retired runtime carries no proof of the commit.   *)
CommitNoProof(d) ==
  LET r    == proc[d].req
      prev == canon.previous
  IN /\ At(d, "commit")
     /\ Settle("ready", canon.candidate, NoRt,
               canon.retiring \cup (IF prev = NoRt THEN {} ELSE {Retiree(prev, NoReq)}),
               CommitResult(r, prev))
     /\ committed' = committed \cup {CommitResult(r, prev)}
     /\ FinishAs(d, "finish", "succeeded")
     /\ UNCHANGED <<receipts, live, faults>>

(* The single atomic commit write.                                         *)
Commit(d) ==
  LET r    == proc[d].req
      prev == canon.previous
  IN /\ At(d, "commit")
     /\ Settle("ready", canon.candidate, NoRt,
               canon.retiring \cup (IF prev = NoRt THEN {} ELSE {Retiree(prev, r)}),
               CommitResult(r, prev))
     /\ committed' = committed \cup {CommitResult(r, prev)}
     /\ FinishAs(d, "finish", "succeeded")
     /\ UNCHANGED <<receipts, live, faults>>

-----------------------------------------------------------------------------
(* Round boundary: the lock is released while the game plays on            *)

(* The boundary is reached. Only the driver whose drain is still there,    *)
(* unexpired, may go on to stop the old runtime.                           *)
BoundaryReached(d) ==
  LET old == proc[d].old
      stop == OpOf[proc[d].req] = "stop"
  IN /\ proc[d].pc = "await"
     /\ SameDrain(d) /\ ~canon.expired
     /\ Acquire(d, [proc[d] EXCEPT !.pc = IF stop THEN "stopAgent" ELSE "stopOld"])
     /\ canon' = [canon EXCEPT !.phase = "quiescing",
                               !.active = IF stop THEN old ELSE NoRt,
                               !.previous = IF stop THEN NoRt ELSE old]
     /\ UNCHANGED <<receipts, World, faults>>

(* The adapter fails or times out: cancel the boundary, lock released too. *)
BoundaryFailed(d) ==
  /\ proc[d].pc = "await" /\ lock = NoDriver
  /\ SameDrain(d)
  /\ IF canon.expired THEN Benign ELSE Fault
  /\ proc' = [proc EXCEPT ![d].pc = "cancel"]
  /\ UNCHANGED <<Disk, lock, World>>

(* A driver that finds another drain, another owner, an expired deadline,  *)
(* or a lock it cannot get back in time, touches nothing.                  *)
WaitLost(d) ==
  /\ \/ proc[d].pc = "await" /\ (~SameDrain(d) \/ canon.expired)
     \/ proc[d].pc = "cancel" /\ ~SameDrain(d)
     \/ proc[d].pc = "expire" /\ ~SameDrain(d) /\ ~(proc[d].mode = "execute" /\ canon.phase = "ready")
     \/ proc[d].pc \in {"await", "cancel", "expire"} /\ lock # NoDriver
  /\ proc' = [proc EXCEPT ![d] = Off]
  /\ UNCHANGED <<Disk, lock, World, faults>>

(* Cancel acknowledged to the driver of the drain.                         *)
Cancelled(d) ==
  /\ proc[d].pc = "cancel" /\ SameDrain(d)
  /\ Acquire(d, [proc[d] EXCEPT !.pc = "retain"])
  /\ UNCHANGED <<Disk, World, faults>>

(* Cancel refused: the drain stays durable, with its failure recorded.     *)
CancelRefused(d) ==
  /\ proc[d].pc = "cancel" /\ SameDrain(d) /\ lock = NoDriver
  /\ Fault
  /\ canon' = [canon EXCEPT !.last = Result(proc[d].drain, "failed")]
  /\ proc' = [proc EXCEPT ![d] = Off]
  /\ UNCHANGED <<receipts, lock, World>>

(* The drain is over and the old runtime stays active ...                  *)
Retain(d) ==
  /\ At(d, "retain")
  /\ IF proc[d].old \in live THEN Benign ELSE Fault
  /\ Settle("ready", proc[d].old, NoRt, canon.retiring, Result(proc[d].req, "failed"))
  /\ FinishAs(d, "finishLeave", "failed")
  /\ UNCHANGED <<receipts, World>>

(* ... unless it is dead: then it leaves active before it is collected.    *)
RetireDead(d) ==
  /\ At(d, "retain") /\ proc[d].old \notin live
  /\ Settle("idle", NoRt, NoRt, canon.retiring \cup {Retiree(proc[d].old, NoReq)}, canon.last)
  /\ Goto(d, "retireDead")
  /\ UNCHANGED <<receipts, World, faults>>

CollectDead(d) ==
  LET corpse == Retiree(proc[d].old, NoReq) IN
  /\ At(d, "retireDead")
  /\ \/ Benign /\ canon' = [canon EXCEPT !.retiring = @ \ {corpse},
                                         !.last = Result(proc[d].req, "failed")]
     \/ Fault  /\ canon' = [canon EXCEPT !.last = Result(proc[d].req, "failed")]
  /\ FinishAs(d, "finishLeave", "failed")
  /\ UNCHANGED <<receipts, World>>

(* _recover_draining_locked, after the cancel of an expired drain was      *)
(* acknowledged: keep the game, fail the drain's request.                  *)
ExpireDrain(d) ==
  /\ proc[d].pc = "expire" /\ SameDrain(d)
  /\ Acquire(d, [proc[d] EXCEPT !.pc = "finishRedo"])
  /\ Settle("ready", proc[d].old, NoRt, canon.retiring, Result(proc[d].drain, "failed"))
  /\ UNCHANGED <<receipts, World, faults>>

ExpireRefused(d) ==
  /\ proc[d].pc = "expire" /\ SameDrain(d) /\ lock = NoDriver
  /\ Fault
  /\ proc' = [proc EXCEPT ![d] = Off]
  /\ UNCHANGED <<Disk, lock, World>>

(* Somebody else ended the drain meanwhile: the waiting request goes on.   *)
ExpireOvertaken(d) ==
  /\ proc[d].pc = "expire" /\ ~SameDrain(d)
  /\ proc[d].mode = "execute" /\ canon.phase = "ready"
  /\ Acquire(d, [proc[d] EXCEPT !.pc = "dispatch", !.drain = NoReq, !.old = NoRt])
  /\ UNCHANGED <<Disk, World, faults>>

(* The drain's deadline passes.                                            *)
Expire ==
  /\ canon.phase = "draining" /\ ~canon.expired
  /\ canon' = [canon EXCEPT !.expired = TRUE]
  /\ UNCHANGED <<receipts, lock, proc, World, faults>>

-----------------------------------------------------------------------------
(* _stop_locked                                                            *)

(* _fail_locked with keep_active                                           *)
FailKeepingActive(d) ==
  /\ Settle("failed", canon.active, NoRt, canon.retiring, Result(proc[d].req, "failed"))
  /\ FinishAs(d, "finish", "failed")

RunStop(d) ==
  /\ At(d, "run") /\ OpOf[proc[d].req] = "stop"
  /\ \/ /\ canon.active \notin live \/ canon.active.game \notin StopBoundaryGames
        /\ Transition("quiescing") /\ Goto(d, "stopAgent") /\ Benign
     \/ /\ canon.active.game \in StopBoundaryGames
        /\ IF canon.active \in live THEN Benign ELSE Fault
        /\ canon' = [canon EXCEPT !.phase = "draining", !.expired = FALSE]
        /\ WaitAt(d, proc[d], "await")
     \/ Fault /\ FailKeepingActive(d)
  /\ UNCHANGED <<receipts, World>>

StopAgent(d) ==
  /\ At(d, "stopAgent")
  /\ \/ Transition("stopping") /\ Goto(d, "stopGame") /\ Benign
     \/ Fault /\ FailKeepingActive(d)
  /\ UNCHANGED <<receipts, World>>

StopGame(d) ==
  /\ At(d, "stopGame")
  /\ \/ /\ TornDown(canon.active)
        /\ Settle("idle", NoRt, NoRt, canon.retiring, Result(proc[d].req, "succeeded"))
        /\ FinishAs(d, "finish", "succeeded")
     \/ NotTornDown(canon.active) /\ FailKeepingActive(d)
  /\ UNCHANGED <<receipts, committed>>
=============================================================================
