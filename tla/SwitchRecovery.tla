--------------------------- MODULE SwitchRecovery ---------------------------
(***************************************************************************)
(* What follows a failure: rollback and restore, the terminal receipt, the *)
(* collection of retired runtimes, and explicit recovery.                  *)
(***************************************************************************)
EXTENDS SwitchSteps

(* _rollback_locked, _restore_previous_locked                              *)

(* Mutant of DiscardCandidate: one not confirmed dead is forgotten.        *)
ForgetCandidate ==
  /\ TornDown(canon.candidate) \/ NotTornDown(canon.candidate)
  /\ canon' = [canon EXCEPT !.candidate = NoRt]

(* Stop the candidate; one that cannot be confirmed dead is kept as a      *)
(* retiree, so that it is not forgotten.                                   *)
DiscardCandidate ==
  LET dropped == [canon EXCEPT !.candidate = NoRt] IN
  \/ TornDown(canon.candidate) /\ canon' = dropped
  \/ /\ NotTornDown(canon.candidate)
     /\ canon' = [dropped EXCEPT !.retiring = @ \cup {Retiree(canon.candidate, NoReq)}]

UndoCandidate(d) ==
  /\ At(d, "undo") /\ canon.candidate # NoRt
  /\ DiscardCandidate
  /\ UNCHANGED <<receipts, lock, proc, committed>>

(* Mutant of PickPrevious: the runtime stays in active as well.            *)
PickPreviousTwice(d) ==
  /\ At(d, "undo") /\ canon.candidate = NoRt
  /\ canon.previous # NoRt \/ canon.active # NoRt
  /\ canon' = IF canon.previous # NoRt THEN canon ELSE [canon EXCEPT !.previous = canon.active]
  /\ Goto(d, "restore")
  /\ UNCHANGED <<receipts, World, faults>>

(* Before the old runtime was quiesced it is still in active.              *)
PickPrevious(d) ==
  /\ At(d, "undo") /\ canon.candidate = NoRt
  /\ canon.previous # NoRt \/ canon.active # NoRt
  /\ canon' = IF canon.previous # NoRt THEN canon
              ELSE [canon EXCEPT !.active = NoRt, !.previous = canon.active]
  /\ Goto(d, "restore")
  /\ UNCHANGED <<receipts, World, faults>>

NothingToRestore(d) ==
  /\ At(d, "undo") /\ canon.candidate = NoRt
  /\ canon.previous = NoRt /\ canon.active = NoRt
  /\ Settle("failed", NoRt, NoRt, canon.retiring, Result(proc[d].req, "failed"))
  /\ FinishAs(d, "finish", "failed")
  /\ UNCHANGED <<receipts, World, faults>>

(* Mutant of Restorable: retirees are taken for dead.                      *)
RestorableBesideRetirees == canon.candidate = NoRt

(* Another game is never started beside a runtime not seen dead.           *)
Restorable == canon.candidate = NoRt /\ canon.retiring = {}
FreshRestorable == Restorable /\ canon.previous \notin live /\ canon.nextGen <= MaxGen

(* Refused, or the adapter, its probe or its readiness check fails.        *)
RestoreRefused(d) ==
  /\ At(d, "restore")
  /\ \/ ~Restorable /\ Benign
     \/ Restorable /\ canon.previous \notin live /\ ~FreshRestorable /\ Benign
     \/ Restorable /\ Fault
  /\ Goto(d, "abandon")
  /\ UNCHANGED <<Disk, World>>

(* The old runtime survived: renew its lease, restart its agent, republish *)
RestoreAlive(d) ==
  /\ At(d, "restore") /\ Restorable /\ canon.previous \in live
  /\ canon' = [canon EXCEPT !.phase = "rolling_back", !.req = proc[d].req]
  /\ Goto(d, "restartAgent")
  /\ UNCHANGED <<receipts, World, faults>>

(* Restored under rollback the receipt is finished next; under recover the *)
(* receipt is left to the reconciliation at the end.                       *)
PublishRestored(d, rt) ==
  /\ Settle("ready", rt, NoRt, canon.retiring, Result(proc[d].req, "rolled_back"))
  /\ FinishAs(d, IF proc[d].restoring THEN "finalizeReady" ELSE "finish", "rolled_back")

RestartAgent(d) ==
  /\ At(d, "restartAgent")
  /\ \/ PublishRestored(d, canon.previous) /\ Benign
     \/ Fault /\ Goto(d, "abandon") /\ UNCHANGED canon
  /\ UNCHANGED <<receipts, World>>

(* The old runtime was stopped: the same game, as a fresh generation.      *)
RestoreFresh(d) ==
  /\ At(d, "restore") /\ FreshRestorable
  /\ canon' = [canon EXCEPT !.phase = "rolling_back", !.req = proc[d].req,
                  !.nextGen = @ + 1,
                  !.candidate = [gen |-> canon.nextGen, game |-> canon.previous.game]]
  /\ Goto(d, "restart")
  /\ UNCHANGED <<receipts, World, faults>>

Restart(d) ==
  /\ At(d, "restart")
  /\ \/ live' = live \cup {canon.candidate} /\ Benign /\ Goto(d, "publish")
     \/ live' \in {live, live \cup {canon.candidate}} /\ Fault /\ Goto(d, "lost")
     \/ UNCHANGED live /\ Fault /\ Goto(d, "abandon")     \* no adapter was made
  /\ UNCHANGED <<Disk, committed>>

Publish(d) ==
  /\ At(d, "publish")
  /\ \/ canon.candidate \in live /\ PublishRestored(d, canon.candidate) /\ Benign
     \/ canon.candidate \notin live /\ Goto(d, "lost") /\ UNCHANGED canon /\ Benign
     \/ canon.candidate \in live /\ Goto(d, "lost") /\ UNCHANGED canon /\ Fault
  /\ UNCHANGED <<receipts, World>>

DropRestart(d) ==
  /\ At(d, "lost")
  /\ DiscardCandidate
  /\ Goto(d, "abandon")
  /\ UNCHANGED <<receipts, committed>>

(* _fail_locked with keep_previous: the request fails, a later recover     *)
(* tries the restore again.                                                *)
Abandon(d) ==
  /\ At(d, "abandon") /\ ~proc[d].restoring
  /\ canon' = [canon EXCEPT !.phase = "failed", !.req = NoReq, !.active = NoRt,
                            !.expired = FALSE, !.last = Result(proc[d].req, "failed")]
  /\ FinishAs(d, "finish", "failed")
  /\ UNCHANGED <<receipts, World, faults>>

(* Mutant of RecoverFailed: an anonymous result.                           *)
RecoverFailedAnonymous == [canon EXCEPT !.phase = "failed", !.last = AnonymousResult("failed")]

(* _recover_fail_locked: the identity of the failed operation is kept for  *)
(* the next attempt. Its transition is from the phase that recover read.   *)
RecoverFailed == [canon EXCEPT !.phase = "failed",
  !.last = Result(IF canon.req # NoReq THEN canon.req ELSE canon.last.req, "failed")]

AbandonRecovery(d) ==
  /\ At(d, "abandon") /\ proc[d].restoring
  /\ canon' = IF canon.phase = "failed" THEN RecoverFailed ELSE canon
  /\ Leave(d)
  /\ UNCHANGED <<receipts, World, faults>>

-----------------------------------------------------------------------------
(* _finish_request_locked, _finalize_locked, _reconcile_dangling_receipt   *)

Finishing(d) == \/ At(d, "finish") \/ At(d, "finishLeave") \/ At(d, "finishRedo")
FinishedReq(d) == IF proc[d].pc = "finishRedo" THEN proc[d].drain ELSE proc[d].req
FinishedAs(d)  == IF proc[d].pc = "finishRedo" THEN "failed" ELSE proc[d].res

(* After an expired drain was given up, the waiting request is dispatched. *)
AfterFinish(d) ==
  \/ proc[d].pc = "finish" /\ Goto(d, "finalize")
  \/ proc[d].pc = "finishLeave" /\ Leave(d)
  \/ /\ proc[d].pc = "finishRedo" /\ proc[d].mode = "execute"
     /\ Become(d, [proc[d] EXCEPT !.pc = "dispatch", !.drain = NoReq, !.old = NoRt])
  \/ proc[d].pc = "finishRedo" /\ proc[d].mode # "execute" /\ Leave(d)

FinishFirst(d) ==
  /\ ~Terminal(FinishedReq(d))
  /\ SetStatus(FinishedReq(d), FinishedAs(d))
  /\ AfterFinish(d)

(* A terminal receipt is never rewritten: a different result is a conflict *)
(* that kills the driver. Equal status does not mean equal result.         *)
FinishAgain(d) ==
  /\ Terminal(FinishedReq(d)) /\ UNCHANGED receipts
  /\ \/ Leave(d)
     \/ At(d, "finish") /\ receipts[FinishedReq(d)].st = FinishedAs(d) /\ Goto(d, "finalize")

Finish(d) ==
  /\ Finishing(d)
  /\ FinishFirst(d) \/ FinishAgain(d)
  /\ UNCHANGED <<canon, World, faults>>

Finalizing(d) == \/ At(d, "finalize") \/ At(d, "finalizeReady") \/ At(d, "retryFailed")

(* A retiree that carries the proof of a commit settles that commit's      *)
(* receipt before it is collected.                                         *)
ProvenAccepted(e) == e.proof # NoReq /\ receipts[e.proof].st = "accepted"

FinalizeReceipt(d) ==
  /\ Finalizing(d)
  /\ \E e \in canon.retiring : ProvenAccepted(e) /\ SetStatus(e.proof, "succeeded")
  /\ UNCHANGED <<canon, lock, proc, World, faults>>

Collectable == {e \in canon.retiring : e.proof # NoReq => receipts[e.proof].st = "succeeded"}

AfterFinalize(d) ==
  \/ proc[d].pc = "finalize" /\ Leave(d)
  \/ proc[d].pc = "finalizeReady" /\ Goto(d, "reconcile")
  \/ proc[d].pc = "retryFailed" /\ Goto(d, "resolve")

(* Retirees not confirmed dead remain.                                     *)
Finalize(d) ==
  /\ Finalizing(d)
  /\ ~\E e \in canon.retiring : ProvenAccepted(e)
  /\ \E dead \in SUBSET Collectable :
       /\ IF dead = Collectable THEN Benign ELSE Fault
       /\ live' = live \ {e.rt : e \in dead}
       /\ canon' = [canon EXCEPT !.retiring = @ \ dead]
  /\ AfterFinalize(d)
  /\ UNCHANGED <<receipts, committed>>

(* last_result finishes the receipt it names, except a commit's with a     *)
(* source runtime: that one is settled by its retiree's proof alone.       *)
ReconcileReceipt ==
  LET l == canon.last IN
  IF /\ l.req # NoReq /\ ~l.src /\ l.st \in TerminalStatuses
     /\ receipts[l.req].st \notin TerminalStatuses \cup {"none"}
  THEN SetStatus(l.req, l.st) ELSE UNCHANGED receipts

Reconcile(d) ==
  /\ At(d, "reconcile")
  /\ ReconcileReceipt
  /\ Leave(d)
  /\ UNCHANGED <<canon, World, faults>>

-----------------------------------------------------------------------------
(* _recover_locked                                                         *)

(* A drain is left to its driver until its deadline has passed.            *)
RecoverDraining(d) ==
  /\ At(d, "recover") /\ canon.phase = "draining"
  /\ UNCHANGED <<Disk, World, faults>>
  /\ IF canon.expired THEN WaitAt(d, proc[d], "expire") ELSE Leave(d)

RecoverIdle(d) ==
  /\ At(d, "recover") /\ canon.phase = "idle"
  /\ ReconcileReceipt
  /\ Goto(d, "finalize")
  /\ UNCHANGED <<canon, World, faults>>

RecoverReady(d) ==
  /\ At(d, "recover") /\ canon.phase = "ready"
  /\ \/ canon.active \in live /\ Goto(d, "finalizeReady") /\ Benign
     \/ Fault /\ Leave(d)                                  \* probe inconclusive
  /\ UNCHANGED <<Disk, World>>

(* The game on air is gone: keep track of what cannot be collected.        *)
RecoverDead(d) ==
  LET gone == [canon EXCEPT !.phase = "failed", !.active = NoRt,
                            !.last = AnonymousResult("failed")]
  IN /\ At(d, "recover") /\ canon.phase = "ready" /\ canon.active \notin live
     /\ \/ Benign /\ canon' = gone
        \/ Fault /\ canon' = [gone EXCEPT !.retiring = @ \cup {Retiree(canon.active, NoReq)}]
     /\ Leave(d)
     /\ UNCHANGED <<receipts, World>>

(* failed: stop the leftover candidate, retry the retirees, then resolve.  *)
RecoverCandidate(d) ==
  /\ At(d, "recover") /\ canon.phase = "failed" /\ canon.candidate # NoRt
  /\ DiscardCandidate
  /\ Goto(d, "retryFailed")
  /\ UNCHANGED <<receipts, committed>>

RecoverLeftovers(d) ==
  /\ At(d, "recover") /\ canon.phase = "failed" /\ canon.candidate = NoRt
  /\ Goto(d, "retryFailed")
  /\ UNCHANGED <<Disk, World, faults>>

ResolveRestore(d) ==
  /\ At(d, "resolve") /\ canon.previous # NoRt
  /\ Become(d, [proc[d] EXCEPT !.pc = "restore", !.req = canon.last.req, !.restoring = TRUE])
  /\ UNCHANGED <<Disk, World, faults>>

(* _recover_stop_locked                                                    *)
ResolveStop(d) ==
  /\ At(d, "resolve") /\ canon.previous = NoRt /\ canon.active # NoRt
  /\ \/ /\ TornDown(canon.active)
        /\ Settle("idle", NoRt, NoRt, canon.retiring, AnonymousResult("succeeded"))
     \/ NotTornDown(canon.active) /\ canon' = RecoverFailed
  /\ Leave(d)
  /\ UNCHANGED <<receipts, committed>>

ResolveIdle(d) ==
  /\ At(d, "resolve") /\ canon.previous = NoRt /\ canon.active = NoRt
  /\ Settle("idle", NoRt, NoRt, canon.retiring, AnonymousResult("succeeded"))
  /\ Leave(d)
  /\ UNCHANGED <<receipts, World, faults>>

(* In progress, by a driver that died: a stop is completed, anything else  *)
(* is rolled back.                                                         *)
Interrupted == canon.phase \in InProgressPhases \ {"draining"}

RecoverStop(d) ==
  /\ At(d, "recover") /\ Interrupted /\ OpOf[canon.req] = "stop"
  /\ \/ /\ TornDown(canon.active)
        /\ Settle("idle", NoRt, NoRt, canon.retiring, Result(canon.req, "succeeded"))
        /\ Become(d, [proc[d] EXCEPT !.pc = "finishLeave", !.req = canon.req, !.res = "succeeded"])
     \/ /\ NotTornDown(canon.active)
        /\ canon' = RecoverFailed
        /\ Leave(d)
  /\ UNCHANGED <<receipts, committed>>

(* Mutant of RecoverSwitch: a probe is left to a driver that may be dead.  *)
RecoverSwitchUnprobed(d) ==
  /\ At(d, "recover") /\ Interrupted /\ OpOf[canon.req] # "stop"
  /\ IF canon.phase = "probing"
     THEN Leave(d) /\ UNCHANGED canon
     ELSE /\ Transition("rolling_back")
          /\ Become(d, [proc[d] EXCEPT !.pc = "undo", !.req = canon.req])
  /\ UNCHANGED <<receipts, World, faults>>

RecoverSwitch(d) ==
  /\ At(d, "recover") /\ Interrupted /\ OpOf[canon.req] # "stop"
  /\ Transition("rolling_back")
  /\ Become(d, [proc[d] EXCEPT !.pc = "undo", !.req = canon.req])
  /\ UNCHANGED <<receipts, World, faults>>
=============================================================================
