------------------------------ MODULE RetroRun ------------------------------
(***************************************************************************)
(* One run of a retro corner: start the corner's game, let it play, give   *)
(* the plane back to the game that was there before.                       *)
(*                                                                         *)
(* The run is kept in one state file that all the game corners share, and  *)
(* is carried out by whoever has the corner lock: the process that holds   *)
(* the rotation lock, or an operator's stop.  The plane, a summary of what *)
(* the switch coordinator answers, moves by itself: another driver may     *)
(* finish what a dead process has submitted.                               *)
(***************************************************************************)
EXTENDS Integers, FiniteSets

CONSTANTS Corner, Base,   \* the corners' games, the game between corners
          Req, NoReq,     \* rotation requests
          Tries,          \* restore replays of the timer per request
          Cool,           \* time units of the rolling cooldown
          CanBreak        \* whether a rollback may fail as well

ASSUME RetroAssumption == /\ Base \notin Corner /\ NoReq \notin Req
                          /\ {Tries, Cool} \subseteq Nat /\ CanBreak \in BOOLEAN

VARIABLES
  plane,      \* the canonical document of the coordinator, summarised
  receipt,    \* of each switch request: its receipt
  st,         \* the corner state file
  stopFor,    \* the stop request file: the run it was written for, or NoReq
  cornerLock, \* who has the corner's lock
  act         \* of each process: the step of the run it is at

retroVars == <<plane, receipt, st, stopFor, cornerLock, act>>

Actors == {"holder", "operator"}
Game   == Corner \cup {Base}
Ways   == 0..(Tries + 1)
Start   == 0
Restore == 1   \* and Restore + n, the timer's n-th replay of it
NoSw   == <<NoReq, Start>>
Sw     == Req \X Ways

Terminal == {"succeeded", "rolled", "refused", "broken"}
BUSY     == {"starting", "active", "restoring", "failed"}
Ended    == {"idle", "completed", "interrupted"}
RunPcs   == {"enter", "submit", "resubmit", "starting", "resuming", "play", "restore", "restoring", "clear", "result"}
OuterPcs == {"off", "latched", "replay", "import", "unlink", "observe", "choose", "dispatch",
             "execute", "failed", "resolve", "settle", "mark", "stop"}
Outcomes == {"none", "completed", "interrupted", "queued", "failed", "restoring", "active", "raise"}

Off == [pc |-> "off", req |-> NoReq, corner |-> Base, res |-> "none", stop |-> FALSE]

RetroTypeOK ==
  /\ plane \in [phase : {"ready", "draining", "failed"}, game : Game, run : Nat, claim : Sw \cup {NoSw}]
  /\ receipt \in [Sw -> [status : {"none", "queued"} \cup Terminal, to : Game, run : Nat]]
  /\ st \in [status : BUSY \cup Ended, corner : Game, req : Req \cup {NoReq}, prev : Game,
             sw : Sw \cup {NoSw}, run : Nat, code : Terminal \cup {"none"}, never : BOOLEAN,
             late : BOOLEAN, age : 0..Cool, retry : 0..Tries]
  /\ stopFor \in Req \cup {NoReq} /\ cornerLock \in Actors \cup {"none"}
  /\ act \in [Actors -> [pc : RunPcs \cup OuterPcs, req : Req \cup {NoReq}, corner : Game,
                         res : Outcomes, stop : BOOLEAN]]

RetroInit ==
  /\ plane = [phase |-> "ready", game |-> Base, run |-> 0, claim |-> NoSw]
  /\ receipt = [q \in Sw |-> [status |-> "none", to |-> Base, run |-> 0]]
  /\ st = [status |-> "idle", corner |-> Base, req |-> NoReq, prev |-> Base, sw |-> NoSw, run |-> 0,
           code |-> "none", never |-> FALSE, late |-> FALSE, age |-> 0, retry |-> 0]
  /\ stopFor = NoReq /\ cornerLock = "none"
  /\ act = [p \in Actors |-> Off]

-----------------------------------------------------------------------------
(* The plane: what becomes of a switch request, whoever drives it          *)

Claim(q) == /\ plane.phase = "ready" /\ receipt[q].status = "queued"
            /\ plane' = [plane EXCEPT !.phase = "draining", !.claim = q]
            /\ UNCHANGED <<receipt, st, stopFor, cornerLock, act>>

Settled(q, status, p) ==
  /\ plane.claim = q /\ q # NoSw
  /\ plane' = [p EXCEPT !.claim = NoSw]
  /\ receipt' = [receipt EXCEPT ![q].status = status, ![q].run = p.run]
  /\ UNCHANGED <<st, stopFor, cornerLock, act>>

Landed(q) == [plane EXCEPT !.phase = "ready", !.game = receipt[q].to, !.run = @ + 1]
Commit(q)   == Settled(q, "succeeded", Landed(q))
RollBack(q) == Settled(q, "rolled", [plane EXCEPT !.phase = "ready", !.run = @ + 1])
Refuse(q)   == Settled(q, "refused", [plane EXCEPT !.phase = "ready"])
Break(q)    == CanBreak /\ Settled(q, "broken", [plane EXCEPT !.phase = "failed"])

(* A failed document takes no request; recovery restores the old runtime.  *)
Reject(q) == /\ plane.phase = "failed" /\ receipt[q].status = "queued"
             /\ receipt' = [receipt EXCEPT ![q].status = "refused"]
             /\ UNCHANGED <<plane, st, stopFor, cornerLock, act>>
Repair    == /\ plane.phase = "failed"
             /\ plane' = [plane EXCEPT !.phase = "ready", !.run = @ + 1]
             /\ UNCHANGED <<receipt, st, stopFor, cornerLock, act>>

PlaneStep == \/ Repair
             \/ \E q \in Sw : Claim(q) \/ Commit(q) \/ RollBack(q) \/ Refuse(q) \/ Break(q) \/ Reject(q)

-----------------------------------------------------------------------------
(* The locks and the result of a run                                       *)

At(p, pc) == act[p].pc = pc
Unlocked(p) == cornerLock = "none" \/ cornerLock = p
Goes(p, pc) == act' = [act EXCEPT ![p].pc = pc]

(* run_rotation, or the operator's stop, ends: by an answer or by raising. *)
Returns(p, res) ==
  /\ act' = [act EXCEPT ![p] = IF p = "operator" THEN Off ELSE [@ EXCEPT !.pc = "result", !.res = res]]
  /\ cornerLock' = IF cornerLock = p THEN "none" ELSE cornerLock

(* verify_runtime: the runtime that was bound is the one on the plane.     *)
Verified == plane.phase = "ready" /\ plane.game = st.corner /\ plane.run = st.run

Plane   == <<plane, receipt>>
Fail(code) == st' = [st EXCEPT !.status = "failed", !.code = code, !.never = FALSE]

-----------------------------------------------------------------------------
(* run_rotation: begin, or replay the same request                         *)

Mine(p)    == st.req = act[p].req
Entered(p) == At(p, "enter") /\ Unlocked(p)

Begin(p) ==
  /\ Entered(p) /\ ~Mine(p) /\ st.status \in Ended /\ plane.game # act[p].corner
  /\ st' = [st EXCEPT !.status = "starting", !.corner = act[p].corner, !.req = act[p].req,
                      !.prev = plane.game, !.sw = <<act[p].req, Start>>, !.run = 0, !.code = "none",
                      !.never = FALSE, !.late = FALSE, !.age = Cool, !.retry = 0]
  /\ cornerLock' = p /\ Goes(p, "submit")
  /\ UNCHANGED <<Plane, stopFor>>

Replays(p, status) == Entered(p) /\ Mine(p) /\ st.status = status

ReplayCompleted(p) == /\ Replays(p, "completed") /\ Returns(p, "completed")
                      /\ UNCHANGED <<Plane, st, stopFor>>

ReplayStart(p) == /\ Replays(p, "starting") /\ ~st.late
                  /\ cornerLock' = p /\ Goes(p, "resubmit")
                  /\ UNCHANGED <<Plane, st, stopFor>>

ReplayRestore(p) == /\ Replays(p, "restoring") /\ Verified
                    /\ cornerLock' = p /\ Goes(p, "restore")
                    /\ UNCHANGED <<Plane, st, stopFor>>

ReplayActive(p) == /\ Replays(p, "active") /\ Verified
                   /\ Goes(p, "play")
                   /\ UNCHANGED <<Plane, st, stopFor, cornerLock>>

(* Somebody has the lock, the file belongs to another run, the runtime is  *)
(* not the one that was bound, or the game is on the plane already.        *)
Raises(p) ==
  /\ At(p, "enter")
  /\ \/ ~Unlocked(p)
     \/ ~Mine(p) /\ (st.status \notin Ended \/ plane.game = act[p].corner)
     \/ Mine(p) /\ st.status \in {"idle", "interrupted", "failed"}
     \/ Mine(p) /\ st.status \in {"restoring", "active"} /\ ~Verified
  /\ Returns(p, "raise")
  /\ UNCHANGED <<Plane, st, stopFor>>

(* _expire_queued_start_locked: the slot of a start that is not known to   *)
(* have ended is over.  A receipt that is still queued is cancelled.       *)
StartRec == receipt[<<st.req, Start>>]
Late(p)  == Replays(p, "starting") /\ st.late

LateLanded(p) ==
  /\ Late(p) /\ StartRec.status = "succeeded" /\ plane.phase = "ready"
  /\ plane.game = st.corner /\ plane.run = StartRec.run
  /\ st' = [st EXCEPT !.status = "active", !.sw = NoSw, !.run = plane.run, !.late = FALSE, !.age = Cool]
  /\ Goes(p, "play")
  /\ UNCHANGED <<Plane, stopFor, cornerLock>>

Interrupt == st' = [st EXCEPT !.status = "interrupted", !.code = "none", !.never = TRUE]

LateEnded(p) ==
  /\ Late(p) /\ StartRec.status \in {"rolled", "refused"} /\ plane.phase = "ready" /\ plane.game = st.prev
  /\ Interrupt /\ Returns(p, "interrupted")
  /\ UNCHANGED <<Plane, stopFor>>

(* Mutant of LateCancelled: the claim of a driver is not looked at.        *)
LateCancelsClaimed(p) ==
  /\ Late(p) /\ StartRec.status = "queued"
  /\ receipt' = [receipt EXCEPT ![<<st.req, Start>>].status = "refused"]
  /\ Interrupt /\ Returns(p, "interrupted")
  /\ UNCHANGED <<plane, stopFor>>

LateCancelled(p) ==
  /\ Late(p) /\ StartRec.status = "queued" /\ plane.claim # <<st.req, Start>>
  /\ receipt' = [receipt EXCEPT ![<<st.req, Start>>].status = "refused"]
  /\ Interrupt /\ Returns(p, "interrupted")
  /\ UNCHANGED <<plane, stopFor>>

(* In flight, the lock is busy, or none of the proofs holds.               *)
LateUnknown(p) == /\ Late(p) /\ Returns(p, "queued")
                  /\ UNCHANGED <<Plane, st, stopFor>>

-----------------------------------------------------------------------------
(* The start switch and its answer                                         *)

Enqueue(q, to) ==
  receipt' = IF receipt[q].status = "none" THEN [receipt EXCEPT ![q].status = "queued", ![q].to = to] ELSE receipt

SubmitStart(p) == /\ act[p].pc \in {"submit", "resubmit"} /\ Enqueue(st.sw, st.corner)
                  /\ Goes(p, IF At(p, "submit") THEN "starting" ELSE "resuming")
                  /\ UNCHANGED <<plane, st, stopFor, cornerLock>>

Awaits(p)     == act[p].pc \in {"starting", "resuming", "restoring"}
Answered(p)   == receipt[st.sw].status
StillQueued(p) == /\ Awaits(p) /\ Answered(p) \notin Terminal
                  /\ Returns(p, "queued")
                  /\ UNCHANGED <<Plane, st, stopFor>>

SwitchFails(p) == /\ Awaits(p) /\ Answered(p) \in Terminal \ {"succeeded"}
                  /\ Fail(Answered(p)) /\ Returns(p, "raise")
                  /\ UNCHANGED <<Plane, stopFor>>

Starts(p) == act[p].pc \in {"starting", "resuming"} /\ Answered(p) = "succeeded"
Bound     == plane.phase = "ready" /\ plane.game = st.corner

GoOnAir(p) ==
  /\ Starts(p) /\ Bound
  /\ st' = [st EXCEPT !.status = "active", !.sw = NoSw, !.run = plane.run, !.late = FALSE, !.age = Cool]
  /\ Goes(p, "play") /\ cornerLock' = "none"
  /\ UNCHANGED <<Plane, stopFor>>

(* bind_runtime raises: inside the try of a first start, outside of it in  *)
(* a resumed one.                                                          *)
BindFails(p) ==
  /\ Starts(p) /\ ~Bound
  /\ IF At(p, "starting") THEN Fail("none") ELSE UNCHANGED st
  /\ Returns(p, "raise")
  /\ UNCHANGED <<Plane, stopFor>>

-----------------------------------------------------------------------------
(* Playing, and the end of it                                              *)

Requested == stopFor # NoReq

(* The slot is over, the matches are played, or a stop request is seen.    *)
Finish(p) ==
  /\ \/ At(p, "play") /\ st.status \in {"active"} \cup (IF Requested THEN {"restoring"} ELSE {})
     \/ At(p, "stop") /\ st.status \in {"active", "restoring"}
  /\ Unlocked(p) /\ Verified
  /\ st' = [st EXCEPT !.status = "restoring", !.sw = IF @ = NoSw THEN <<st.req, Restore>> ELSE @]
  /\ cornerLock' = p
  /\ act' = [act EXCEPT ![p].pc = "restore", ![p].stop = At(p, "play") /\ Requested]
  /\ UNCHANGED <<Plane, stopFor>>

FinishRaises(p) ==
  /\ \/ act[p].pc \in {"play", "stop"} /\ ~Unlocked(p)
     \/ act[p].pc \in {"play", "stop"} /\ st.status \in {"active", "restoring"} /\ ~Verified
  /\ Returns(p, "raise")
  /\ UNCHANGED <<Plane, st, stopFor>>

(* Somebody else has ended the run meanwhile.                              *)
PlayOver(p) ==
  /\ At(p, "play") /\ Unlocked(p) /\ st.status # "active"
  /\ Requested => st.status # "restoring"
  /\ IF Requested /\ st.status \in {"completed", "interrupted"}
     THEN act' = [act EXCEPT ![p].pc = "clear", ![p].res = st.status] /\ UNCHANGED cornerLock
     ELSE Returns(p, st.status)
  /\ UNCHANGED <<Plane, st, stopFor>>

NothingToStop(p) == /\ At(p, "stop") /\ Unlocked(p) /\ st.status \notin {"active", "restoring"}
                    /\ Returns(p, st.status)
                    /\ UNCHANGED <<Plane, st, stopFor>>

SubmitRestore(p) == /\ At(p, "restore") /\ Enqueue(st.sw, st.prev)
                    /\ Goes(p, "restoring")
                    /\ UNCHANGED <<plane, st, stopFor, cornerLock>>

Complete(p) ==
  /\ At(p, "restoring") /\ Answered(p) = "succeeded"
  /\ st' = [st EXCEPT !.status = "completed", !.sw = NoSw, !.code = "none", !.age = Cool]
  /\ IF act[p].stop
     THEN act' = [act EXCEPT ![p].pc = "clear", ![p].res = "completed"] /\ cornerLock' = "none"
     ELSE Returns(p, "completed")
  /\ UNCHANGED <<Plane, stopFor>>

ClearStop(p) == /\ At(p, "clear") /\ stopFor' = NoReq
                /\ Returns(p, act[p].res)
                /\ UNCHANGED <<Plane, st>>

RunStep(p) ==
  \/ Begin(p) \/ ReplayCompleted(p) \/ ReplayStart(p) \/ ReplayRestore(p) \/ ReplayActive(p) \/ Raises(p)
  \/ LateLanded(p) \/ LateEnded(p) \/ LateCancelled(p) \/ LateUnknown(p)
  \/ SubmitStart(p) \/ StillQueued(p) \/ SwitchFails(p) \/ GoOnAir(p) \/ BindFails(p)
  \/ Finish(p) \/ FinishRaises(p) \/ PlayOver(p) \/ NothingToStop(p)
  \/ SubmitRestore(p) \/ Complete(p) \/ ClearStop(p)

-----------------------------------------------------------------------------
(* What the rotation asks of the file of a run that has failed             *)

(* reconcile_failed_rotation_start: the switch ended before the corner was *)
(* on air, and the game of before is stable again.                         *)
StartNeverLanded(r) ==
  /\ cornerLock = "none" /\ st.req = r /\ st.sw = <<r, Start>>
  /\ \/ st.status = "starting" /\ StartRec.status = "rolled"
     \/ st.status = "interrupted" /\ st.never /\ StartRec.status = "rolled"
     \/ st.status = "failed" /\ st.code \in {"rolled", "broken"} /\ StartRec.status = st.code
  /\ plane.phase = "ready" /\ plane.game = st.prev

(* _terminalize_prelaunch_quiesce_failure                                  *)
RefusedBeforeLaunch(r) ==
  /\ cornerLock = "none" /\ st.req = r /\ st.sw = <<r, Start>> /\ st.status = "failed"
  /\ st.code = "refused" /\ plane.phase = "ready" /\ plane.game # st.corner

FinishedOwner(r) == st.req = r /\ st.status \in Ended \cup {"failed"}
Leftover(r, c)   == plane.game = c /\ FinishedOwner(r)

(* _slot_reusable: the plane holds nothing of this request.                *)
(* Mutant of SlotReusable: a corner that has ended keeps the plane.        *)
ReusableAway(r, c) == /\ plane.phase = "ready" /\ plane.game # c
                      /\ receipt[<<r, Start>>].status \notin {"queued"}

SlotReusable(r, c) ==
  /\ plane.phase = "ready"
  /\ plane.game = c => FinishedOwner(r)
  /\ receipt[<<r, Start>>].status \notin {"queued"}

(* recover_failed_restore applies to a run whose restore has failed.       *)
RestoreFailed(r) == /\ st.req = r /\ st.status = "failed"
                    /\ st.sw = <<r, Restore>> /\ receipt[st.sw].status \in Terminal \ {"succeeded"}

-----------------------------------------------------------------------------
(* Time and the death of processes                                         *)

Overrun == /\ st.status \in {"starting", "active"} /\ ~st.late
           /\ st' = [st EXCEPT !.late = TRUE]
           /\ UNCHANGED <<Plane, stopFor, cornerLock, act>>
=============================================================================
