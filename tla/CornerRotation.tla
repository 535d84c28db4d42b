--------------------------- MODULE CornerRotation ---------------------------
(***************************************************************************)
(* The rotation of the corners: one ledger, worked on by whoever has the   *)
(* rotation lock, mostly a timer's tick that holds it for a whole corner.  *)
(*                                                                         *)
(* Manual requests arrive in an inbox with a lock of its own.  The ledger  *)
(* is written ahead of every effect; what is neither in it nor in the      *)
(* state file of the corner is lost when the process dies.                 *)
(***************************************************************************)
EXTENDS RetroRun

CONSTANTS Manual,   \* the requests an operator may make
          Pausable, \* the corners an operator may pause
          MaxSlot,  \* bound: automatic reservations start below this slot
          Crashes,  \* bound: deaths of processes
          Stops     \* bound: stops asked for by operators

ASSUME RotationAssumption == /\ {MaxSlot, Crashes, Stops} \subseteq Nat /\ Pausable \subseteq Corner
                             /\ Req = 1..MaxSlot \cup Manual
                             /\ \A m \in Manual : m \notin 1..MaxSlot

VARIABLES
  ledger,    \* the rotation ledger on disk
  mem,       \* the copy the holder of the rotation lock works on
  inbox,     \* the manual queue: one request, or none
  paused,    \* the corners that are paused
  due,       \* scheduled requests whose time has come
  rotLock,   \* who has the rotation lock
  accepted,  \* manual requests that were answered "queued" or "scheduled"
  cancelled, \* scheduled requests that were answered "cancelled"
  served,    \* requests whose reservation has been settled
  used,      \* of each corner: what is left of its cooldown since it was on air
  crashes, stops

rotVars == <<ledger, mem, inbox, paused, due, rotLock, accepted, cancelled, served, used, crashes, stops>>
vars    == <<retroVars, rotVars>>

NoPending == [req |-> NoReq, corner |-> Base, phase |-> "none"]
NoRequest == [req |-> NoReq, corner |-> Base, timed |-> FALSE]
Pendings  == [req : Req \cup {NoReq}, corner : Game, phase : {"none", "selected", "dispatched"}]
Requests  == [req : Manual \cup {NoReq}, corner : Game, timed : BOOLEAN]

Ledgers == [status : {"ready", "waiting", "running", "recovery_required"}, pending : Pendings,
            queued : Requests, hist : [Corner -> 0..Cool], rel : SUBSET Req, tries : 0..Tries, slot : Nat]

(* A running ledger names the request that runs (load refuses any other).  *)
TypeOK ==
  /\ RetroTypeOK
  /\ ledger \in Ledgers /\ mem \in Ledgers
  /\ ledger.status = "running" => ledger.pending # NoPending
  /\ inbox \in Requests /\ due \subseteq Manual /\ paused \subseteq Pausable
  /\ rotLock \in Actors \cup {"none"}
  /\ accepted \subseteq Manual /\ cancelled \subseteq Manual /\ served \subseteq Req
  /\ used \in [Corner -> 0..Cool] /\ crashes \in 0..Crashes /\ stops \in 0..Stops

Init ==
  /\ RetroInit
  /\ ledger = [status |-> "ready", pending |-> NoPending, queued |-> NoRequest,
               hist |-> [c \in Corner |-> 0], rel |-> {}, tries |-> 0, slot |-> 0]
  /\ mem = ledger /\ inbox = NoRequest /\ due = {} /\ paused = {} /\ rotLock = "none"
  /\ accepted = {} /\ cancelled = {} /\ served = {} /\ used = [c \in Corner |-> 0]
  /\ crashes = 0 /\ stops = 0

Ghosts  == <<accepted, cancelled, used, crashes, stops>>
Outside == <<inbox, paused, due>>
Pending == mem.pending
H(pc)   == At("holder", pc)

(* The holder writes its copy, and goes on or gives the lock back.         *)
Saves(m) == ledger' = m /\ mem' = m
Go(pc)   == /\ IF pc = "off" THEN act' = [act EXCEPT !.holder = Off] ELSE Goes("holder", pc)
            /\ rotLock' = IF pc = "off" THEN "none" ELSE rotLock
Waits    == Saves([mem EXCEPT !.status = "waiting"]) /\ Go("off")

-----------------------------------------------------------------------------
(* tick: the lock, the latch                                               *)

Tick ==
  /\ rotLock = "none" /\ H("off")
  /\ rotLock' = "holder" /\ mem' = ledger
  /\ Goes("holder", IF ledger.status = "recovery_required" THEN "latched" ELSE "import")
  /\ UNCHANGED <<Plane, st, stopFor, cornerLock, ledger, Outside, served, Ghosts>>

(* The corner's file is terminalized first, the ledger in a later write.   *)
Reconciles(from, to) ==
  /\ H(from) /\ Pending # NoPending /\ StartNeverLanded(Pending.req)
  /\ Interrupt /\ Go(to)
  /\ UNCHANGED <<Plane, stopFor, cornerLock, ledger, mem, Outside, served, Ghosts>>

LatchReconciled == Reconciles("latched", "settle")
Reconciled      == Reconciles("failed", "resolve")

Closed(m) == [m EXCEPT !.pending = NoPending, !.hist[m.pending.corner] = Cool, !.tries = 0]

ResolveReservation ==
  /\ act.holder.pc \in {"resolve", "settle"}
  /\ Saves([Closed(mem) EXCEPT !.status = "ready"])
  /\ served' = served \cup {Pending.req}
  /\ Go(IF H("settle") THEN "import" ELSE "off")
  /\ UNCHANGED <<Plane, st, stopFor, cornerLock, Outside, Ghosts>>

(* _release_failed_corner: the plane holds nothing of the request.         *)
(* Mutant of Releases: the ledger keeps its status.                        *)
ReleasesRunning(to) ==
  /\ Saves([Closed(mem) EXCEPT !.rel = @ \cup {Pending.req}])
  /\ served' = served \cup {Pending.req}
  /\ Go(to)

Releases(to) ==
  /\ Saves([Closed(mem) EXCEPT !.status = "waiting", !.rel = @ \cup {Pending.req}])
  /\ served' = served \cup {Pending.req}
  /\ Go(to)

Unproved(r) == ~StartNeverLanded(r)
ReplayDue   == /\ Leftover(Pending.req, Pending.corner) /\ RestoreFailed(Pending.req)
               /\ cornerLock = "none" /\ mem.tries < Tries

(* The timer's own restore of a corner whose end has failed: a new switch  *)
(* request, recorded in the corner's file first.                           *)
LatchReplay ==
  /\ H("latched") /\ Pending # NoPending /\ Unproved(Pending.req) /\ ReplayDue
  /\ mem' = [mem EXCEPT !.tries = @ + 1]
  /\ LET k == IF st.retry = 0 \/ receipt[<<st.req, Restore + st.retry>>].status \in Terminal
              THEN st.retry + 1 ELSE st.retry
     IN IF plane.phase = "ready" /\ k <= Tries
        THEN st' = [st EXCEPT !.retry = k] /\ Enqueue(<<st.req, Restore + k>>, st.prev)
        ELSE UNCHANGED <<st, receipt>>
  /\ Go("replay")
  /\ UNCHANGED <<plane, stopFor, cornerLock, ledger, Outside, served, Ghosts>>

ReplayAnswered ==
  /\ H("replay")
  /\ IF receipt[<<st.req, Restore + st.retry>>].status = "succeeded"
     THEN st' = [st EXCEPT !.status = "interrupted", !.never = FALSE] ELSE UNCHANGED st
  /\ IF SlotReusable(Pending.req, Pending.corner)
     THEN Releases("import") ELSE Saves(mem) /\ Go("off") /\ UNCHANGED served
  /\ UNCHANGED <<Plane, stopFor, cornerLock, Outside, Ghosts>>

LatchReleased ==
  /\ H("latched") /\ Pending # NoPending /\ Unproved(Pending.req) /\ ~ReplayDue
  /\ SlotReusable(Pending.req, Pending.corner)
  /\ Releases("import")
  /\ UNCHANGED <<Plane, st, stopFor, cornerLock, Outside, Ghosts>>

LatchStays ==
  /\ H("latched") /\ Unproved(Pending.req) /\ ~ReplayDue
  /\ Pending = NoPending \/ ~SlotReusable(Pending.req, Pending.corner)
  /\ Saves(mem) /\ Go("off")
  /\ UNCHANGED <<Plane, st, stopFor, cornerLock, Outside, served, Ghosts>>

-----------------------------------------------------------------------------
(* _import_manual_queue, under the inbox lock                              *)

Waiting(r) == r # NoRequest /\ r.timed /\ r.req \notin due

ImportNothing ==
  /\ H("import") /\ (inbox = NoRequest \/ Waiting(inbox))
  /\ act' = [act EXCEPT !.holder.pc = "observe", !.holder.corner = inbox.corner]
  /\ UNCHANGED <<Plane, st, stopFor, cornerLock, ledger, mem, Outside, rotLock, served, Ghosts>>

Importable == H("import") /\ inbox # NoRequest /\ ~Waiting(inbox)

(* Another request in the ledger would be refused: see OneManual.          *)
(* Mutant of ImportSave: the inbox is emptied before the ledger is saved.  *)
ImportBeforeSave ==
  /\ Importable /\ mem.queued \in {NoRequest, inbox}
  /\ mem' = [mem EXCEPT !.queued = inbox] /\ inbox' = NoRequest /\ Go("unlink")
  /\ UNCHANGED <<Plane, st, stopFor, cornerLock, ledger, paused, due, served, Ghosts>>

ImportSave ==
  /\ Importable /\ mem.queued \in {NoRequest, inbox}
  /\ Saves([mem EXCEPT !.queued = inbox]) /\ Go("unlink")
  /\ UNCHANGED <<Plane, st, stopFor, cornerLock, Outside, served, Ghosts>>

ImportUnlink ==
  /\ H("unlink") /\ inbox' = NoRequest
  /\ act' = [act EXCEPT !.holder.pc = "observe", !.holder.corner = Base]
  /\ UNCHANGED <<Plane, st, stopFor, cornerLock, ledger, mem, paused, due, rotLock, served, Ghosts>>

-----------------------------------------------------------------------------
(* _observe: the corners' file, and the retirement of a released failure   *)

Foreign   == st.status \in BUSY /\ st.req # Pending.req
LetGo     == st.req \in mem.rel /\ SlotReusable(st.req, st.corner)
Retires   == \/ RefusedBeforeLaunch(st.req)
             \/ st.code = "broken" /\ st.status = "failed" /\ StartNeverLanded(st.req)
Seen      == [mem EXCEPT !.hist = [c \in Corner |-> IF c = st.corner /\ st.age > @[c] THEN st.age ELSE @[c]]]

Observe ==
  /\ H("observe") /\ (Foreign => LetGo /\ ~Retires)
  /\ mem' = Seen /\ Go("choose")
  /\ UNCHANGED <<Plane, st, stopFor, cornerLock, ledger, Outside, served, Ghosts>>

(* settle_released_failure: the stop request goes first.                   *)
ObserveRetired ==
  /\ H("observe") /\ Foreign /\ LetGo /\ Retires
  /\ Interrupt /\ stopFor' = NoReq
  /\ mem' = Seen /\ Go("choose")
  /\ UNCHANGED <<Plane, cornerLock, ledger, Outside, served, Ghosts>>

ObserveBusy ==
  /\ H("observe") /\ Foreign /\ ~LetGo
  /\ Saves([Seen EXCEPT !.status = "waiting"]) /\ Go("off")
  /\ UNCHANGED <<Plane, st, stopFor, cornerLock, Outside, served, Ghosts>>

-----------------------------------------------------------------------------
(* Reservation and dispatch                                                *)

(* Mutant of Cooled: the last unit of the cooldown is not waited for.      *)
CooledEarly == {c \in Corner : mem.hist[c] <= 1}

(* A file that a released run still holds keeps its corners out.           *)
Eligible == IF Foreign THEN {} ELSE Corner \ paused
Cooled   == {c \in Corner : mem.hist[c] = 0}
Reserves(r, c) == Saves([mem EXCEPT !.pending = [req |-> r, corner |-> c, phase |-> "selected"],
                                    !.slot = @ + 1, !.queued = IF @.req = r THEN NoRequest ELSE @])

ReserveManual ==
  /\ H("choose") /\ Pending = NoPending /\ mem.queued # NoRequest
  /\ mem.queued.corner \in Eligible
  /\ Reserves(mem.queued.req, mem.queued.corner) /\ Go("dispatch")
  /\ UNCHANGED <<Plane, st, stopFor, cornerLock, Outside, served, Ghosts>>

AutoCandidates == (Eligible \cap Cooled) \ {act.holder.corner}

ReserveAuto ==
  /\ H("choose") /\ Pending = NoPending /\ mem.queued = NoRequest /\ mem.slot < MaxSlot
  /\ \E c \in AutoCandidates : Reserves(mem.slot + 1, c)
  /\ Go("dispatch")
  /\ UNCHANGED <<Plane, st, stopFor, cornerLock, Outside, served, Ghosts>>

NothingToReserve ==
  /\ H("choose") /\ Pending = NoPending
  /\ IF mem.queued = NoRequest THEN AutoCandidates = {} \/ mem.slot >= MaxSlot
                               ELSE mem.queued.corner \notin Eligible
  /\ Waits
  /\ UNCHANGED <<Plane, st, stopFor, cornerLock, Outside, served, Ghosts>>

Fresh == Pending.phase = "selected"
Resumable == /\ Pending.corner \in Eligible \/ (st.req = Pending.req /\ ~Fresh)
             /\ Fresh => Pending.req \in Manual \/ Pending.corner \in Cooled

ResumePending ==
  /\ H("choose") /\ Pending # NoPending /\ Resumable
  /\ Go("dispatch")
  /\ UNCHANGED <<Plane, st, stopFor, cornerLock, ledger, mem, Outside, served, Ghosts>>

ResumeWaits ==
  /\ H("choose") /\ Pending # NoPending /\ ~Resumable
  /\ Waits
  /\ UNCHANGED <<Plane, st, stopFor, cornerLock, Outside, served, Ghosts>>

(* The corner's use counts from here, whatever becomes of the start.       *)
Dispatch ==
  /\ H("dispatch")
  /\ Saves([mem EXCEPT !.status = "running", !.pending.phase = "dispatched",
                       !.hist[Pending.corner] = IF Fresh THEN Cool ELSE @])
  /\ Go("execute")
  /\ UNCHANGED <<Plane, st, stopFor, cornerLock, Outside, served, Ghosts>>

-----------------------------------------------------------------------------
(* CornerExecutionCoordinator.execute, and what the result does            *)

ExecuteRun ==
  /\ H("execute") /\ plane.phase # "failed"
  /\ act' = [act EXCEPT !.holder = [Off EXCEPT !.pc = "enter", !.req = Pending.req, !.corner = Pending.corner]]
  /\ UNCHANGED <<Plane, st, stopFor, cornerLock, ledger, mem, Outside, rotLock, served, Ghosts>>

ExecuteRefused ==
  /\ H("execute") /\ plane.phase = "failed"
  /\ Go("failed")
  /\ UNCHANGED <<Plane, st, stopFor, cornerLock, ledger, mem, Outside, served, Ghosts>>

(* The program slot or the coordinator's lock was not free in time.        *)
ExecuteQueued ==
  /\ H("execute")
  /\ Waits
  /\ UNCHANGED <<Plane, st, stopFor, cornerLock, Outside, served, Ghosts>>

Result(res) == H("result") /\ act.holder.res = res

RunCompleted ==
  /\ Result("completed")
  /\ Saves([Closed(mem) EXCEPT !.status = "ready"])
  /\ served' = served \cup {Pending.req}
  /\ Go("off")
  /\ UNCHANGED <<Plane, st, stopFor, cornerLock, Outside, Ghosts>>

(* Mutant of RunQueued: a start that is queued counts as done.             *)
RunQueuedDone ==
  /\ Result("queued")
  /\ Saves([Closed(mem) EXCEPT !.status = "ready"])
  /\ served' = served \cup {Pending.req}
  /\ Go("off")
  /\ UNCHANGED <<Plane, st, stopFor, cornerLock, Outside, Ghosts>>

RunQueued ==
  /\ Result("queued") /\ Waits
  /\ UNCHANGED <<Plane, st, stopFor, cornerLock, Outside, served, Ghosts>>

Abandonable == SlotReusable(Pending.req, Pending.corner) /\ ~Leftover(Pending.req, Pending.corner)

RunReleased ==
  /\ \/ H("result") /\ ~Result("completed") /\ ~Result("queued") /\ ~Result("raise")
     \/ H("failed") /\ Unproved(Pending.req)
  /\ Abandonable /\ Releases("off")
  /\ UNCHANGED <<Plane, st, stopFor, cornerLock, Outside, Ghosts>>

RunFailed ==
  /\ \/ Result("raise")
     \/ H("result") /\ ~Result("completed") /\ ~Result("queued") /\ ~Abandonable
  /\ Go("failed")
  /\ UNCHANGED <<Plane, st, stopFor, cornerLock, ledger, mem, Outside, served, Ghosts>>

Latch ==
  /\ H("failed") /\ Unproved(Pending.req) /\ ~Abandonable
  /\ Saves([mem EXCEPT !.status = "recovery_required"]) /\ Go("off")
  /\ UNCHANGED <<Plane, st, stopFor, cornerLock, Outside, served, Ghosts>>

-----------------------------------------------------------------------------
(* recover: the operator's way out of a latch                              *)

Recoverable == rotLock = "none" /\ H("off") /\ ledger.status = "recovery_required"

RecoverReconciled ==
  /\ Recoverable /\ ledger.pending # NoPending /\ StartNeverLanded(ledger.pending.req)
  /\ Interrupt
  /\ rotLock' = "holder" /\ mem' = ledger /\ Goes("holder", "resolve")
  /\ UNCHANGED <<Plane, stopFor, cornerLock, ledger, Outside, served, Ghosts>>

(* The run has ended, or has left no trace; a busy one keeps the latch.    *)
RecoverResolved ==
  /\ Recoverable
  /\ LET r == ledger.pending.req
     IN /\ Unproved(r)
        /\ \/ /\ st.req = r /\ r # NoReq /\ st.status \in Ended
              /\ Saves([Closed(ledger) EXCEPT !.status = "ready"])
              /\ served' = served \cup {r}
           \/ /\ st.req # r \/ r = NoReq
              /\ Saves([ledger EXCEPT !.status = "waiting"])
              /\ UNCHANGED served
  /\ UNCHANGED <<retroVars, Outside, rotLock, Ghosts>>

-----------------------------------------------------------------------------
(* Operators: the inbox, and the stop of a corner                          *)

InboxFree == ~H("unlink")

(* Mutant of QueueManual: only the inbox is looked at.                     *)
QueueManualTwice(m, c, timed) ==
  /\ InboxFree /\ m \notin accepted /\ ledger.status # "recovery_required" /\ inbox = NoRequest
  /\ inbox' = [req |-> m, corner |-> c, timed |-> timed]
  /\ accepted' = accepted \cup {m}
  /\ UNCHANGED <<retroVars, ledger, mem, paused, due, rotLock, cancelled, served, used, crashes, stops>>

QueueManual(m, c, timed) ==
  /\ InboxFree /\ m \notin accepted /\ ledger.status # "recovery_required"
  /\ inbox = NoRequest /\ ledger.queued = NoRequest
  /\ timed \/ (ledger.pending.req \notin Manual /\ ledger.pending.corner # c)
  /\ inbox' = [req |-> m, corner |-> c, timed |-> timed]
  /\ accepted' = accepted \cup {m}
  /\ UNCHANGED <<retroVars, ledger, mem, paused, due, rotLock, cancelled, served, used, crashes, stops>>

TriggerPasses(m) == /\ m \in accepted \ due /\ due' = due \cup {m}
                    /\ UNCHANGED <<retroVars, ledger, mem, inbox, paused, rotLock, served, Ghosts>>

CancelScheduled ==
  /\ InboxFree /\ inbox # NoRequest /\ inbox.timed
  /\ inbox' = NoRequest /\ cancelled' = cancelled \cup {inbox.req}
  /\ UNCHANGED <<retroVars, ledger, mem, paused, due, rotLock, accepted, served, used, crashes, stops>>

Pause(c)  == /\ paused' = IF c \in paused THEN paused \ {c} ELSE paused \cup {c}
             /\ UNCHANGED <<retroVars, ledger, mem, inbox, due, rotLock, served, Ghosts>>

O(pc) == At("operator", pc)

(* stop_manual: under the rotation lock, or beside the process that has it *)
StopManual ==
  /\ O("off") /\ stops < Stops /\ stops' = stops + 1
  /\ rotLock' = IF rotLock = "none" THEN "operator" ELSE rotLock
  /\ act' = [act EXCEPT !.operator.pc = IF rotLock # "none" /\ st.status = "starting" THEN "mark" ELSE "stop",
                        !.operator.req = st.req]
  /\ UNCHANGED <<Plane, st, stopFor, cornerLock, ledger, mem, Outside, served, accepted, cancelled, used, crashes>>

WriteStop ==
  /\ O("mark") /\ stopFor' = act.operator.req
  /\ act' = [act EXCEPT !.operator = Off]
  /\ UNCHANGED <<Plane, st, cornerLock, ledger, mem, Outside, rotLock, served, Ghosts>>

Run(p) == /\ RunStep(p)
          /\ rotLock' = IF p = "operator" /\ rotLock = p /\ act'[p].pc = "off" THEN "none" ELSE rotLock
          /\ UNCHANGED <<ledger, mem, Outside, served, Ghosts>>

-----------------------------------------------------------------------------
(* The environment                                                         *)

Less(n) == IF n = 0 THEN 0 ELSE n - 1
Aged(h) == [c \in Corner |-> Less(h[c])]

(* A cooldown counts from the time a corner leaves the air.                *)
Day ==
  /\ Cool > 0
  /\ ledger' = [ledger EXCEPT !.hist = Aged(@)] /\ mem' = [mem EXCEPT !.hist = Aged(@)]
  /\ st' = [st EXCEPT !.age = Less(@), !.late = st.status \in {"starting", "active"}]
  /\ used' = [c \in Corner |-> IF plane.game = c THEN used[c] ELSE Less(used[c])]
  /\ UNCHANGED <<Plane, stopFor, cornerLock, act, Outside, rotLock, served, accepted, cancelled, crashes, stops>>

PlaneMoves ==
  /\ PlaneStep
  /\ used' = [c \in Corner |-> IF plane.game = c \/ plane'.game = c THEN Cool ELSE used[c]]
  /\ UNCHANGED <<ledger, mem, Outside, rotLock, served, accepted, cancelled, crashes, stops>>

SlotOver == Overrun /\ UNCHANGED rotVars

Crash(p) ==
  /\ act[p].pc # "off" /\ crashes < Crashes /\ crashes' = crashes + 1
  /\ act' = [act EXCEPT ![p] = Off]
  /\ cornerLock' = IF cornerLock = p THEN "none" ELSE cornerLock
  /\ rotLock' = IF rotLock = p THEN "none" ELSE rotLock
  /\ UNCHANGED <<Plane, st, stopFor, ledger, mem, Outside, served, accepted, cancelled, used, stops>>

-----------------------------------------------------------------------------
HolderStep ==
  \/ LatchReconciled \/ Reconciled \/ ResolveReservation \/ LatchReplay \/ ReplayAnswered
  \/ LatchReleased \/ LatchStays
  \/ ImportNothing \/ ImportSave \/ ImportUnlink
  \/ Observe \/ ObserveRetired \/ ObserveBusy
  \/ ReserveManual \/ ReserveAuto \/ NothingToReserve \/ ResumePending \/ ResumeWaits \/ Dispatch
  \/ ExecuteRun \/ ExecuteRefused \/ ExecuteQueued
  \/ RunCompleted \/ RunQueued \/ RunReleased \/ RunFailed \/ Latch

Next ==
  \/ Tick \/ HolderStep \/ \E p \in Actors : Run(p) \/ Crash(p)
  \/ RecoverReconciled \/ RecoverResolved
  \/ \E m \in Manual : TriggerPasses(m) \/ \E c \in Corner, timed \in BOOLEAN : QueueManual(m, c, timed)
  \/ CancelScheduled \/ (\E c \in Pausable : Pause(c)) \/ StopManual \/ WriteStop
  \/ Day \/ PlaneMoves \/ SlotOver

Spec == Init /\ [][Next]_vars

LateDecided == /\ LateLanded("holder") \/ LateEnded("holder") \/ LateCancelled("holder")
               /\ UNCHANGED rotVars

(* The timer fires again, a process that runs goes on, a drain ends, and   *)
(* neither the program slot nor the coordinator's lock is taken at every   *)
(* attempt.                                                                *)
Fairness == /\ WF_vars(Tick) /\ WF_vars(HolderStep) /\ SF_vars(ExecuteRun) /\ SF_vars(LateDecided)
            /\ \A p \in Actors : WF_vars(Run(p))
            /\ WF_vars(PlaneMoves) /\ WF_vars(WriteStop)

FairSpec == Spec /\ Fairness

-----------------------------------------------------------------------------
(* Properties                                                              *)

Places(m) == {r \in {inbox.req, ledger.queued.req, ledger.pending.req} : r = m}

(* A manual request that was accepted is in the inbox, in the ledger's     *)
(* queue or reserved until its reservation is settled or it is cancelled,  *)
(* wherever processes die.                                                 *)
ManualKept == \A m \in accepted \ (served \cup cancelled) : Places(m) # {}

(* Two requests never wait at once, whichever of the two places an import  *)
(* that dies half-way has left one in.                                     *)
OneManual == inbox # NoRequest /\ ledger.queued # NoRequest => ledger.queued = inbox

(* What the operator was told is cancelled is not reserved any more.       *)
CancelledNeverRuns == [][\A m \in cancelled : ledger'.pending.req = m => ledger.pending.req = m]_vars

(* An automatic start brings no corner on air within the cooldown of its   *)
(* last use, dispatches and crashes in between included.                   *)
CooldownRespected ==
  [][\A r \in Req \ Manual, c \in Corner :
       (plane.claim = <<r, Start>> /\ plane'.game = c /\ plane.game # c) => used[c] = 0]_vars

(* A corner that is on the plane has an unfinished run in the file.        *)
OnAirAccounted == plane.game \in Corner => st.corner = plane.game /\ st.status \in BUSY

(* An unfinished run is the one the ledger has reserved, or it has been    *)
(* released on proof: nobody else's run is under way.                      *)
RunReserved == st.status \in BUSY => st.req = ledger.pending.req \/ st.req \in ledger.rel

(* A stop request ends the run it was written for and no other.            *)
StopNotCarriedOver == [][\A p \in Actors : act'[p].stop /\ ~act[p].stop => stopFor = st.req]_vars

(* Every reservation is settled: the run comes to its end, or is proved to *)
(* have left the plane; unless it is stuck giving the plane back, which is *)
(* RestoreFinished's matter.                                               *)
ReservationSettled == (ledger.pending # NoPending) ~> (ledger.pending = NoPending \/ st.status = "restoring")

(* A run that has begun to give the plane back is finished.                *)
RestoreFinished == (st.status = "restoring") ~> (st.status # "restoring")
=============================================================================
