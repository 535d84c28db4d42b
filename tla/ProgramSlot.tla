---------------------------- MODULE ProgramSlot ----------------------------
(***************************************************************************)
(* The programme: one corner of the channel at a time, whichever process   *)
(* runs it.                                                                *)
(*                                                                         *)
(* A corner waits for a boundary, then for its turn.  The turn is taken    *)
(* under a file lock, but the lock dies with its process, so that what     *)
(* holds the programme is the registry: it names the state file of a       *)
(* corner, and that file says whether the run is over.  A row per corner   *)
(* says who waits, and since when.                                         *)
(***************************************************************************)
EXTENDS Naturals, FiniteSets

CONSTANTS Corner, NoCorner,
          Returning, \* corners that come back with the same request until it is over
          Polite,    \* corners that ask only when they find nobody before them
          Views,     \* corners whose failure may be refuted by what is on air
          Mortal,    \* corners whose process may be killed
          MaxAsks,   \* bound: requests
          Kills      \* bound: processes killed

ASSUME SlotAssumption == /\ NoCorner \notin Corner /\ {MaxAsks, Kills} \subseteq Nat
                         /\ Returning \cup Polite \cup Views \cup Mortal \subseteq Corner

VARIABLES
  pc,       \* of each corner: where its process is
  req,      \* of each corner: the time of the request it has not settled, or 0
  row,      \* of each corner: its file in the queue directory
  file,     \* of each corner: the status of its own state file
  flock,    \* who has docich_program.lock
  registry, \* whose state file docich_program_active.json names
  letGo,    \* corners whose unfinished run was released, or seen to be over
  ahead,    \* of each corner: the ones that were in line before it joined
  asks, kills

vars == <<pc, req, row, file, flock, registry, letGo, ahead, asks, kills>>

Locked   == {"owner", "rows", "gate", "mark", "body", "running"}
Waiting  == {"boundary", "turn"}

(* The row of a corner that does not wait: nobody reads how it ended.      *)
NoRow   == [status |-> "over", at |-> 0, old |-> FALSE]

TypeOK ==
  /\ pc \in [Corner -> {"off"} \cup Waiting \cup Locked]
  /\ req \in [Corner -> 0..MaxAsks]
  /\ row \in [Corner -> [status : {"over"} \cup Waiting, at : 0..MaxAsks, old : BOOLEAN]]
  /\ file \in [Corner -> {"ended", "busy", "failed"}]
  /\ flock \in Corner \cup {NoCorner} /\ registry \in Corner \cup {NoCorner}
  /\ letGo \subseteq Corner /\ ahead \in [Corner -> SUBSET Corner]
  /\ asks \in 0..MaxAsks /\ kills \in 0..Kills
  /\ \A c \in Corner : pc[c] \in Locked <=> flock = c

Init ==
  /\ pc = [c \in Corner |-> "off"] /\ req = [c \in Corner |-> 0]
  /\ row = [c \in Corner |-> NoRow]
  /\ file = [c \in Corner |-> "ended"]
  /\ flock = NoCorner /\ registry = NoCorner
  /\ letGo = {} /\ ahead = [c \in Corner |-> {}]
  /\ asks = 0 /\ kills = 0

(* A run that has begun and is neither over nor given up.                  *)
Occupies(c) == file[c] # "ended" /\ c \notin letGo

At(c, p)  == pc[c] = p
Goes(c, p) == pc' = [pc EXCEPT ![c] = p]

(* c is not in line any more, whoever was behind it.                       *)
LeftLine(c)  == ahead' = [d \in Corner |-> IF d = c THEN {} ELSE ahead[d] \ {c}]
OutOfLine(c) == row' = [row EXCEPT ![c] = NoRow] /\ LeftLine(c)

(* A caller that does not come back takes its request with it.             *)
Forgets(c, over) == req' = IF over \/ c \notin Returning THEN [req EXCEPT ![c] = 0] ELSE req

-----------------------------------------------------------------------------
(* program_slot: the boundary, then the turn                               *)

(* Mutant of OwnerFree: "failed" is not among the busy statuses.           *)
OwnerFreeFailed(c) == registry \notin {NoCorner, c} => file[registry] # "busy"
OwnerFree(c) == registry \notin {NoCorner, c} => file[registry] = "ended"

(* A failed view counts as over while what it replaced is on air again.    *)
OwnerRecovered(c) == registry \in Views \ {c} /\ file[registry] = "failed"

(* other_corner_busy: nobody has the lock, the programme or a fresh row.   *)
Alone(c) == /\ flock = NoCorner /\ (OwnerFree(c) \/ OwnerRecovered(c))
            /\ \A d \in Corner \ {c} : row[d].status \in Waiting => row[d].old

Ask(c) ==
  /\ At(c, "off")
  /\ \/ req[c] # 0 /\ UNCHANGED <<req, asks>>
     \/ req[c] = 0 /\ asks < MaxAsks /\ (c \in Polite => Alone(c))
        /\ asks' = asks + 1 /\ req' = [req EXCEPT ![c] = asks']
  /\ row' = [row EXCEPT ![c] = [status |-> "boundary", at |-> req'[c], old |-> @.old /\ @.at = req'[c]]]
  /\ Goes(c, "boundary") /\ LeftLine(c)
  /\ UNCHANGED <<file, flock, registry, letGo, kills>>

Earlier(d, c) == row[d].at < row[c].at
InLine(d)     == row[d].status = "turn"

BoundaryReady(c) ==
  /\ At(c, "boundary")
  /\ row' = [row EXCEPT ![c].status = "turn"] /\ Goes(c, "turn")
  /\ ahead' = [ahead EXCEPT ![c] = {d \in Corner \ {c} : InLine(d) /\ Earlier(d, c)}]
  /\ UNCHANGED <<req, file, flock, registry, letGo, asks, kills>>

(* The deadline has passed, or the wait is broken off.                     *)
WaitEnds(c) ==
  /\ pc[c] \in Waiting
  /\ Forgets(c, FALSE) /\ Goes(c, "off") /\ OutOfLine(c)
  /\ UNCHANGED <<file, flock, registry, letGo, asks, kills>>

-----------------------------------------------------------------------------
(* _program_slot: one poll, under the lock                                 *)

TakeLock(c) ==
  /\ At(c, "turn") /\ flock = NoCorner
  /\ flock' = c /\ Goes(c, "owner")
  /\ UNCHANGED <<req, row, file, registry, letGo, ahead, asks, kills>>

Passes(c, p) == /\ Goes(c, p)
                /\ UNCHANGED <<req, row, file, flock, registry, letGo, ahead, asks, kills>>

(* Mutant of BacksOff: the lock file is left open.                         *)
BacksOffLocked(c) == /\ Goes(c, "turn")
                     /\ UNCHANGED <<req, row, file, flock, registry, letGo, ahead, asks, kills>>

BacksOff(c) == /\ Goes(c, "turn") /\ flock' = NoCorner
               /\ UNCHANGED <<req, row, file, registry, letGo, ahead, asks, kills>>

OwnerIsFree(c) == At(c, "owner") /\ (OwnerFree(c) \/ OwnerRecovered(c)) /\ Passes(c, "rows")
OwnerIsBusy(c) == At(c, "owner") /\ ~OwnerFree(c) /\ BacksOff(c)

(* Mutant of SomebodyBefore: the row that was written last goes first.     *)
SomebodyAfter(c)  == \E d \in Corner \ {c} : InLine(d) /\ Earlier(c, d)
SomebodyBefore(c) == \E d \in Corner \ {c} : InLine(d) /\ Earlier(d, c)

MyTurn(c)    == At(c, "rows") /\ ~SomebodyBefore(c) /\ Passes(c, "gate")
NotMyTurn(c) == At(c, "rows") /\ SomebodyBefore(c) /\ BacksOff(c)

(* The boundary is looked at once more, and the registry written.          *)
BoundaryGone(c) == At(c, "gate") /\ BacksOff(c)

Claim(c) ==
  /\ At(c, "gate")
  /\ registry' = c /\ Goes(c, "mark")
  /\ letGo' = IF OwnerRecovered(c) THEN letGo \cup {registry} ELSE letGo
  /\ UNCHANGED <<req, row, file, flock, ahead, asks, kills>>

Mark(c) ==
  /\ At(c, "mark")
  /\ Goes(c, "body") /\ OutOfLine(c)
  /\ UNCHANGED <<req, file, flock, registry, letGo, asks, kills>>

-----------------------------------------------------------------------------
(* What a corner does with its turn                                        *)

Begin(c) ==
  /\ At(c, "body") /\ file[c] # "failed" /\ (file[c] = "busy" => c \notin letGo)
  /\ file' = [file EXCEPT ![c] = "busy"] /\ Goes(c, "running") /\ letGo' = letGo \ {c}
  /\ UNCHANGED <<req, row, flock, registry, ahead, asks, kills>>

(* The slot is left: the row has long stopped waiting, the lock is free.   *)
Leaves(c, over) ==
  /\ flock' = NoCorner /\ Goes(c, "off") /\ Forgets(c, over)
  /\ UNCHANGED <<row, registry, letGo, ahead, asks, kills>>

(* A refusal settles the request of a corner that has no run.              *)
Refused(c) == At(c, "body") /\ Leaves(c, file[c] = "ended") /\ UNCHANGED file
Finish(c)  == /\ At(c, "running") /\ file' = [file EXCEPT ![c] = "ended"]
              /\ Leaves(c, TRUE)
(* The switch that ends the run is queued: the corner comes back for it.   *)
Suspend(c) == At(c, "running") /\ Leaves(c, FALSE) /\ UNCHANGED file
Fail(c)    == /\ At(c, "running") /\ file' = [file EXCEPT ![c] = "failed"]
              /\ Leaves(c, FALSE)

-----------------------------------------------------------------------------
(* What others do to a run that is not over                                *)

(* A stop, a recovery or a reconciliation ends the run outside the slot,   *)
(* and its request with it: the caller finds the run over.                 *)
Settle(c) ==
  /\ At(c, "off") /\ file[c] # "ended"
  /\ file' = [file EXCEPT ![c] = "ended"] /\ letGo' = letGo \ {c}
  /\ req' = [req EXCEPT ![c] = 0]
  /\ UNCHANGED <<pc, row, flock, registry, ahead, asks, kills>>

(* release_program_owner, after the rotation has proved that the plane     *)
(* holds nothing of the run: the row goes, if it is still the corner's.    *)
(* Mutant of Release: the row is dropped whoever it names.                 *)
ReleaseAny(c) ==
  /\ c \in Returning /\ At(c, "off") /\ file[c] # "ended"
  /\ registry' = IF flock = NoCorner THEN NoCorner ELSE registry
  /\ letGo' = letGo \cup {c} /\ req' = [req EXCEPT ![c] = 0]
  /\ UNCHANGED <<pc, row, file, flock, ahead, asks, kills>>

(* Mutant of Release: the row stays.                                       *)
ReleaseKeeps(c) ==
  /\ c \in Returning /\ At(c, "off") /\ file[c] # "ended"
  /\ letGo' = letGo \cup {c} /\ req' = [req EXCEPT ![c] = 0]
  /\ UNCHANGED <<pc, row, file, flock, registry, ahead, asks, kills>>

Release(c) ==
  /\ c \in Returning /\ At(c, "off") /\ file[c] # "ended"
  /\ registry' = IF flock = NoCorner /\ registry = c THEN NoCorner ELSE registry
  /\ letGo' = letGo \cup {c} /\ req' = [req EXCEPT ![c] = 0]
  /\ UNCHANGED <<pc, row, file, flock, ahead, asks, kills>>

(* The lock goes with the process, the files stay.                         *)
Kill(c) ==
  /\ c \in Mortal /\ ~At(c, "off") /\ kills < Kills
  /\ kills' = kills + 1 /\ Goes(c, "off") /\ Forgets(c, FALSE)
  /\ flock' = IF flock = c THEN NoCorner ELSE flock
  /\ UNCHANGED <<row, file, registry, letGo, ahead, asks>>

(* Hours pass, and the row of a killed waiter is no longer fresh.          *)
RowAges(c) ==
  /\ At(c, "off") /\ row[c].status \in Waiting /\ ~row[c].old
  /\ row' = [row EXCEPT ![c].old = TRUE]
  /\ UNCHANGED <<pc, req, file, flock, registry, letGo, ahead, asks, kills>>

-----------------------------------------------------------------------------
Poll(c) == \/ TakeLock(c) \/ OwnerIsFree(c) \/ OwnerIsBusy(c) \/ MyTurn(c) \/ NotMyTurn(c)
           \/ BoundaryGone(c) \/ Claim(c) \/ Mark(c)
Body(c) == Begin(c) \/ Refused(c) \/ Finish(c) \/ Suspend(c) \/ Fail(c)

Step(c) == \/ Ask(c) \/ BoundaryReady(c) \/ WaitEnds(c) \/ Poll(c) \/ Body(c)
           \/ Settle(c) \/ Release(c) \/ Kill(c) \/ RowAges(c)

Next == \E c \in Corner : Step(c)
Spec == Init /\ [][Next]_vars

(* Every poll recurs, and a caller with a request comes back; a boundary   *)
(* that keeps coming and a lock that keeps coming free are met in the end, *)
(* and deadlines pass: an owner that comes back behind an earlier request  *)
(* and the request that waits for this owner stand still until one does.   *)
(* The rotation releases a run that does not end, at every tick again; the *)
(* run of any other corner is recovered.                                   *)
Onward(c) == \/ req[c] # 0 /\ Ask(c)
             \/ Poll(c) /\ ~At(c, "turn")
             \/ Body(c)

GivesUp(c) == IF c \in Returning THEN Release(c) ELSE Settle(c)

Fairness == \A c \in Corner : /\ WF_vars(Onward(c))
                              /\ SF_vars(BoundaryReady(c)) /\ SF_vars(TakeLock(c)) /\ SF_vars(Claim(c))
                              /\ SF_vars(WaitEnds(c)) /\ SF_vars(GivesUp(c))

FairSpec == Spec /\ Fairness

-----------------------------------------------------------------------------
(* Properties                                                              *)

(* The registry names the corner whose run is not over: whoever wants the  *)
(* programme looks nowhere else, and the lock may have died with the run.  *)
RegistryTells == \A c \in Corner : Occupies(c) => registry = c

(* A corner that joined the line behind an earlier request does not get    *)
(* the programme while that one is in line, alive or not.                  *)
NotOvertaken == [][\A c \in Corner : At(c, "gate") /\ pc'[c] = "mark" => ahead[c] = {}]_vars

(* A caller that comes back with its request has its turn, or its run is   *)
(* released: deadlines and kills on the way cost it nothing but time.      *)
TurnComes == \A c \in Returning : req[c] # 0 ~> pc[c] = "body" \/ req[c] = 0

(* So it is as long as no row is left in line for ever by a corner whose   *)
(* process has died.                                                       *)
Stands(d) == At(d, "off") /\ InLine(d)
Served    == (\A d \in Corner : []<>~Stands(d)) => TurnComes

(* The programme is taken when it is free, and kept until the run is over, *)
(* released, or seen to be over.                                           *)
Owner == IF \E c \in Corner : Occupies(c) THEN CHOOSE c \in Corner : Occupies(c) ELSE NoCorner

P == INSTANCE Programme WITH onAir <- Owner
OneProgramme == P!Spec
=============================================================================
