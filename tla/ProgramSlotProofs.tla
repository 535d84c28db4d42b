------------------------- MODULE ProgramSlotProofs -------------------------
(***************************************************************************)
(* What ProgramSlot keeps for any corners and any bounds: its types, the   *)
(* registry, the line, and the promise of Programme.                       *)
(***************************************************************************)
EXTENDS ProgramSlot, TLAPS

(* Who has looked at the owner under the lock knows it until the claim.    *)
Looked == \A c \in Corner : pc[c] \in {"rows", "gate"} => OwnerFree(c) \/ OwnerRecovered(c)
Named  == \A c \in Corner : pc[c] \in {"mark", "body", "running"} => registry = c

SlotInv == TypeOK /\ RegistryTells /\ Looked /\ Named

(* A corner is behind the ones it joined behind until they leave the line. *)
Behind  == \A c \in Corner : \A d \in ahead[c] : d # c /\ InLine(d) /\ Earlier(d, c)
Through == \A c \in Corner : At(c, "gate") => ahead[c] = {}

LineInv == TypeOK /\ Behind /\ Through

-----------------------------------------------------------------------------
(* Types                                                                   *)

(* The fields of the rows; the line stays inside the corners.              *)
Rows == [status : {"over"} \cup Waiting, at : 0..MaxAsks, old : BOOLEAN]

(* Leaving the line writes the row that nobody reads.                      *)
LEMMA OutOfLineTyped ==
  ASSUME TypeOK, NEW c \in Corner, OutOfLine(c)
  PROVE  row' \in [Corner -> Rows] /\ ahead' \in [Corner -> SUBSET Corner]
<1>1. NoRow \in Rows
  BY SlotAssumption DEF NoRow, Rows
<1> QED
  BY <1>1 DEF TypeOK, OutOfLine, LeftLine, Rows

(* A request is forgotten or kept.                                         *)
LEMMA ForgetsTyped ==
  ASSUME TypeOK, NEW c \in Corner, NEW over \in BOOLEAN, Forgets(c, over)
  PROVE  req' \in [Corner -> 0..MaxAsks]
BY SlotAssumption DEF TypeOK, Forgets

LEMMA TypeKept ==
  ASSUME TypeOK, [Next]_vars
  PROVE  TypeOK'
<1> USE SlotAssumption
<1>0. CASE UNCHANGED vars
  BY <1>0 DEF TypeOK, vars
<1> SUFFICES ASSUME NEW c \in Corner, Step(c)
             PROVE  TypeOK'
  BY <1>0 DEF Next
<1>1. CASE Ask(c)
  <2>1. req' \in [Corner -> 0..MaxAsks] /\ asks' \in 0..MaxAsks
    BY <1>1 DEF TypeOK, Ask
  <2>2. row' \in [Corner -> Rows]
    <3>1. [status |-> "boundary", at |-> req'[c], old |-> row[c].old /\ row[c].at = req'[c]] \in Rows
      BY <2>1 DEF TypeOK, Rows, Waiting
    <3> QED
      BY <1>1, <3>1 DEF TypeOK, Ask, Rows
  <2>3. ahead' \in [Corner -> SUBSET Corner]
    BY <1>1 DEF TypeOK, Ask, LeftLine
  <2> QED
    BY <1>1, <2>1, <2>2, <2>3 DEF TypeOK, Ask, At, Goes, Waiting, Locked, Rows
<1>2. CASE BoundaryReady(c)
  <2>1. row' \in [Corner -> Rows]
    BY <1>2 DEF TypeOK, BoundaryReady, Rows, Waiting
  <2> QED
    BY <1>2, <2>1 DEF TypeOK, BoundaryReady, At, Goes, Waiting, Locked, Rows
<1>3. CASE WaitEnds(c)
  BY <1>3, OutOfLineTyped, ForgetsTyped DEF TypeOK, WaitEnds, Goes, Waiting, Locked, Rows
<1>4. CASE TakeLock(c)
  BY <1>4 DEF TypeOK, TakeLock, At, Goes, Waiting, Locked
<1>5. CASE OwnerIsFree(c) \/ MyTurn(c)
  BY <1>5 DEF TypeOK, OwnerIsFree, MyTurn, Passes, At, Goes, Waiting, Locked
<1>6. CASE OwnerIsBusy(c) \/ NotMyTurn(c) \/ BoundaryGone(c)
  BY <1>6 DEF TypeOK, OwnerIsBusy, NotMyTurn, BoundaryGone, BacksOff, At, Goes, Waiting, Locked
<1>7. CASE Claim(c)
  BY <1>7 DEF TypeOK, Claim, OwnerRecovered, At, Goes, Waiting, Locked
<1>8. CASE Mark(c)
  BY <1>8, OutOfLineTyped DEF TypeOK, Mark, At, Goes, Waiting, Locked, Rows
<1>9. CASE Begin(c)
  BY <1>9 DEF TypeOK, Begin, At, Goes, Waiting, Locked
<1>10. CASE Refused(c) \/ Finish(c) \/ Suspend(c) \/ Fail(c)
  <2>1. PICK over \in BOOLEAN : Leaves(c, over)
    BY <1>10 DEF Refused, Finish, Suspend, Fail
  <2>2. req' \in [Corner -> 0..MaxAsks]
    BY <2>1, ForgetsTyped DEF Leaves
  <2>3. file' \in [Corner -> {"ended", "busy", "failed"}]
    BY <1>10 DEF TypeOK, Refused, Finish, Suspend, Fail
  <2>4. pc[c] \in Locked
    BY <1>10 DEF Refused, Finish, Suspend, Fail, At, Locked
  <2> QED
    BY <2>1, <2>2, <2>3, <2>4 DEF TypeOK, Leaves, Goes, Waiting, Locked
<1>11. CASE Settle(c)
  BY <1>11 DEF TypeOK, Settle
<1>12. CASE Release(c)
  BY <1>12 DEF TypeOK, Release
<1>13. CASE Kill(c)
  <2>1. req' \in [Corner -> 0..MaxAsks]
    BY <1>13, ForgetsTyped DEF Kill
  <2>2. kills' \in 0..Kills
    BY <1>13 DEF TypeOK, Kill
  <2> QED
    BY <1>13, <2>1, <2>2 DEF TypeOK, Kill, Goes, Waiting, Locked
<1>14. CASE RowAges(c)
  <2>1. row' \in [Corner -> Rows]
    <3>1. \A e \in Rows : [e EXCEPT !.old = TRUE] \in Rows
      BY Zenon DEF Rows
    <3>2. row[c] \in Rows /\ row \in [Corner -> Rows]
      BY DEF TypeOK, Rows
    <3>3. row' = [row EXCEPT ![c] = [row[c] EXCEPT !.old = TRUE]]
      BY <1>14, Zenon DEF RowAges
    <3> QED
      BY <3>1, <3>2, <3>3, Zenon
  <2> QED
    BY <1>14, <2>1 DEF TypeOK, RowAges, Rows
<1> QED
  BY <1>1, <1>2, <1>3, <1>4, <1>5, <1>6, <1>7, <1>8, <1>9, <1>10, <1>11, <1>12, <1>13, <1>14
     DEF Step, Poll, Body

(* The slot is free and nobody waits.                                      *)
LEMMA TypeInit ==
  ASSUME Init
  PROVE  TypeOK
BY SlotAssumption DEF Init, TypeOK, NoRow, Waiting, Locked

(* The files of the slot keep their types, and a corner polls, claims and  *)
(* runs exactly while it has the lock (_program_slot).                     *)
THEOREM TypeCorrect == Spec => []TypeOK
<1>1. Init => TypeOK
  BY TypeInit
<1>2. TypeOK /\ [Next]_vars => TypeOK'
  BY TypeKept
<1> QED
  BY <1>1, <1>2, PTL DEF Spec

-----------------------------------------------------------------------------
(* The registry                                                            *)

(* A step that leaves the registry, the files and the releases alone and   *)
(* brings nobody nearer to the programme.                                  *)
LEMMA QuietStep ==
  ASSUME SlotInv, UNCHANGED <<file, registry, letGo>>,
         \A d \in Corner : pc'[d] = pc[d] \/ pc'[d] \notin {"rows", "gate", "mark", "body", "running"}
  PROVE  RegistryTells' /\ Looked' /\ Named'
<1>1. RegistryTells'
  BY DEF SlotInv, RegistryTells, Occupies
<1>2. Looked'
  BY DEF SlotInv, Looked, OwnerFree, OwnerRecovered
<1>3. Named'
  BY DEF SlotInv, Named
<1> QED
  BY <1>1, <1>2, <1>3

(* Under the lock nobody else is.                                          *)
LEMMA LockAlone ==
  ASSUME TypeOK, NEW c \in Corner, NEW d \in Corner, pc[c] \in Locked, pc[d] \in Locked
  PROVE  c = d
BY DEF TypeOK

LEMMA SlotKept ==
  ASSUME SlotInv, [Next]_vars
  PROVE  SlotInv'
<1> USE DEF SlotInv
<1>0. TypeOK'
  BY TypeKept
<1> SUFFICES RegistryTells' /\ Looked' /\ Named'
  BY <1>0
<1>a. CASE UNCHANGED vars
  BY <1>a, QuietStep DEF vars
<1> SUFFICES ASSUME NEW c \in Corner, Step(c)
             PROVE  RegistryTells' /\ Looked' /\ Named'
  BY <1>a DEF Next
<1>1. CASE Ask(c) \/ BoundaryReady(c) \/ WaitEnds(c) \/ TakeLock(c) \/ Kill(c)
  <2>1. UNCHANGED <<file, registry, letGo>>
    BY <1>1 DEF Ask, BoundaryReady, WaitEnds, TakeLock, Kill
  <2>2. PICK p \in {"off", "boundary", "turn", "owner"} : pc' = [pc EXCEPT ![c] = p]
    BY <1>1 DEF Ask, BoundaryReady, WaitEnds, TakeLock, Kill, Goes
  <2> QED
    BY <2>1, <2>2, QuietStep DEF TypeOK
<1>2. CASE OwnerIsBusy(c) \/ NotMyTurn(c) \/ BoundaryGone(c) \/ Refused(c) \/ Suspend(c)
  <2>1. UNCHANGED <<file, registry, letGo>>
    BY <1>2 DEF OwnerIsBusy, NotMyTurn, BoundaryGone, Refused, Suspend, BacksOff, Leaves
  <2>2. PICK p \in {"off", "turn"} : pc' = [pc EXCEPT ![c] = p]
    BY <1>2 DEF OwnerIsBusy, NotMyTurn, BoundaryGone, Refused, Suspend, BacksOff, Leaves, Goes
  <2> QED
    BY <2>1, <2>2, QuietStep DEF TypeOK
<1>3. CASE RowAges(c)
  BY <1>3, QuietStep DEF RowAges
<1>4. CASE OwnerIsFree(c) \/ MyTurn(c)
  <2>1. UNCHANGED <<file, registry, letGo>> /\ (OwnerFree(c) \/ OwnerRecovered(c))
    BY <1>4 DEF OwnerIsFree, MyTurn, Passes, At, Looked
  <2>2. PICK p \in {"rows", "gate"} : pc' = [pc EXCEPT ![c] = p]
    BY <1>4 DEF OwnerIsFree, MyTurn, Passes, Goes
  <2>3. RegistryTells'
    BY <2>1 DEF RegistryTells, Occupies
  <2>4. Looked'
    BY <2>1, <2>2 DEF TypeOK, Looked, OwnerFree, OwnerRecovered
  <2>5. Named'
    BY <2>1, <2>2 DEF TypeOK, Named
  <2> QED
    BY <2>3, <2>4, <2>5
<1>5. CASE Claim(c)
  <2>1. pc' = [pc EXCEPT ![c] = "mark"] /\ registry' = c /\ UNCHANGED file /\ pc[c] = "gate"
    BY <1>5 DEF Claim, Goes, At
  <2>2. ASSUME NEW d \in Corner, Occupies(d)'
        PROVE  d = c
    <3>1. Occupies(d) /\ registry = d
      BY <1>5, <2>2 DEF Claim, Occupies, RegistryTells
    <3>2. CASE OwnerRecovered(c)
      BY <1>5, <2>2, <3>1, <3>2 DEF Claim, Occupies, OwnerRecovered
    <3>3. CASE OwnerFree(c)
      BY <3>1, <3>3, SlotAssumption DEF OwnerFree, Occupies
    <3> QED
      BY <2>1, <3>2, <3>3 DEF Looked
  <2>3. \A d \in Corner : pc[d] \in Locked => d = c
    BY <2>1, LockAlone DEF Locked
  <2> QED
    BY <2>1, <2>2, <2>3 DEF TypeOK, RegistryTells, Looked, Named, Locked
<1>6. CASE Mark(c)
  <2>1. pc' = [pc EXCEPT ![c] = "body"] /\ UNCHANGED <<file, registry, letGo>> /\ registry = c
    BY <1>6 DEF Mark, Goes, At, Named
  <2> QED
    BY <2>1 DEF TypeOK, RegistryTells, Occupies, Looked, OwnerFree, OwnerRecovered, Named
<1>7. CASE Begin(c)
  <2>1. /\ pc' = [pc EXCEPT ![c] = "running"] /\ UNCHANGED registry /\ registry = c
        /\ file' = [file EXCEPT ![c] = "busy"] /\ letGo' = letGo \ {c} /\ pc[c] \in Locked
    BY <1>7 DEF Begin, Goes, At, Named, Locked
  <2>2. \A d \in Corner : pc[d] \in Locked => d = c
    BY <2>1, LockAlone
  <2> QED
    BY <2>1, <2>2 DEF TypeOK, RegistryTells, Occupies, Looked, Named, Locked
<1>8. CASE Finish(c) \/ Fail(c)
  <2>1. /\ pc' = [pc EXCEPT ![c] = "off"] /\ UNCHANGED <<registry, letGo>> /\ registry = c
        /\ pc[c] \in Locked
    BY <1>8 DEF Finish, Fail, Leaves, Goes, At, Named, Locked
  <2>2. \A d \in Corner \ {c} : file'[d] = file[d]
    BY <1>8 DEF TypeOK, Finish, Fail
  <2>3. \A d \in Corner : pc[d] \in Locked => d = c
    BY <2>1, LockAlone
  <2> QED
    BY <2>1, <2>2, <2>3 DEF TypeOK, RegistryTells, Occupies, Looked, Named, Locked
<1>9. CASE Settle(c)
  <2>1. /\ UNCHANGED <<pc, registry>> /\ file' = [file EXCEPT ![c] = "ended"] /\ letGo' = letGo \ {c}
    BY <1>9 DEF Settle
  <2>2. RegistryTells'
    BY <2>1 DEF TypeOK, RegistryTells, Occupies
  <2>3. Looked'
    BY <2>1 DEF TypeOK, Looked, OwnerFree, OwnerRecovered
  <2> QED
    BY <2>1, <2>2, <2>3 DEF Named
<1>10. CASE Release(c)
  <2>1. /\ UNCHANGED <<pc, file>> /\ letGo' = letGo \cup {c}
        /\ registry' = IF flock = NoCorner /\ registry = c THEN NoCorner ELSE registry
    BY <1>10 DEF Release
  <2>2. RegistryTells'
    BY <2>1 DEF RegistryTells, Occupies
  <2>3. \A d \in Corner : pc[d] \in Locked => registry' = registry
    BY <2>1, SlotAssumption DEF TypeOK
  <2> QED
    BY <2>1, <2>2, <2>3 DEF Looked, OwnerFree, OwnerRecovered, Named, Locked
<1> QED
  BY <1>1, <1>2, <1>3, <1>4, <1>5, <1>6, <1>7, <1>8, <1>9, <1>10 DEF Step, Poll, Body

LEMMA SlotInit ==
  ASSUME Init
  PROVE  SlotInv
BY TypeInit DEF Init, SlotInv, RegistryTells, Occupies, Looked, Named

(* SlotInv is inductive.                                                   *)
LEMMA SlotInvariant == Spec => []SlotInv
<1>1. Init => SlotInv
  BY SlotInit
<1>2. SlotInv /\ [Next]_vars => SlotInv'
  BY SlotKept
<1> QED
  BY <1>1, <1>2, PTL DEF Spec

(* Whoever runs and is not released is named by the registry, whichever    *)
(* processes died with the lock (ensure_free, release_program_owner).      *)
THEOREM RegistryCorrect == Spec => []RegistryTells
<1>1. SlotInv => RegistryTells
  BY DEF SlotInv
<1> QED
  BY <1>1, SlotInvariant, PTL

-----------------------------------------------------------------------------
(* The line                                                                *)

(* A step that leaves rows and line alone, and takes nobody to the gate    *)
(* who has somebody ahead.                                                 *)
LEMMA StillStep ==
  ASSUME LineInv, UNCHANGED <<row, ahead>>,
         \A d \in Corner : pc'[d] = "gate" => pc[d] = "gate" \/ ahead[d] = {}
  PROVE  Behind' /\ Through'
BY DEF LineInv, Behind, Through, At, InLine, Earlier

(* Whoever steps out of line, or joins it anew, is ahead of nobody.        *)
LEMMA LeavingStep ==
  ASSUME LineInv, NEW c \in Corner, LeftLine(c),
         \A d \in Corner \ {c} : row'[d] = row[d] /\ pc'[d] = pc[d],
         pc'[c] # "gate"
  PROVE  Behind' /\ Through'
BY DEF LineInv, TypeOK, LeftLine, Behind, Through, At, InLine, Earlier

LEMMA LineKept ==
  ASSUME LineInv, [Next]_vars
  PROVE  LineInv'
<1> USE DEF LineInv
<1>0. TypeOK'
  BY TypeKept
<1> SUFFICES Behind' /\ Through'
  BY <1>0
<1>a. CASE UNCHANGED vars
  BY <1>a, StillStep DEF vars
<1> SUFFICES ASSUME NEW c \in Corner, Step(c)
             PROVE  Behind' /\ Through'
  BY <1>a DEF Next
<1>1. CASE Ask(c) \/ WaitEnds(c) \/ Mark(c)
  <2>1. LeftLine(c)
    BY <1>1 DEF Ask, WaitEnds, Mark, OutOfLine
  <2>2. \A d \in Corner \ {c} : row'[d] = row[d]
    BY <1>1 DEF TypeOK, Ask, WaitEnds, Mark, OutOfLine
  <2>3. PICK p \in {"off", "boundary", "body"} : pc' = [pc EXCEPT ![c] = p]
    BY <1>1 DEF Ask, WaitEnds, Mark, Goes
  <2> QED
    BY <2>1, <2>2, <2>3, LeavingStep DEF TypeOK
<1>2. CASE BoundaryReady(c)
  <2>1. /\ row' = [row EXCEPT ![c].status = "turn"] /\ pc' = [pc EXCEPT ![c] = "turn"]
        /\ ahead' = [ahead EXCEPT ![c] = {d \in Corner \ {c} : InLine(d) /\ Earlier(d, c)}]
    BY <1>2 DEF BoundaryReady, Goes
  <2>2. \A d \in Corner : row'[d].at = row[d].at /\ (InLine(d) => InLine(d)')
    BY <2>1 DEF TypeOK, InLine
  <2>3. Behind'
    BY <2>1, <2>2 DEF TypeOK, Behind, Earlier
  <2>4. Through'
    BY <2>1 DEF TypeOK, Through, At
  <2> QED
    BY <2>3, <2>4
<1>3. CASE RowAges(c)
  <2>1. \A d \in Corner : row'[d].at = row[d].at /\ row'[d].status = row[d].status
    BY <1>3 DEF TypeOK, RowAges
  <2> QED
    BY <1>3, <2>1 DEF RowAges, Behind, Through, At, InLine, Earlier
<1>4. CASE MyTurn(c)
  <2>1. ahead[c] = {}
    BY <1>4 DEF TypeOK, MyTurn, SomebodyBefore, Behind
  <2> QED
    BY <1>4, <2>1, StillStep DEF TypeOK, MyTurn, Passes, Goes
<1>5. CASE TakeLock(c) \/ OwnerIsFree(c) \/ OwnerIsBusy(c) \/ NotMyTurn(c) \/ BoundaryGone(c)
  <2>1. PICK p \in {"owner", "rows", "turn"} : pc' = [pc EXCEPT ![c] = p]
    BY <1>5 DEF TakeLock, OwnerIsFree, OwnerIsBusy, NotMyTurn, BoundaryGone, Passes, BacksOff, Goes
  <2>2. UNCHANGED <<row, ahead>>
    BY <1>5 DEF TakeLock, OwnerIsFree, OwnerIsBusy, NotMyTurn, BoundaryGone, Passes, BacksOff
  <2> QED
    BY <2>1, <2>2, StillStep DEF TypeOK
<1>6. CASE Claim(c) \/ Body(c) \/ Kill(c)
  <2>1. PICK p \in {"mark", "running", "off"} : pc' = [pc EXCEPT ![c] = p]
    BY <1>6 DEF Claim, Body, Begin, Refused, Finish, Suspend, Fail, Leaves, Kill, Goes
  <2>2. UNCHANGED <<row, ahead>>
    BY <1>6 DEF Claim, Body, Begin, Refused, Finish, Suspend, Fail, Leaves, Kill
  <2> QED
    BY <2>1, <2>2, StillStep DEF TypeOK
<1>7. CASE Settle(c) \/ Release(c)
  BY <1>7, StillStep DEF Settle, Release
<1> QED
  BY <1>1, <1>2, <1>3, <1>4, <1>5, <1>6, <1>7 DEF Step, Poll

LEMMA LineInit ==
  ASSUME Init
  PROVE  LineInv
BY TypeInit DEF Init, LineInv, Behind, Through, At

(* The earlier waiter goes first (_earlier_waiter_exists), although rows   *)
(* come and go while they are read and claims are made.                    *)
THEOREM LineHolds == Spec => NotOvertaken
<1>1. Init => LineInv
  BY LineInit
<1>2. LineInv /\ [Next]_vars => LineInv'
  BY LineKept
<1>3. LineInv /\ [Next]_vars
      => [\A c \in Corner : At(c, "gate") /\ pc'[c] = "mark" => ahead[c] = {}]_vars
  BY DEF LineInv, Through
<1> QED
  BY <1>1, <1>2, <1>3, PTL DEF Spec, NotOvertaken

-----------------------------------------------------------------------------
(* The promise                                                             *)

(* What Programme calls the corner on air is the corner that occupies it.  *)
OwnerTells == /\ \A c \in Corner : Occupies(c) <=> Owner = c
              /\ Owner \in Corner \cup {NoCorner}

LEMMA OwnerIs == TypeOK /\ RegistryTells => OwnerTells
<1> SUFFICES ASSUME TypeOK, RegistryTells
             PROVE  OwnerTells
  OBVIOUS
<1> USE DEF OwnerTells
<1>1. CASE \E c \in Corner : Occupies(c)
  <2>1. Owner \in Corner /\ Occupies(Owner)
    BY <1>1 DEF Owner
  <2> QED
    BY <2>1 DEF RegistryTells
<1>2. CASE ~\E c \in Corner : Occupies(c)
  BY <1>2, SlotAssumption DEF Owner
<1> QED
  BY <1>1, <1>2

(* Nobody occupies the programme but the one who had it, or the one named. *)
LEMMA Handover ==
  ASSUME SlotInv, [Next]_vars, NEW d \in Corner, Occupies(d)'
  PROVE  Occupies(d) \/ registry = d
<1> SUFFICES ASSUME ~Occupies(d)
             PROVE  registry = d
  OBVIOUS
<1>1. ~UNCHANGED vars
  BY DEF vars, Occupies
<1>2. PICK c \in Corner : Step(c)
  BY <1>1 DEF Next
<1>3. Begin(c) \/ Fail(c)
  <2>1. file' # file \/ letGo' # letGo
    BY DEF Occupies
  <2>2. Begin(c) \/ Finish(c) \/ Fail(c) \/ Settle(c) \/ Release(c) \/ Claim(c)
    BY <1>2, <2>1
       DEF Step, Poll, Body, Ask, BoundaryReady, WaitEnds, TakeLock, OwnerIsFree, OwnerIsBusy, MyTurn, NotMyTurn,
           BoundaryGone, Mark, Refused, Suspend, Kill, RowAges, Passes, BacksOff, Leaves
  <2>3. ~Claim(c) /\ ~Release(c)
    BY DEF Claim, Release, Occupies
  <2>4. ~Settle(c)
    BY DEF Settle, Occupies, SlotInv, TypeOK
  <2>5. ~Finish(c)
    BY DEF Finish, Leaves, Occupies, SlotInv, TypeOK
  <2> QED
    BY <2>2, <2>3, <2>4, <2>5
<1>4. c = d /\ registry = c
  <2>1. registry = c
    BY <1>3 DEF Begin, Fail, SlotInv, Named, At
  <2>2. \A e \in Corner \ {c} : file'[e] = file[e] /\ (e \in letGo' <=> e \in letGo)
    BY <1>3 DEF Begin, Fail, Leaves, SlotInv, TypeOK
  <2> QED
    BY <2>1, <2>2 DEF Occupies
<1> QED
  BY <1>4

(* A step of the slot takes the programme, gives it back, or leaves it.    *)
LEMMA StepPromised ==
  ASSUME SlotInv, [Next]_vars
  PROVE  [P!Next]_Owner
<1>1. SlotInv'
  BY SlotKept
<1>2. OwnerTells
  BY OwnerIs DEF SlotInv
<1>3. OwnerTells'
  <2>1. TypeOK' /\ RegistryTells'
    BY <1>1 DEF SlotInv
  <2> QED
    BY <2>1, OwnerIs, PTL
<1>4. CASE Owner' = NoCorner
  BY <1>4 DEF P!Next, P!Give
<1>5. CASE Owner' # NoCorner
  <2>1. Owner' \in Corner /\ Occupies(Owner)'
    BY <1>3, <1>5 DEF OwnerTells
  <2>2. CASE Owner = Owner'
    BY <2>2
  <2>3. CASE Owner # Owner'
    <3>1. registry = Owner'
      BY <1>2, <2>1, <2>3, Handover DEF OwnerTells
    <3>2. Owner = NoCorner
      BY <1>2, <2>3, <3>1, SlotAssumption DEF OwnerTells, SlotInv, RegistryTells
    <3> QED
      BY <2>1, <3>2 DEF P!Next, P!Take
  <2> QED
    BY <2>2, <2>3
<1> QED
  BY <1>4, <1>5

(* The slot implements Programme: whatever waits, is killed, settled or    *)
(* released meanwhile, one corner after another has the programme.         *)
THEOREM Implements == Spec => OneProgramme
<1>1. Init => P!Init
  BY DEF Init, Occupies, Owner, P!Init
<1>2. SlotInv /\ [Next]_vars => [P!Next]_Owner
  BY StepPromised
<1> QED
  BY <1>1, <1>2, SlotInvariant, PTL DEF Spec, OneProgramme, P!Spec

=============================================================================
