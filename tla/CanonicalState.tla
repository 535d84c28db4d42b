--------------------------- MODULE CanonicalState ---------------------------
(***************************************************************************)
(* The durable data of the game switch: the canonical document            *)
(* game_switch.json, the request receipts, and the checks the store makes  *)
(* before it saves either.  Nothing here moves; GameSwitch.tla does.       *)
(***************************************************************************)
EXTENDS Naturals, FiniteSets

CONSTANTS Req,          \* request ids
          Games,        \* names of configured games
          NoReq,        \* "no request id" (None, or "" in an anonymous result)
          NoGame,       \* "no game"
          OpOf,         \* the operation each request id asks for
          GoalOf        \* its target game; NoGame for stop, restart, rotate

Operations == {"start", "stop", "switch", "restart", "rotate"}

ASSUME ReqAssumption  == NoReq \notin Req
ASSUME GameAssumption == NoGame \notin Games
ASSUME OpAssumption   == OpOf \in [Req -> Operations]
ASSUME GoalAssumption == GoalOf \in [Req -> Games \cup {NoGame}]

(* Phases of the canonical document. "committing" and "recovery_required"  *)
(* are legal values that no transition of the coordinator writes.          *)
Phases == {"idle", "validating", "preparing", "draining", "quiescing",
           "starting", "probing", "committing", "ready", "stopping",
           "rolling_back", "failed", "recovery_required"}

StablePhases     == {"idle", "ready"}
InProgressPhases == Phases \ {"idle", "ready", "failed", "recovery_required"}

TerminalStatuses == {"succeeded", "failed", "rolled_back"}
ReceiptStatuses  == TerminalStatuses \cup {"none", "allocating", "accepted", "queued"}

(* A runtime is known by its generation; generation 0 is "no runtime".     *)
(* Names of windows and sessions, and directories, derive from it.         *)
Runtimes == [gen : Nat, game : Games \cup {NoGame}]
NoRt     == [gen |-> 0, game |-> NoGame]

(* A runtime the coordinator no longer wants but has not yet seen dead.    *)
(* proof is the request whose commit retired it, when a commit did.        *)
Retirees == [rt : Runtimes, proof : Req \cup {NoReq}]
Retiree(rt, r) == [rt |-> rt, proof |-> r]

(* last_result, reduced to what recovery reads of it: the request it       *)
(* names, its terminal status, and whether it carries a source_runtime.    *)
Results == [req : Req \cup {NoReq}, st : TerminalStatuses \cup {"none"}, src : BOOLEAN]
Result(r, st)       == [req |-> r, st |-> st, src |-> FALSE]
(* Mutant of CommitResult: a status that no reader knows as terminal.      *)
UnknownCommitResult(r, s) == [req |-> r, st |-> "committed", src |-> s # NoRt]

CommitResult(r, s)  == [req |-> r, st |-> "succeeded", src |-> s # NoRt]
AnonymousResult(st) == Result(NoReq, st)
NoResult            == [req |-> NoReq, st |-> "none", src |-> FALSE]

Canonical == [phase : Phases, req : Req \cup {NoReq}, nextGen : Nat,
              active : Runtimes, candidate : Runtimes, previous : Runtimes,
              retiring : SUBSET Retirees, expired : BOOLEAN, last : Results]

Receipts == [st : ReceiptStatuses, gen : Nat, goal : Games \cup {NoGame}]
NoReceipt == [st |-> "none", gen |-> 0, goal |-> NoGame]

(***************************************************************************)
(* validate_state                                                          *)
(***************************************************************************)
Slots(c)   == {c.active, c.candidate, c.previous} \ {NoRt}
Tracked(c) == Slots(c) \cup {e.rt : e \in c.retiring}
Generations(c) == {rt.gen : rt \in Tracked(c)}

OwnerMatchesPhase(c) ==
  /\ c.phase \in InProgressPhases => c.req # NoReq
  /\ c.phase \in StablePhases => c.req = NoReq

SlotsMatchPhase(c) ==
  /\ c.phase = "idle" => c.active = NoRt /\ c.candidate = NoRt /\ c.previous = NoRt
  /\ c.phase = "ready" => c.active # NoRt /\ c.candidate = NoRt /\ c.previous = NoRt
  /\ c.phase \in {"validating", "stopping"} => c.candidate = NoRt
  /\ c.phase = "draining" => c.active # NoRt /\ c.candidate = NoRt /\ c.previous = NoRt

(* No two slots, and no slot and retiree, share a generation.              *)
GenerationsDistinct(c) ==
  /\ c.active # NoRt => c.active.gen \notin {c.candidate.gen, c.previous.gen}
  /\ c.candidate # NoRt => c.candidate.gen # c.previous.gen
  /\ \A e \in c.retiring :
       /\ e.rt.gen \notin {c.active.gen, c.candidate.gen, c.previous.gen}
       /\ \A f \in c.retiring : e.rt.gen = f.rt.gen => e = f

NextGenerationAhead(c) == \A rt \in Tracked(c) : rt.gen < c.nextGen

ValidState(c) == /\ OwnerMatchesPhase(c)
                 /\ SlotsMatchPhase(c)
                 /\ GenerationsDistinct(c)
                 /\ NextGenerationAhead(c)

(***************************************************************************)
(* Request receipts                                                        *)
(***************************************************************************)
Queued(rs)   == {r \in Req : rs[r].st = "queued"}
InFlight(rs) == {r \in Req : rs[r].st \in {"allocating", "accepted"}}

(* Generations grow with creation time, so the FIFO order is theirs.       *)
IsHead(rs, r) == r \in Queued(rs) /\ \A q \in Queued(rs) : rs[r].gen <= rs[q].gen

(* g = max(next_generation, receipts' max_generation + 1)                  *)
IsFreshGeneration(c, rs, g) ==
  /\ g >= c.nextGen /\ \A r \in Req : g > rs[r].gen
  /\ g = c.nextGen \/ \E r \in Req : g = rs[r].gen + 1
=============================================================================
