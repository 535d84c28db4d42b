---------------------------- MODULE SwitchAgents ----------------------------
(***************************************************************************)
(* The coordinator and the agents that play the games.                     *)
(*                                                                         *)
(* An agent is a process bound to one runtime.  It reads the canonical     *)
(* document, and plays only while the active runtime is its own: it looks  *)
(* without a lock, then under the shared side of the coordinator's lock,   *)
(* and acts before it lets go.  One whose runtime is in no slot exits and  *)
(* is not restarted.  The coordinator stops and starts agents on its way;  *)
(* what it does to them is attached here to the steps of GameSwitch.       *)
(***************************************************************************)
EXTENDS GameSwitch

VARIABLES
  agents, \* the agent processes: their runtimes, and where in their loop they are
  exited  \* history: runtimes whose agent died of itself, and was not started since

allvars == <<vars, agents, exited>>

Agent(rt) == [rt |-> rt, at |-> "idle"]

AgentsInit == /\ Init
              /\ agents = {Agent(rt) : rt \in live} /\ exited = {}

Acting == {a \in agents : a.at = "acts"}

-----------------------------------------------------------------------------
(* What a driver's step does to the agents                                 *)

(* The runtimes it calls stop_agent for.                                   *)
Stopped(d) ==
  {rt \in Tracked(canon) :
     \/ proc[d].pc \in {"stopOld", "retireDead"} /\ rt = proc[d].old
     \/ proc[d].pc = "stopAgent" /\ rt = canon.active
     \/ proc[d].pc \in {"undo", "lost"} /\ rt = canon.candidate
     \/ proc[d].pc = "restore" /\ Restorable /\ canon.previous \in live /\ rt = canon.previous
     \/ proc[d].pc = "recover" /\ canon.phase = "failed" /\ rt = canon.candidate
     \/ proc[d].pc = "recover" /\ canon.phase # "failed" /\ rt = canon.active
          /\ (canon'.phase = "failed" \/ (Interrupted /\ OpOf[canon.req] = "stop"))
     \/ proc[d].pc = "resolve" /\ canon.previous = NoRt /\ rt = canon.active
     \/ Finalizing(d) /\ canon'.retiring # canon.retiring /\ \E e \in Collectable : e.rt = rt}

(* Mutant of Started: a game that was restored alive gets no new agent.    *)
StartedNew(d) ==
  {rt \in live : proc[d].pc \in {"probe", "publish"} /\ rt = canon.candidate}

(* The runtimes it calls start_agent for.                                  *)
Started(d) ==
  StartedNew(d) \cup (IF proc[d].pc = "restartAgent" THEN {canon.previous} ELSE {})

(* Calls that fail may have done their work or not; an agent whose window  *)
(* is there is not started a second time.                                  *)
Calls(stopped, started, failed) ==
  LET left == {a \in agents : a.rt \in stopped => a.rt \in failed}
      new  == {rt \in started \ failed : \A a \in left : a.rt # rt}
  IN /\ agents' = left \cup {Agent(rt) : rt \in new}
     /\ exited' = exited \ new

CallsAgents(d) ==
  \E failed \in SUBSET ((Stopped(d) \cup Started(d)) \cap Tracked(canon')) :
    /\ faults' = faults => failed = {}
    /\ Calls(Stopped(d), Started(d), failed)

(* The exclusive lock is not to be had while an agent acts.                *)
Drive(d) == /\ lock = NoDriver => Acting = {}
            /\ DriverStep(d) /\ CallsAgents(d)

Enters(d) == /\ Acting = {}
             /\ (\E r \in Req : Request(d, r)) \/ Recover(d) \/ Maintain(d)
             /\ UNCHANGED <<agents, exited>>

(* A driver that waits for a boundary does not get the lock back in time.  *)
KeptOut(d) == /\ proc[d].pc \in {"await", "cancel", "expire"} /\ Acting # {}
              /\ proc' = [proc EXCEPT ![d] = Off]
              /\ UNCHANGED <<Disk, lock, World, faults, agents, exited>>

(* A driver that is killed while it starts an agent may have started it.   *)
Dies(d) == /\ Crash(d)
           /\ \E failed \in SUBSET Started(d) : Calls({}, Started(d), failed)

(* repair_active_agent: the timer of a corner finds the agent of the game  *)
(* on air dead, and the game alive.                                        *)
Repair ==
  /\ lock = NoDriver /\ Acting = {}
  /\ canon.phase = "ready" /\ canon.active \in live
  /\ \A a \in agents : a.rt # canon.active
  /\ \/ Calls({}, {canon.active}, {}) /\ Benign
     \/ Calls({}, {canon.active}, {canon.active}) /\ Fault
  /\ UNCHANGED <<Disk, lock, proc, World>>

-----------------------------------------------------------------------------
(* run_agent                                                               *)

Moves(a, at) == agents' = (agents \ {a}) \cup {[a EXCEPT !.at = at]} /\ UNCHANGED exited
FenceLost(a) == agents' = agents \ {a} /\ UNCHANGED exited

(* resolve_fence, without the lock: the candidate's agent, and that of a   *)
(* previous runtime, wait.                                                 *)
Resolve(a) == /\ a.at = "idle"
              /\ \/ a.rt = canon.active /\ Moves(a, "run")
                 \/ a.rt \notin Slots(canon) /\ FenceLost(a)
              /\ UNCHANGED vars

(* Mutant of Enter: what was read before the lock is taken for granted.    *)
EnterUnchecked(a) == /\ a.at = "run" /\ lock = NoDriver
                     /\ Moves(a, "acts")
                     /\ UNCHANGED vars

(* shared_section: the fence is checked again once the lock is held.       *)
Enter(a) == /\ a.at = "run" /\ lock = NoDriver
            /\ a.rt = canon.active /\ Moves(a, "acts")
            /\ UNCHANGED vars

(* The check between two actions, with or without the lock.                *)
Check(a) == /\ a.at = "run" /\ a.rt # canon.active
            /\ FenceLost(a)
            /\ UNCHANGED vars

(* The lock is busy for too long, or the cycle is over.                    *)
NextCycle(a) == a.at = "run" /\ Moves(a, "idle") /\ UNCHANGED vars

Acted(a) == a.at = "acts" /\ Moves(a, "run") /\ UNCHANGED vars

(* The process is killed, or its brain ends it.                            *)
Exits(a) == /\ Fault
            /\ agents' = agents \ {a} /\ exited' = exited \cup {a.rt}
            /\ UNCHANGED <<Disk, lock, proc, World>>

AgentStep(a) == Resolve(a) \/ Enter(a) \/ Check(a) \/ NextCycle(a) \/ Acted(a) \/ Exits(a)

-----------------------------------------------------------------------------
AgentsNext ==
  \/ \E d \in Driver : Drive(d) \/ Enters(d) \/ KeptOut(d) \/ Dies(d)
  \/ Repair
  \/ \E a \in agents : AgentStep(a)
  \/ (Expire \/ \E rt \in live : GameDies(rt)) /\ UNCHANGED <<agents, exited>>

AgentsSpec == AgentsInit /\ [][AgentsNext]_allvars

-----------------------------------------------------------------------------
(* Properties                                                              *)

(* An agent acts on the game that is on air and on no other, and never     *)
(* while a driver is between the steps of a transition.                    *)
ActsOnAir == \A a \in Acting : a.rt = canon.active /\ lock = NoDriver

(* The game of a document that is ready is played: whatever transitions,   *)
(* deaths and restores came before, its agent was started, and was not     *)
(* fenced out while its runtime was between two slots.                     *)
AgentReady ==
  canon.phase = "ready" => canon.active \in {a.rt : a \in agents} \cup exited
=============================================================================
