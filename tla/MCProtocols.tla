----------------------------- MODULE MCProtocols -----------------------------
(***************************************************************************)
(* TLC instances of the two protocols that the other modules build on: the *)
(* big kernel lock, which makes a kernel section one action, and ipc_send  *)
(* with ipc_recv, which make a message one step.  They share no state: a   *)
(* behaviour is a behaviour of one of them, while the other one stays in   *)
(* its initial state.                                                      *)
(***************************************************************************)
EXTENDS KernelLock, Ipc

VARIABLE protocol   \* whose behaviour it is, "lock" or "ipc"

ASSUME AgreeOnPages

allVars == <<protocol, vars, ipcVars>>

-----------------------------------------------------------------------------

BothInit == protocol \in {"lock", "ipc"} /\ Init /\ IpcInit

BothNext ==
  \/ protocol = "lock" /\ Next /\ UNCHANGED <<protocol, ipcVars>>
  \/ protocol = "ipc" /\ IpcNext /\ UNCHANGED <<protocol, vars>>

\* The fairness of KernelLock and of Ipc, see there, each in its own behaviours.
BothFairness ==
  LET Lock(A) == protocol = "lock" /\ A IN
  /\ WF_vars(Lock(APIsUp)) /\ WF_vars(Lock(BootDone))
  /\ \A a \in AP : WF_vars(Lock(Boot(a)))
  /\ \A c \in CPU : /\ WF_vars(Lock(SpinLock(c))) /\ WF_vars(Lock(SpinUnlock(c)))
                    /\ WF_vars(Lock(EnvRun(c) \/ SchedHalt(c)))
                    /\ WF_vars(Lock(Interrupt(c))) /\ WF_vars(Lock(Trap(c)))
  /\ \A e \in Env : WF_ipcVars(protocol = "ipc" /\ TrySend(e))

BothSpec == BothInit /\ [][BothNext]_allVars /\ BothFairness

-----------------------------------------------------------------------------

\* boot_aps comes to its end, in the behaviours in which anything boots.
ApsBoot == protocol = "lock" => BootCompletes
==============================================================================
