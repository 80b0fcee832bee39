------------------------------ MODULE Ipc_proofs ------------------------------
(***************************************************************************)
(* Proofs about messages and the programs on top of them.  First Ipc, for  *)
(* any set of environments and any senders and receivers among them: the   *)
(* fields of struct Env stay consistent with what each environment is      *)
(* doing, and the system calls with the library around them implement the  *)
(* rendezvous of module Rendezvous.                                        *)
(*                                                                         *)
(* The invariant is about the message in transit.  sys_ipc_try_send writes *)
(* it into the receiver's struct Env, and the receiver reads it in three   *)
(* steps with other environments running in between; the mapping therefore *)
(* looks at from, value, perm and the window only while the receiver is    *)
(* reading or has read, when no sender reaches them any more.  That whoever *)
(* sends a page knows that it is asked for, AgreeOnPages, is a hypothesis:  *)
(* without it a send can fail for no reason (kern/syscall.c:317).          *)
(*                                                                         *)
(* Then the programs of ProgramParts: the sieve of primes.c, whose         *)
(* processes talk through that rendezvous, for any number of slots in      *)
(* envs[] and any last integer fed; and the threads homework, for any      *)
(* number of threads, keys and buckets.  Ipc and the programs do not share *)
(* variables.                                                              *)
(***************************************************************************)
EXTENDS Ipc, ProgramParts, FiniteSetTheorems, SequenceTheorems, TLAPS

-----------------------------------------------------------------------------
(* Ipc *)

\* What the arguments of an ipc_send, and the reads of an ipc_recv, can be.
Call == [to : Env, value : Env, perm : Perm]
Full == [from : Env, perm : Perm, value : Env]
Partial == [from : Env] \cup [from : Env, perm : Perm]

\* An environment in ipc_send has the arguments of its call.
CallOK ==
  /\ call \in [Env -> Call \cup {Nothing}]
  /\ \A e \in Env : doing[e] = "send" => call[e] \in Call

\* A message has arrived before it is read.
Arrived == \A e \in Env : doing[e] \in Reading => from[e] \in Env /\ value[e] \in Env

\* What has been read so far is what env_ipc_from and env_ipc_perm still say.
ReadSoFar ==
  /\ got \in [Env -> Full \cup Partial \cup {Nothing}]
  /\ \A e \in Env :
       /\ doing[e] = "read_perm" => got[e] = [from |-> from[e]]
       /\ doing[e] = "read_value" => got[e] = [from |-> from[e], perm |-> perm[e]]
       /\ doing[e] \notin Reading => got[e] \in Full \cup {Nothing}
       /\ doing[e] \in {"recv", "dead"} => got[e] = Nothing

\* Who asked for a page may do so, and who is sent one asks for it in some call.
PagesAsked ==
  \A e \in Env :
    /\ doing[e] = "recv" => e \in (IF dstva[e] THEN PageReceivers ELSE PlainReceivers)
    /\ doing[e] = "send" => (call[e].perm # "none" => call[e].to \in PageReceivers)

\* The inductive invariant.
IInv == FieldsOK /\ CallOK /\ Arrived /\ ReadSoFar /\ PagesAsked

-----------------------------------------------------------------------------
\* A sender that gets through finds its receiver blocked, and is not itself
\* that receiver.
LEMMA ReachesBlocked ==
  ASSUME IInv, NEW s \in Env, Reaches(s)
  PROVE  /\ call[s] \in Call
         /\ call[s].to \in Env
         /\ call[s].to # s
         /\ doing[call[s].to] = "recv"
<1>1. call[s] \in Call
  BY DEF IInv, CallOK, Reaches
<1>2. call[s].to \in Env
  BY <1>1 DEF Call
<1>3. doing[call[s].to] = "recv"
  BY <1>2 DEF IInv, FieldsOK, Reaches
<1> QED BY <1>1, <1>2, <1>3 DEF Reaches

LEMMA InitIInv == IpcInit => IInv
BY IpcAssumption
DEF IpcInit, IInv, FieldsOK, CallOK, Arrived, ReadSoFar, PagesAsked, Doing, Perm, Reading

\* Every step keeps the invariant.
LEMMA NextIInv == IInv /\ [IpcNext]_ipcVars => IInv'
<1> SUFFICES ASSUME IInv, [IpcNext]_ipcVars  PROVE IInv'
  OBVIOUS
<1> USE DEF IInv, FieldsOK, CallOK, Arrived, ReadSoFar, PagesAsked, Doing, Perm,
            Reading, kernel, Call, Full, Partial
<1>1. CASE UNCHANGED ipcVars
  BY <1>1 DEF ipcVars
<1>2. ASSUME NEW e \in Env, SendBadEnv(e)  PROVE IInv'
  BY <1>2 DEF SendBadEnv, Panics
<1>3. ASSUME NEW e \in Env, SendRetry(e)  PROVE IInv'
  BY <1>3 DEF SendRetry, ipcVars
<1>4. ASSUME NEW e \in Env, SendPageFails(e)  PROVE IInv'
  <2> DEFINE r == call[e].to
  <2>1. Reaches(e)
    BY <1>4 DEF SendPageFails
  <2>2. /\ r \in Env /\ r # e /\ doing[r] = "recv" /\ doing[e] = "send"
        /\ call[e].value \in Env
    BY <2>1, ReachesBlocked DEF Reaches
  <2>3. /\ value' = [value EXCEPT ![r] = call[e].value]
        /\ perm' = [perm EXCEPT ![r] = "none"]
        /\ doing' = [doing EXCEPT ![e] = "panic"]
        /\ UNCHANGED <<window, recving, dstva, from, call, got>>
    BY <1>4 DEF SendPageFails, Panics
  <2> HIDE DEF r
  <2>4. FieldsOK'
    BY <2>2, <2>3
  <2>5. CallOK' /\ Arrived' /\ ReadSoFar' /\ PagesAsked'
    BY <2>2, <2>3
  <2> QED BY <2>4, <2>5
<1>5. ASSUME NEW e \in Env, SendOk(e)  PROVE IInv'
  <2> DEFINE r == call[e].to
  <2>1. Reaches(e)
    BY <1>5 DEF SendOk
  <2>2. /\ r \in Env /\ r # e /\ doing[r] = "recv" /\ doing[e] = "send"
        /\ call[e].value \in Env /\ call[e].perm \in Perm \ {"bad"}
    BY <1>5, <2>1, ReachesBlocked DEF SendOk, Reaches
  <2>3. /\ doing' = [doing EXCEPT ![r] = "read_from", ![e] = "sent"]
        /\ value' = [value EXCEPT ![r] = call[e].value]
        /\ perm' = [perm EXCEPT ![r] = call[e].perm]
        /\ from' = [from EXCEPT ![r] = e]
        /\ recving' = [recving EXCEPT ![r] = FALSE]
        /\ UNCHANGED <<call, got, dstva>>
    BY <1>5 DEF SendOk
  <2>4. window' \in [Env -> [page : Env, write : BOOLEAN]]
    BY <1>5, <2>2 DEF SendOk
  <2> HIDE DEF r
  <2>5. /\ doing'[e] = "sent" /\ doing'[r] = "read_from"
        /\ \A f \in Env \ {e, r} : doing'[f] = doing[f]
        /\ doing' \in [Env -> Doing]
    BY <2>2, <2>3
  <2>6. /\ value'[r] \in Env /\ from'[r] = e /\ ~recving'[r] /\ perm'[r] \in Perm \ {"bad"}
        /\ \A f \in Env \ {r} : /\ value'[f] = value[f] /\ from'[f] = from[f]
                                /\ recving'[f] = recving[f] /\ perm'[f] = perm[f]
    BY <2>2, <2>3
  <2>7. FieldsOK'
    <3>1. /\ value' \in [Env -> Env \cup {NoEnv}]
          /\ from' \in [Env -> Env \cup {NoEnv}]
          /\ perm' \in [Env -> Perm \ {"bad"}]
          /\ recving' \in [Env -> BOOLEAN]
      BY <2>2, <2>3
    <3>2. \A f \in Env : doing[f] # "dead" => (recving[f] <=> doing[f] = "recv")
      OBVIOUS
    <3>3. ASSUME NEW f \in Env  PROVE doing'[f] # "dead" => (recving'[f] <=> doing'[f] = "recv")
      <4> HIDE DEF IInv
      <4>1. CASE f = r
        BY <2>5, <2>6, <4>1
      <4>2. CASE f = e
        BY <2>2, <2>5, <2>6, <3>2, <4>2
      <4>3. CASE f # r /\ f # e
        BY <2>5, <2>6, <3>2, <4>3
      <4> QED BY <4>1, <4>2, <4>3
    <3>4. dstva' \in [Env -> BOOLEAN]
      BY <2>3
    <3> QED BY <2>4, <2>5, <3>1, <3>3, <3>4
  <2>8. CallOK' /\ Arrived' /\ ReadSoFar' /\ PagesAsked'
    BY <2>2, <2>3, <2>5, <2>6
  <2> QED BY <2>7, <2>8
<1>6. ASSUME NEW e \in Env, SendReturn(e)  PROVE IInv'
  BY <1>6 DEF SendReturn
<1>7. ASSUME NEW e \in Env, ReadFrom(e)  PROVE IInv'
  BY <1>7 DEF ReadFrom
<1>8. ASSUME NEW e \in Env, ReadPerm(e)  PROVE IInv'
  BY <1>8 DEF ReadPerm
<1>9. ASSUME NEW e \in Env, ReadValue(e)  PROVE IInv'
  BY <1>9 DEF ReadValue
<1>10. ASSUME NEW e \in Env, Die(e)  PROVE IInv'
  BY <1>10 DEF Die
<1>11. ASSUME NEW e \in Env, NEW b \in BOOLEAN, Recv(e, b),
              e \in (IF b THEN PageReceivers ELSE PlainReceivers)
       PROVE  IInv'
  BY <1>11 DEF Recv
<1>12. ASSUME NEW e \in Env, NEW r \in Receivers, NEW p \in Perms, Send(e, r, p),
              p # "none" => r \in PageReceivers
       PROVE  IInv'
  BY <1>12, IpcAssumption DEF Send, Receivers
<1> HIDE DEF IInv
<1> QED BY <1>1, <1>2, <1>3, <1>4, <1>5, <1>6, <1>7, <1>8, <1>9, <1>10, <1>11,
           <1>12 DEF IpcNext

LEMMA Inductive == IpcSpec => []IInv
BY InitIInv, NextIInv, PTL DEF IpcSpec

\* env_ipc_recving is set exactly while the environment is blocked, and the
\* fields keep their types, whoever sends to whom.
THEOREM FieldsConsistent == IpcSpec => []FieldsOK
<1>1. IInv => FieldsOK
  BY DEF IInv
<1> QED BY <1>1, Inductive, PTL

-----------------------------------------------------------------------------
(* Ipc implements Rendezvous *)

\* The mapping shows the same of environment f.
Same(f) ==
  /\ State(f)' = State(f)
  /\ Offered(f)' = Offered(f)
  /\ Inbox(f)' = Inbox(f)
  /\ Taken(f)' = Taken(f)

\* An environment that the step does nothing to looks the same; what lies in
\* its struct Env counts only while it reads.
LEMMA UntouchedSame ==
  ASSUME NEW f \in Env,
         doing'[f] = doing[f], call'[f] = call[f], got'[f] = got[f],
         doing[f] # "recv" => window'[f] = window[f],
         doing[f] \in Reading =>
           from'[f] = from[f] /\ value'[f] = value[f] /\ perm'[f] = perm[f]
  PROVE  Same(f)
<1>1. State(f)' = State(f)
  BY DEF State
<1>2. Offered(f)' = Offered(f)
  BY DEF Offered
<1>3. Inbox(f)' = Inbox(f)
  BY DEF Inbox, Reading
<1>4. Taken(f)' = Taken(f)
  BY DEF Taken
<1> QED BY <1>1, <1>2, <1>3, <1>4 DEF Same

\* A step that changes the looks of nobody is a stuttering step.
LEMMA AllSame ==
  ASSUME \A f \in Env : Same(f), UNCHANGED <<dstva, err>>
  PROVE  UNCHANGED Abstract!rendezvousVars
BY DEF Same, Abstract!rendezvousVars

\* The arguments of ipc_send are a message of the abstract system.
LEMMA OfferedMessage ==
  ASSUME IInv, NEW s \in Env, doing[s] = "send"
  PROVE  /\ call[s] \in Call
         /\ Offered(s).to = call[s].to
         /\ Offered(s).msg = MsgOf(call[s].value, call[s].perm, window[s].page)
BY DEF IInv, CallOK, Offered

\* sys_ipc_try_send that succeeds hands the message over.
LEMMA SendOkHandsOver ==
  ASSUME IInv, IInv', NEW s \in Env, SendOk(s)
  PROVE  Abstract!Handover(s, call[s].to)
<1>0. Reaches(s)
  BY DEF SendOk
<1>1. PICK r \in Env : r = call[s].to
  BY <1>0, ReachesBlocked
<1>2. /\ r # s /\ doing[r] = "recv" /\ doing[s] = "send"
      /\ call[s] \in Call
  BY <1>0, <1>1, ReachesBlocked DEF Reaches
<1>3. /\ doing' = [doing EXCEPT ![r] = "read_from", ![s] = "sent"]
      /\ value' = [value EXCEPT ![r] = call[s].value]
      /\ perm' = [perm EXCEPT ![r] = call[s].perm]
      /\ from' = [from EXCEPT ![r] = s]
      /\ UNCHANGED <<call, got>>
      /\ window' = IF call[s].perm = "none" THEN window
                   ELSE [window EXCEPT ![r] = [page |-> window[s].page,
                                               write |-> call[s].perm = "W"]]
  BY <1>1 DEF SendOk
<1>4. /\ doing'[s] = "sent" /\ doing'[r] = "read_from"
      /\ \A f \in Env \ {s, r} : doing'[f] = doing[f]
      /\ value'[r] = call[s].value /\ perm'[r] = call[s].perm /\ from'[r] = s
      /\ \A f \in Env \ {r} : /\ value'[f] = value[f] /\ perm'[f] = perm[f]
                              /\ from'[f] = from[f] /\ window'[f] = window[f]
      /\ call[s].perm # "none" => window'[r].page = window[s].page
  BY <1>2, <1>3 DEF IInv, FieldsOK
<1>5. \A f \in Env \ {s, r} : Same(f)
  BY <1>3, <1>4, UntouchedSame
<1>6. /\ State(s) = "send" /\ State(s)' = "idle"
      /\ State(r) = "recv" /\ State(r)' = "full"
  BY <1>2, <1>4 DEF State, Reading
<1>7. /\ Offered(s)' = Nothing /\ Inbox(s) = Nothing /\ Inbox(s)' = Nothing
      /\ Taken(s)' = Taken(s)
  BY <1>2, <1>3, <1>4 DEF Offered, Inbox, Taken, Reading
<1>8. /\ Offered(r)' = Nothing /\ Offered(r) = Nothing
      /\ Taken(r)' = Nothing /\ Taken(r) = Nothing
      /\ Inbox(r) = Nothing
      /\ Inbox(r)' = [from |-> s, msg |-> Offered(s).msg]
  <2>1. Offered(s).msg = MsgOf(call[s].value, call[s].perm, window[s].page)
    BY <1>2, OfferedMessage
  <2>2. Inbox(r)' = [from |-> from'[r], msg |-> MsgOf(value'[r], perm'[r], window'[r].page)]
    BY <1>4 DEF Inbox, Reading, MsgOf
  <2>3. MsgOf(value'[r], perm'[r], window'[r].page)
        = MsgOf(call[s].value, call[s].perm, window[s].page)
    BY <1>4 DEF MsgOf
  <2>4. Inbox(r)' = [from |-> s, msg |-> Offered(s).msg]
    BY <1>4, <2>1, <2>2, <2>3
  <2> QED BY <2>4, <1>2, <1>4 DEF Offered, Taken, Inbox, Reading
<1>9. Offered(s).to = r
  BY <1>1, <1>2, OfferedMessage
\* A receiver that wants no page is sent none here, so nothing is dropped.
<1>10. /\ Offered(s).msg.perm # "bad"
       /\ Abstract!Delivered(Offered(s).msg, dstva[r]) = Offered(s).msg
  <2>1. Offered(s).msg = MsgOf(call[s].value, call[s].perm, window[s].page)
    BY <1>2, OfferedMessage
  <2>2. call[s].perm # "none" => dstva[r] /\ call[s].perm # "bad"
    BY <1>1 DEF SendOk
  <2>3. CASE call[s].perm = "none"
    <3> DEFINE m == [value |-> call[s].value, perm |-> "none", page |-> NoPage]
    <3>1. Offered(s).msg = m
      BY <2>1, <2>3 DEF MsgOf
    <3>2. [value |-> m.value, perm |-> "none", page |-> NoPage] = m
      OBVIOUS
    <3>3. m.perm # "bad"
      OBVIOUS
    <3> HIDE DEF m
    <3> QED BY <3>1, <3>2, <3>3 DEF Abstract!Delivered
  <2>4. CASE call[s].perm # "none"
    BY <2>1, <2>2, <2>4 DEF MsgOf, Abstract!Delivered
  <2> QED BY <2>3, <2>4
<1>11. UNCHANGED <<dstva, err>>
  BY DEF SendOk
<1> QED BY <1>1, <1>2, <1>5, <1>6, <1>7, <1>8, <1>9, <1>10, <1>11
        DEF Abstract!Handover, Same

\* sys_ipc_try_send that fails, before or after it has written into the struct
\* Env of a receiver that stays blocked, is a failure of the sender alone.
LEMMA PanicFails ==
  ASSUME AgreeOnPages, IInv, NEW s \in Env, SendBadEnv(s) \/ SendPageFails(s)
  PROVE  \E why \in {"E_BAD_ENV", "E_INVAL", "E_NO_MEM"} : Abstract!Fail(s, why)
<1>1. /\ doing[s] = "send" /\ call[s] \in Call
      /\ doing' = [doing EXCEPT ![s] = "panic"]
      /\ UNCHANGED <<call, got, window>>
  BY DEF IInv, CallOK, SendBadEnv, SendPageFails, Panics, kernel, Reaches
<1>2. /\ doing'[s] = "panic"
      /\ \A f \in Env \ {s} : doing'[f] = doing[f]
  BY <1>1 DEF IInv, FieldsOK
<1>3. \A f \in Env : doing[f] \in Reading =>
        from'[f] = from[f] /\ value'[f] = value[f] /\ perm'[f] = perm[f]
  <2>1. CASE SendBadEnv(s)
    BY <2>1 DEF SendBadEnv, kernel
  <2>2. CASE SendPageFails(s)
    <3>1. doing[call[s].to] = "recv"
      BY <2>2, ReachesBlocked DEF SendPageFails
    <3> QED BY <2>2, <3>1 DEF SendPageFails, Reading, IInv, FieldsOK
  <2> QED BY <2>1, <2>2
<1>4. \A f \in Env \ {s} : Same(f)
  BY <1>1, <1>2, <1>3, UntouchedSame
<1>5. /\ State(s) = "send" /\ State(s)' = "stuck"
      /\ Offered(s)' = Nothing
      /\ Inbox(s)' = Inbox(s) /\ Taken(s)' = Taken(s)
  BY <1>1, <1>2 DEF State, Offered, Inbox, Taken, Reading
<1>6. Offered(s).to = call[s].to /\ call[s].to \in Env
  BY <1>1, OfferedMessage DEF Call
<1>7. PICK why \in {"E_BAD_ENV", "E_INVAL", "E_NO_MEM"} :
        /\ err' = [err EXCEPT ![s] = why]
        /\ Abstract!Refused(Offered(s).msg, call[s].to, why)
  <2>1. CASE SendBadEnv(s)
    <3>1. State(call[s].to) = "dead" /\ err' = [err EXCEPT ![s] = "E_BAD_ENV"]
      BY <2>1 DEF SendBadEnv, Panics, State, Reading
    <3> QED BY <1>6, <3>1 DEF Abstract!Refused
  <2>2. CASE SendPageFails(s)
    <3>1. /\ doing[call[s].to] = "recv" /\ call[s].perm # "none" /\ window[s].page \in Env
          /\ dstva[call[s].to]
      BY <2>2, ReachesBlocked DEF SendPageFails, IInv, FieldsOK, PagesAsked, AgreeOnPages, Reaches
    <3>2. Offered(s).msg = MsgOf(call[s].value, call[s].perm, window[s].page)
      BY <1>1, OfferedMessage
    <3>3. Offered(s).msg.page # NoPage /\ Offered(s).msg.perm = call[s].perm
      BY <3>1, <3>2, IpcAssumption DEF MsgOf
    <3>4. State(call[s].to) = "recv"
      BY <3>1 DEF State, Reading
    <3>5. err' = [err EXCEPT ![s] = IF call[s].perm # "bad" THEN "E_NO_MEM" ELSE "E_INVAL"]
      BY <2>2, <3>1 DEF SendPageFails, Panics
    <3> QED BY <1>6, <3>1, <3>3, <3>4, <3>5 DEF Abstract!Refused
  <2> QED BY <2>1, <2>2
<1>8. UNCHANGED dstva
  BY DEF SendBadEnv, SendPageFails, kernel
<1>9. Abstract!Fail(s, why)
  BY <1>4, <1>5, <1>6, <1>7, <1>8 DEF Abstract!Fail, Same
<1> QED BY <1>9

\* Calls of ipc_send and ipc_recv, the end of ipc_recv and an exit are what
\* they are called in the abstract system.
LEMMA SendOffers ==
  ASSUME IInv, NEW s \in Env, NEW r \in Receivers, NEW p \in Perms, Send(s, r, p)
  PROVE  Abstract!Offer(s, Env, Messages)
<1>1. /\ doing[s] = "idle" /\ doing' = [doing EXCEPT ![s] = "send"]
      /\ call' = [call EXCEPT ![s] = [to |-> r, value |-> s, perm |-> p]]
      /\ UNCHANGED <<got, window, from, value, perm, dstva, err>>
  BY DEF Send, kernel
<1>2. /\ doing'[s] = "send" /\ call'[s] = [to |-> r, value |-> s, perm |-> p]
      /\ \A f \in Env \ {s} : doing'[f] = doing[f] /\ call'[f] = call[f]
  BY <1>1 DEF IInv, FieldsOK, CallOK
<1>3. \A f \in Env \ {s} : Same(f)
  BY <1>1, <1>2, UntouchedSame
<1>4. /\ State(s) = "idle" /\ State(s)' = "send"
      /\ Inbox(s)' = Inbox(s) /\ Taken(s)' = Taken(s)
  BY <1>1, <1>2 DEF State, Inbox, Taken, Reading
<1> DEFINE m == MsgOf(s, p, window[s].page)
<1>5. Offered(s)' = [to |-> r, msg |-> m]
  BY <1>1, <1>2 DEF Offered, MsgOf
<1>6. r \in Env /\ m \in Messages
  BY IpcAssumption DEF Messages, IInv, FieldsOK, Receivers
<1> HIDE DEF m
<1> QED BY <1>1, <1>3, <1>4, <1>5, <1>6 DEF Abstract!Offer, Same

LEMMA RecvReceives ==
  ASSUME IInv, NEW r \in Env, NEW b \in BOOLEAN, Recv(r, b)
  PROVE  Abstract!Receive(r, b)
<1>1. /\ doing[r] = "idle" /\ doing' = [doing EXCEPT ![r] = "recv"]
      /\ got' = [got EXCEPT ![r] = Nothing] /\ dstva' = [dstva EXCEPT ![r] = b]
      /\ UNCHANGED <<call, window, from, value, perm, err>>
  BY DEF Recv
<1>2. /\ doing'[r] = "recv" /\ got'[r] = Nothing
      /\ \A f \in Env \ {r} : doing'[f] = doing[f] /\ got'[f] = got[f]
  BY <1>1 DEF IInv, FieldsOK, ReadSoFar
<1>3. \A f \in Env \ {r} : Same(f)
  BY <1>1, <1>2, UntouchedSame
<1>4. /\ State(r) = "idle" /\ State(r)' = "recv"
      /\ Offered(r)' = Offered(r) /\ Inbox(r)' = Inbox(r)
      /\ Taken(r)' = Nothing
  BY <1>1, <1>2 DEF State, Offered, Inbox, Taken, Reading
<1> QED BY <1>1, <1>3, <1>4 DEF Abstract!Receive, Same

LEMMA ReadValueReturns ==
  ASSUME IInv, NEW r \in Env, ReadValue(r)
  PROVE  Abstract!Return(r)
<1> DEFINE g == [from |-> from[r], perm |-> perm[r], value |-> value[r]]
<1>1. /\ doing[r] = "read_value" /\ doing' = [doing EXCEPT ![r] = "idle"]
      /\ UNCHANGED <<call, window, from, value, perm, dstva, err>>
      /\ got' = [got EXCEPT ![r] = g]
  <2>1. got[r] = [from |-> from[r], perm |-> perm[r]]
    BY DEF ReadValue, IInv, ReadSoFar
  <2>2. got[r].from = from[r] /\ got[r].perm = perm[r]
    BY <2>1
  <2> QED BY <2>2 DEF ReadValue, kernel
<1>2. g \in Full /\ g # Nothing
  BY <1>1, IpcAssumption DEF IInv, FieldsOK, Arrived, Reading, Full
<1>3. /\ doing'[r] = "idle" /\ got'[r] = g
      /\ \A f \in Env \ {r} : doing'[f] = doing[f] /\ got'[f] = got[f]
  BY <1>1 DEF IInv, FieldsOK, ReadSoFar
<1>4. \A f \in Env \ {r} : Same(f)
  BY <1>1, <1>3, UntouchedSame
<1>5. /\ State(r) = "full" /\ State(r)' = "idle"
      /\ Offered(r)' = Offered(r) /\ Inbox(r)' = Nothing
  BY <1>1, <1>3 DEF State, Offered, Inbox, Reading
<1>6. Taken(r)' = Inbox(r)
  BY <1>1, <1>2, <1>3 DEF Taken, Inbox, Reading, MsgOf
<1> QED BY <1>1, <1>4, <1>5, <1>6 DEF Abstract!Return, Same

LEMMA DieDies ==
  ASSUME IInv, NEW e \in Env, Die(e)
  PROVE  Abstract!Die(e)
<1>1. /\ doing[e] # "dead" /\ doing' = [doing EXCEPT ![e] = "dead"]
      /\ call' = [call EXCEPT ![e] = Nothing]
      /\ got' = [got EXCEPT ![e] = Nothing]
      /\ UNCHANGED <<window, from, value, perm, dstva, err>>
  BY DEF Die, kernel
<1>2. /\ doing'[e] = "dead" /\ got'[e] = Nothing
      /\ \A f \in Env \ {e} : doing'[f] = doing[f] /\ got'[f] = got[f] /\ call'[f] = call[f]
  BY <1>1 DEF IInv, FieldsOK, ReadSoFar, CallOK
<1>3. \A f \in Env \ {e} : Same(f)
  BY <1>1, <1>2, UntouchedSame
<1>4. /\ State(e) # "dead" /\ State(e)' = "dead"
      /\ Offered(e)' = Nothing /\ Inbox(e)' = Nothing /\ Taken(e)' = Nothing
  BY <1>1, <1>2 DEF State, Offered, Inbox, Taken, Reading, IInv, FieldsOK, Doing
<1> QED BY <1>1, <1>3, <1>4 DEF Abstract!Die, Same

\* The retry of ipc_send, its sys_yield and the reads of ipc_recv but the last
\* are not seen.
LEMMA HiddenSteps ==
  ASSUME IInv, NEW e \in Env,
         SendRetry(e) \/ SendReturn(e) \/ ReadFrom(e) \/ ReadPerm(e) \/ UNCHANGED ipcVars
  PROVE  UNCHANGED Abstract!rendezvousVars
<1>1. CASE SendRetry(e) \/ UNCHANGED ipcVars
  <2>1. UNCHANGED ipcVars
    BY <1>1 DEF SendRetry
  <2> QED BY <2>1, UntouchedSame, AllSame DEF ipcVars
<1>2. CASE SendReturn(e) \/ ReadFrom(e) \/ ReadPerm(e)
  <2>1. UNCHANGED <<window, from, value, perm, dstva, err>>
    BY <1>2 DEF SendReturn, ReadFrom, ReadPerm, kernel
  <2>2. \A f \in Env \ {e} : doing'[f] = doing[f] /\ call'[f] = call[f] /\ got'[f] = got[f]
    BY <1>2 DEF SendReturn, ReadFrom, ReadPerm, IInv, FieldsOK, CallOK, ReadSoFar
  <2>3. \/ doing[e] = "sent" /\ doing'[e] = "idle" /\ got'[e] = got[e]
        \/ doing[e] = "read_from" /\ doing'[e] = "read_perm"
        \/ doing[e] = "read_perm" /\ doing'[e] = "read_value"
    BY <1>2 DEF SendReturn, ReadFrom, ReadPerm, IInv, FieldsOK
  <2>4. Same(e)
    BY <2>1, <2>3 DEF Same, State, Offered, Inbox, Taken, Reading
  <2>5. \A f \in Env : Same(f)
    BY <2>1, <2>2, <2>4, UntouchedSame
  <2> QED BY <2>1, <2>5, AllSame
<1> QED BY <1>1, <1>2

\* Every step of Ipc is a step of Rendezvous or changes nothing there.
LEMMA StepMaps ==
  ASSUME AgreeOnPages
  PROVE  IInv /\ IInv' /\ [IpcNext]_ipcVars => [Abstract!Next]_(Abstract!rendezvousVars)
<1> SUFFICES ASSUME IInv, IInv', [IpcNext]_ipcVars
             PROVE  Abstract!Next \/ UNCHANGED Abstract!rendezvousVars
  OBVIOUS
<1>1. ASSUME NEW e \in Env, SendBadEnv(e) \/ SendPageFails(e)  PROVE Abstract!Next
  BY <1>1, PanicFails DEF Abstract!Next
<1>2. ASSUME NEW e \in Env, SendOk(e)  PROVE Abstract!Next
  <2>1. Abstract!Handover(e, call[e].to)
    BY <1>2, SendOkHandsOver
  <2>2. call[e].to \in Env
    BY <1>2, ReachesBlocked DEF SendOk
  <2> QED BY <2>1, <2>2 DEF Abstract!Next
<1>3. ASSUME NEW e \in Env, NEW b \in BOOLEAN, Recv(e, b)  PROVE Abstract!Next
  BY <1>3, RecvReceives DEF Abstract!Next
<1>4. ASSUME NEW e \in Env, NEW r \in Receivers, NEW p \in Perms, Send(e, r, p)
      PROVE  Abstract!Next
  BY <1>4, SendOffers DEF Abstract!Next
<1>5. ASSUME NEW e \in Env, ReadValue(e)  PROVE Abstract!Next
  BY <1>5, ReadValueReturns DEF Abstract!Next
<1>6. ASSUME NEW e \in Env, Die(e)  PROVE Abstract!Next
  BY <1>6, DieDies DEF Abstract!Next
<1>7. ASSUME NEW e \in Env, SendRetry(e) \/ SendReturn(e) \/ ReadFrom(e) \/ ReadPerm(e)
      PROVE  UNCHANGED Abstract!rendezvousVars
  BY <1>7, HiddenSteps
<1>8. CASE UNCHANGED ipcVars
  <2>1. \A f \in Env : Same(f)
    BY <1>8, UntouchedSame DEF ipcVars
  <2> QED BY <1>8, <2>1, AllSame DEF ipcVars
<1> QED BY <1>1, <1>2, <1>3, <1>4, <1>5, <1>6, <1>7, <1>8 DEF IpcNext

\* ipc_send and ipc_recv implement the rendezvous: a receiver returns exactly
\* one sender's message, with its page, that sender alone goes on, and a sender
\* fails only for the reasons of kern/syscall.c:280, for any number of environments
\* that send, receive, fail half-way or die, if nobody sends a page to an
\* environment that may ask for none.
THEOREM IpcIsRendezvous == ASSUME AgreeOnPages PROVE IpcSpec => ImplementsRendezvous
<1>1. IpcInit => Abstract!Init
  BY DEF IpcInit, Abstract!Init, State, Offered, Inbox, Taken, Reading
<1> QED
  BY <1>1, StepMaps, Inductive, PTL DEF IpcSpec, ImplementsRendezvous, Abstract!Spec

-----------------------------------------------------------------------------
(* The threads homework: HashTable.  The lists are chains of decreasing    *)
(* places in the heap, so that what get still has to search is a matter of *)
(* order.                                                                  *)

Buckets == 0 .. NBUCKET - 1
ListEntry == [key : Nat, value : Hash!Thread, next : Nat]
Places == {"lock", "put", "insert", "add", "spin", "get", "exit"}

HashTypeOK ==
  /\ heads \in [Buckets -> Nat] /\ heap \in Seq(ListEntry)
  /\ mutex \in Hash!Thread \cup {Hash!NoThread} /\ passed \in Nat
  /\ where \in [Hash!Thread -> Places] /\ turn \in [Hash!Thread -> Nat]
  /\ cursor \in [Hash!Thread -> Nat] /\ loaded \in [Hash!Thread -> Nat] /\ missing \in [Hash!Thread -> Nat]

\* Of the first m entries of the heap h, p is the last one in bucket q, or Nil.
IsLast(h, m, q, p) ==
  /\ p \in 0 .. m
  /\ p # Hash!Nil => Hash!Bucket(h[p].key) = q
  /\ \A x \in 1 .. m : Hash!Bucket(h[x].key) = q => x <= p

\* The head of a list is the last entry of its bucket, and every entry points to
\* the last one before it: nothing is left out.
ListsOK ==
  /\ \A q \in Buckets : IsLast(heap, Len(heap), q, heads[q])
  /\ \A x \in 1 .. Len(heap) : IsLast(heap, x - 1, Hash!Bucket(heap[x].key), heap[x].next)

\* The thread between the load and the store of the head has the lock.
LockHeld == \A t \in Hash!Thread : where[t] \in {"put", "insert"} <=> mutex = t

\* So what it loaded is still the head.
InsertOK ==
  \A t \in Hash!Thread :
    where[t] = "insert" => turn[t] < Hash!b /\ loaded[t] = heads[Hash!Bucket(Hash!PutKey(t))]

InHeap(k) == \E x \in 1 .. Len(heap) : heap[x].key = k

\* A thread has put the keys before its loop variable, and in the end all of its part.
Putting == {"lock", "put", "insert"}
PutsOK ==
  \A t \in Hash!Thread :
    /\ where[t] \in Putting => turn[t] <= Hash!b
    /\ \A j \in 0 .. Hash!b - 1 : j < turn[t] \/ where[t] \notin Putting => InHeap(keys[Hash!b * t + j + 1])

\* done counts the threads behind the puts, and nobody looks a key up before
\* that are all of them.
Behind == {t \in Hash!Thread : where[t] \in {"spin", "get", "exit"}}
BarrierOK ==
  /\ passed = Cardinality(Behind)
  /\ (\E t \in Hash!Thread : where[t] \in {"get", "exit"}) => Behind = Hash!Thread

\* A thread in get stands at an entry of the right list, not behind the key.
GetOK ==
  \A t \in Hash!Thread : where[t] = "get" =>
    /\ turn[t] < Hash!NKEYS
    /\ cursor[t] \in 1 .. Len(heap)
    /\ Hash!Bucket(heap[cursor[t]].key) = Hash!Bucket(keys[turn[t] + 1])
    /\ \E x \in 1 .. cursor[t] : heap[x].key = keys[turn[t] + 1]

HashInv ==
  /\ HashTypeOK /\ ListsOK /\ LockHeld /\ InsertOK /\ PutsOK /\ BarrierOK /\ GetOK
  /\ Hash!NoKeyMissing

-----------------------------------------------------------------------------
(* The parts of the keys, and the lists *)

LEMMA BucketType ==
  ASSUME Hash!HashTableAssumption, NEW k \in Nat
  PROVE  Hash!Bucket(k) \in Buckets
BY SMT DEF Hash!HashTableAssumption, Hash!Bucket, Buckets

\* Every key is in the part of one thread.
LEMMA PartsCover ==
  ASSUME Hash!HashTableAssumption
  PROVE  /\ Hash!NKEYS \in Nat \ {0} /\ Hash!b \in Nat
         /\ \A k \in 1 .. Hash!NKEYS : keys[k] \in Nat
         /\ \A t \in Hash!Thread, j \in 0 .. Hash!b - 1 : Hash!b * t + j + 1 \in 1 .. Hash!NKEYS
         /\ \A k \in 1 .. Hash!NKEYS : \E t \in Hash!Thread, j \in 0 .. Hash!b - 1 : k = Hash!b * t + j + 1
<1> USE DEF Hash!HashTableAssumption
<1>1. Hash!NKEYS \in Nat \ {0} /\ nthread \in Nat \ {0} /\ \A k \in 1 .. Hash!NKEYS : keys[k] \in Nat
  BY DEF Hash!NKEYS
<1>2. Hash!b \in Nat /\ Hash!b * nthread = Hash!NKEYS
  BY <1>1 DEF Hash!b
<1>3. Hash!b > 0
  BY <1>1, <1>2
<1>4. ASSUME NEW t \in Hash!Thread, NEW j \in 0 .. Hash!b - 1
      PROVE  Hash!b * t + j + 1 \in 1 .. Hash!NKEYS
  <2>1. t \in Nat /\ t + 1 <= nthread
    BY <1>1 DEF Hash!Thread
  <2>2. Hash!b * t \in Nat /\ Hash!b * (t + 1) = Hash!b * t + Hash!b
    BY <1>2, <2>1
  <2>3. Hash!b * (t + 1) <= Hash!b * nthread
    BY <1>1, <1>2, <2>1
  <2> QED BY <1>2, <1>1, <2>2, <2>3
<1>5. ASSUME NEW k \in 1 .. Hash!NKEYS
      PROVE  \E t \in Hash!Thread, j \in 0 .. Hash!b - 1 : k = Hash!b * t + j + 1
  <2> DEFINE t == (k - 1) \div Hash!b
             j == (k - 1) % Hash!b
  <2>1. k - 1 = Hash!b * t + j /\ j \in 0 .. Hash!b - 1 /\ t \in Nat
    BY <1>1, <1>2, <1>3
  <2>2. t < nthread
    <3> SUFFICES ASSUME t >= nthread PROVE FALSE
      BY <1>1, <2>1
    <3> HIDE DEF t, j
    <3>1. PICK d \in Nat : t = nthread + d
      BY <1>1, <2>1
    <3>2. Hash!b * t = Hash!b * nthread + Hash!b * d /\ Hash!b * d \in Nat
      BY <1>1, <1>2, <3>1
    <3> QED BY <1>1, <1>2, <2>1, <3>2
  <2>3. t \in Hash!Thread
    BY <1>1, <2>1, <2>2 DEF Hash!Thread
  <2>4. k = Hash!b * t + j + 1
    <3> HIDE DEF t, j
    <3>1. Hash!b * t \in Nat
      BY <1>2, <2>1
    <3> QED BY <2>1, <3>1
  <2> QED BY <2>1, <2>3, <2>4
<1> QED BY <1>1, <1>2, <1>4, <1>5

\* insert puts the new entry at the head of its list, and the other lists stay.
LEMMA ListsGrow ==
  ASSUME Hash!HashTableAssumption, heap \in Seq(ListEntry), heads \in [Buckets -> Nat], ListsOK,
         NEW x \in ListEntry, x.next = heads[Hash!Bucket(x.key)],
         heap' = Append(heap, x), heads' = [heads EXCEPT ![Hash!Bucket(x.key)] = Len(heap')]
  PROVE  /\ heap' \in Seq(ListEntry) /\ Len(heap') = Len(heap) + 1 /\ heap'[Len(heap')] = x
         /\ \A y \in 1 .. Len(heap) : heap'[y] = heap[y]
         /\ heads' \in [Buckets -> Nat] /\ ListsOK'
<1> DEFINE old == Len(heap)
           bx == Hash!Bucket(x.key)
<1>1. /\ heap' \in Seq(ListEntry) /\ Len(heap') = old + 1 /\ heap'[Len(heap')] = x /\ old \in Nat
      /\ \A y \in 1 .. old : heap'[y] = heap[y]
  BY AppendProperties
<1>2. bx \in Buckets
  BY BucketType DEF ListEntry
<1>3. heads' \in [Buckets -> Nat] /\ \A q \in Buckets : heads'[q] = IF q = bx THEN old + 1 ELSE heads[q]
  BY <1>1, <1>2
<1>4. ASSUME NEW m \in 0 .. old, NEW q, NEW p, IsLast(heap, m, q, p)
      PROVE  IsLast(heap', m, q, p)
  BY <1>1, <1>4 DEF IsLast, Hash!Nil
<1>5. ASSUME NEW q \in Buckets
      PROVE  IsLast(heap', Len(heap'), q, heads'[q])
  <2>1. CASE q = bx
    <3>1. heads'[q] = old + 1 /\ Hash!Bucket(heap'[old + 1].key) = q
      BY <1>1, <1>3, <2>1
    <3> QED BY <1>1, <3>1 DEF IsLast
  <2>2. CASE q # bx
    <3>1. heads'[q] = heads[q] /\ Hash!Bucket(heap'[old + 1].key) # q
      BY <1>1, <1>3, <2>2
    <3>2. IsLast(heap', old, q, heads[q])
      BY <1>1, <1>4 DEF ListsOK
    <3>3. \A y \in 1 .. old + 1 : y \in 1 .. old \/ y = old + 1
      BY <1>1
    <3>4. heads[q] \in 0 .. old + 1 /\ \A y \in 1 .. old + 1 : Hash!Bucket(heap'[y].key) = q => y <= heads[q]
      BY <1>1, <3>1, <3>2, <3>3 DEF IsLast
    <3> QED BY <1>1, <3>1, <3>2, <3>4 DEF IsLast
  <2> QED BY <2>1, <2>2
<1>6. ASSUME NEW y \in 1 .. Len(heap')
      PROVE  IsLast(heap', y - 1, Hash!Bucket(heap'[y].key), heap'[y].next)
  <2>1. CASE y \in 1 .. old
    BY <1>1, <1>4, <2>1 DEF ListsOK
  <2>2. CASE y = old + 1
    <3>1. IsLast(heap, old, bx, heads[bx])
      BY <1>2 DEF ListsOK
    <3>2. IsLast(heap', old, bx, x.next)
      BY <1>1, <1>4, <3>1
    <3> QED BY <1>1, <2>2, <3>2
  <2> QED BY <1>1, <2>1, <2>2
<1> QED BY <1>1, <1>3, <1>5, <1>6 DEF ListsOK

\* The next entry of the list still has the key before it.
LEMMA SearchGoesOn ==
  ASSUME Hash!HashTableAssumption, NEW h \in Seq(ListEntry), NEW k \in Nat, NEW y \in 1 .. Len(h),
         IsLast(h, y - 1, Hash!Bucket(h[y].key), h[y].next), Hash!Bucket(h[y].key) = Hash!Bucket(k),
         h[y].key # k, \E x \in 1 .. y : h[x].key = k
  PROVE  /\ h[y].next \in 1 .. Len(h) /\ Hash!Bucket(h[h[y].next].key) = Hash!Bucket(k)
         /\ \E x \in 1 .. h[y].next : h[x].key = k
<1>1. PICK x \in 1 .. y : h[x].key = k
  OBVIOUS
<1>2. x \in 1 .. y - 1
  BY <1>1
<1>3. x <= h[y].next /\ h[y].next \in 0 .. y - 1
  BY <1>1, <1>2 DEF IsLast
<1> QED BY <1>1, <1>2, <1>3 DEF IsLast, Hash!Nil

\* The head of the list has the key behind it, when it is in the heap.
LEMMA SearchStarts ==
  ASSUME Hash!HashTableAssumption, NEW h \in Seq(ListEntry), NEW k \in Nat, NEW p,
         IsLast(h, Len(h), Hash!Bucket(k), p), \E x \in 1 .. Len(h) : h[x].key = k
  PROVE  p \in 1 .. Len(h) /\ Hash!Bucket(h[p].key) = Hash!Bucket(k) /\ \E x \in 1 .. p : h[x].key = k
<1>1. PICK x \in 1 .. Len(h) : h[x].key = k
  OBVIOUS
<1>2. x <= p /\ p \in 0 .. Len(h)
  BY <1>1 DEF IsLast
<1> QED BY <1>1, <1>2 DEF IsLast, Hash!Nil

\* When all threads are behind the puts, every key is there.
LEMMA AllKeysPut ==
  ASSUME Hash!HashTableAssumption, PutsOK, Behind = Hash!Thread, NEW k \in 1 .. Hash!NKEYS
  PROVE  InHeap(keys[k])
<1>1. PICK t \in Hash!Thread, j \in 0 .. Hash!b - 1 : k = Hash!b * t + j + 1
  BY PartsCover
<1>2. where[t] \notin Putting
  BY DEF Behind, Putting
<1> QED BY <1>1, <1>2 DEF PutsOK

LEMMA ThreadType ==
  ASSUME Hash!HashTableAssumption
  PROVE  Hash!NoThread \notin Hash!Thread /\ IsFiniteSet(Hash!Thread) /\ Cardinality(Hash!Thread) = nthread
<1>1. nthread \in Nat \ {0}
  BY DEF Hash!HashTableAssumption
<1>2. IsFiniteSet(0 .. nthread - 1) /\ Cardinality(0 .. nthread - 1) = nthread
  BY <1>1, FS_Interval
<1> QED BY <1>1, <1>2 DEF Hash!Thread, Hash!NoThread

-----------------------------------------------------------------------------
(* The invariant *)

LEMMA HashInit ==
  ASSUME Hash!HashTableAssumption, Hash!Init
  PROVE  HashInv
<1>1. NBUCKET \in Nat \ {0} /\ nthread \in Nat \ {0} /\ Hash!b \in Nat
  BY PartsCover DEF Hash!HashTableAssumption
<1>2. heap \in Seq(ListEntry) /\ Len(heap) = 0
  BY DEF Hash!Init
<1>3. HashTypeOK
  BY <1>1, <1>2 DEF Hash!Init, HashTypeOK, Buckets, Places, Hash!Nil, Hash!NoThread
<1>4. ListsOK
  BY <1>2 DEF Hash!Init, ListsOK, IsLast, Buckets, Hash!Nil
<1>5. LockHeld /\ InsertOK /\ PutsOK /\ GetOK /\ Hash!NoKeyMissing
  BY <1>1, ThreadType DEF Hash!Init, LockHeld, InsertOK, PutsOK, GetOK, Hash!NoKeyMissing, Putting
<1>6. Behind = {}
  BY DEF Hash!Init, Behind
<1>7. BarrierOK
  BY <1>6, FS_EmptySet DEF Hash!Init, BarrierOK
<1> QED BY <1>3, <1>4, <1>5, <1>7 DEF HashInv

LEMMA LockKeeps ==
  ASSUME Hash!HashTableAssumption, HashInv, NEW t \in Hash!Thread, Hash!Lock(t)
  PROVE  HashInv'
<1> USE DEF HashInv
<1>1. /\ where[t] = "lock" /\ where' = [where EXCEPT ![t] = "put"] /\ mutex = Hash!NoThread /\ mutex' = t
      /\ UNCHANGED <<heads, heap, passed, turn, cursor, loaded, missing>>
  BY DEF Hash!Lock, Hash!Goto
<1>2. where'[t] = "put" /\ \A u \in Hash!Thread : u # t => where'[u] = where[u]
  BY <1>1 DEF HashTypeOK
<1>3. HashTypeOK'
  BY <1>1 DEF HashTypeOK, Places, Buckets
<1>4. ListsOK' /\ Hash!NoKeyMissing'
  BY <1>1 DEF ListsOK, Hash!NoKeyMissing, IsLast
<1>5. LockHeld'
  BY <1>1, <1>2, ThreadType DEF LockHeld
<1>6. InsertOK'
  BY <1>1, <1>2 DEF InsertOK, Hash!PutKey
<1>7. PutsOK'
  BY <1>1, <1>2 DEF PutsOK, Putting, InHeap
<1>8. Behind' = Behind
  BY <1>1, <1>2 DEF Behind
<1>9. BarrierOK'
  BY <1>1, <1>2, <1>8 DEF BarrierOK
<1>10. GetOK'
  BY <1>1, <1>2 DEF GetOK
<1> QED BY <1>3, <1>4, <1>5, <1>6, <1>7, <1>9, <1>10

LEMMA PutKeeps ==
  ASSUME Hash!HashTableAssumption, HashInv, NEW t \in Hash!Thread, Hash!Put(t)
  PROVE  HashInv'
<1> USE DEF HashInv
<1>1. /\ where[t] = "put" /\ where' = [where EXCEPT ![t] = "insert"] /\ turn[t] < Hash!b
      /\ loaded' = [loaded EXCEPT ![t] = heads[Hash!Bucket(Hash!PutKey(t))]]
      /\ UNCHANGED <<heads, heap, mutex, passed, turn, cursor, missing>>
  BY DEF Hash!Put, Hash!Goto
<1>2. where'[t] = "insert" /\ \A u \in Hash!Thread : u # t => where'[u] = where[u]
  BY <1>1 DEF HashTypeOK
<1>3. Hash!PutKey(t) \in Nat
  <2>1. turn[t] \in 0 .. Hash!b - 1
    BY <1>1, PartsCover DEF HashTypeOK
  <2> QED BY <2>1, PartsCover DEF Hash!PutKey
<1>4. HashTypeOK'
  BY <1>1, <1>3, BucketType DEF HashTypeOK, Places
<1>5. ListsOK' /\ Hash!NoKeyMissing'
  BY <1>1 DEF ListsOK, Hash!NoKeyMissing, IsLast
<1>6. LockHeld'
  BY <1>1, <1>2 DEF LockHeld
<1>7. InsertOK'
  <2>1. loaded'[t] = heads[Hash!Bucket(Hash!PutKey(t))] /\ Hash!PutKey(t)' = Hash!PutKey(t)
    BY <1>1 DEF HashTypeOK, Hash!PutKey
  <2>2. \A u \in Hash!Thread : u # t => where'[u] # "insert"
    BY <1>1, <1>2 DEF LockHeld
  <2> QED BY <1>1, <2>1, <2>2 DEF InsertOK
<1>8. PutsOK'
  BY <1>1, <1>2 DEF PutsOK, Putting, InHeap
<1>9. Behind' = Behind
  BY <1>1, <1>2 DEF Behind
<1>10. BarrierOK'
  BY <1>1, <1>2, <1>9 DEF BarrierOK
<1>11. GetOK'
  BY <1>1, <1>2 DEF GetOK
<1> QED BY <1>4, <1>5, <1>6, <1>7, <1>8, <1>10, <1>11

LEMMA InsertKeeps ==
  ASSUME Hash!HashTableAssumption, HashInv, NEW t \in Hash!Thread, Hash!Insert(t)
  PROVE  HashInv'
<1> USE DEF HashInv
<1> DEFINE x == [key |-> Hash!PutKey(t), value |-> t, next |-> loaded[t]]
<1>1. /\ where[t] = "insert" /\ where' = [where EXCEPT ![t] = "put"] /\ heap' = Append(heap, x)
      /\ heads' = [heads EXCEPT ![Hash!Bucket(x.key)] = Len(heap')] /\ turn' = [turn EXCEPT ![t] = @ + 1]
      /\ UNCHANGED <<mutex, passed, cursor, loaded, missing>>
  BY DEF Hash!Insert, Hash!Goto
<1>2. /\ where'[t] = "put" /\ turn'[t] = turn[t] + 1 /\ turn[t] \in 0 .. Hash!b - 1
      /\ \A u \in Hash!Thread : u # t => where'[u] = where[u] /\ turn'[u] = turn[u]
  BY <1>1, PartsCover DEF HashTypeOK, InsertOK
<1>3. x \in ListEntry /\ x.key = Hash!PutKey(t) /\ x.next = heads[Hash!Bucket(x.key)]
  BY <1>1, <1>2, PartsCover DEF ListEntry, Hash!PutKey, HashTypeOK, InsertOK
<1>4. /\ heap' \in Seq(ListEntry) /\ Len(heap') = Len(heap) + 1 /\ heap'[Len(heap')] = x
      /\ \A y \in 1 .. Len(heap) : heap'[y] = heap[y]
      /\ heads' \in [Buckets -> Nat] /\ ListsOK'
  <2> HIDE DEF x
  <2>1. heap \in Seq(ListEntry) /\ heads \in [Buckets -> Nat] /\ ListsOK
    BY DEF HashTypeOK
  <2> QED BY <1>1, <1>3, <2>1, ListsGrow
<1>5. HashTypeOK'
  <2>1. where' \in [Hash!Thread -> Places]
    BY <1>1 DEF HashTypeOK, Places
  <2>2. turn' \in [Hash!Thread -> Nat]
    BY <1>1 DEF HashTypeOK
  <2> QED BY <1>1, <1>4, <2>1, <2>2 DEF HashTypeOK
<1>6. LockHeld' /\ Hash!NoKeyMissing'
  BY <1>1, <1>2 DEF LockHeld, Hash!NoKeyMissing
<1>7. \A u \in Hash!Thread : where'[u] \notin {"insert", "get", "exit"}
  <2>1. t \notin Behind
    BY <1>1 DEF Behind
  <2> QED BY <1>1, <1>2, <2>1 DEF LockHeld, BarrierOK
<1>8. InsertOK' /\ GetOK'
  BY <1>7 DEF InsertOK, GetOK
<1>9. PutsOK'
  <2>1. ASSUME NEW k, InHeap(k) PROVE InHeap(k)'
    BY <1>4, <2>1 DEF InHeap, HashTypeOK
  <2>2. \E y \in 1 .. Len(heap') : heap'[y].key = keys[Hash!b * t + turn[t] + 1]
    <3>1. heap'[Len(heap')].key = keys[Hash!b * t + turn[t] + 1] /\ Len(heap') \in 1 .. Len(heap')
      BY <1>3, <1>4 DEF HashTypeOK, Hash!PutKey
    <3> QED BY <3>1
  <2>3. turn'[t] <= Hash!b /\ \A j \in 0 .. Hash!b - 1 : j < turn'[t] => InHeap(keys[Hash!b * t + j + 1])'
    <3>1. Hash!b \in Nat /\ turn'[t] <= Hash!b
      BY <1>2, PartsCover
    <3>2. ASSUME NEW j \in 0 .. Hash!b - 1, j < turn'[t]
          PROVE  InHeap(keys[Hash!b * t + j + 1])'
      <4>1. CASE j = turn[t]
        BY <2>2, <4>1 DEF InHeap
      <4>2. CASE j < turn[t]
        BY <2>1, <4>2 DEF PutsOK
      <4> QED BY <1>2, <3>1, <3>2, <4>1, <4>2 DEF HashTypeOK
    <3> QED BY <3>1, <3>2
  <2> QED BY <1>1, <1>2, <2>1, <2>3 DEF PutsOK, Putting
<1>10. Behind' = Behind
  BY <1>1, <1>2 DEF Behind
<1>11. BarrierOK'
  BY <1>1, <1>7, <1>10 DEF BarrierOK
<1> QED BY <1>4, <1>5, <1>6, <1>8, <1>9, <1>11

LEMMA UnlockKeeps ==
  ASSUME Hash!HashTableAssumption, HashInv, NEW t \in Hash!Thread, Hash!Unlock(t)
  PROVE  HashInv'
<1> USE DEF HashInv
<1>1. /\ where[t] = "put" /\ where' = [where EXCEPT ![t] = "add"] /\ turn[t] = Hash!b /\ mutex' = Hash!NoThread
      /\ UNCHANGED <<heads, heap, passed, turn, cursor, loaded, missing>>
  BY DEF Hash!Unlock, Hash!Goto
<1>2. where'[t] = "add" /\ \A u \in Hash!Thread : u # t => where'[u] = where[u]
  BY <1>1 DEF HashTypeOK
<1>3. HashTypeOK'
  BY <1>1 DEF HashTypeOK, Places
<1>4. ListsOK' /\ Hash!NoKeyMissing'
  BY <1>1 DEF ListsOK, Hash!NoKeyMissing
<1>5. LockHeld'
  BY <1>1, <1>2, ThreadType DEF LockHeld
<1>6. InsertOK'
  BY <1>1, <1>2 DEF InsertOK, Hash!PutKey
<1>7. PutsOK'
  <2>1. \A j \in 0 .. Hash!b - 1 : j < turn[t]
    BY <1>1, PartsCover
  <2> QED BY <1>1, <1>2, <2>1 DEF PutsOK, Putting, InHeap
<1>8. Behind' = Behind
  BY <1>1, <1>2 DEF Behind
<1>9. BarrierOK'
  BY <1>1, <1>2, <1>8 DEF BarrierOK
<1>10. GetOK'
  BY <1>1, <1>2 DEF GetOK
<1> QED BY <1>3, <1>4, <1>5, <1>6, <1>7, <1>9, <1>10

LEMMA AddKeeps ==
  ASSUME Hash!HashTableAssumption, HashInv, NEW t \in Hash!Thread, Hash!Add(t)
  PROVE  HashInv'
<1> USE DEF HashInv
<1>1. /\ where[t] = "add" /\ where' = [where EXCEPT ![t] = "spin"] /\ passed' = passed + 1
      /\ UNCHANGED <<heads, heap, mutex, turn, cursor, loaded, missing>>
  BY DEF Hash!Add, Hash!Goto
<1>2. where'[t] = "spin" /\ \A u \in Hash!Thread : u # t => where'[u] = where[u]
  BY <1>1 DEF HashTypeOK
<1>3. HashTypeOK'
  BY <1>1 DEF HashTypeOK, Places
<1>4. ListsOK' /\ Hash!NoKeyMissing'
  BY <1>1 DEF ListsOK, Hash!NoKeyMissing
<1>5. LockHeld' /\ InsertOK'
  BY <1>1, <1>2 DEF LockHeld, InsertOK, Hash!PutKey
<1>6. PutsOK'
  BY <1>1, <1>2 DEF PutsOK, Putting, InHeap
<1>7. t \notin Behind /\ Behind' = Behind \cup {t}
  BY <1>1, <1>2 DEF Behind
<1>8. IsFiniteSet(Behind)
  <2>1. Behind \in SUBSET Hash!Thread
    BY DEF Behind
  <2> QED BY <2>1, ThreadType, FS_Subset
<1>9. Cardinality(Behind') = Cardinality(Behind) + 1
  BY <1>7, <1>8, FS_AddElement
<1>10. BarrierOK'
  BY <1>1, <1>2, <1>7, <1>9 DEF BarrierOK
<1>11. GetOK'
  BY <1>1, <1>2 DEF GetOK
<1> QED BY <1>3, <1>4, <1>5, <1>6, <1>10, <1>11

\* What thread t does when it starts to look up keys[k].
LEMMA GetStarts ==
  ASSUME Hash!HashTableAssumption, HashInv, Behind = Hash!Thread, NEW k \in 1 .. Hash!NKEYS
  PROVE  LET p == heads[Hash!Bucket(keys[k])] IN
         /\ p \in 1 .. Len(heap) /\ Hash!Bucket(heap[p].key) = Hash!Bucket(keys[k])
         /\ \E x \in 1 .. p : heap[x].key = keys[k]
<1>1. keys[k] \in Nat /\ Hash!Bucket(keys[k]) \in Buckets
  BY PartsCover, BucketType
<1>2. heap \in Seq(ListEntry) /\ IsLast(heap, Len(heap), Hash!Bucket(keys[k]), heads[Hash!Bucket(keys[k])])
  BY <1>1 DEF HashInv, HashTypeOK, ListsOK
<1>3. \E x \in 1 .. Len(heap) : heap[x].key = keys[k]
  BY AllKeysPut DEF HashInv, InHeap
<1> QED BY <1>1, <1>2, <1>3, SearchStarts

LEMMA SpinKeeps ==
  ASSUME Hash!HashTableAssumption, HashInv, NEW t \in Hash!Thread, Hash!Spin(t)
  PROVE  HashInv'
<1> USE DEF HashInv
<1>1. /\ where[t] = "spin" /\ where' = [where EXCEPT ![t] = "get"] /\ passed >= nthread
      /\ turn' = [turn EXCEPT ![t] = 0] /\ cursor' = [cursor EXCEPT ![t] = heads[Hash!Bucket(keys[1])]]
      /\ UNCHANGED <<heads, heap, mutex, passed, loaded, missing>>
  BY DEF Hash!Spin, Hash!Goto
<1>2. /\ where'[t] = "get" /\ turn'[t] = 0 /\ cursor'[t] = heads[Hash!Bucket(keys[1])]
      /\ \A u \in Hash!Thread : u # t => where'[u] = where[u] /\ turn'[u] = turn[u] /\ cursor'[u] = cursor[u]
  BY <1>1 DEF HashTypeOK
<1>3. Behind = Hash!Thread
  <2>1. Behind \in SUBSET Hash!Thread /\ Cardinality(Behind) >= nthread
    BY <1>1 DEF Behind, BarrierOK
  <2>2. Cardinality(Behind) <= Cardinality(Hash!Thread) /\ Cardinality(Behind) \in Nat
    BY <2>1, ThreadType, FS_Subset, FS_CardinalityType
  <2>3. Cardinality(Behind) = Cardinality(Hash!Thread)
    BY <2>1, <2>2, ThreadType DEF Hash!HashTableAssumption
  <2> QED BY <2>1, <2>3, ThreadType, FS_Subset
<1>4. 1 \in 1 .. Hash!NKEYS
  BY PartsCover
<1>5. cursor'[t] \in Nat
  BY <1>2, <1>3, <1>4, GetStarts DEF HashTypeOK
<1>6. HashTypeOK'
  BY <1>1, <1>2, <1>5 DEF HashTypeOK, Places
<1>7. ListsOK' /\ Hash!NoKeyMissing'
  BY <1>1 DEF ListsOK, Hash!NoKeyMissing
<1>8. \A u \in Hash!Thread : where'[u] \in {"spin", "get", "exit"}
  BY <1>2, <1>3 DEF Behind
<1>9. LockHeld' /\ InsertOK'
  BY <1>1, <1>2, <1>8 DEF LockHeld, InsertOK, Hash!PutKey
<1>10. PutsOK'
  BY <1>1, <1>2, <1>3, <1>8 DEF PutsOK, Putting, InHeap, Behind
<1>11. Behind' = Behind
  BY <1>3, <1>8 DEF Behind
<1>12. BarrierOK'
  BY <1>1, <1>3, <1>11 DEF BarrierOK
<1>13. GetOK'
  <2>1. /\ 0 < Hash!NKEYS /\ cursor'[t] \in 1 .. Len(heap)
        /\ Hash!Bucket(heap[cursor'[t]].key) = Hash!Bucket(keys[1])
        /\ \E x \in 1 .. cursor'[t] : heap[x].key = keys[1]
    <3>1. 0 < Hash!NKEYS
      BY PartsCover
    <3> QED BY <1>2, <1>3, <1>4, <3>1, GetStarts
  <2>2. turn'[t] + 1 = 1
    BY <1>2
  <2> QED BY <1>1, <1>2, <2>1, <2>2 DEF GetOK
<1> QED BY <1>6, <1>7, <1>9, <1>10, <1>12, <1>13

LEMMA FollowKeeps ==
  ASSUME Hash!HashTableAssumption, HashInv, NEW t \in Hash!Thread, Hash!Follow(t)
  PROVE  HashInv'
<1> USE DEF HashInv
<1> DEFINE k == keys[turn[t] + 1]
<1>1. /\ where[t] = "get" /\ heap[cursor[t]].key # k /\ cursor' = [cursor EXCEPT ![t] = heap[@].next]
      /\ UNCHANGED <<heads, heap, mutex, passed, where, turn, loaded, missing>>
  BY DEF Hash!Follow, Hash!Found
<1>2. /\ cursor'[t] = heap[cursor[t]].next /\ \A u \in Hash!Thread : u # t => cursor'[u] = cursor[u]
  BY <1>1 DEF HashTypeOK
<1>3. /\ k \in Nat /\ cursor[t] \in 1 .. Len(heap) /\ Hash!Bucket(heap[cursor[t]].key) = Hash!Bucket(k)
      /\ \E x \in 1 .. cursor[t] : heap[x].key = k
  <2>1. turn[t] + 1 \in 1 .. Hash!NKEYS
    BY <1>1, PartsCover DEF GetOK, HashTypeOK
  <2> QED BY <1>1, <2>1, PartsCover DEF GetOK
<1>4. /\ cursor'[t] \in 1 .. Len(heap) /\ Hash!Bucket(heap[cursor'[t]].key) = Hash!Bucket(k)
      /\ \E x \in 1 .. cursor'[t] : heap[x].key = k
  <2> HIDE DEF k
  <2>1. /\ heap \in Seq(ListEntry)
        /\ IsLast(heap, cursor[t] - 1, Hash!Bucket(heap[cursor[t]].key), heap[cursor[t]].next)
    BY <1>3 DEF ListsOK, HashTypeOK
  <2>2. /\ heap[cursor[t]].next \in 1 .. Len(heap)
        /\ Hash!Bucket(heap[heap[cursor[t]].next].key) = Hash!Bucket(k)
        /\ \E x \in 1 .. heap[cursor[t]].next : heap[x].key = k
    BY <1>1, <1>3, <2>1, SearchGoesOn
  <2> QED BY <1>2, <2>2
<1>5. HashTypeOK'
  <2>1. cursor'[t] \in Nat /\ cursor' = [cursor EXCEPT ![t] = cursor'[t]]
    BY <1>1, <1>2, <1>4 DEF HashTypeOK
  <2>2. cursor' \in [Hash!Thread -> Nat]
    BY <2>1 DEF HashTypeOK
  <2> QED BY <1>1, <2>2 DEF HashTypeOK
<1>6. ListsOK' /\ Hash!NoKeyMissing' /\ LockHeld' /\ InsertOK' /\ PutsOK'
  BY <1>1 DEF ListsOK, Hash!NoKeyMissing, LockHeld, InsertOK, Hash!PutKey, PutsOK, InHeap
<1>7. BarrierOK'
  BY <1>1 DEF BarrierOK, Behind
<1>8. GetOK'
  BY <1>1, <1>2, <1>4 DEF GetOK
<1> QED BY <1>5, <1>6, <1>7, <1>8

LEMMA GotKeeps ==
  ASSUME Hash!HashTableAssumption, HashInv, NEW t \in Hash!Thread, Hash!Got(t)
  PROVE  HashInv'
<1> USE DEF HashInv
<1>1. /\ where[t] = "get" /\ turn' = [turn EXCEPT ![t] = @ + 1]
      /\ missing' = [missing EXCEPT ![t] = IF Hash!Found(t) THEN @ ELSE @ + 1]
      /\ cursor[t] = Hash!Nil \/ Hash!Found(t)
      /\ IF turn[t] + 1 < Hash!NKEYS
         THEN cursor' = [cursor EXCEPT ![t] = heads[Hash!Bucket(keys[turn[t] + 2])]] /\ where' = where
         ELSE where' = [where EXCEPT ![t] = "exit"] /\ cursor' = cursor
      /\ UNCHANGED <<heads, heap, mutex, passed, loaded>>
  BY DEF Hash!Got
<1>2. Hash!Found(t)
  BY <1>1 DEF GetOK, Hash!Nil
<1>3. missing' = missing
  BY <1>1, <1>2 DEF HashTypeOK
<1>4. /\ turn'[t] = turn[t] + 1 /\ where'[t] \in {"get", "exit"}
      /\ \A u \in Hash!Thread : u # t => where'[u] = where[u] /\ turn'[u] = turn[u] /\ cursor'[u] = cursor[u]
  BY <1>1 DEF HashTypeOK
<1>5. Behind = Hash!Thread
  BY <1>1 DEF BarrierOK
<1>6. ASSUME where'[t] = "get"
      PROVE  turn[t] + 2 \in 1 .. Hash!NKEYS /\ cursor'[t] = heads[Hash!Bucket(keys[turn[t] + 2])]
  <2>1. turn[t] + 1 < Hash!NKEYS
    BY <1>1, <1>6 DEF HashTypeOK
  <2>2. cursor'[t] = heads[Hash!Bucket(keys[turn[t] + 2])]
    BY <1>1, <2>1 DEF HashTypeOK
  <2> QED BY <2>1, <2>2, PartsCover DEF HashTypeOK
<1>7. cursor'[t] \in Nat /\ HashTypeOK'
  <2>1. cursor'[t] \in Nat
    <3>1. CASE where'[t] = "get"
      BY <1>5, <1>6, <3>1, GetStarts
    <3>2. CASE where'[t] # "get"
      BY <1>1, <3>2 DEF HashTypeOK
    <3> QED BY <3>1, <3>2
  <2>2. turn' \in [Hash!Thread -> Nat] /\ where' \in [Hash!Thread -> Places]
    <3>1. turn' \in [Hash!Thread -> Nat]
      BY <1>1 DEF HashTypeOK
    <3>2. where' = where \/ where' = [where EXCEPT ![t] = "exit"]
      BY <1>1
    <3> QED BY <3>1, <3>2 DEF HashTypeOK, Places
  <2>3. cursor' \in [Hash!Thread -> Nat]
    BY <1>1, <2>1 DEF HashTypeOK
  <2> QED BY <1>1, <1>3, <2>2, <2>3 DEF HashTypeOK
<1>8. ListsOK' /\ Hash!NoKeyMissing'
  BY <1>1, <1>3 DEF ListsOK, Hash!NoKeyMissing
<1>9. \A u \in Hash!Thread : where'[u] \in {"spin", "get", "exit"}
  BY <1>4, <1>5 DEF Behind
<1>10. LockHeld' /\ InsertOK'
  BY <1>1, <1>4, <1>9 DEF LockHeld, InsertOK, Hash!PutKey
<1>11. PutsOK'
  BY <1>1, <1>4, <1>5, <1>9 DEF PutsOK, Putting, InHeap, Behind
<1>12. Behind' = Behind
  BY <1>5, <1>9 DEF Behind
<1>13. BarrierOK'
  BY <1>1, <1>5, <1>12 DEF BarrierOK
<1>14. GetOK'
  <2>1. ASSUME where'[t] = "get"
        PROVE  /\ turn'[t] < Hash!NKEYS /\ cursor'[t] \in 1 .. Len(heap)
               /\ Hash!Bucket(heap[cursor'[t]].key) = Hash!Bucket(keys[turn'[t] + 1])
               /\ \E x \in 1 .. cursor'[t] : heap[x].key = keys[turn'[t] + 1]
    <3>1. turn[t] \in Nat /\ Hash!NKEYS \in Nat /\ turn[t] + 2 \in 1 .. Hash!NKEYS /\ turn'[t] = turn[t] + 1
      BY <1>4, <1>6, <2>1, PartsCover DEF HashTypeOK
    <3>2. turn'[t] + 1 = turn[t] + 2 /\ turn'[t] < Hash!NKEYS
      BY <3>1
    <3> QED BY <1>5, <1>6, <2>1, <3>1, <3>2, GetStarts
  <2> QED BY <1>1, <1>4, <2>1 DEF GetOK
<1> QED BY <1>7, <1>8, <1>10, <1>11, <1>13, <1>14

\* The invariant behind the two theorems.
LEMMA HashInvariant ==
  ASSUME Hash!HashTableAssumption
  PROVE  Hash!Spec => []HashInv
<1>1. Hash!Init => HashInv
  BY HashInit
<1>2. HashInv /\ [Hash!Next]_(Hash!vars) => HashInv'
  <2> SUFFICES ASSUME HashInv, [Hash!Next]_(Hash!vars) PROVE HashInv'
    OBVIOUS
  <2>1. CASE Hash!Next
    <3>1. PICK t \in Hash!Thread :
            \/ Hash!Lock(t) \/ Hash!Put(t) \/ Hash!Insert(t) \/ Hash!Unlock(t)
            \/ Hash!Add(t) \/ Hash!Spin(t) \/ Hash!Follow(t) \/ Hash!Got(t)
      BY <2>1 DEF Hash!Next
    <3> QED BY <3>1, LockKeeps, PutKeeps, InsertKeeps, UnlockKeeps, AddKeeps, SpinKeeps, FollowKeeps,
               GotKeeps
  <2>2. CASE UNCHANGED Hash!vars
    <3>1. UNCHANGED <<heads, heap, mutex, passed, where, turn, cursor, loaded, missing>>
      BY <2>2 DEF Hash!vars
    <3>2. HashTypeOK' /\ ListsOK' /\ LockHeld' /\ InsertOK'
      BY <3>1 DEF HashInv, HashTypeOK, ListsOK, IsLast, LockHeld, InsertOK, Hash!PutKey
    <3>3. PutsOK' /\ BarrierOK' /\ GetOK' /\ Hash!NoKeyMissing'
      BY <3>1 DEF HashInv, PutsOK, InHeap, BarrierOK, Behind, GetOK, Hash!NoKeyMissing
    <3> QED BY <3>2, <3>3 DEF HashInv
  <2> QED BY <2>1, <2>2
<1> QED BY <1>1, <1>2, PTL DEF Hash!Spec

-----------------------------------------------------------------------------
(* Theorems *)

\* No key is lost, whatever the number of threads, buckets and keys, and
\* whichever keys are the same: the lock in task makes the load and the store of
\* put one step, so that no insertion overwrites another, and the barrier holds
\* every get back until all the keys are in their lists.
THEOREM NoKeyIsLost ==
  ASSUME Hash!HashTableAssumption
  PROVE  Hash!Spec => []Hash!NoKeyMissing
<1>1. HashInv => Hash!NoKeyMissing
  BY DEF HashInv
<1> QED BY <1>1, HashInvariant, PTL

\* No thread looks a key up while another one still puts: get reads the lists
\* without the lock only when they no longer change.
THEOREM LookupsAfterPuts ==
  ASSUME Hash!HashTableAssumption
  PROVE  Hash!Spec => []Hash!GetsAfterPuts
<1>1. HashInv => Hash!GetsAfterPuts
  BY DEF HashInv, BarrierOK, Behind, Hash!GetsAfterPuts
<1> QED BY <1>1, HashInvariant, PTL

-----------------------------------------------------------------------------
(* The sieve of primes.c: UserPrograms.  Process 0 feeds the chain, process e *)
(* sends what no prime of processes 1 to e divides to process e + 1, and the  *)
(* chain ends at process m.                                                   *)

Numbers == [i : Nat, p : Nat, id : Nat, who : Nat]

\* The last number that a filter has looked at.
Cur(e) == IF locals[e].i = 0 THEN locals[e].p ELSE locals[e].i

\* ipc_recv has a number for process e, which has not used it yet.
Has(e) == spot[e] \in {"first", "filter"} /\ state[e] # "recv"
Latest(e) == IF state[e] = "full" THEN inbox[e].msg.value ELSE taken[e].msg.value

\* The last number that was handed to process e, and up to where process e has
\* handed on all that it will hand on.
Handed(e) ==
  IF Has(e) THEN Latest(e) ELSE IF spot[e] \in {"top", "first"} THEN 1 ELSE Cur(e)
Sent(e) ==
  IF spot[e] \in {"main", "feed"} THEN locals[e].i + 1
  ELSE IF spot[e] = "fed" THEN IF state[e] = "send" THEN locals[e].i + 1 ELSE locals[e].i + 2
  ELSE IF spot[e] = "pass" \/ state[e] = "send" THEN locals[e].i - 1
  ELSE Cur(e)

\* No prime of processes 1 to e divides n.
Sieved(e, n) == n >= 2 /\ \A j \in 1 .. e : n % locals[j].p # 0
NoneBetween(e, a, b) == \A n \in Int : a < n /\ n < b => ~Sieved(e, n)

\* Where process e is, in a chain of m.
Where(m, e) ==
  /\ locals[e] \in Numbers
  /\ spot[e] \in (IF e > m THEN {"unborn"}
                  ELSE IF e = 0 THEN (IF m = 0 THEN {"main"} ELSE {"feed", "fed"})
                  ELSE IF e = m THEN {"top", "first", "fork"}
                  ELSE {"next", "filter", "pass", "passed"})
  /\ e < m => locals[e].id = e + 1
  /\ spot[e] \in {"main", "top", "first", "fork"} => locals[e].i = 0
  /\ spot[e] \in {"pass", "passed"} => locals[e].i >= 2

\* The library functions that it is in.
Talks(e) ==
  /\ state[e] \in {"idle", "send", "recv", "full"}
  /\ state[e] = "send" => /\ spot[e] \in {"fed", "passed"}
                          /\ offer[e] = [to |-> locals[e].id, msg |-> Progs!Msg(Sent(e) + 1)]
  /\ state[e] \in {"recv", "full"} => spot[e] \in {"first", "filter"}
  /\ Has(e) => Latest(e) \in Nat

\* Its prime is the next one, and so is the number that has arrived.
Found(e) ==
  /\ spot[e] \notin {"top", "first"} =>
       Sieved(e - 1, locals[e].p) /\ NoneBetween(e - 1, 1, locals[e].p)
  /\ Has(e) =>
       /\ Sieved(e - 1, Latest(e))
       /\ spot[e] = "first" => NoneBetween(e - 1, 1, Latest(e))
       /\ spot[e] = "filter" => Cur(e) < Latest(e) /\ NoneBetween(e - 1, Cur(e), Latest(e))
  /\ spot[e] = "pass" \/ state[e] = "send" => Sieved(e, locals[e].i)

\* Nothing was lost between processes e and e + 1.
Edge(e) == Handed(e + 1) <= Sent(e) /\ NoneBetween(e, Handed(e + 1), Sent(e) + 1)

Whole(f) == f = [e \in Progs!Env |-> f[e]]
Domains == Whole(state) /\ Whole(offer) /\ Whole(inbox) /\ Whole(taken) /\ Whole(spot) /\ Whole(locals)

\* What was printed: the primes of all processes that have got one.
Primes(m) == IF m > 0 /\ spot[m] # "fork" THEN m - 1 ELSE m
Printed(m) ==
  out \in Seq(Int) /\ Len(out) = Primes(m) /\ \A k \in 1 .. Primes(m) : out[k] = locals[k].p

Chain(m) ==
  /\ m \in Progs!Env /\ task = "primes" /\ Domains
  /\ \A e \in Progs!Env : Where(m, e) /\ Talks(e)
  /\ \A e \in 1 .. m : Found(e)
  /\ \A e \in 0 .. m - 1 : Edge(e)
  /\ Printed(m)

SieveInv == task = "primes" => \E m \in Progs!Env : Chain(m)

-----------------------------------------------------------------------------
LEMMA Slots ==
  ASSUME Progs!ProgramAssumption
  PROVE  /\ MaxEnvs \in Nat /\ 0 \in Progs!Env /\ Progs!Env \subseteq Nat
         /\ \A m \in Progs!Env : \A e \in Int : 0 <= e /\ e <= m => e \in Progs!Env
BY SMT DEF Progs!ProgramAssumption, Progs!Env

\* Nothing happened to process e.
Rests(e) ==
  /\ spot'[e] = spot[e] /\ locals'[e] = locals[e] /\ state'[e] = state[e]
  /\ offer'[e] = offer[e] /\ inbox'[e] = inbox[e] /\ taken'[e] = taken[e]

LEMMA Unmoved ==
  ASSUME NEW e, Rests(e)
  PROVE  /\ Cur(e)' = Cur(e) /\ Has(e)' = Has(e) /\ Latest(e)' = Latest(e)
         /\ Handed(e)' = Handed(e) /\ Sent(e)' = Sent(e) /\ Talks(e)' = Talks(e)
         /\ \A m : Where(m, e)' = Where(m, e)
<1>1. Cur(e)' = Cur(e) /\ Has(e)' = Has(e) /\ Latest(e)' = Latest(e)
  BY DEF Rests, Cur, Has, Latest
<1>2. Handed(e)' = Handed(e) /\ Sent(e)' = Sent(e)
  BY <1>1 DEF Rests, Handed, Sent
<1>3. Talks(e)' = Talks(e)
  BY <1>1, <1>2 DEF Rests, Talks
<1>4. ASSUME NEW m PROVE Where(m, e)' = Where(m, e)
  BY DEF Rests, Where
<1> QED BY <1>1, <1>2, <1>3, <1>4

\* The primes of processes 1 to m - 1 stay.
Steady(m) == \A j \in 1 .. m - 1 : locals'[j].p = locals[j].p

LEMMA SameSieve ==
  ASSUME NEW m \in Nat, Steady(m), NEW e \in 0 .. m - 1
  PROVE  /\ \A n : Sieved(e, n)' = Sieved(e, n)
         /\ \A a, b : NoneBetween(e, a, b)' = NoneBetween(e, a, b)
<1>1. \A j \in 1 .. e : j \in 1 .. m - 1
  OBVIOUS
<1>2. ASSUME NEW n PROVE Sieved(e, n)' = Sieved(e, n)
  BY <1>1 DEF Steady, Sieved
<1>3. ASSUME NEW a, NEW b PROVE NoneBetween(e, a, b)' = NoneBetween(e, a, b)
  BY <1>2 DEF NoneBetween
<1> QED BY <1>2, <1>3

\* A step of the processes in D, none of which is new.
LEMMA StepKeeps ==
  ASSUME Progs!ProgramAssumption, NEW m \in Progs!Env, Chain(m), NEW D \in SUBSET (0 .. m),
         \A e \in Progs!Env \ D : Rests(e),
         Domains', UNCHANGED task, Steady(m), Printed(m)',
         \A e \in D : Where(m, e)' /\ Talks(e)' /\ (e > 0 => Found(e)'),
         \A e \in 0 .. m - 1 : e \in D \/ e + 1 \in D => Edge(e)'
  PROVE  Chain(m)'
<1>0. m \in Nat /\ \A e \in 0 .. m : e \in Progs!Env /\ e \in Nat
  BY Slots
<1>1. ASSUME NEW e \in Progs!Env PROVE Where(m, e)' /\ Talks(e)'
  <2>1. CASE e \in D
    BY <2>1
  <2>2. CASE e \notin D
    <3>1. Rests(e) /\ Where(m, e) /\ Talks(e)
      BY <2>2 DEF Chain
    <3> QED BY <3>1, Unmoved
  <2> QED BY <2>1, <2>2
<1>2. ASSUME NEW e \in 1 .. m PROVE Found(e)'
  <2>1. CASE e \in D
    BY <2>1
  <2>2. CASE e \notin D
    <3>1. Rests(e) /\ Found(e) /\ Where(m, e) /\ Talks(e) /\ e \in Nat
      BY <1>0, <2>2 DEF Chain
    <3>2. Cur(e)' = Cur(e) /\ Has(e)' = Has(e) /\ Latest(e)' = Latest(e)
      BY <3>1, Unmoved
    <3>3. /\ \A n : Sieved(e - 1, n)' = Sieved(e - 1, n)
          /\ \A a, b : NoneBetween(e - 1, a, b)' = NoneBetween(e - 1, a, b)
      <4>1. e - 1 \in 0 .. m - 1
        BY <1>0
      <4> QED BY <1>0, <4>1, SameSieve
    <3>4. spot[e] = "pass" \/ state[e] = "send" => Sieved(e, locals[e].i)' = Sieved(e, locals[e].i)
      <4>1. CASE e < m
        <5>1. \A j \in 1 .. e : locals'[j].p = locals[j].p
          BY <1>0, <4>1 DEF Steady
        <5>2. locals'[e].i = locals[e].i
          BY <3>1 DEF Rests
        <5> QED BY <5>1, <5>2 DEF Sieved
      <4>2. CASE e = m
        BY <1>0, <3>1, <4>2 DEF Where, Talks
      <4> QED BY <4>1, <4>2, <1>0
    <3>5. spot'[e] = spot[e] /\ locals'[e] = locals[e] /\ state'[e] = state[e]
      BY <3>1 DEF Rests
    <3> QED BY <3>1, <3>2, <3>3, <3>4, <3>5 DEF Found
  <2> QED BY <2>1, <2>2
<1>3. ASSUME NEW e \in 0 .. m - 1 PROVE Edge(e)'
  <2>1. CASE e \in D \/ e + 1 \in D
    BY <2>1
  <2>2. CASE ~(e \in D \/ e + 1 \in D)
    <3>1. e \in Progs!Env \ D /\ e + 1 \in Progs!Env \ D
      BY <1>0, <2>2
    <3>2. Rests(e) /\ Rests(e + 1) /\ Edge(e)
      BY <3>1 DEF Chain
    <3>3. Sent(e)' = Sent(e) /\ Handed(e + 1)' = Handed(e + 1)
      BY <3>2, Unmoved
    <3>4. \A a, b : NoneBetween(e, a, b)' = NoneBetween(e, a, b)
      BY <1>0, SameSieve
    <3> QED BY <3>2, <3>3, <3>4 DEF Edge
  <2> QED BY <2>1, <2>2
<1>4. task' = "primes"
  BY DEF Chain
<1> QED BY <1>1, <1>2, <1>3, <1>4 DEF Chain

LEMMA Whereabouts ==
  ASSUME Progs!ProgramAssumption, NEW m \in Progs!Env, Chain(m), NEW e \in 0 .. m
  PROVE  /\ e \in Progs!Env /\ m \in Nat /\ e \in Nat
         /\ Where(m, e) /\ Talks(e) /\ (e > 0 => Found(e)) /\ (e < m => Edge(e))
         /\ locals[e] \in Numbers /\ Cur(e) \in Nat /\ Handed(e) \in Int /\ Sent(e) \in Int
<1>1. e \in Progs!Env /\ m \in Nat /\ e \in Nat
  BY Slots
<1>2. Where(m, e) /\ Talks(e) /\ (e > 0 => Found(e)) /\ (e < m => Edge(e))
  BY <1>1 DEF Chain
<1>3. locals[e] \in Numbers /\ locals[e].i \in Nat /\ locals[e].p \in Nat
  BY <1>2 DEF Where, Numbers
<1>4. Cur(e) \in Nat /\ Sent(e) \in Int
  BY <1>3 DEF Cur, Sent
<1>5. Handed(e) \in Int
  BY <1>2, <1>4 DEF Talks, Handed
<1> QED BY <1>1, <1>2, <1>3, <1>4, <1>5

LEMMA EdgeStays ==
  ASSUME NEW m \in Nat, NEW e \in 0 .. m - 1, Edge(e), Steady(m),
         Sent(e)' = Sent(e), Handed(e + 1)' = Handed(e + 1)
  PROVE  Edge(e)'
<1>1. \A a, b : NoneBetween(e, a, b)' = NoneBetween(e, a, b)
  BY SameSieve
<1> QED BY <1>1 DEF Edge

\* A step of process e by which it is handed nothing.
LEMMA LocalStep ==
  ASSUME Progs!ProgramAssumption, NEW m \in Progs!Env, Chain(m), NEW e \in 0 .. m,
         \A k \in Progs!Env \ {e} : Rests(k),
         Domains', UNCHANGED task, Steady(m), Printed(m)',
         Where(m, e)', Talks(e)', e > 0 => Found(e)' /\ Handed(e)' = Handed(e),
         e < m => Edge(e)'
  PROVE  Chain(m)'
<1>1. m \in Nat /\ e \in Nat
  BY Whereabouts
<1>2. ASSUME NEW k \in 0 .. m - 1, k \in {e} \/ k + 1 \in {e} PROVE Edge(k)'
  <2>1. CASE k = e
    BY <1>1, <2>1
  <2>2. CASE k + 1 = e
    <3>1. k \in Progs!Env /\ k # e /\ Edge(k)
      BY <1>1, <2>2, Whereabouts
    <3>2. Sent(k)' = Sent(k)
      BY <3>1, Unmoved
    <3>3. Handed(k + 1)' = Handed(k + 1)
      BY <1>1, <2>2
    <3> QED BY <1>1, <3>1, <3>2, <3>3, EdgeStays
  <2> QED BY <1>2, <2>1, <2>2
<1> DEFINE D == {e}
<1>3. D \in SUBSET (0 .. m) /\ (\A k \in D : Where(m, k)' /\ Talks(k)' /\ (k > 0 => Found(k)'))
  OBVIOUS
<1>4. (\A k \in Progs!Env \ D : Rests(k)) /\ \A k \in 0 .. m - 1 : k \in D \/ k + 1 \in D => Edge(k)'
  BY <1>2
<1> HIDE DEF D
<1> QED BY <1>3, <1>4, StepKeeps

LEMMA PrintedStays ==
  ASSUME NEW m \in Nat, Printed(m), out' = out, m > 0 => (spot'[m] = "fork" <=> spot[m] = "fork"),
         \A k \in 1 .. m : locals'[k].p = locals[k].p
  PROVE  Printed(m)'
<1>1. Primes(m)' = Primes(m) /\ Primes(m) \in 0 .. m
  BY DEF Primes
<1> QED BY <1>1 DEF Printed

-----------------------------------------------------------------------------
(* The calls and returns of the library *)

LEMMA Calls ==
  ASSUME Progs!ProgramAssumption, NEW m \in Progs!Env, Chain(m), NEW e \in 0 .. m,
         UNCHANGED <<task, inbox, locals, out>>,
         NEW x, NEW y, NEW z, NEW w,
         spot' = [spot EXCEPT ![e] = x], state' = [state EXCEPT ![e] = y],
         offer' = [offer EXCEPT ![e] = z], taken' = [taken EXCEPT ![e] = w],
         (x = "fork") <=> (spot[e] = "fork"),
         Where(m, e)', Talks(e)', e > 0 => Found(e)', Handed(e)' = Handed(e), Sent(e)' = Sent(e)
  PROVE  Chain(m)'
<1>1. m \in Nat /\ e \in Nat /\ e \in Progs!Env /\ (e < m => Edge(e))
  BY Whereabouts
<1>2. Domains /\ Domains'
  BY DEF Chain, Domains, Whole
<1>3. \A k \in Progs!Env \ {e} : Rests(k)
  BY <1>2 DEF Rests, Domains, Whole
<1>4. Steady(m) /\ \A k \in 1 .. m : locals'[k].p = locals[k].p
  BY DEF Steady
<1>5. Printed(m)'
  <2>1. spot'[m] = "fork" <=> spot[m] = "fork"
    BY <1>1, <1>2 DEF Domains, Whole
  <2> QED BY <1>1, <1>4, <2>1, PrintedStays DEF Chain
<1>6. e < m => Edge(e)'
  <2> SUFFICES ASSUME e < m PROVE Edge(e)'
    OBVIOUS
  <2>1. e + 1 \in Progs!Env \ {e} /\ e \in 0 .. m - 1 /\ Edge(e)
    BY <1>1, Slots
  <2>2. Handed(e + 1)' = Handed(e + 1)
    BY <1>3, <2>1, Unmoved
  <2> QED BY <1>1, <1>4, <2>1, <2>2, EdgeStays
<1> QED BY <1>1, <1>2, <1>3, <1>4, <1>5, <1>6, LocalStep

\* ipc_send is called, for the number after all that was handed on.
LEMMA SendKeeps ==
  ASSUME Progs!ProgramAssumption, NEW m \in Progs!Env, Chain(m), NEW e \in 0 .. m,
         \/ /\ spot[e] = "feed"
            /\ Progs!CallSend(e, locals[e].id, Progs!Msg(locals[e].i + 2), "fed")
         \/ /\ spot[e] = "pass"
            /\ Progs!CallSend(e, locals[e].id, Progs!Msg(locals[e].i), "passed")
  PROVE  Chain(m)'
<1>1. /\ m \in Nat /\ e \in Nat /\ e \in Progs!Env /\ Where(m, e) /\ Talks(e) /\ (e > 0 => Found(e))
      /\ locals[e] \in Numbers
  BY Whereabouts
<1>2. Domains
  BY DEF Chain
<1> DEFINE x == IF spot[e] = "feed" THEN "fed" ELSE "passed"
           v == IF spot[e] = "feed" THEN locals[e].i + 2 ELSE locals[e].i
           z == [to |-> locals[e].id, msg |-> Progs!Msg(v)]
<1>3. /\ UNCHANGED <<task, inbox, locals, out, taken>>
      /\ spot' = [spot EXCEPT ![e] = x] /\ state' = [state EXCEPT ![e] = "send"]
      /\ offer' = [offer EXCEPT ![e] = z] /\ state[e] = "idle" /\ spot[e] \in {"feed", "pass"}
  BY DEF Progs!CallSend, Progs!Channel!Offer, Progs!Goto
<1>4. taken' = [taken EXCEPT ![e] = taken[e]]
  BY <1>2, <1>3 DEF Domains, Whole
<1>5. spot'[e] = x /\ state'[e] = "send" /\ offer'[e] = z /\ locals'[e] = locals[e]
  BY <1>1, <1>2, <1>3 DEF Domains, Whole
<1>6. locals[e].i \in Nat
  BY <1>1 DEF Numbers
<1>7. Sent(e)' = Sent(e) /\ v = Sent(e) + 1
  BY <1>3, <1>5, <1>6 DEF Sent
<1>8. ~Has(e) /\ ~Has(e)' /\ Cur(e)' = Cur(e)
  BY <1>3, <1>5 DEF Has, Cur
<1>9. Handed(e)' = Handed(e)
  BY <1>3, <1>5, <1>8 DEF Handed
<1>10. Where(m, e)'
  BY <1>1, <1>3, <1>5 DEF Where
<1>11. Talks(e)'
  BY <1>3, <1>5, <1>7, <1>8 DEF Talks
<1>12. e > 0 => Found(e)'
  <2> SUFFICES ASSUME e > 0 PROVE Found(e)'
    OBVIOUS
  <2>1. spot[e] = "pass" /\ Found(e) /\ Sieved(e, locals[e].i)
    BY <1>1, <1>3 DEF Where, Found
  <2>2. Sieved(e, locals[e].i)' /\ Sieved(e - 1, locals[e].p)' = Sieved(e - 1, locals[e].p)
        /\ NoneBetween(e - 1, 1, locals[e].p)' = NoneBetween(e - 1, 1, locals[e].p)
    BY <1>3, <2>1 DEF Sieved, NoneBetween
  <2> QED BY <1>8, <2>1, <2>2 DEF Found
<1>13. (x = "fork") <=> (spot[e] = "fork")
  BY <1>3
<1> HIDE DEF x, z, v
<1> QED BY <1>3, <1>4, <1>9, <1>7, <1>10, <1>11, <1>12, <1>13, Calls

\* ipc_recv is called.
LEMMA RecvKeeps ==
  ASSUME Progs!ProgramAssumption, NEW m \in Progs!Env, Chain(m), NEW e \in 0 .. m,
         \/ spot[e] = "top" /\ Progs!CallRecv(e, "first")
         \/ spot[e] = "next" /\ Progs!CallRecv(e, "filter")
  PROVE  Chain(m)'
<1>1. /\ m \in Nat /\ e \in Nat /\ e \in Progs!Env /\ Where(m, e) /\ Talks(e) /\ (e > 0 => Found(e))
      /\ locals[e] \in Numbers
  BY Whereabouts
<1>2. Domains
  BY DEF Chain
<1> DEFINE x == IF spot[e] = "top" THEN "first" ELSE "filter"
<1>3. /\ UNCHANGED <<task, inbox, locals, out, offer>>
      /\ spot' = [spot EXCEPT ![e] = x] /\ state' = [state EXCEPT ![e] = "recv"]
      /\ taken' = [taken EXCEPT ![e] = NoMessage] /\ state[e] = "idle" /\ spot[e] \in {"top", "next"}
  BY DEF Progs!CallRecv, Progs!Channel!Receive, Progs!Goto
<1>4. offer' = [offer EXCEPT ![e] = offer[e]]
  BY <1>2, <1>3 DEF Domains, Whole
<1>5. spot'[e] = x /\ state'[e] = "recv" /\ locals'[e] = locals[e]
  BY <1>1, <1>2, <1>3 DEF Domains, Whole
<1>6. ~Has(e) /\ ~Has(e)' /\ Cur(e)' = Cur(e)
  BY <1>3, <1>5 DEF Has, Cur
<1>7. Handed(e)' = Handed(e) /\ Sent(e)' = Sent(e)
  BY <1>3, <1>5, <1>6 DEF Handed, Sent
<1>8. Where(m, e)'
  BY <1>1, <1>3, <1>5 DEF Where
<1>9. Talks(e)'
  BY <1>3, <1>5, <1>6 DEF Talks
<1>10. e > 0 => Found(e)'
  <2>1. Sieved(e - 1, locals[e].p)' = Sieved(e - 1, locals[e].p)
        /\ NoneBetween(e - 1, 1, locals[e].p)' = NoneBetween(e - 1, 1, locals[e].p)
    BY <1>3 DEF Sieved, NoneBetween
  <2> QED BY <1>1, <1>3, <1>5, <1>6, <2>1 DEF Found
<1>11. (x = "fork") <=> (spot[e] = "fork")
  BY <1>3
<1> HIDE DEF x
<1> QED BY <1>3, <1>4, <1>7, <1>8, <1>9, <1>10, <1>11, Calls

\* ipc_recv returns in the library.
LEMMA ReturnKeeps ==
  ASSUME Progs!ProgramAssumption, NEW m \in Progs!Env, Chain(m), NEW e \in Progs!Env,
         Progs!Channel!Return(e), UNCHANGED <<task, spot, locals, text, out>>
  PROVE  Chain(m)'
<1>1. /\ UNCHANGED offer /\ state[e] = "full" /\ state' = [state EXCEPT ![e] = "idle"]
      /\ taken' = [taken EXCEPT ![e] = inbox[e]] /\ inbox' = [inbox EXCEPT ![e] = NoMessage]
  BY DEF Progs!Channel!Return
<1>2. e \in 0 .. m /\ spot[e] \in {"first", "filter"}
  <2>1. e \in Nat /\ m \in Nat /\ Where(m, e) /\ Talks(e)
    BY Slots DEF Chain
  <2> QED BY <1>1, <2>1 DEF Where, Talks
<1>3. /\ m \in Nat /\ e \in Nat /\ Where(m, e) /\ Talks(e) /\ (e > 0 => Found(e)) /\ (e < m => Edge(e))
  BY <1>2, Whereabouts
<1>4. Domains /\ Domains'
  BY <1>1 DEF Chain, Domains, Whole
<1>5. \A k \in Progs!Env \ {e} : Rests(k)
  BY <1>1, <1>4 DEF Rests, Domains, Whole
<1>6. state'[e] = "idle" /\ taken'[e] = inbox[e]
  BY <1>1, <1>4 DEF Domains, Whole
<1>7. Has(e) /\ Has(e)' /\ Latest(e)' = Latest(e) /\ Cur(e)' = Cur(e)
  BY <1>1, <1>2, <1>6 DEF Has, Latest, Cur
<1>8. Handed(e)' = Handed(e) /\ Sent(e)' = Sent(e)
  BY <1>1, <1>2, <1>6, <1>7 DEF Handed, Sent
<1>9. Steady(m) /\ Printed(m)'
  <2>1. Printed(m)
    BY DEF Chain
  <2> QED BY <1>3, <2>1, PrintedStays DEF Steady
<1>10. Where(m, e)' /\ Talks(e)'
  BY <1>1, <1>2, <1>3, <1>6, <1>7 DEF Where, Talks
<1>11. e > 0 => Found(e)'
  <2>1. Sieved(e - 1, locals[e].p)' = Sieved(e - 1, locals[e].p)
        /\ NoneBetween(e - 1, 1, locals[e].p)' = NoneBetween(e - 1, 1, locals[e].p)
    BY DEF Sieved, NoneBetween
  <2>2. Sieved(e - 1, Latest(e))' = Sieved(e - 1, Latest(e))
        /\ NoneBetween(e - 1, 1, Latest(e))' = NoneBetween(e - 1, 1, Latest(e))
        /\ NoneBetween(e - 1, Cur(e), Latest(e))' = NoneBetween(e - 1, Cur(e), Latest(e))
    BY <1>7 DEF Sieved, NoneBetween
  <2> QED BY <1>1, <1>2, <1>3, <1>6, <1>7, <2>1, <2>2 DEF Found
<1>12. e < m => Edge(e)'
  <2> SUFFICES ASSUME e < m PROVE Edge(e)'
    OBVIOUS
  <2>1. e + 1 \in Progs!Env \ {e} /\ e \in 0 .. m - 1
    BY <1>3, Slots
  <2>2. Handed(e + 1)' = Handed(e + 1)
    BY <1>5, <2>1, Unmoved
  <2> QED BY <1>3, <1>8, <1>9, <2>1, <2>2, EdgeStays
<1> QED BY <1>2, <1>4, <1>5, <1>8, <1>9, <1>10, <1>11, <1>12, LocalStep

-----------------------------------------------------------------------------
(* The steps of a process *)

\* What is known of process e while it does something by itself.
LEMMA Alone ==
  ASSUME Progs!ProgramAssumption, NEW m \in Progs!Env, Chain(m), NEW e \in 0 .. m,
         UNCHANGED <<task, state, offer, inbox, taken>>, Whole(spot'), Whole(locals'),
         \A k \in Progs!Env \ {e} : spot'[k] = spot[k] /\ locals'[k] = locals[k]
  PROVE  /\ m \in Nat /\ e \in Nat /\ e \in Progs!Env /\ Domains'
         /\ Where(m, e) /\ Talks(e) /\ (e > 0 => Found(e)) /\ (e < m => Edge(e))
         /\ \A k \in Progs!Env \ {e} : Rests(k)
         /\ e < m => Handed(e + 1)' = Handed(e + 1)
<1>1. /\ m \in Nat /\ e \in Nat /\ e \in Progs!Env
      /\ Where(m, e) /\ Talks(e) /\ (e > 0 => Found(e)) /\ (e < m => Edge(e))
  BY Whereabouts
<1>2. Domains'
  BY DEF Chain, Domains, Whole
<1>3. \A k \in Progs!Env \ {e} : Rests(k)
  BY DEF Rests
<1>4. e < m => Handed(e + 1)' = Handed(e + 1)
  <2> SUFFICES ASSUME e < m PROVE Handed(e + 1)' = Handed(e + 1)
    OBVIOUS
  <2>1. e + 1 \in Progs!Env \ {e}
    BY <1>1, Slots
  <2> QED BY <1>3, <2>1, Unmoved
<1> QED BY <1>1, <1>2, <1>3, <1>4

\* A change of e's locals that leaves p alone.
LEMMA KeepsPrime ==
  ASSUME NEW m \in Nat, NEW e \in 0 .. m, Domains, NEW l, locals' = [locals EXCEPT ![e] = l],
         l.p = locals[e].p
  PROVE  /\ Steady(m) /\ \A k \in 1 .. m : locals'[k].p = locals[k].p
         /\ \A n : Sieved(e, n)' = Sieved(e, n) /\ Sieved(e - 1, n)' = Sieved(e - 1, n)
         /\ \A a, b : /\ NoneBetween(e, a, b)' = NoneBetween(e, a, b)
                      /\ NoneBetween(e - 1, a, b)' = NoneBetween(e - 1, a, b)
<1>1. \A k : locals'[k].p = locals[k].p
  <2> SUFFICES ASSUME NEW k PROVE locals'[k].p = locals[k].p
    OBVIOUS
  <2>1. CASE k = e /\ e \in DOMAIN locals
    BY <2>1
  <2>2. CASE ~(k = e /\ e \in DOMAIN locals)
    <3>1. locals'[k] = locals[k]
      BY <2>2
    <3> QED BY <3>1
  <2> QED BY <2>1, <2>2
<1>2. \A k, n : Sieved(k, n)' = Sieved(k, n)
  BY <1>1 DEF Sieved
<1>3. \A k, a, b : NoneBetween(k, a, b)' = NoneBetween(k, a, b)
  BY <1>2 DEF NoneBetween
<1>4. Steady(m) /\ \A k \in 1 .. m : locals'[k].p = locals[k].p
  BY <1>1 DEF Steady
<1>5. \A n : Sieved(e, n)' = Sieved(e, n) /\ Sieved(e - 1, n)' = Sieved(e - 1, n)
  BY <1>2
<1>6. \A a, b : /\ NoneBetween(e, a, b)' = NoneBetween(e, a, b)
                /\ NoneBetween(e - 1, a, b)' = NoneBetween(e - 1, a, b)
  BY <1>3
<1> QED BY <1>4, <1>5, <1>6

\* ipc_send has returned.
LEMMA SentKeeps ==
  ASSUME Progs!ProgramAssumption, NEW m \in Progs!Env, Chain(m), NEW e \in 0 .. m,
         UNCHANGED <<task, state, offer, inbox, taken, out>>, state[e] = "idle",
         \/ /\ spot[e] = "fed" /\ spot' = [spot EXCEPT ![e] = "feed"]
            /\ locals' = [locals EXCEPT ![e].i = @ + 1]
         \/ spot[e] = "passed" /\ spot' = [spot EXCEPT ![e] = "next"] /\ UNCHANGED locals
  PROVE  Chain(m)'
<1> DEFINE x == IF spot[e] = "fed" THEN "feed" ELSE "next"
           l == IF spot[e] = "fed" THEN [locals[e] EXCEPT !.i = @ + 1] ELSE locals[e]
<1>1. /\ locals[e] \in Numbers /\ Domains /\ spot[e] \in {"fed", "passed"} /\ locals[e].i \in Nat
      /\ e \in Progs!Env
  BY Whereabouts DEF Chain, Numbers
<1>2. spot' = [spot EXCEPT ![e] = x] /\ locals' = [locals EXCEPT ![e] = l]
  BY <1>1 DEF Domains, Whole
<1>3. l \in Numbers /\ l.p = locals[e].p /\ l.id = locals[e].id
      /\ l.i = (IF spot[e] = "fed" THEN locals[e].i + 1 ELSE locals[e].i)
  BY <1>1 DEF Numbers
<1> HIDE DEF l
<1>0. /\ spot'[e] = x /\ locals'[e] = l /\ Whole(spot') /\ Whole(locals')
      /\ \A k \in Progs!Env \ {e} : spot'[k] = spot[k] /\ locals'[k] = locals[k]
  BY <1>1, <1>2 DEF Domains, Whole
<1>4. /\ m \in Nat /\ e \in Nat /\ e \in Progs!Env /\ Domains'
      /\ spot'[e] = x /\ locals'[e] = l /\ state'[e] = state[e]
      /\ Where(m, e) /\ Talks(e) /\ (e > 0 => Found(e)) /\ (e < m => Edge(e))
      /\ \A k \in Progs!Env \ {e} : Rests(k)
      /\ e < m => Handed(e + 1)' = Handed(e + 1)
  BY <1>0, Alone
<1>5. /\ Steady(m) /\ \A k \in 1 .. m : locals'[k].p = locals[k].p
      /\ \A n : Sieved(e, n)' = Sieved(e, n) /\ Sieved(e - 1, n)' = Sieved(e - 1, n)
      /\ \A a, b : /\ NoneBetween(e, a, b)' = NoneBetween(e, a, b)
                   /\ NoneBetween(e - 1, a, b)' = NoneBetween(e - 1, a, b)
  BY <1>1, <1>2, <1>3, <1>4, KeepsPrime
<1>6. ~Has(e) /\ ~Has(e)' /\ (e > 0 => spot[e] = "passed") /\ (spot[e] = "passed" => Cur(e)' = Cur(e))
  BY <1>1, <1>3, <1>4 DEF Has, Where, Cur
<1>7. Sent(e)' = Sent(e) /\ (e > 0 => Handed(e)' = Handed(e))
  <2>1. Sent(e)' = Sent(e)
    <3>1. CASE spot[e] = "fed"
      BY <1>1, <1>3, <1>4, <3>1 DEF Sent
    <3>2. CASE spot[e] = "passed"
      <4>1. locals[e].i # 0
        BY <1>4, <3>2, <1>1 DEF Where
      <4> QED BY <1>1, <1>4, <1>6, <3>2, <4>1 DEF Sent, Cur
    <3> QED BY <1>1, <3>1, <3>2
  <2>2. e > 0 => Handed(e)' = Handed(e)
    BY <1>4, <1>6 DEF Handed
  <2> QED BY <2>1, <2>2
<1>8. Where(m, e)'
  BY <1>1, <1>3, <1>4 DEF Where
<1>9. Talks(e)'
  BY <1>4, <1>6 DEF Talks
<1>10. e > 0 => Found(e)'
  <2> SUFFICES ASSUME e > 0 PROVE Found(e)'
    OBVIOUS
  <2>1. Sieved(e - 1, locals[e].p) /\ NoneBetween(e - 1, 1, locals[e].p) /\ spot[e] = "passed"
    BY <1>4, <1>6 DEF Found
  <2>2. Sieved(e - 1, locals[e].p)' /\ NoneBetween(e - 1, 1, locals[e].p)'
    BY <2>1, <1>3, <1>4 DEF Sieved, NoneBetween
  <2> QED BY <1>4, <1>6, <2>1, <2>2 DEF Found
<1>11. e < m => Edge(e)'
  BY <1>4, <1>5, <1>7, EdgeStays
<1>12. Printed(m)'
  <2>1. spot'[m] = "fork" <=> spot[m] = "fork"
    BY <1>1, <1>4 DEF Rests
  <2> QED BY <1>4, <1>5, <2>1, PrintedStays DEF Chain
<1> QED BY <1>4, <1>5, <1>7, <1>8, <1>9, <1>10, <1>11, <1>12, LocalStep

\* The first number becomes the prime of process e, and is printed.
LEMMA FirstKeeps ==
  ASSUME Progs!ProgramAssumption, NEW m \in Progs!Env, Chain(m), NEW e \in 0 .. m,
         UNCHANGED <<task, state, offer, inbox, taken>>, state[e] = "idle",
         spot[e] = "first", spot' = [spot EXCEPT ![e] = "fork"],
         locals' = [locals EXCEPT ![e].p = taken[e].msg.value],
         out' = Append(out, taken[e].msg.value)
  PROVE  Chain(m)'
<1> DEFINE v == taken[e].msg.value
           l == [locals[e] EXCEPT !.p = v]
<1>1. locals[e] \in Numbers /\ Domains /\ e \in Progs!Env
  BY Whereabouts DEF Chain
<1>2. locals' = [locals EXCEPT ![e] = l]
  BY <1>1 DEF Domains, Whole
<1>3. /\ Has(e) /\ Latest(e) = v /\ v \in Nat /\ e = m /\ e > 0 /\ m \in Nat
      /\ Sieved(e - 1, v) /\ NoneBetween(e - 1, 1, v)
  <2>1. e \in Nat /\ m \in Nat /\ Where(m, e) /\ Talks(e) /\ (e > 0 => Found(e))
    BY Whereabouts
  <2>2. Has(e) /\ Latest(e) = v
    BY DEF Has, Latest
  <2>3. e = m /\ e > 0
    BY <2>1 DEF Where
  <2> QED BY <2>1, <2>2, <2>3 DEF Talks, Found
<1>4. l \in Numbers /\ l.p = v /\ l.id = locals[e].id /\ l.i = locals[e].i
  BY <1>1, <1>3 DEF Numbers
<1> HIDE DEF l, v
<1>0. /\ spot'[e] = "fork" /\ locals'[e] = l /\ Whole(spot') /\ Whole(locals')
      /\ \A k \in Progs!Env \ {e} : spot'[k] = spot[k] /\ locals'[k] = locals[k]
  BY <1>1, <1>2 DEF Domains, Whole
<1>5. /\ Domains' /\ spot'[e] = "fork" /\ locals'[e] = l /\ state'[e] = state[e]
      /\ Where(m, e) /\ Talks(e) /\ \A k \in Progs!Env \ {e} : Rests(k)
  BY <1>0, Alone
<1>6. Steady(m) /\ \A j \in 1 .. m - 1 : locals'[j].p = locals[j].p
  <2> SUFFICES ASSUME NEW j \in 1 .. m - 1 PROVE locals'[j].p = locals[j].p
    BY DEF Steady
  <2>1. j \in Progs!Env \ {e}
    BY <1>3, Slots
  <2> QED BY <1>5, <2>1 DEF Rests
<1>7. /\ \A n : Sieved(e - 1, n)' = Sieved(e - 1, n)
      /\ \A a, b : NoneBetween(e - 1, a, b)' = NoneBetween(e - 1, a, b)
  <2>1. e - 1 \in 0 .. m - 1
    BY <1>3
  <2> QED BY <1>3, <1>6, <2>1, SameSieve
<1>8. ~Has(e)' /\ locals'[e].i = 0 /\ Cur(e)' = v /\ Handed(e) = v /\ Handed(e)' = v
  <2>1. ~Has(e)' /\ locals'[e].i = 0 /\ locals'[e].p = v
    BY <1>4, <1>5 DEF Has, Where
  <2> QED BY <1>3, <1>5, <2>1 DEF Cur, Handed
<1>9. Where(m, e)'
  BY <1>3, <1>4, <1>5 DEF Where
<1>10. Talks(e)'
  BY <1>5, <1>8 DEF Talks
<1>11. Found(e)'
  <2>1. Sieved(e - 1, locals[e].p)' /\ NoneBetween(e - 1, 1, locals[e].p)'
    <3>1. \A j \in 1 .. e - 1 : locals'[j].p = locals[j].p
      BY <1>3, <1>6
    <3> QED BY <1>3, <1>4, <1>5, <3>1 DEF Sieved, NoneBetween
  <2> QED BY <1>5, <1>8, <2>1 DEF Found
<1>12. Printed(m)'
  <2>1. Printed(m) /\ Primes(m) = m - 1 /\ Primes(m)' = m
    BY <1>3, <1>5 DEF Primes, Chain
  <2>2. out \in Seq(Int) /\ Len(out) = m - 1 /\ out' = Append(out, v) /\ v \in Int
    BY <1>3, <2>1 DEF Printed, v
  <2>3. /\ out' \in Seq(Int) /\ Len(out') = m /\ out'[m] = v
        /\ \A k \in 1 .. m - 1 : out'[k] = out[k]
    BY <1>3, <2>2
  <2>4. \A k \in 1 .. m : out'[k] = locals'[k].p
    <3> SUFFICES ASSUME NEW k \in 1 .. m PROVE out'[k] = locals'[k].p
      OBVIOUS
    <3>1. CASE k = m
      BY <1>3, <1>4, <1>5, <2>3, <3>1
    <3>2. CASE k # m
      <4>1. k \in 1 .. m - 1
        BY <1>3, <3>2
      <4> QED BY <1>6, <2>1, <2>3, <4>1 DEF Printed
    <3> QED BY <3>1, <3>2
  <2> QED BY <2>1, <2>3, <2>4 DEF Printed
<1> QED BY <1>3, <1>5, <1>6, <1>8, <1>9, <1>10, <1>11, <1>12, LocalStep

\* A number is looked at, and goes on or not.
LEMMA FilterKeeps ==
  ASSUME Progs!ProgramAssumption, NEW m \in Progs!Env, Chain(m), NEW e \in 0 .. m,
         UNCHANGED <<task, state, offer, inbox, taken, out>>, state[e] = "idle",
         spot[e] = "filter",
         spot' = [spot EXCEPT ![e] = IF taken[e].msg.value % locals[e].p # 0 THEN "pass" ELSE "next"],
         locals' = [locals EXCEPT ![e].i = taken[e].msg.value]
  PROVE  Chain(m)'
<1> DEFINE v == taken[e].msg.value
           l == [locals[e] EXCEPT !.i = v]
           x == IF v % locals[e].p # 0 THEN "pass" ELSE "next"
<1>1. locals[e] \in Numbers /\ Domains /\ e \in Progs!Env
  BY Whereabouts DEF Chain
<1>2. locals' = [locals EXCEPT ![e] = l] /\ spot' = [spot EXCEPT ![e] = x]
  BY <1>1 DEF Domains, Whole
<1>3. /\ Has(e) /\ Latest(e) = v /\ v \in Nat /\ v >= 2 /\ e < m /\ e > 0 /\ m \in Nat /\ e \in Nat
      /\ Sieved(e - 1, v) /\ Cur(e) < v /\ NoneBetween(e - 1, Cur(e), v) /\ Cur(e) \in Nat
      /\ Sieved(e - 1, locals[e].p) /\ NoneBetween(e - 1, 1, locals[e].p)
  <2>1. /\ e \in Nat /\ m \in Nat /\ Where(m, e) /\ Talks(e) /\ (e > 0 => Found(e))
        /\ Cur(e) \in Nat
    BY Whereabouts
  <2>2. Has(e) /\ Latest(e) = v
    BY DEF Has, Latest
  <2>3. e < m /\ e > 0
    BY <2>1 DEF Where
  <2>4. v >= 2
    BY <2>1, <2>2, <2>3 DEF Found, Sieved
  <2> QED BY <2>1, <2>2, <2>3, <2>4 DEF Talks, Found
<1>4. l \in Numbers /\ l.p = locals[e].p /\ l.id = locals[e].id /\ l.i = v
  BY <1>1, <1>3 DEF Numbers
<1>5. x \in {"pass", "next"}
  OBVIOUS
<1>51. x = "pass" <=> v % locals[e].p # 0
  OBVIOUS
<1> HIDE DEF l, v, x
<1>0. /\ spot'[e] = x /\ locals'[e] = l /\ Whole(spot') /\ Whole(locals')
      /\ \A k \in Progs!Env \ {e} : spot'[k] = spot[k] /\ locals'[k] = locals[k]
  BY <1>1, <1>2 DEF Domains, Whole
<1>6. /\ Domains' /\ spot'[e] = x /\ locals'[e] = l /\ state'[e] = "idle"
      /\ Where(m, e) /\ Talks(e) /\ Edge(e) /\ \A k \in Progs!Env \ {e} : Rests(k)
      /\ Handed(e + 1)' = Handed(e + 1)
  BY <1>0, <1>3, Alone
<1>7. /\ Steady(m) /\ \A k \in 1 .. m : locals'[k].p = locals[k].p
      /\ \A n : Sieved(e, n)' = Sieved(e, n) /\ Sieved(e - 1, n)' = Sieved(e - 1, n)
      /\ \A a, b : /\ NoneBetween(e, a, b)' = NoneBetween(e, a, b)
                   /\ NoneBetween(e - 1, a, b)' = NoneBetween(e - 1, a, b)
  <2>1. m \in Nat /\ l.p = locals[e].p /\ locals' = [locals EXCEPT ![e] = l] /\ Domains
    BY <1>1, <1>2, <1>3, <1>4
  <2> QED BY <2>1, KeepsPrime
<1>8. /\ ~Has(e)' /\ Cur(e)' = v /\ Handed(e) = v /\ Handed(e)' = v
      /\ Sent(e) = Cur(e) /\ Sent(e)' = IF x = "pass" THEN v - 1 ELSE v
  <2>0. /\ spot'[e] \in {"pass", "next"} /\ locals'[e].i = v /\ v # 0 /\ v \in Nat
        /\ spot'[e] = x /\ state'[e] = "idle"
    <3>1. locals'[e].i = v
      BY <1>4, <1>6
    <3>2. v # 0 /\ v \in Nat
      BY <1>3
    <3> QED BY <1>5, <1>6, <3>1, <3>2
  <2>1. ~Has(e)' /\ Cur(e)' = v
    BY <2>0 DEF Has, Cur
  <2>2. Handed(e) = v /\ Handed(e)' = v
    BY <1>3, <1>5, <1>6, <2>1 DEF Handed
  <2>3. Sent(e) = Cur(e) /\ Sent(e)' = IF x = "pass" THEN v - 1 ELSE v
    BY <2>0, <2>1 DEF Sent
  <2> QED BY <2>1, <2>2, <2>3
<1>9. Where(m, e)'
  <2>1. spot'[e] \in {"pass", "next"} /\ locals'[e] = l /\ l \in Numbers /\ l.i = v /\ l.id = locals[e].id
    BY <1>4, <1>5, <1>6
  <2>2. e < m /\ 0 < e /\ v >= 2 /\ e \in Nat /\ m \in Nat
    BY <1>3
  <2>3. locals[e].id = e + 1
    BY <1>6, <2>2 DEF Where
  <2>4. locals'[e] \in Numbers /\ locals'[e].id = e + 1 /\ locals'[e].i >= 2
    BY <2>1, <2>2, <2>3
  <2>5. spot'[e] \in (IF e > m THEN {"unborn"}
                  ELSE IF e = 0 THEN (IF m = 0 THEN {"main"} ELSE {"feed", "fed"})
                  ELSE IF e = m THEN {"top", "first", "fork"}
                  ELSE {"next", "filter", "pass", "passed"})
    BY <2>1, <2>2
  <2>6. spot'[e] \notin {"main", "top", "first", "fork"}
    BY <2>1
  <2> QED BY <2>4, <2>5, <2>6 DEF Where
<1>10. Talks(e)'
  BY <1>6, <1>8 DEF Talks
\* What process e does not let pass.
<1>11. \A n : Sieved(e, n) <=> Sieved(e - 1, n) /\ n % locals[e].p # 0
  <2>1. \A j \in 1 .. e : j \in 1 .. e - 1 \/ j = e
    BY <1>3
  <2>2. e \in 1 .. e /\ \A j \in 1 .. e - 1 : j \in 1 .. e
    BY <1>3
  <2> QED BY <2>1, <2>2 DEF Sieved
<1>12. Found(e)'
  <2>1. Sieved(e - 1, locals[e].p)' /\ NoneBetween(e - 1, 1, locals[e].p)'
    <3>1. \A j \in 1 .. e : locals'[j].p = locals[j].p
      BY <1>3, <1>7
    <3> QED BY <1>3, <1>4, <1>6, <3>1 DEF Sieved, NoneBetween
  <2>2. x = "pass" => Sieved(e, locals[e].i)'
    <3> SUFFICES ASSUME x = "pass" PROVE Sieved(e, locals[e].i)'
      OBVIOUS
    <3>1. Sieved(e, v)
      BY <1>3, <1>51, <1>11
    <3>2. \A j \in 1 .. e : locals'[j].p = locals[j].p
      BY <1>3, <1>7
    <3> QED BY <1>4, <1>6, <3>1, <3>2 DEF Sieved
  <2> QED BY <1>5, <1>6, <1>8, <2>1, <2>2 DEF Found
<1>13. Edge(e)'
  <2> DEFINE h == Handed(e + 1)
             w == IF x = "pass" THEN v ELSE v + 1
  <2>1. h \in Int /\ h <= Cur(e) /\ NoneBetween(e, h, Cur(e) + 1)
    <3>1. e + 1 \in 0 .. m
      BY <1>3
    <3> QED BY <1>6, <1>8, <3>1, Whereabouts DEF Edge
  <2>2. NoneBetween(e, h, w)
    <3> SUFFICES ASSUME NEW n \in Int, h < n, n < w PROVE ~Sieved(e, n)
      BY DEF NoneBetween
    <3>1. CASE n < Cur(e) + 1
      BY <2>1, <3>1 DEF NoneBetween
    <3>2. CASE Cur(e) < n /\ n < v
      BY <1>3, <1>11, <3>2 DEF NoneBetween
    <3>3. CASE n = v /\ x # "pass"
      BY <1>51, <1>11, <3>3
    <3> QED BY <1>3, <3>1, <3>2, <3>3
  <2>3. Sent(e)' + 1 = w /\ h <= Sent(e)'
    BY <1>3, <1>8, <2>1
  <2> QED BY <1>6, <1>7, <2>2, <2>3 DEF Edge
<1>14. Printed(m)'
  <2>1. spot'[m] = "fork" <=> spot[m] = "fork"
    BY <1>3, <1>6, Slots DEF Rests
  <2> QED BY <1>3, <1>7, <2>1, PrintedStays DEF Chain
<1> QED BY <1>3, <1>6, <1>7, <1>8, <1>9, <1>10, <1>12, <1>13, <1>14, LocalStep

\* A number is handed to the next process.
LEMMA HandoverKeeps ==
  ASSUME Progs!ProgramAssumption, NEW m \in Progs!Env, Chain(m), NEW s \in Progs!Env, NEW r \in Progs!Env,
         Progs!Channel!Handover(s, r), UNCHANGED <<task, spot, locals, text, out>>
  PROVE  Chain(m)'
<1> DEFINE v == offer[s].msg.value
           z == [from |-> s, msg |-> Progs!Channel!Delivered(offer[s].msg, wants[r])]
<1>1. /\ UNCHANGED taken /\ state[s] = "send" /\ offer[s].to = r /\ state[r] = "recv"
      /\ state' = [state EXCEPT ![s] = "idle", ![r] = "full"]
      /\ inbox' = [inbox EXCEPT ![r] = z]
      /\ offer' = [offer EXCEPT ![s] = NoMessage]
  BY DEF Progs!Channel!Handover
<1>2. s \in 0 .. m /\ r \in 0 .. m
  <2>1. s \in Nat /\ r \in Nat /\ m \in Nat /\ Where(m, s) /\ Talks(s) /\ Where(m, r) /\ Talks(r)
    BY Slots DEF Chain
  <2>2. spot[s] # "unborn" /\ spot[r] # "unborn"
    BY <1>1, <2>1 DEF Talks
  <2> QED BY <2>1, <2>2 DEF Where
<1>3. /\ m \in Nat /\ s \in Nat /\ Where(m, s) /\ Talks(s) /\ (s > 0 => Found(s)) /\ (s < m => Edge(s))
      /\ locals[s] \in Numbers /\ Sent(s) \in Int /\ Cur(s) \in Nat
  BY <1>2, Whereabouts
<1>4. /\ r \in Nat /\ Where(m, r) /\ Talks(r) /\ (r > 0 => Found(r)) /\ (r < m => Edge(r))
      /\ Handed(r) \in Int /\ Cur(r) \in Nat
  BY <1>2, Whereabouts
<1>5. /\ spot[s] \in {"fed", "passed"} /\ spot[r] \in {"first", "filter"} /\ s < m /\ (s > 0 => spot[s] = "passed")
      /\ (s = 0 => spot[s] = "fed")
  <2>1. spot[s] \in {"fed", "passed"} /\ spot[r] \in {"first", "filter"}
    BY <1>1, <1>3, <1>4 DEF Talks
  <2> QED BY <1>3, <2>1 DEF Where
<1>6. r = s + 1 /\ r > 0 /\ s \in 0 .. m - 1 /\ v = Sent(s) + 1 /\ offer[s].msg = Progs!Msg(v)
  <2>1. locals[s].id = s + 1
    BY <1>3, <1>5 DEF Where
  <2>2. offer[s] = [to |-> locals[s].id, msg |-> Progs!Msg(Sent(s) + 1)]
    BY <1>1, <1>3 DEF Talks
  <2>3. offer[s].to = s + 1 /\ offer[s].msg = Progs!Msg(Sent(s) + 1)
    BY <2>1, <2>2
  <2>4. Progs!Msg(Sent(s) + 1).value = Sent(s) + 1
    BY DEF Progs!Msg
  <2> QED BY <1>1, <1>3, <1>5, <2>3, <2>4
<1>7. locals[s].i \in Nat /\ v = (IF s = 0 THEN locals[s].i + 2 ELSE locals[s].i) /\ v >= 2 /\ v \in Nat
  <2>1. locals[s].i \in Nat
    BY <1>3 DEF Numbers
  <2>2. Sent(s) = (IF s = 0 THEN locals[s].i + 1 ELSE locals[s].i - 1)
    BY <1>1, <1>3, <1>5 DEF Sent
  <2>3. s > 0 => locals[s].i >= 2
    BY <1>3, <1>5 DEF Where
  <2> QED BY <1>3, <1>6, <2>1, <2>2, <2>3
<1>8. Domains /\ Domains'
  BY <1>1 DEF Chain, Domains, Whole
<1>9. /\ state'[s] = "idle" /\ state'[r] = "full" /\ inbox'[r] = z /\ spot'[s] = spot[s] /\ spot'[r] = spot[r]
      /\ locals'[s] = locals[s] /\ locals'[r] = locals[r]
  <2>1. s # r
    BY <1>3, <1>6
  <2> QED BY <1>1, <1>8, <2>1 DEF Domains, Whole
<1> HIDE DEF v
<1>10. \A k \in Progs!Env \ {s, r} : Rests(k)
  BY <1>1, <1>8 DEF Rests, Domains, Whole
<1>11. /\ Cur(s)' = Cur(s) /\ Cur(r)' = Cur(r) /\ ~Has(s) /\ ~Has(s)' /\ ~Has(r) /\ Has(r)'
       /\ Latest(r)' = v /\ Handed(s)' = Handed(s) /\ Handed(r)' = v
  <2>1. Cur(s)' = Cur(s) /\ Cur(r)' = Cur(r) /\ ~Has(s) /\ ~Has(s)' /\ ~Has(r) /\ Has(r)'
    BY <1>1, <1>5, <1>9 DEF Cur, Has
  <2>2. Latest(r)' = v
    <3>1. z.msg.value = v
      BY <1>6 DEF Progs!Channel!Delivered, Progs!Msg
    <3> QED BY <1>9, <3>1 DEF Latest
  <2> QED BY <1>5, <1>9, <2>1, <2>2 DEF Handed
<1>12. Sent(s)' = v
  <2>1. CASE s = 0
    BY <1>5, <1>7, <1>9, <2>1 DEF Sent
  <2>2. CASE s # 0
    <3>1. spot[s] = "passed" /\ Cur(s) = locals[s].i
      BY <1>3, <1>5, <1>7, <2>2 DEF Cur
    <3> QED BY <1>7, <1>9, <1>11, <2>2, <3>1 DEF Sent
  <2> QED BY <2>1, <2>2
<1>13. Sent(r)' = Sent(r)
  BY <1>1, <1>5, <1>9, <1>11 DEF Sent
<1>14. /\ \A k, n : Sieved(k, n)' = Sieved(k, n)
       /\ \A k, a, b : NoneBetween(k, a, b)' = NoneBetween(k, a, b)
  BY DEF Sieved, NoneBetween
<1>15. Sieved(s, v) /\ Edge(s) /\ Handed(r) < v /\ NoneBetween(s, Handed(r), v)
  <2>1. Sieved(s, v)
    <3>1. CASE s = 0
      BY <1>7, <3>1 DEF Sieved
    <3>2. CASE s # 0
      BY <1>1, <1>3, <1>7, <3>2 DEF Found
    <3> QED BY <3>1, <3>2
  <2> QED BY <1>3, <1>4, <1>5, <1>6, <2>1 DEF Edge
<1>16. Where(m, s)' /\ Where(m, r)'
  BY <1>3, <1>4, <1>9 DEF Where
<1>17. Talks(s)' /\ Talks(r)'
  <2>1. Talks(s)'
    BY <1>9, <1>11 DEF Talks
  <2>2. Talks(r)'
    BY <1>5, <1>7, <1>9, <1>11 DEF Talks
  <2> QED BY <2>1, <2>2
<1>18. s > 0 => Found(s)'
  <2> SUFFICES ASSUME s > 0 PROVE Found(s)'
    OBVIOUS
  <2>1. Sieved(s - 1, locals[s].p) /\ NoneBetween(s - 1, 1, locals[s].p) /\ spot[s] = "passed"
    BY <1>3, <1>5 DEF Found
  <2>2. Sieved(s - 1, locals[s].p)' /\ NoneBetween(s - 1, 1, locals[s].p)'
    BY <2>1 DEF Sieved, NoneBetween
  <2> QED BY <1>9, <1>11, <2>1, <2>2 DEF Found
<1>19. Found(r)'
  <2>1. r - 1 = s /\ (spot[r] = "first" => Handed(r) = 1) /\ (spot[r] = "filter" => Handed(r) = Cur(r))
    BY <1>3, <1>6, <1>11 DEF Handed
  <2>2. spot[r] = "filter" => Sieved(r - 1, locals[r].p) /\ NoneBetween(r - 1, 1, locals[r].p)
    BY <1>4, <1>6 DEF Found
  <2>3. spot[r] = "filter" => Sieved(r - 1, locals[r].p)' /\ NoneBetween(r - 1, 1, locals[r].p)'
    BY <2>2 DEF Sieved, NoneBetween
  <2>4. Sieved(r - 1, Latest(r))'
    BY <1>11, <1>14, <1>15, <2>1 DEF Sieved
  <2>5. spot[r] = "first" => NoneBetween(r - 1, 1, Latest(r))'
    BY <1>11, <1>15, <2>1 DEF NoneBetween, Sieved
  <2>6. spot[r] = "filter" => Cur(r)' < Latest(r)' /\ NoneBetween(r - 1, Cur(r), Latest(r))'
    BY <1>11, <1>15, <2>1 DEF NoneBetween, Sieved
  <2> QED BY <1>5, <1>9, <2>3, <2>4, <2>5, <2>6 DEF Found
<1>20. Steady(m) /\ Printed(m)'
  <2>1. Printed(m)
    BY DEF Chain
  <2> QED BY <1>3, <2>1, PrintedStays DEF Steady
<1>21. ASSUME NEW k \in 0 .. m - 1, k \in {s, r} \/ k + 1 \in {s, r} PROVE Edge(k)'
  <2>0. k \in Nat /\ k \in Progs!Env /\ k + 1 \in Progs!Env
    BY <1>3, <1>21, Slots
  <2>1. CASE k = s
    <3>1. \A n \in Int : ~(v < n /\ n < v + 1)
      BY <1>7
    <3>2. Handed(s + 1)' = v
      BY <1>6, <1>11
    <3>3. NoneBetween(s, Handed(s + 1), Sent(s) + 1)'
      BY <1>12, <3>1, <3>2 DEF NoneBetween
    <3> QED BY <1>7, <1>12, <2>1, <3>2, <3>3 DEF Edge
  <2>2. CASE k = r
    <3>1. Handed(k + 1)' = Handed(k + 1)
      <4>1. k + 1 \notin {s, r}
        BY <1>3, <1>6, <2>2
      <4> QED BY <1>10, <2>0, <4>1, Unmoved
    <3> QED BY <1>3, <1>4, <1>13, <1>20, <2>2, <3>1, EdgeStays
  <2>3. CASE k + 1 = s
    <3>1. k \notin {s, r} /\ Edge(k)
      BY <1>3, <1>6, <2>0, <2>3 DEF Chain
    <3>2. Sent(k)' = Sent(k)
      BY <1>10, <2>0, <3>1, Unmoved
    <3> QED BY <1>3, <1>11, <1>20, <2>3, <3>1, <3>2, EdgeStays
  <2>4. k + 1 = r => k = s
    BY <1>3, <1>6, <2>0
  <2> QED BY <1>21, <2>1, <2>2, <2>3, <2>4
<1> DEFINE D == {s, r}
<1>22. D \in SUBSET (0 .. m) /\ \A k \in D : Where(m, k)' /\ Talks(k)' /\ (k > 0 => Found(k)')
  BY <1>2, <1>16, <1>17, <1>18, <1>19
<1>23. (\A k \in Progs!Env \ D : Rests(k)) /\ \A k \in 0 .. m - 1 : k \in D \/ k + 1 \in D => Edge(k)'
  BY <1>10, <1>21
<1> HIDE DEF D
<1> QED BY <1>8, <1>20, <1>22, <1>23, StepKeeps

\* The free slot with the least number follows the chain.
LEMMA NextSlot ==
  ASSUME Progs!ProgramAssumption, NEW m \in Progs!Env, Chain(m), Progs!Unborn # {}
  PROVE  /\ m \in Nat /\ m + 1 \in Progs!Env
         /\ (CHOOSE c \in Progs!Unborn : \A d \in Progs!Unborn : c <= d) = m + 1
<1>1. m \in Nat /\ \A k \in Progs!Env : k \in Nat /\ Where(m, k)
  BY Slots DEF Chain
<1>2. \A k \in Progs!Env : k \in Progs!Unborn <=> k > m
  BY <1>1 DEF Where, Progs!Unborn
<1>3. PICK c \in Progs!Env : c > m
  BY <1>2 DEF Progs!Unborn
<1>4. m + 1 \in Progs!Env
  <2>1. c \in Nat /\ m + 1 \in Int /\ 0 <= m + 1 /\ m + 1 <= c
    BY <1>1, <1>3
  <2> QED BY <2>1, Slots
<1>5. m + 1 \in Progs!Unborn /\ \A d \in Progs!Unborn : d \in Nat /\ m + 1 <= d
  <2>1. \A d \in Progs!Unborn : d \in Progs!Env
    BY DEF Progs!Unborn
  <2>2. m + 1 \in Progs!Unborn
    BY <1>1, <1>2, <1>4
  <2>3. \A d \in Progs!Unborn : d \in Nat /\ d > m
    BY <1>1, <1>2, <2>1
  <2> QED BY <1>1, <2>2, <2>3
<1> HIDE DEF Chain
<1>6. \A c1 \in Progs!Unborn : (\A d \in Progs!Unborn : c1 <= d) => c1 = m + 1
  <2> SUFFICES ASSUME NEW c1 \in Progs!Unborn, \A d \in Progs!Unborn : c1 <= d PROVE c1 = m + 1
    OBVIOUS
  <2>1. c1 <= m + 1 /\ m + 1 <= c1 /\ c1 \in Nat
    BY <1>5
  <2> QED BY <1>1, <2>1
<1> DEFINE P(c1) == \A d \in Progs!Unborn : c1 <= d
<1>7. \E c1 \in Progs!Unborn : P(c1)
  BY <1>5
<1>8. (CHOOSE c1 \in Progs!Unborn : P(c1)) \in Progs!Unborn /\ P(CHOOSE c1 \in Progs!Unborn : P(c1))
  <2> HIDE DEF P
  <2> QED BY <1>7, Zenon
<1> QED BY <1>1, <1>4, <1>6, <1>8

\* The last process forks the next one.
LEMMA ForkKeeps ==
  ASSUME Progs!ProgramAssumption, NEW m \in Progs!Env, Chain(m), NEW e \in 0 .. m,
         \/ spot[e] = "main" /\ Progs!Fork(e, "top", "feed")
         \/ spot[e] = "fork" /\ Progs!Fork(e, "top", "next")
  PROVE  m + 1 \in Progs!Env /\ Chain(m + 1)'
<1> DEFINE x == IF spot[e] = "main" THEN "feed" ELSE "next"
           c == m + 1
           l == [locals[e] EXCEPT !.id = c]
<1>1. /\ m \in Nat /\ e \in Nat /\ e \in Progs!Env /\ Where(m, e) /\ Talks(e) /\ (e > 0 => Found(e))
      /\ locals[e] \in Numbers
  BY Whereabouts
<1>2. c \in Progs!Env /\ (CHOOSE d \in Progs!Unborn : \A b \in Progs!Unborn : d <= b) = c
  BY NextSlot DEF Progs!Fork
<1>3. /\ UNCHANGED <<task, state, offer, inbox, taken, out>> /\ spot[e] \in {"main", "fork"}
      /\ spot' = [spot EXCEPT ![c] = "top", ![e] = x]
      /\ locals' = [locals EXCEPT ![c] = locals[e], ![e].id = c]
  <2> HIDE DEF c
  <2> QED BY <1>2 DEF Progs!Fork, Progs!channel
<1>4. e = m /\ c \in Nat /\ c # e /\ c = m + 1 /\ (m = 0 <=> spot[e] = "main")
  BY <1>1, <1>3 DEF Where
<1>5. Domains /\ Where(m, c) /\ Talks(c)
  BY <1>2 DEF Chain
<1>6. spot[c] = "unborn" /\ state[c] = "idle"
  BY <1>1, <1>4, <1>5 DEF Where, Talks
<1>7. locals[e].i = 0 /\ locals[e].p \in Nat /\ state[e] = "idle"
  BY <1>1, <1>3 DEF Where, Numbers, Talks
<1>8. l \in Numbers /\ l.p = locals[e].p /\ l.i = 0 /\ l.id = c
  BY <1>1, <1>4, <1>7 DEF Numbers
<1>9. /\ spot'[c] = "top" /\ spot'[e] = x /\ locals'[c] = locals[e] /\ locals'[e] = l
      /\ state'[c] = "idle" /\ state'[e] = "idle" /\ Domains'
      /\ \A k \in Progs!Env \ {c, e} : Rests(k)
  <2>1. spot'[c] = "top" /\ spot'[e] = x /\ Whole(spot')
    BY <1>1, <1>2, <1>3, <1>4, <1>5 DEF Domains, Whole
  <2>2. locals'[c] = locals[e] /\ locals'[e] = l /\ Whole(locals')
    <3>1. locals' = [locals EXCEPT ![c] = locals[e], ![e] = l]
      BY <1>1, <1>2, <1>3, <1>4, <1>5 DEF Domains, Whole
    <3> QED BY <1>1, <1>2, <1>4, <1>5, <3>1 DEF Domains, Whole
  <2>3. Domains'
    BY <1>3, <1>5, <2>1, <2>2 DEF Domains, Whole
  <2>4. \A k \in Progs!Env \ {c, e} : spot'[k] = spot[k] /\ locals'[k] = locals[k]
    BY <1>3, <1>5 DEF Domains, Whole
  <2> QED BY <1>3, <1>6, <1>7, <2>1, <2>2, <2>3, <2>4 DEF Rests
<1> HIDE DEF c, l
<1>10. \A k \in 1 .. m : locals'[k].p = locals[k].p
  <2> SUFFICES ASSUME NEW k \in 1 .. m PROVE locals'[k].p = locals[k].p
    OBVIOUS
  <2>1. CASE k = e
    BY <1>8, <1>9, <2>1
  <2>2. CASE k # e
    <3>1. k \in Progs!Env \ {c, e}
      BY <1>1, <1>4, <2>2, Slots
    <3> QED BY <1>9, <3>1 DEF Rests
  <2> QED BY <2>1, <2>2
<1>11. /\ \A k \in 0 .. m : \A n : Sieved(k, n)' = Sieved(k, n)
       /\ \A k \in 0 .. m : \A a, b : NoneBetween(k, a, b)' = NoneBetween(k, a, b)
  <2>1. Steady(c) /\ c \in Nat /\ \A k \in 0 .. m : k \in 0 .. c - 1
    BY <1>1, <1>4, <1>10 DEF Steady
  <2> QED BY <2>1, SameSieve
<1>12. ASSUME NEW k \in Progs!Env PROVE Where(c, k)' /\ Talks(k)'
  <2>0. k \in Nat
    BY Slots
  <2>1. CASE k = c
    <3>1. Where(c, k)'
      BY <1>1, <1>4, <1>7, <1>9, <2>1 DEF Where
    <3>2. Talks(k)'
      BY <1>9, <2>1 DEF Talks, Has
    <3> QED BY <3>1, <3>2
  <2>2. CASE k = e
    <3>1. Where(c, k)'
      BY <1>1, <1>4, <1>8, <1>9, <2>2 DEF Where
    <3>2. Talks(k)'
      BY <1>9, <2>2 DEF Talks, Has
    <3> QED BY <3>1, <3>2
  <2>3. CASE k \notin {c, e}
    <3>1. Rests(k) /\ Where(m, k) /\ Talks(k)
      BY <1>9, <2>3 DEF Chain
    <3>2. Where(m, k)' /\ Talks(k)'
      BY <3>1, Unmoved
    <3>3. Where(c, k)'
      BY <1>1, <1>4, <2>0, <2>3, <3>2 DEF Where
    <3> QED BY <3>2, <3>3
  <2> QED BY <2>1, <2>2, <2>3
<1>13. ~Has(e) /\ ~Has(e)' /\ Cur(e) = locals[e].p /\ Cur(e)' = locals[e].p
  BY <1>3, <1>7, <1>8, <1>9 DEF Has, Cur
<1>14. /\ Sent(e)' = (IF m = 0 THEN 1 ELSE locals[e].p) /\ Handed(c)' = 1
       /\ m > 0 => Handed(e)' = Handed(e)
  <2>1. Sent(e)' = (IF m = 0 THEN 1 ELSE locals[e].p)
    BY <1>4, <1>8, <1>9, <1>13 DEF Sent
  <2>2. Handed(c)' = 1
    BY <1>9 DEF Handed, Has
  <2>3. m > 0 => Handed(e)' = Handed(e)
    BY <1>1, <1>3, <1>4, <1>9, <1>13 DEF Handed
  <2> QED BY <2>1, <2>2, <2>3
<1>15. m > 0 => Sieved(m - 1, locals[e].p) /\ NoneBetween(m - 1, 1, locals[e].p)
  BY <1>1, <1>3, <1>4 DEF Found
<1>16. ASSUME NEW k \in 1 .. c PROVE Found(k)'
  <2>1. CASE k = c
    BY <1>9, <2>1 DEF Found, Has
  <2>2. CASE k = e
    <3>1. m > 0 /\ m - 1 \in 0 .. m /\ k - 1 = m - 1
      BY <1>1, <1>4, <2>2
    <3>2. Sieved(k - 1, locals[k].p)' /\ NoneBetween(k - 1, 1, locals[k].p)'
      <4>1. \A j \in 1 .. m - 1 : locals'[j].p = locals[j].p
        BY <1>1, <1>10
      <4>2. locals'[k].p = locals[e].p
        BY <1>8, <1>9, <2>2
      <4> QED BY <1>15, <3>1, <4>1, <4>2 DEF Sieved, NoneBetween
    <3> QED BY <1>9, <1>13, <2>2, <3>2 DEF Found
  <2>3. CASE k \notin {c, e}
    <3>1. k \in 1 .. m - 1 /\ k \in Progs!Env /\ k - 1 \in 0 .. m /\ k \in 0 .. m
      BY <1>1, <1>4, <2>3, Slots
    <3>2. Rests(k) /\ Found(k)
      BY <1>1, <1>9, <2>3, <3>1 DEF Chain
    <3>3. Cur(k)' = Cur(k) /\ Has(k)' = Has(k) /\ Latest(k)' = Latest(k)
      BY <3>2, Unmoved
    <3>4. spot'[k] = spot[k] /\ locals'[k] = locals[k] /\ state'[k] = state[k]
      BY <3>2 DEF Rests
    <3>5. /\ \A n : Sieved(k - 1, n)' = Sieved(k - 1, n)
          /\ \A n : Sieved(k, n)' = Sieved(k, n)
          /\ \A a, b : NoneBetween(k - 1, a, b)' = NoneBetween(k - 1, a, b)
      BY <1>11, <3>1
    <3>6. Sieved(k, locals[k].i)' = Sieved(k, locals[k].i)
      <4>1. \A j \in 1 .. k : locals'[j].p = locals[j].p
        BY <1>1, <1>10, <3>1
      <4> QED BY <3>4, <4>1 DEF Sieved
    <3> QED BY <3>2, <3>3, <3>4, <3>5, <3>6 DEF Found
  <2> QED BY <2>1, <2>2, <2>3
<1>17. ASSUME NEW k \in 0 .. c - 1 PROVE Edge(k)'
  <2>0. k \in 0 .. m /\ k \in Nat /\ k \in Progs!Env
    BY <1>1, <1>4, Slots
  <2>1. CASE k = e
    <3>1. NoneBetween(m, 1, Sent(e)' + 1)
      <4> SUFFICES ASSUME NEW n \in Int, 1 < n, n < Sent(e)' + 1 PROVE ~Sieved(m, n)
        BY DEF NoneBetween
      <4>1. m > 0 /\ n <= locals[e].p
        BY <1>1, <1>7, <1>14
      <4>2. locals[m].p = locals[e].p /\ m \in 1 .. m
        BY <1>1, <1>4, <4>1
      <4>3. CASE n = locals[e].p
        <5>1. n % n = 0
          BY <4>1
        <5> QED BY <4>2, <4>3, <5>1 DEF Sieved
      <4>4. CASE n < locals[e].p
        <5>1. ~Sieved(m - 1, n)
          BY <1>15, <4>1, <4>4 DEF NoneBetween
        <5>2. \A j \in 1 .. m - 1 : j \in 1 .. m
          BY <1>1
        <5> QED BY <5>1, <5>2 DEF Sieved
      <4> QED BY <1>7, <4>1, <4>3, <4>4
    <3>2. NoneBetween(k, Handed(k + 1), Sent(k) + 1)'
      <4>1. \A n \in Int : 1 < n /\ n < Sent(e)' + 1 => ~Sieved(m, n)'
        <5>1. m \in 0 .. m
          BY <1>1
        <5> QED BY <1>11, <3>1, <5>1 DEF NoneBetween
      <4>2. k = m /\ Handed(k + 1)' = 1
        BY <1>4, <1>14, <2>1
      <4> QED BY <2>1, <4>1, <4>2 DEF NoneBetween, Sieved
    <3>3. 1 <= Sent(e)'
      <4>1. m > 0 => locals[e].p >= 2
        BY <1>15 DEF Sieved
      <4> QED BY <1>1, <1>7, <1>14, <4>1
    <3> QED BY <1>4, <1>14, <2>1, <3>2, <3>3 DEF Edge
  <2>2. CASE k # e
    <3>1. k \in 0 .. m - 1 /\ k \in Progs!Env \ {c, e} /\ k + 1 \in Progs!Env
      BY <1>1, <1>4, <2>0, <2>2, Slots
    <3>2. Rests(k) /\ Edge(k)
      BY <1>9, <3>1 DEF Chain
    <3>3. Sent(k)' = Sent(k)
      BY <3>2, Unmoved
    <3>4. Handed(k + 1)' = Handed(k + 1)
      <4>1. CASE k + 1 = e
        BY <1>1, <1>4, <1>14, <2>0, <4>1
      <4>2. CASE k + 1 # e
        <5>1. k + 1 \in Progs!Env \ {c, e}
          BY <1>4, <2>0, <3>1, <4>2
        <5> QED BY <1>9, <5>1, Unmoved
      <4> QED BY <4>1, <4>2
    <3>5. Steady(m)
      BY <1>10, <1>1 DEF Steady
    <3> QED BY <1>1, <3>1, <3>2, <3>3, <3>4, <3>5, EdgeStays
  <2> QED BY <2>1, <2>2
<1>18. Printed(c)'
  <2>1. Primes(m) = m /\ Primes(c)' = m
    BY <1>1, <1>3, <1>4, <1>9 DEF Primes
  <2>2. Printed(m) /\ out' = out
    BY <1>3 DEF Chain
  <2> QED BY <1>10, <2>1, <2>2 DEF Printed
<1>19. task' = "primes"
  BY <1>3 DEF Chain
<1>20. Chain(c)'
  BY <1>2, <1>9, <1>12, <1>16, <1>17, <1>18, <1>19 DEF Chain
<1> QED BY <1>2, <1>20 DEF c

-----------------------------------------------------------------------------
(* All steps *)

LEMMA SieveInitially == ASSUME Progs!ProgramAssumption, Progs!Init PROVE SieveInv
<1> SUFFICES ASSUME task = "primes" PROVE Chain(0)
  BY Slots DEF SieveInv
<1>1. 0 \in Progs!Env /\ \A k \in Progs!Env : k \in Nat
  BY Slots
<1>2. Domains
  BY DEF Domains, Whole, Progs!Init, Progs!Channel!Init
<1>3. ASSUME NEW e \in Progs!Env PROVE Where(0, e) /\ Talks(e)
  <2>1. /\ state[e] = "idle" /\ spot[e] = (IF e = 0 THEN "main" ELSE "unborn")
        /\ locals[e] = [i |-> 0, p |-> 0, id |-> 0, who |-> 0]
    BY DEF Progs!Init, Progs!Channel!Init
  <2>2. locals[e] \in Numbers /\ locals[e].i = 0
    BY <2>1 DEF Numbers
  <2>3. Where(0, e)
    BY <1>1, <2>1, <2>2 DEF Where
  <2>4. Talks(e)
    BY <2>1 DEF Talks, Has
  <2> QED BY <2>3, <2>4
<1>4. Printed(0)
  BY DEF Printed, Primes, Progs!Init
<1> QED BY <1>1, <1>2, <1>3, <1>4 DEF Chain

\* A program stays what it is.
LEMMA SameProgram == ASSUME [Progs!Next]_(Progs!vars) PROVE task' = task
<1>1. CASE Progs!vars' = Progs!vars
  BY <1>1 DEF Progs!vars
<1>2. CASE Progs!Next
  <2> PICK e \in Progs!Env : Progs!Step(e)
    BY <1>2 DEF Progs!Next
  <2> USE DEF Progs!Fork, Progs!CallSend, Progs!CallRecv, Progs!Returned, Progs!Exits
  <2>1. CASE Progs!PrimesMain(e)
    BY <2>1, Zenon DEF Progs!PrimesMain
  <2>2. CASE Progs!Primeproc(e)
    BY <2>2, Zenon DEF Progs!Primeproc, Progs!PrimesFilter
  <2>3. CASE Progs!Pingpong(e)
    BY <2>3, Zenon DEF Progs!Pingpong, Progs!PingpongSent
  <2>4. CASE Progs!Sendpage(e)
    BY <2>4, Zenon DEF Progs!Sendpage, Progs!SendpageWrite
  <2>5. CASE Progs!Deliver(e)
    BY <2>5, Zenon DEF Progs!Deliver
  <2> QED BY <2>1, <2>2, <2>3, <2>4, <2>5 DEF Progs!Step
<1> QED BY <1>1, <1>2

LEMMA SieveStep ==
  ASSUME Progs!ProgramAssumption, NEW m \in Progs!Env, Chain(m), Progs!Next
  PROVE  \E n \in Progs!Env : Chain(n)'
<1> PICK e \in Progs!Env : Progs!Step(e)
  BY DEF Progs!Next
<1>1. task = "primes" /\ e \in Nat /\ m \in Nat /\ Where(m, e)
  BY Slots DEF Chain
<1>2. spot[e] # "unborn" => e \in 0 .. m
  BY <1>1 DEF Where
<1>3. CASE Progs!PrimesMain(e)
  <2>1. CASE Progs!At(e, "primes", "main") /\ Progs!Fork(e, "top", "feed")
    <3>1. e \in 0 .. m
      BY <1>2, <2>1 DEF Progs!At
    <3> QED BY <2>1, <3>1, ForkKeeps DEF Progs!At
  <2>2. CASE /\ Progs!At(e, "primes", "feed")
             /\ Progs!CallSend(e, locals[e].id, Progs!Msg(locals[e].i + 2), "fed")
    <3>1. e \in 0 .. m
      BY <1>2, <2>2 DEF Progs!At
    <3> QED BY <2>2, <3>1, SendKeeps DEF Progs!At
  <2>3. CASE /\ Progs!At(e, "primes", "fed") /\ Progs!Returned(e)
             /\ locals' = [locals EXCEPT ![e].i = @ + 1] /\ Progs!Goto(e, "feed") /\ out' = out
    <3>1. e \in 0 .. m
      BY <1>2, <2>3 DEF Progs!At
    <3> QED BY <2>3, <3>1, SentKeeps DEF Progs!At, Progs!Returned, Progs!Goto, Progs!channel
  <2> QED BY <1>3, <2>1, <2>2, <2>3 DEF Progs!PrimesMain
<1>4. CASE Progs!Primeproc(e)
  <2>1. CASE Progs!At(e, "primes", "top") /\ Progs!CallRecv(e, "first")
    <3>1. e \in 0 .. m
      BY <1>2, <2>1 DEF Progs!At
    <3> QED BY <2>1, <3>1, RecvKeeps DEF Progs!At
  <2>2. CASE /\ Progs!At(e, "primes", "first") /\ Progs!Returned(e)
             /\ locals' = [locals EXCEPT ![e].p = Progs!Received(e)]
             /\ Progs!Say(Progs!Received(e)) /\ Progs!Goto(e, "fork")
    <3>1. e \in 0 .. m
      BY <1>2, <2>2 DEF Progs!At
    <3> QED BY <2>2, <3>1, FirstKeeps
            DEF Progs!At, Progs!Returned, Progs!Goto, Progs!channel, Progs!Received, Progs!Say
  <2>3. CASE Progs!At(e, "primes", "fork") /\ Progs!Fork(e, "top", "next")
    <3>1. e \in 0 .. m
      BY <1>2, <2>3 DEF Progs!At
    <3> QED BY <2>3, <3>1, ForkKeeps DEF Progs!At
  <2>4. CASE Progs!At(e, "primes", "next") /\ Progs!CallRecv(e, "filter")
    <3>1. e \in 0 .. m
      BY <1>2, <2>4 DEF Progs!At
    <3> QED BY <2>4, <3>1, RecvKeeps DEF Progs!At
  <2>5. CASE Progs!PrimesFilter(e)
    <3>1. e \in 0 .. m /\ spot[e] = "filter" /\ state[e] = "idle"
      BY <1>2, <2>5 DEF Progs!PrimesFilter, Progs!At, Progs!Returned
    <3>2. /\ UNCHANGED <<task, state, offer, inbox, taken, out>>
          /\ spot' = [spot EXCEPT ![e] = IF taken[e].msg.value % locals[e].p # 0 THEN "pass" ELSE "next"]
          /\ locals' = [locals EXCEPT ![e].i = taken[e].msg.value]
      BY <2>5 DEF Progs!PrimesFilter, Progs!Returned, Progs!Goto, Progs!channel, Progs!Received
    <3> QED BY <3>1, <3>2, FilterKeeps
  <2>6. CASE /\ Progs!At(e, "primes", "pass")
             /\ Progs!CallSend(e, locals[e].id, Progs!Msg(locals[e].i), "passed")
    <3>1. e \in 0 .. m
      BY <1>2, <2>6 DEF Progs!At
    <3> QED BY <2>6, <3>1, SendKeeps DEF Progs!At
  <2>7. CASE /\ Progs!At(e, "primes", "passed") /\ Progs!Returned(e) /\ Progs!Goto(e, "next")
             /\ UNCHANGED <<locals, text, out>>
    <3>1. e \in 0 .. m
      BY <1>2, <2>7 DEF Progs!At
    <3> QED BY <2>7, <3>1, SentKeeps DEF Progs!At, Progs!Returned, Progs!Goto, Progs!channel
  <2> QED BY <1>4, <2>1, <2>2, <2>3, <2>4, <2>5, <2>6, <2>7, Zenon DEF Progs!Primeproc
<1>5. CASE Progs!Deliver(e)
  <2>1. UNCHANGED <<task, spot, locals, text, out>>
    BY <1>5 DEF Progs!Deliver
  <2>2. CASE Progs!Channel!Return(e)
    BY <2>1, <2>2, ReturnKeeps
  <2>3. CASE \E r \in Progs!Env : Progs!Channel!Handover(e, r)
    BY <2>1, <2>3, HandoverKeeps
  <2> QED BY <1>5, <2>2, <2>3 DEF Progs!Deliver
<1>6. ~Progs!Pingpong(e) /\ ~Progs!Sendpage(e)
  BY <1>1 DEF Progs!Pingpong, Progs!PingpongSent, Progs!Sendpage, Progs!SendpageWrite, Progs!At
<1> QED BY <1>3, <1>4, <1>5, <1>6 DEF Progs!Step

LEMMA SieveKeeps ==
  ASSUME Progs!ProgramAssumption, SieveInv, [Progs!Next]_(Progs!vars)
  PROVE  SieveInv'
<1>0. task' = task
  BY SameProgram
<1> SUFFICES ASSUME task = "primes" PROVE \E n \in Progs!Env : Chain(n)'
  BY <1>0 DEF SieveInv
<1> PICK m \in Progs!Env : Chain(m)
  BY DEF SieveInv
<1>1. CASE Progs!Next
  BY <1>1, SieveStep
<1>2. CASE UNCHANGED Progs!vars
  <2>1. UNCHANGED <<task, state, offer, inbox, taken, spot, locals, out>>
    BY <1>2 DEF Progs!vars, Progs!channel
  <2>2. (\A e \in Progs!Env : Rests(e)) /\ Steady(m)
    BY <2>1 DEF Rests, Steady
  <2>3. Domains' /\ Printed(m)'
    BY <2>1 DEF Chain, Domains, Whole, Printed, Primes
  <2>4. {} \in SUBSET (0 .. m) /\ \A e \in Progs!Env \ {} : Rests(e)
    BY <2>2
  <2>5. Chain(m)'
    BY <2>1, <2>2, <2>3, <2>4, StepKeeps
  <2> QED BY <2>5
<1> QED BY <1>1, <1>2

-----------------------------------------------------------------------------
(* Primes *)

LEMMA Divides ==
  ASSUME NEW p \in Nat, NEW d \in Nat, NEW v \in Nat, p > 0, d > 0, d % p = 0, v % d = 0
  PROVE  v % p = 0
<1> DEFINE a == d \div p
           b == v \div d
           t == v \div p
           r == v % p
<1>1. d = p * a /\ a \in Nat
  OBVIOUS
<1>2. v = d * b /\ b \in Nat
  OBVIOUS
<1>3. v = p * t + r /\ r \in 0 .. p - 1 /\ t \in Nat
  OBVIOUS
<1> HIDE DEF a, b, t, r
<1>4. v = p * (a * b) /\ a * b \in Nat
  <2>1. d * b = (p * a) * b
    BY <1>1
  <2>2. (p * a) * b = p * (a * b)
    BY <1>1, <1>2
  <2> QED BY <1>1, <1>2, <2>1, <2>2
<1> DEFINE q == a * b
<1> HIDE DEF q
<1>5. q \in Nat /\ p * q = p * t + r
  BY <1>3, <1>4 DEF q
<1>6. p * (q - t) = r
  BY <1>3, <1>5
<1>7. q - t <= 0
  <2>1. ASSUME q - t >= 1 PROVE FALSE
    <3>1. p * (q - t) >= p
      BY <1>3, <1>5, <2>1
    <3> QED BY <1>3, <1>6, <3>1
  <2> QED BY <1>3, <1>5, <2>1
<1>8. r = 0
  <2>1. p * (q - t) <= 0
    BY <1>3, <1>5, <1>7
  <2> QED BY <1>3, <1>6, <2>1
<1> QED BY <1>8 DEF r

\* The primes of the chain are the first ones.
LEMMA ChainIsPrime ==
  ASSUME Progs!ProgramAssumption, NEW m \in Progs!Env, Chain(m), NEW k \in 1 .. Primes(m)
  PROVE  /\ Primes(m) \in 0 .. m /\ locals[k].p \in Nat /\ Progs!Isprime(locals[k].p)
         /\ \A n \in 2 .. locals[k].p : Progs!Isprime(n) => \E j \in 1 .. k : locals[j].p = n
<1>1. m \in Nat /\ Primes(m) \in 0 .. m /\ Primes(m) \in Nat
  BY Slots DEF Primes
<1>2. ASSUME NEW j \in 1 .. Primes(m)
      PROVE  /\ j \in Nat /\ locals[j].p \in Nat /\ locals[j].p >= 2
             /\ Sieved(j - 1, locals[j].p) /\ NoneBetween(j - 1, 1, locals[j].p)
  <2>1. j \in 0 .. m /\ j > 0
    BY <1>1
  <2>2. Where(m, j) /\ Found(j) /\ locals[j] \in Numbers /\ j \in Nat
    BY <2>1, Whereabouts
  <2>3. spot[j] \notin {"top", "first"}
    <3>1. CASE j < m
      BY <1>1, <2>1, <2>2, <3>1 DEF Where
    <3>2. CASE j = m
      BY <1>1, <2>1, <2>2, <3>2 DEF Where, Primes
    <3> QED BY <1>1, <2>1, <3>1, <3>2
  <2>4. locals[j].p \in Nat /\ Sieved(j - 1, locals[j].p) /\ NoneBetween(j - 1, 1, locals[j].p)
    BY <2>2, <2>3 DEF Found, Numbers
  <2> QED BY <2>2, <2>4 DEF Sieved
<1> DEFINE p == locals[k].p
<1>3. p \in Nat /\ p >= 2 /\ k \in Nat /\ Sieved(k - 1, p) /\ NoneBetween(k - 1, 1, p)
  BY <1>2
<1> HIDE DEF p
\* What is smaller is divided by a smaller prime of the chain.
<1>4. ASSUME NEW n \in 2 .. p - 1
      PROVE  \E j \in 1 .. k - 1 : locals[j].p \in Nat /\ locals[j].p >= 2 /\ n % locals[j].p = 0
  <2>1. ~Sieved(k - 1, n)
    BY <1>3 DEF NoneBetween
  <2>2. PICK j \in 1 .. k - 1 : n % locals[j].p = 0
    BY <1>3, <2>1 DEF Sieved
  <2>3. j \in 1 .. Primes(m)
    BY <1>1
  <2> QED BY <1>2, <2>2, <2>3
<1>5. Progs!Isprime(p)
  <2>1. ASSUME NEW d \in 2 .. p - 1, p % d = 0 PROVE FALSE
    <3>1. PICK j \in 1 .. k - 1 : locals[j].p \in Nat /\ locals[j].p >= 2 /\ d % locals[j].p = 0
      BY <1>4
    <3>2. d \in Nat /\ d > 0 /\ locals[j].p > 0
      BY <1>3, <3>1
    <3>3. p % locals[j].p = 0
      BY <1>3, <2>1, <3>1, <3>2, Divides
    <3> QED BY <1>3, <3>3 DEF Sieved
  <2>2. \A d \in 2 .. (p - 1) : p % d # 0
    BY <2>1, Zenon
  <2>3. p > 1
    BY <1>3
  <2> QED BY <2>2, <2>3, Zenon DEF Progs!Isprime
<1>6. ASSUME NEW n \in 2 .. p, Progs!Isprime(n) PROVE \E j \in 1 .. k : locals[j].p = n
  <2>1. CASE n = p
    BY <1>3, <2>1 DEF p
  <2>2. CASE n # p
    <3>1. PICK j \in 1 .. k - 1 : locals[j].p \in Nat /\ locals[j].p >= 2 /\ n % locals[j].p = 0
      BY <1>3, <1>4, <2>2
    <3>2. locals[j].p <= n
      BY <1>3, <3>1
    <3>3. locals[j].p = n
      BY <1>3, <1>6, <3>1, <3>2 DEF Progs!Isprime
    <3> QED BY <1>3, <3>3
  <2> QED BY <2>1, <2>2
<1> QED BY <1>1, <1>3, <1>5, <1>6 DEF p

LEMMA SievePrimes == ASSUME Progs!ProgramAssumption, SieveInv PROVE Progs!PrimesInOrder
<1> SUFFICES ASSUME task = "primes", NEW k \in DOMAIN out
             PROVE  /\ Progs!Isprime(out[k])
                    /\ \A n \in 2 .. out[k] : Progs!Isprime(n) => \E j \in 1 .. k : out[j] = n
  BY DEF Progs!PrimesInOrder
<1> PICK m \in Progs!Env : Chain(m)
  BY DEF SieveInv
<1>1. Printed(m) /\ Primes(m) \in Nat
  BY Slots DEF Chain, Primes
<1>2. k \in 1 .. Primes(m) /\ \A j \in 1 .. k : out[j] = locals[j].p
  BY <1>1 DEF Printed
<1>3. out[k] = locals[k].p
  BY <1>2
<1>4. /\ Progs!Isprime(locals[k].p)
      /\ \A n \in 2 .. locals[k].p : Progs!Isprime(n) => \E j \in 1 .. k : locals[j].p = n
  BY <1>2, ChainIsPrime
<1> QED BY <1>2, <1>3, <1>4

-----------------------------------------------------------------------------
(* Together: ProgramParts *)

\* primes.c prints the primes, in their order and without a gap, for any number of
\* slots in envs[] and any last integer: process e sends on just what no prime of
\* processes 1 to e divides, in increasing order, so that the first number a new
\* process gets is the next prime.
THEOREM PrimesComeInOrder ==
  ASSUME Progs!ProgramAssumption
  PROVE  Progs!Spec => []Progs!PrimesInOrder
<1>1. Progs!Init => SieveInv
  BY SieveInitially
<1>2. SieveInv /\ [Progs!Next]_(Progs!vars) => SieveInv'
  BY SieveKeeps
<1>3. SieveInv => Progs!PrimesInOrder
  BY SievePrimes
<1> QED BY <1>1, <1>2, <1>3, PTL DEF Progs!Spec

LEMMA OneProgram ==
  [ProgNext]_progVars =>
    /\ progPart = "UserPrograms" => progPart' = "UserPrograms" /\ [Progs!Next]_(Progs!vars)
    /\ progPart = "HashTable" => progPart' = "HashTable" /\ [Hash!Next]_(Hash!vars)
BY DEF ProgNext, progVars, taskVars, hashVars, Progs!vars, Progs!channel, Hash!vars

\* The behaviours of ProgramParts are those of its parts.
LEMMA ProgramSpecs ==
  /\ ProgSpec /\ progPart = "UserPrograms" => [](progPart = "UserPrograms") /\ Progs!Spec
  /\ ProgSpec /\ progPart = "HashTable" => [](progPart = "HashTable") /\ Hash!Spec
  /\ ProgSpec => progPart = "UserPrograms" \/ progPart = "HashTable"
<1> DEFINE OfProgs == progPart = "UserPrograms"
           OfHash == progPart = "HashTable"
<1>1. /\ ProgInit => OfProgs \/ OfHash
      /\ ProgInit /\ OfProgs => Progs!Init
      /\ ProgInit /\ OfHash => Hash!Init
  BY DEF ProgInit
<1>2. /\ OfProgs /\ [ProgNext]_progVars => OfProgs' /\ [Progs!Next]_(Progs!vars)
      /\ OfHash /\ [ProgNext]_progVars => OfHash' /\ [Hash!Next]_(Hash!vars)
  BY OneProgram
<1> QED BY <1>1, <1>2, PTL DEF ProgSpec, Progs!Spec, Hash!Spec

\* What the concurrent programs find is right, however they interleave: the sieve
\* with any number of processes, and the hash table with any number of threads.
THEOREM ProgramsStayRight == ProgSpec => []ProgramsAreRight
<1> USE ProgramPartsAssumption
<1> DEFINE OfProgs == progPart = "UserPrograms"
           OfHash == progPart = "HashTable"
           HashGood == Hash!NoKeyMissing /\ Hash!GetsAfterPuts
<1>1. Hash!Spec => []HashGood
  BY NoKeyIsLost, LookupsAfterPuts, PTL
<1>2. /\ OfProgs /\ Progs!PrimesInOrder => ProgramsAreRight
      /\ OfHash /\ HashGood => ProgramsAreRight
  BY DEF ProgramsAreRight
<1> QED BY <1>1, <1>2, PrimesComeInOrder, ProgramSpecs, PTL
===============================================================================
