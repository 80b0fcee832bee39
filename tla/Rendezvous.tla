----------------------------- MODULE Rendezvous ------------------------------
(***************************************************************************)
(* What ipc_send and ipc_recv of lab4/lib/ipc.c promise to programs: a     *)
(* message passes from one sender to one receiver in a single step, whole, *)
(* and only while both are waiting for it.  The sender goes on only then,  *)
(* and it fails only for the reasons that the comment of sys_ipc_try_send  *)
(* gives (kern/syscall.c:275-290).  That a sender may pass on a page with  *)
(* more rights than it has is not looked at here.                          *)
(***************************************************************************)
CONSTANTS
  Env,       \* environments, by id
  Message,   \* what a program can send: [value, perm, page]
  NoPage,    \* the page of a message without one, whose perm is "none"
  Nothing    \* no message

VARIABLES
  state,   \* "idle", "send", "recv", "full" (woken, not yet returned), "stuck", "dead"
  wants,   \* does the receiver ask for a page?
  offer,   \* the receiver and the message of each environment that sends
  inbox,   \* the message that a woken receiver will return
  taken,   \* what the last ipc_recv returned, with its sender
  error    \* why the last ipc_send failed, or "ok"

rendezvousVars == <<state, wants, offer, inbox, taken, error>>

Init ==
  /\ state = [e \in Env |-> "idle"]
  /\ wants = [e \in Env |-> FALSE]
  /\ offer = [e \in Env |-> Nothing]
  /\ inbox = [e \in Env |-> Nothing]
  /\ taken = [e \in Env |-> Nothing]
  /\ error = [e \in Env |-> "ok"]

\* ipc_send is called for one of the receivers rs with one of the messages ms.
Offer(s, rs, ms) ==
  /\ state[s] = "idle"
  /\ state' = [state EXCEPT ![s] = "send"]
  /\ \E r \in rs, m \in ms : offer' = [offer EXCEPT ![s] = [to |-> r, msg |-> m]]
  /\ UNCHANGED <<wants, inbox, taken, error>>

\* ipc_recv is called, with the address for a page (w) or with a null pointer.
Receive(r, w) ==
  /\ state[r] = "idle"
  /\ state' = [state EXCEPT ![r] = "recv"]
  /\ wants' = [wants EXCEPT ![r] = w]
  /\ taken' = [taken EXCEPT ![r] = Nothing]
  /\ UNCHANGED <<offer, inbox, error>>

\* "If the sender wants to send a page but the receiver isn't asking for one,
\* then no page mapping is transferred, but no error occurs."
Delivered(m, w) ==
  IF w THEN m ELSE [value |-> m.value, perm |-> "none", page |-> NoPage]

\* The message of s passes to r.
Handover(s, r) ==
  /\ state[s] = "send" /\ offer[s].to = r /\ state[r] = "recv"
  /\ offer[s].msg.perm # "bad"
  /\ state' = [state EXCEPT ![s] = "idle", ![r] = "full"]
  /\ inbox' = [inbox EXCEPT ![r] = [from |-> s, msg |-> Delivered(offer[s].msg, wants[r])]]
  /\ offer' = [offer EXCEPT ![s] = Nothing]
  /\ UNCHANGED <<wants, taken, error>>

\* ipc_recv returns.
Return(r) ==
  /\ state[r] = "full"
  /\ state' = [state EXCEPT ![r] = "idle"]
  /\ taken' = [taken EXCEPT ![r] = inbox[r]]
  /\ inbox' = [inbox EXCEPT ![r] = Nothing]
  /\ UNCHANGED <<wants, offer, error>>

\* Why a message m for r may be refused: r is gone, the permission is
\* inappropriate, or there is no memory to map the page that r asks for.
Refused(m, r, e) ==
  \/ e = "E_BAD_ENV" /\ state[r] = "dead"
  \/ e = "E_INVAL" /\ m.perm = "bad"
  \/ e = "E_NO_MEM" /\ state[r] = "recv" /\ wants[r] /\ m.page # NoPage

\* ipc_send panics, and nobody else notices.
Fail(s, e) ==
  /\ state[s] = "send" /\ Refused(offer[s].msg, offer[s].to, e)
  /\ state' = [state EXCEPT ![s] = "stuck"]
  /\ error' = [error EXCEPT ![s] = e]
  /\ offer' = [offer EXCEPT ![s] = Nothing]
  /\ UNCHANGED <<wants, inbox, taken>>

\* The environment exits or is destroyed.
Die(e) ==
  /\ state[e] # "dead"
  /\ state' = [state EXCEPT ![e] = "dead"]
  /\ offer' = [offer EXCEPT ![e] = Nothing]
  /\ inbox' = [inbox EXCEPT ![e] = Nothing]
  /\ taken' = [taken EXCEPT ![e] = Nothing]
  /\ UNCHANGED <<wants, error>>

Next ==
  \E e \in Env :
    \/ Offer(e, Env, Message) \/ Return(e) \/ Die(e)
    \/ \E w \in BOOLEAN : Receive(e, w)
    \/ \E r \in Env : Handover(e, r)
    \/ \E why \in {"E_BAD_ENV", "E_INVAL", "E_NO_MEM"} : Fail(e, why)

Spec == Init /\ [][Next]_rendezvousVars
==============================================================================
