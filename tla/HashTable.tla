------------------------------- MODULE HashTable ------------------------------
(***************************************************************************)
(* The threads homework (HW_multithreaded-programming/ph.c): threads put   *)
(* disjoint parts of the keys into a hash table of linked lists under one  *)
(* lock, meet at a barrier made of a counter, and look every key up        *)
(* without the lock.  A put is a load of the head of the list and, after   *)
(* malloc, a store to it.                                                  *)
(***************************************************************************)
EXTENDS Naturals, FiniteSets, Sequences

CONSTANTS
  nthread,
  keys,      \* the keys, NKEYS of them, which may repeat
  NBUCKET

NKEYS == Len(keys)

HashTableAssumption ==
  /\ nthread \in Nat \ {0} /\ NBUCKET \in Nat \ {0}
  /\ keys \in Seq(Nat) /\ NKEYS > 0
  /\ NKEYS % nthread = 0        \* assert of main

VARIABLES
  table,    \* the heads of the lists
  heap,     \* the entries in the order of their allocation
  lock,     \* the thread that holds it, or NoThread
  done,     \* how many threads have passed the puts
  at,       \* where each thread is
  i,        \* its loop variable
  e, n,     \* its variables in get, and in insert
  missing   \* no_found_count

vars == <<table, heap, lock, done, at, i, e, n, missing>>

Thread == 0 .. nthread - 1
NoThread == nthread
Nil == 0
Bucket(k) == k % NBUCKET
b == NKEYS \div nthread

Init ==
  /\ table = [k \in 0 .. NBUCKET - 1 |-> Nil] /\ heap = <<>>
  /\ lock = NoThread /\ done = 0
  /\ at = [t \in Thread |-> "lock"]
  /\ i = [t \in Thread |-> 0] /\ e = [t \in Thread |-> Nil] /\ n = [t \in Thread |-> Nil]
  /\ missing = [t \in Thread |-> 0]

Goto(t, from, to) == at[t] = from /\ at' = [at EXCEPT ![t] = to]

\* Mutant of Lock: the thread does not wait for the mutex.
Mut_LockNoWait(t) ==
  /\ Goto(t, "lock", "put")
  /\ lock' = t
  /\ UNCHANGED <<table, heap, done, i, e, n, missing>>

Lock(t) ==
  /\ Goto(t, "lock", "put")
  /\ lock = NoThread /\ lock' = t
  /\ UNCHANGED <<table, heap, done, i, e, n, missing>>

PutKey(t) == keys[b * t + i[t] + 1]

\* put passes table[i] to insert.
Put(t) ==
  /\ i[t] < b /\ Goto(t, "put", "insert")
  /\ n' = [n EXCEPT ![t] = table[Bucket(PutKey(t))]]
  /\ UNCHANGED <<table, heap, lock, done, i, e, missing>>

\* insert: malloc, and *p = e.
Insert(t) ==
  /\ Goto(t, "insert", "put")
  /\ heap' = Append(heap, [key |-> PutKey(t), value |-> t, next |-> n[t]])
  /\ table' = [table EXCEPT ![Bucket(PutKey(t))] = Len(heap')]
  /\ i' = [i EXCEPT ![t] = @ + 1]
  /\ UNCHANGED <<lock, done, e, n, missing>>

Unlock(t) ==
  /\ i[t] = b /\ Goto(t, "put", "add")
  /\ lock' = NoThread
  /\ UNCHANGED <<table, heap, done, i, e, n, missing>>

\* __sync_fetch_and_add(&done, 1).
Add(t) ==
  /\ Goto(t, "add", "spin")
  /\ done' = done + 1
  /\ UNCHANGED <<table, heap, lock, i, e, n, missing>>

\* while (done < nthread); then the first get starts.
Spin(t) ==
  /\ done >= nthread /\ Goto(t, "spin", "get")
  /\ i' = [i EXCEPT ![t] = 0] /\ e' = [e EXCEPT ![t] = table[Bucket(keys[1])]]
  /\ UNCHANGED <<table, heap, lock, done, n, missing>>

Found(t) == e[t] # Nil /\ heap[e[t]].key = keys[i[t] + 1]

\* get goes on to the next entry of the list.
Follow(t) ==
  /\ at[t] = "get" /\ e[t] # Nil /\ ~Found(t)
  /\ e' = [e EXCEPT ![t] = heap[@].next]
  /\ UNCHANGED <<table, heap, lock, done, at, i, n, missing>>

\* get returns, and the next one starts.
Got(t) ==
  /\ at[t] = "get" /\ (e[t] = Nil \/ Found(t))
  /\ missing' = [missing EXCEPT ![t] = IF Found(t) THEN @ ELSE @ + 1]
  /\ i' = [i EXCEPT ![t] = @ + 1]
  /\ IF i[t] + 1 < NKEYS
     THEN e' = [e EXCEPT ![t] = table[Bucket(keys[i[t] + 2])]] /\ UNCHANGED at
     ELSE at' = [at EXCEPT ![t] = "exit"] /\ UNCHANGED e
  /\ UNCHANGED <<table, heap, lock, done, n>>

Next == \E t \in Thread :
          \/ Lock(t) \/ Put(t) \/ Insert(t) \/ Unlock(t) \/ Add(t) \/ Spin(t) \/ Follow(t) \/ Got(t)

Spec == Init /\ [][Next]_vars

-----------------------------------------------------------------------------
(* Properties *)

\* No key is lost, whichever way the threads interleave (README of the
\* homework: "keys missing" without the lock).
NoKeyMissing == \A t \in Thread : missing[t] = 0

\* Nobody looks a key up while somebody still puts, so that get needs no lock.
GetsAfterPuts ==
  \A t, u \in Thread : at[t] \in {"get", "exit"} => at[u] \notin {"lock", "put", "insert"}

\* Every thread passes the barrier and ends: none waits for a lock or a thread
\* for ever.
AllThreadsEnd == ~ENABLED Next => \A t \in Thread : at[t] = "exit"
==============================================================================
