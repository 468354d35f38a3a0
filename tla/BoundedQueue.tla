----------------------------- MODULE BoundedQueue -----------------------------
(***************************************************************************)
(* What the ring of buckets promises: the last Capacity things put in, in  *)
(* the order in which they were put in, and a copy of them that survives   *)
(* the process.                                                            *)
(***************************************************************************)
EXTENDS Naturals, Sequences

CONSTANTS Capacity, Items

VARIABLES
  items,    \* what is in the queue, oldest first
  stored    \* the copy kept by the host

queueVars == <<items, stored>>

QInit == items = <<>> /\ stored = <<>>

Put(x) ==
  /\ items' = Append(IF Len(items) < Capacity THEN items ELSE Tail(items), x)
  /\ UNCHANGED stored

\* The newest item is replaced by a later version of itself.
Amend(x) ==
  /\ items # <<>>
  /\ items' = [items EXCEPT ![Len(items)] = x]
  /\ UNCHANGED stored

Store == stored' = items /\ UNCHANGED items
Recall == items' = stored /\ UNCHANGED stored

QNext == (\E x \in Items : Put(x) \/ Amend(x)) \/ Store \/ Recall

QSpec == QInit /\ [][QNext]_queueVars
=============================================================================
