---------------------------- MODULE BoundedQueue ----------------------------
(***************************************************************************)
(* What the ring buffer of project5/sol_server.c is for: a first-in        *)
(* first-out queue that never holds more items than it was made for, out *)
(* of which each taker gets the oldest.  The closing item is never taken:  *)
(* it stays to stop every taker, and nothing is put behind it.             *)
(***************************************************************************)
EXTENDS Integers, Sequences

CONSTANTS Takers, Items, Nothing, Closer

VARIABLES capacity,   \* never changes
          queue,      \* oldest first
          taken       \* what each taker holds

Init ==
    /\ capacity \in Int /\ queue = <<>>
    /\ taken = [t \in Takers |-> Nothing]

Put(x) ==
    /\ Len(queue) < capacity
    /\ queue # <<>> => queue[Len(queue)] # Closer
    /\ queue' = Append(queue, x)
    /\ UNCHANGED <<capacity, taken>>

Take(t) ==
    /\ taken[t] = Nothing
    /\ queue # <<>> /\ Head(queue) # Closer
    /\ taken' = [taken EXCEPT ![t] = Head(queue)]
    /\ queue' = Tail(queue)
    /\ UNCHANGED capacity

Finish(t) ==
    /\ taken[t] # Nothing
    /\ taken' = [taken EXCEPT ![t] = Nothing]
    /\ UNCHANGED <<capacity, queue>>

Next ==
    \/ \E x \in Items \cup {Closer} : Put(x)
    \/ \E t \in Takers : Take(t) \/ Finish(t)

Spec == Init /\ [][Next]_<<capacity, queue, taken>>
=============================================================================
