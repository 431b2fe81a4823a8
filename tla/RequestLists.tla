----------------------------- MODULE RequestLists -----------------------------
(***************************************************************************)
(* The request queue and the prefetch queue of project5/server.c as they   *)
(* lie in memory: two doubly linked lists through sentinels.  A request    *)
(* has one next and one prev pointer, for whichever list it is in.         *)
(*                                                                         *)
(* Each list has its own mutex, so an operation on one of them is a step,  *)
(* except the search of getCachedRequest: it takes a step for every        *)
(* request it comes to, and the prefetch list may change in between.  A    *)
(* server uses queue_getRequest or getCachedRequest, here either may be    *)
(* called at any time; queue_getSmallRequest, which unlinks nothing, is    *)
(* left to WebServer.                                                      *)
(***************************************************************************)
EXTENDS LinkedLists, Functions

CONSTANTS Requests,    \* the memory requests are allocated from
          queue_sentinel, prefetch_sentinel

ASSUME ListsAssumption ==
    /\ queue_sentinel # prefetch_sentinel
    /\ queue_sentinel \notin Requests /\ prefetch_sentinel \notin Requests
    /\ Null \notin Requests \cup {queue_sentinel, prefetch_sentinel}

VARIABLES next, prev,    \* the pointers in the requests and the sentinels
          queue_size, prefetch_size,
          req,           \* how far the search of getCachedRequest has come, or Null
          where          \* which list or kind of thread has each request

listVars == <<next, prev, queue_size, prefetch_size, req, where>>

Nodes == Requests \cup {queue_sentinel, prefetch_sentinel}

\* init_lists.
ListsInit ==
    /\ next = [n \in Nodes |-> IF n \in Requests THEN Null ELSE n]
    /\ prev = [n \in Nodes |-> IF n \in Requests THEN Null ELSE n]
    /\ queue_size = 0 /\ prefetch_size = 0
    /\ req = Null
    /\ where = [r \in Requests |-> "unallocated"]
-----------------------------------------------------------------------------
(* The operations on the lists *)

\* Mutant: the list becomes a stack.
LinkFirst(sentinel, r) ==
    /\ next' = [next EXCEPT ![sentinel] = r, ![r] = next[sentinel]]
    /\ prev' = [prev EXCEPT ![next[sentinel]] = r, ![r] = sentinel]

\* r behind the last node of the list of a sentinel.
LinkLast(sentinel, r) ==
    /\ next' = [next EXCEPT ![prev[sentinel]] = r, ![r] = sentinel]
    /\ prev' = [prev EXCEPT ![sentinel] = r, ![r] = prev[sentinel]]

\* Mutant: the list is only mended forwards.
UnlinkForward(r) == next' = [next EXCEPT ![prev[r]] = next[r]] /\ prev' = prev

\* r out of whichever list it is in.
Unlink(r) ==
    /\ next' = [next EXCEPT ![prev[r]] = next[r]]
    /\ prev' = [prev EXCEPT ![next[r]] = prev[r]]

q_add(r) == LinkLast(queue_sentinel, r) /\ queue_size' = queue_size + 1

q_remove(r) == Unlink(r) /\ queue_size' = queue_size - 1

q_first == IF next[queue_sentinel] # queue_sentinel THEN next[queue_sentinel] ELSE Null

q_nextOf(r) == IF next[r] = queue_sentinel THEN Null ELSE next[r]

p_add(r) == LinkLast(prefetch_sentinel, r) /\ prefetch_size' = prefetch_size + 1

p_remove(r) == Unlink(r) /\ prefetch_size' = prefetch_size - 1

p_first ==
    IF next[prefetch_sentinel] = prefetch_sentinel THEN Null ELSE next[prefetch_sentinel]

p_nextOf(r) == IF next[r] = prefetch_sentinel THEN Null ELSE next[r]
-----------------------------------------------------------------------------
(* What the threads do with them *)

Goes(r, to) == where' = [where EXCEPT ![r] = to]

createRequest(r) ==
    /\ where[r] = "unallocated"
    /\ next' = [next EXCEPT ![r] = Null] /\ prev' = [prev EXCEPT ![r] = Null]
    /\ Goes(r, "dispatch_thread")
    /\ UNCHANGED <<queue_size, prefetch_size, req>>

\* free: what the memory held is gone.
destroyRequest(r) ==
    /\ where[r] \in {"worker_thread", "prefetch_thread"}
    /\ next' = [next EXCEPT ![r] = Null] /\ prev' = [prev EXCEPT ![r] = Null]
    /\ Goes(r, "unallocated")
    /\ UNCHANGED <<queue_size, prefetch_size, req>>

queue_putRequest(r) ==
    /\ where[r] = "dispatch_thread" /\ req = Null
    /\ q_add(r) /\ Goes(r, "queue")
    /\ UNCHANGED <<prefetch_size, req>>

\* A request is unlinked and goes to the worker, which ends a search.
Return(r) ==
    /\ q_remove(r) /\ Goes(r, "worker_thread")
    /\ req' = Null
    /\ UNCHANGED prefetch_size

\* q_shift.
queue_getRequest == req = Null /\ q_first # Null /\ Return(q_first)

\* getCachedRequest: it starts the search,
SearchFirst ==
    /\ req = Null /\ q_first # Null
    /\ req' = q_first
    /\ UNCHANGED <<next, prev, queue_size, prefetch_size, where>>

\* finds that req is cached,
SearchHits == req # Null /\ Return(req)

\* Mutant: the request it looked at last is taken instead of the first.
SearchMissesTakingLast ==
    /\ req # Null
    /\ \/ /\ q_nextOf(req) # Null
          /\ req' = q_nextOf(req)
          /\ UNCHANGED <<next, prev, queue_size, prefetch_size, where>>
       \/ q_nextOf(req) = Null /\ Return(req)

\* or is not: it goes on to the next one, or takes the first after all.
SearchMisses ==
    /\ req # Null
    /\ \/ /\ q_nextOf(req) # Null
          /\ req' = q_nextOf(req)
          /\ UNCHANGED <<next, prev, queue_size, prefetch_size, where>>
       \/ q_nextOf(req) = Null /\ Return(q_first)

prefetch_putRequest(r) ==
    /\ where[r] = "worker_thread"
    /\ p_add(r) /\ Goes(r, "prefetch_queue")
    /\ UNCHANGED <<queue_size, req>>

\* p_shift.
prefetch_getRequest ==
    /\ p_first # Null
    /\ p_remove(p_first) /\ Goes(p_first, "prefetch_thread")
    /\ UNCHANGED <<queue_size, req>>

ListsNext ==
    \/ \E r \in Requests :
          \/ createRequest(r) \/ destroyRequest(r)
          \/ queue_putRequest(r) \/ prefetch_putRequest(r)
    \/ queue_getRequest \/ SearchFirst \/ SearchHits \/ SearchMisses
    \/ prefetch_getRequest

ListsSpec == ListsInit /\ [][ListsNext]_listVars
-----------------------------------------------------------------------------
(* Properties *)

Places == {"unallocated", "dispatch_thread", "queue", "worker_thread", "prefetch_queue",
           "prefetch_thread"}

ListsTypeOK ==
    /\ next \in [Nodes -> Nodes \cup {Null}] /\ prev \in [Nodes -> Nodes \cup {Null}]
    /\ queue_size \in Nat /\ prefetch_size \in Nat
    /\ req \in Requests \cup {Null}
    /\ where \in [Requests -> Places]

\* What is found along each list: as many requests as it is said to have.
Queue == Walk(next, next[queue_sentinel], queue_size)
PrefetchQueue == Walk(next, next[prefetch_sentinel], prefetch_size)

At(place) == {r \in Requests : where[r] = place}

\* Each list is a ring of exactly the requests that were put in and not taken out, each
\* once: no operation on one list, nor the reuse of freed memory, breaks the other.  A
\* search stands at a request of the queue.  So no assertion of these functions fails.
ListsIntact ==
    /\ Range(Queue) = At("queue") /\ Range(PrefetchQueue) = At("prefetch_queue")
    /\ IsInjective(Queue) /\ IsInjective(PrefetchQueue)
    /\ Ring(next, prev, queue_sentinel, Queue)
    /\ Ring(next, prev, prefetch_sentinel, PrefetchQueue)
    /\ req # Null => where[req] = "queue"

Queues == INSTANCE RequestQueues WITH queue <- Queue, prefetch <- PrefetchQueue

\* The linked lists behave as the sequences that WebServer computes with.
ImplementsQueues == Queues!Spec
=============================================================================
