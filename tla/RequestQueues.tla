---------------------------- MODULE RequestQueues ----------------------------
(***************************************************************************)
(* The two queues of project5/server.c as WebServer computes with them:    *)
(* sequences of requests, each request in one place at a time.             *)
(***************************************************************************)
EXTENDS Sequences, SequencesExt

CONSTANT Requests

VARIABLES queue, prefetch,
          where    \* which list or kind of thread has each request

Init ==
    /\ queue = <<>> /\ prefetch = <<>>
    /\ where = [r \in Requests |-> "unallocated"]

Goes(r, from, to) == where[r] = from /\ where' = [where EXCEPT ![r] = to]

Create(r) == Goes(r, "unallocated", "dispatch_thread") /\ UNCHANGED <<queue, prefetch>>

Put(r) ==
    /\ Goes(r, "dispatch_thread", "queue")
    /\ queue' = Append(queue, r) /\ prefetch' = prefetch

Get(i) ==
    /\ Goes(queue[i], "queue", "worker_thread")
    /\ queue' = RemoveAt(queue, i) /\ prefetch' = prefetch

PutPrefetch(r) ==
    /\ Goes(r, "worker_thread", "prefetch_queue")
    /\ prefetch' = Append(prefetch, r) /\ queue' = queue

GetPrefetch ==
    /\ prefetch # <<>>
    /\ Goes(Head(prefetch), "prefetch_queue", "prefetch_thread")
    /\ prefetch' = Tail(prefetch) /\ queue' = queue

Destroy(r) ==
    /\ \E from \in {"worker_thread", "prefetch_thread"} : Goes(r, from, "unallocated")
    /\ UNCHANGED <<queue, prefetch>>

Next ==
    \/ \E r \in Requests : Create(r) \/ Put(r) \/ PutPrefetch(r) \/ Destroy(r)
    \/ \E i \in DOMAIN queue : Get(i)
    \/ GetPrefetch

Spec == Init /\ [][Next]_<<queue, prefetch, where>>
=============================================================================
