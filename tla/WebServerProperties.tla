------------------------ MODULE WebServerProperties ------------------------
(***************************************************************************)
(* What is claimed of WebServer: invariants, the service it implements,    *)
(* and what must eventually happen.                                        *)
(***************************************************************************)
EXTENDS WebServer, FiniteSetsExt

Labels ==
    {"accept", "enqueue", "wait_put", "woken_put", "exited",
     "check", "lock_queue", "wait_get", "woken_get", "lock_cache", "read", "stat",
     "reply", "offer", "put_prefetch", "drain_check", "drain_lock", "drain_log",
     "p_check", "p_lock", "p_wait", "p_woken", "p_guess", "p_stat", "p_put"}

\* The program points at which each kind of thread can be.
LabelsOf(t) ==
    IF t \in Dispatchers THEN {"accept", "enqueue", "wait_put", "woken_put", "exited"}
    ELSE IF t \in Workers
    THEN {"check", "lock_queue", "wait_get", "woken_get", "lock_cache", "read", "stat",
          "reply", "offer", "put_prefetch", "drain_check", "drain_lock", "drain_log",
          "exited"}
    ELSE {"p_check", "p_lock", "p_wait", "p_woken", "p_guess", "p_stat", "p_put",
          "exited"}

Faults == {"none", "queue_assert", "null_request", "fread_assert", "null_extension",
           "log_assert", "entry_assert", "prefetch_assert", "use_after_free",
           "list_corrupt"}

WorkType == [ent : Entry \cup {Null}, hit : BOOLEAN, err : {"none", "read", "size"},
             len : Nat]
GuessType == [name : Files \cup {Null}, len : Sizes, size : Sizes]

\* Each thread stays in its own function.
ThreadTypes ==
    /\ pc \in [Threads -> Labels]
    /\ \A t \in Threads : pc[t] \in LabelsOf(t)
    /\ hand \in [Threads -> Requests \cup {Null}]

DataTypes ==
    /\ queue \in Seq(Requests) /\ prefetch \in Seq(Requests)
    /\ cache \in Seq(Entry)
    /\ qm \in Workers \cup {Null} /\ cm \in Workers \cup {Null}
    /\ work \in [Workers -> WorkType] /\ guess \in [Prefetchers -> GuessType]
    /\ draining \subseteq Workers
    /\ filename \in [Requests -> Files \cup {Null}]
    /\ refused \subseteq Requests /\ freed \subseteq Requests
    /\ main \in {"serving", "exiting", "returned"}
    /\ disk \in [Files -> Sizes] /\ changes \in Nat
    /\ fault \in Faults

\* A prefetch thread that reads a file has its name.
GuessNamed ==
    \A p \in Prefetchers : pc[p] \in {"p_stat", "p_put"} => guess[p].name \in Files

\* Every variable keeps its type.
TypeOK == ThreadTypes /\ DataTypes /\ GuessNamed
-----------------------------------------------------------------------------
(* Ownership of requests *)

\* The program points at which a thread owns the request in its hand.
Holding == {"enqueue", "wait_put", "woken_put", "read", "stat", "reply", "offer",
            "put_prefetch", "drain_log", "p_guess", "p_stat", "p_put"}

InHand == {hand[t] : t \in Threads} \ {Null}

\* A thread has a request in its hand exactly where its code uses one.
HandsMatch == \A t \in Threads : hand[t] # Null <=> pc[t] \in Holding

\* Whatever the threads pass on was created by createRequest.
AllCreated ==
    \A r \in InHand \cup Range(queue) \cup Range(prefetch) \cup freed :
        filename[r] # Null

\* No request is in two places, or twice in one.
OnePlace ==
    /\ \A t, u \in Threads : hand[t] = hand[u] /\ hand[t] # Null => t = u
    /\ IsInjective(queue) /\ IsInjective(prefetch)
    /\ InHand \cap Range(queue) = {} /\ InHand \cap Range(prefetch) = {}
    /\ Range(queue) \cap Range(prefetch) = {}
    /\ freed \cap (InHand \cup Range(queue) \cup Range(prefetch)) = {}

\* A request that was created is in one thread's hand, once in the request queue, once
\* in the prefetch queue, or freed.  So no two threads process, free or relink the same
\* request, and none is used after destroyRequest.  (First-come and cached-first modes:
\* getSmallRequest breaks OnePlace.)
Custody == HandsMatch /\ AllCreated /\ OnePlace

Service == INSTANCE RequestService

\* Every connection is answered at most once and only with the file it asked for.
ImplementsService == Service!Spec
-----------------------------------------------------------------------------
(* Condition variables *)

\* queue_get_cond: while workers sleep, every queued request has a worker coming for it,
\* woken or about to take it, so no request is left behind by a signal that was lost.
NoLostGet ==
    At("wait_get") # {} =>
        Len(queue) <= Cardinality(At("woken_get")) + Cardinality(At("lock_cache"))

\* queue_put_cond: while dispatchers sleep, the queue is full or the places in it are
\* spoken for by dispatchers that were woken.
NoLostPut == At("wait_put") # {} => Len(queue) + Cardinality(At("woken_put")) >= MaxQueue

\* How far the request queue can outgrow qlen: by one request per dispatcher, since a
\* dispatcher that wakes up, signalled or not, does not look at the queue again.  The one
\* that comes next finds it overfull and aborts, by assert(queue_size <= max_queue_size).
QueueBound ==
    Len(queue) + Cardinality(At("wait_put")) + Cardinality(At("woken_put"))
        <= MaxQueue + Cardinality(Dispatchers)

\* How far the prefetch queue can outgrow its limit: by one request per other worker,
\* since prefetch_size is tested without the lock.
PrefetchBound ==
    Len(prefetch) + Cardinality(At("put_prefetch"))
        < MaxPrefetch + Cardinality(Workers)

ThreadStep ==
    \/ \E d \in Dispatchers : Dispatch(d)
    \/ \E w \in Workers : Work(w)
    \/ \E p \in Prefetchers : Prefetch(p)

\* When no thread can go on while the server is serving, no work is left: the locks are
\* free, both queues are empty and every dispatcher is waiting for a connection.  The
\* threads never wait for each other in a circle.
RestsOnlyWhenDone ==
    Running /\ main = "serving" /\ ~ENABLED ThreadStep =>
        /\ queue = <<>> /\ prefetch = <<>> /\ qm = Null /\ cm = Null
        /\ \A d \in Dispatchers : pc[d] \in {"accept", "exited"}
-----------------------------------------------------------------------------
(* The cache as the threads use it *)

\* The entry a worker answers from stays in the cache until it has been sent, whatever
\* the prefetch threads and the other workers put in.
EntryPinned ==
    \A w \in Workers :
        pc[w] = "reply" /\ work[w].err = "none" => work[w].ent \in Range(cache)

\* An entry behind another in its bucket comes from a prefetch thread: a worker only
\* loads a file when its bucket is empty, and nobody fills the bucket meanwhile.
WorkersNeverChain ==
    \A i \in DOMAIN cache : cache[i].chained => cache[i].by \in Prefetchers

\* The log has a line for a request only after the reply, and says the same: an error
\* of the same kind or the size that was sent.
LogFollowsReply ==
    \A r \in Requests :
        /\ Len(log[r]) <= Len(replies[r])
        /\ \A i \in DOMAIN log[r] :
              /\ log[r][i].status = replies[r][i].status
              /\ log[r][i].status = "ok" => log[r][i].size = replies[r][i].size
-----------------------------------------------------------------------------
(* Where the code is right, and what it says and does not do *)

\* Nothing aborts and no null or freed pointer is used.
NoFault == fault = "none"

\* "Condition: Queue has items to get": a worker that leaves the wait has a request.
WorkerGetsRequest == fault # "null_request"

\* A request that has been read is answered, unless the process dies first.
EventuallyAnswered ==
    \A r \in Requests : filename[r] # Null ~> replies[r] # <<>> \/ fault # "none"

\* "Upon all dispatch threads exiting: all worker threads should exit".
ExitsCleanly ==
    (\A d \in Dispatchers : pc[d] = "exited") ~> (main = "returned" \/ fault # "none")

\* "The returned request is freed from the list": answered once, in every mode.
AnsweredOnce == \A r \in Requests : Len(replies[r]) <= 1
=============================================================================
