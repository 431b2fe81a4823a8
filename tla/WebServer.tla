------------------------------ MODULE WebServer ------------------------------
(***************************************************************************)
(* The multi-threaded web server of project5/server.c (project4/server.c   *)
(* but for one assertion): dispatch threads accept connections and queue   *)
(* requests, worker threads take a request and answer it from the cache or *)
(* the disk, prefetch threads load the file they guess comes next, main    *)
(* joins them all.                                                         *)
(*                                                                         *)
(* A step is what a thread does between two points where another thread    *)
(* can get in: a critical section, or an access to shared state without    *)
(* the lock.  log_mutex and prefetch_mutex are only held where the holder  *)
(* cannot block, so their critical sections are single steps; queue_mutex  *)
(* and cache_mutex are variables.  An abort, a null dereference or a use   *)
(* of freed memory sets `fault' and ends the process.                      *)
(***************************************************************************)
EXTENDS EntryCache, FiniteSets

CONSTANTS Dispatchers, Workers, Prefetchers,
          Requests,      \* connections; each carries one request
          Null,
          MaxQueue,      \* max_queue_size
          MaxPrefetch,   \* max_prefetch_size
          Mode,          \* "FCFS", "CRF" or "SFF"
          Guesses,       \* the names guess_next may come up with
          Trees,         \* the web trees the server may be started on
          NoExtension,   \* the names without a dot
          LogAsserts,    \* project4's logRequest: assert(bundle.ent != NULL) first
          Spurious,      \* can pthread_cond_wait wake up without a signal?
          MaxChanges     \* how many times a file may change under the server

Threads == Dispatchers \cup Workers \cup Prefetchers
Absent == -1    \* the size of a file that is not there, as getFileSize has it
Sizes == Nat \cup {Absent}

\* A cache_entry: the request and thread that made it stand for its address.
Entry == [req : Requests, by : Threads, name : Files, len : Nat, size : Sizes,
          chained : BOOLEAN]

ASSUME ServerAssumption ==
    /\ IsFiniteSet(Dispatchers) /\ IsFiniteSet(Workers) /\ IsFiniteSet(Prefetchers)
    /\ Workers # {}
    /\ Dispatchers \cap Workers = {}
    /\ Dispatchers \cap Prefetchers = {}
    /\ Workers \cap Prefetchers = {}
    /\ Null \notin Threads \cup Requests \cup Files \cup Entry
    /\ MaxQueue \in Nat \ {0} /\ MaxPrefetch \in Nat \ {0}
    /\ Mode \in {"FCFS", "CRF", "SFF"}
    /\ Guesses \subseteq Files /\ NoExtension \subseteq Files
    /\ Trees \subseteq [Files -> Sizes]
    /\ LogAsserts \in BOOLEAN /\ Spurious \in BOOLEAN /\ MaxChanges \in Nat

VARIABLES
    pc,        \* where each thread is
    hand,      \* the request a thread has taken and not passed on
    queue, prefetch, cache,
    qm, cm,    \* the holders of queue_mutex and cache_mutex
    work,      \* a worker's bundle.ent and its locals in process_request
    guess,     \* a prefetch thread's guessed_filename, data and filesize
    draining,  \* the workers that have left their main loop
    filename,  \* the name each request asks for, Null until it is created
    refused,   \* connections whose get_request failed
    replies,   \* what was sent on each connection
    log,       \* the lines of the log file about each request
    freed,     \* requests handed to destroyRequest
    main,      \* where main is; global_exit is set once it stops serving
    disk, changes, fault

threadVars == <<pc, hand, draining, main>>
fileVars == <<disk, changes>>
clientVars == <<filename, refused>>
sentVars == <<replies, log>>
vars == <<pc, hand, queue, prefetch, cache, qm, cm, work, guess, draining, filename,
          refused, replies, log, freed, main, disk, changes, fault>>

globalExit == main # "serving"
Running == fault = "none"
Fresh(r) == filename[r] = Null /\ r \notin refused

NoWork == [ent |-> Null, hit |-> FALSE, err |-> "none", len |-> 0]
NoGuess == [name |-> Null, len |-> 0, size |-> 0]

Init ==
    /\ pc = [t \in Threads |-> IF t \in Dispatchers THEN "accept"
                               ELSE IF t \in Workers THEN "check" ELSE "p_check"]
    /\ hand = [t \in Threads |-> Null]
    /\ queue = <<>> /\ prefetch = <<>> /\ cache = <<>>
    /\ qm = Null /\ cm = Null
    /\ work = [w \in Workers |-> NoWork]
    /\ guess = [p \in Prefetchers |-> NoGuess]
    /\ draining = {}
    /\ filename = [r \in Requests |-> Null]
    /\ refused = {} /\ freed = {}
    /\ replies = [r \in Requests |-> <<>>]
    /\ log = [r \in Requests |-> <<>>]
    /\ main = "serving"
    /\ disk \in Trees /\ changes = 0
    /\ fault = "none"
-----------------------------------------------------------------------------
(* pthread_cond_wait and pthread_cond_signal *)

At(l) == {t \in Threads : pc[t] = l}

\* The condition variables, by the place their waiters wait at.
WokenAt == [wait_put |-> "woken_put", wait_get |-> "woken_get", p_wait |-> "p_woken"]

\* Mutants: the signal is forgotten; it goes to the other side's condition variable.
SignalNobody(l) == {{}}
SignalOtherSide(l) ==
    LET waiting == At(CASE l = "wait_put" -> "wait_get" [] l = "wait_get" -> "wait_put"
                        [] OTHER -> l)
    IN  IF waiting = {} THEN {{}} ELSE {{t} : t \in waiting}

\* Whom a signal may wake: one waiter, or nobody if none waits.
Signal(l) == IF At(l) = {} THEN {{}} ELSE {{t} : t \in At(l)}

\* Thread t goes on to l, and the threads in S wake up.
GoWaking(t, l, S) ==
    pc' = [u \in Threads |-> IF u = t THEN l
                             ELSE IF u \in S THEN WokenAt[pc[u]] ELSE pc[u]]

Go(t, l) == pc' = [pc EXCEPT ![t] = l]

\* The process ends where it is.
Fault(kind) ==
    /\ fault' = kind
    /\ UNCHANGED <<pc, hand, queue, prefetch, cache, qm, cm, work, guess, draining,
                   filename, refused, replies, log, freed, main, disk, changes>>

SpuriousWakeup(t) ==
    /\ Running /\ Spurious
    /\ pc[t] \in DOMAIN WokenAt
    /\ Go(t, WokenAt[pc[t]])
    /\ UNCHANGED <<hand, queue, prefetch, cache, qm, cm, work, guess, draining,
                   clientVars, sentVars, freed, main, fileVars, fault>>
-----------------------------------------------------------------------------
(* dispatch_thread *)

\* accept_connection and get_request succeed, createRequest allocates.
Accept(d, r, f) ==
    /\ Running /\ pc[d] = "accept" /\ Fresh(r)
    /\ filename' = [filename EXCEPT ![r] = f]
    /\ hand' = [hand EXCEPT ![d] = r]
    /\ Go(d, "enqueue")
    /\ UNCHANGED <<queue, prefetch, cache, qm, cm, work, guess, draining, refused,
                   sentVars, freed, main, fileVars, fault>>

\* get_request fails: the connection is dropped and the loop goes round.
Refuse(d, r) ==
    /\ Running /\ pc[d] = "accept" /\ Fresh(r)
    /\ refused' = refused \cup {r}
    /\ UNCHANGED <<threadVars, queue, prefetch, cache, qm, cm, work, guess, filename,
                   sentVars, freed, fileVars, fault>>

\* accept_connection returns a negative number: the thread ends.
AcceptFails(d) ==
    /\ Running /\ pc[d] = "accept"
    /\ Go(d, "exited")
    /\ UNCHANGED <<hand, queue, prefetch, cache, qm, cm, work, guess, draining,
                   clientVars, sentVars, freed, main, fileVars, fault>>

\* queue_putRequest and the signal, to the end of the critical section.
PutRequest(d) ==
    /\ queue' = Append(queue, hand[d])
    /\ hand' = [hand EXCEPT ![d] = Null]
    /\ \E S \in Signal("wait_get") : GoWaking(d, "accept", S)
    /\ UNCHANGED <<prefetch, cache, qm, cm, work, guess, draining, clientVars,
                   sentVars, freed, main, fileVars, fault>>

\* Mutant: nobody waits for room.
EnqueueAnyway(d) == Running /\ pc[d] = "enqueue" /\ qm = Null /\ PutRequest(d)

Enqueue(d) ==
    /\ Running /\ pc[d] = "enqueue" /\ qm = Null
    /\ \/ Len(queue) > MaxQueue /\ Fault("queue_assert")
       \/ /\ Len(queue) = MaxQueue
          /\ Go(d, "wait_put")
          /\ UNCHANGED <<hand, queue, prefetch, cache, qm, cm, work, guess, draining,
                         clientVars, sentVars, freed, main, fileVars, fault>>
       \/ Len(queue) < MaxQueue /\ PutRequest(d)

\* Back from pthread_cond_wait: the condition is not looked at again.
EnqueueWoken(d) == Running /\ pc[d] = "woken_put" /\ qm = Null /\ PutRequest(d)
-----------------------------------------------------------------------------
(* worker_thread *)

WorkerCheck(w) ==
    /\ Running /\ pc[w] = "check"
    /\ draining' = IF globalExit THEN draining \cup {w} ELSE draining
    /\ Go(w, IF globalExit THEN "drain_check" ELSE "lock_queue")
    /\ UNCHANGED <<hand, queue, prefetch, cache, qm, cm, work, guess, clientVars,
                   sentVars, freed, main, fileVars, fault>>

\* Mutants: the worker does not wait; it waits without giving up the queue.
LockQueueAnyway(w) ==
    /\ Running /\ pc[w] = "lock_queue" /\ qm = Null
    /\ Go(w, "lock_cache") /\ qm' = w
    /\ UNCHANGED <<hand, queue, prefetch, cache, cm, work, guess, draining,
                   clientVars, sentVars, freed, main, fileVars, fault>>
LockQueueAsleep(w) ==
    /\ Running /\ pc[w] = "lock_queue" /\ qm = Null
    /\ Go(w, IF queue = <<>> THEN "wait_get" ELSE "lock_cache") /\ qm' = w
    /\ UNCHANGED <<hand, queue, prefetch, cache, cm, work, guess, draining,
                   clientVars, sentVars, freed, main, fileVars, fault>>

LockQueue(w) ==
    /\ Running /\ pc[w] = "lock_queue" /\ qm = Null
    /\ IF queue = <<>> THEN Go(w, "wait_get") /\ qm' = qm
                       ELSE Go(w, "lock_cache") /\ qm' = w
    /\ UNCHANGED <<hand, queue, prefetch, cache, cm, work, guess, draining,
                   clientVars, sentVars, freed, main, fileVars, fault>>

\* Back from pthread_cond_wait, or past the drain loop's unlocked test of queue_size.
LockQueueUnchecked(w) ==
    /\ Running /\ pc[w] \in {"woken_get", "drain_lock"} /\ qm = Null
    /\ Go(w, "lock_cache") /\ qm' = w
    /\ UNCHANGED <<hand, queue, prefetch, cache, cm, work, guess, draining,
                   clientVars, sentVars, freed, main, fileVars, fault>>

FileSize(i) == disk[filename[queue[i]]]
Cached(i) == Search(cache, filename[queue[i]]) # 0

\* Which request *getRequest picks: the first, the first with a cache entry if
\* there is one, or the first of the smallest.
PickedAt ==
    LET all == DOMAIN queue
        cached == {i \in all : Cached(i)}
        smallest == {i \in all : \A j \in all : FileSize(i) <= FileSize(j)}
    IN  CASE Mode = "FCFS" -> 1
          [] Mode = "CRF"  -> IF cached = {} THEN 1 ELSE Min(cached)
          [] Mode = "SFF"  -> Min(smallest)

\* Mutants: the request stays linked in every mode; the first one is unlinked.
QueueKept(i) == queue
QueueWithoutFirst(i) == IF Mode = "SFF" THEN queue ELSE Tail(queue)

\* queue_getRequest and getCachedRequest unlink the request they return,
\* queue_getSmallRequest does not.
QueueAfter(i) == IF Mode = "SFF" THEN queue ELSE RemoveAt(queue, i)

\* Mutants: the cache is not searched; any entry will do.
LookedNowhere(fn) == NoWork
LookedAtOldest(fn) ==
    IF cache = <<>> THEN NoWork
    ELSE [NoWork EXCEPT !.ent = cache[1], !.hit = TRUE, !.len = cache[1].len]

\* cache_search on the picked request, by every *getRequest.
Looked(fn) ==
    LET at == Search(cache, fn)
    IN  IF at = 0 THEN NoWork
        ELSE [NoWork EXCEPT !.ent = cache[at], !.hit = TRUE, !.len = cache[at].len]

\* With both locks: (*getRequest)(), the signal (main loop only), unlock the queue.
\* An empty queue gives a null request, which the next statement dereferences.
TakeRequest(w) ==
    /\ Running /\ pc[w] = "lock_cache" /\ cm = Null
    /\ \/ queue = <<>> /\ Fault("null_request")
       \/ /\ queue # <<>>
          /\ hand' = [hand EXCEPT ![w] = queue[PickedAt]]
          /\ work' = [work EXCEPT ![w] = Looked(filename[queue[PickedAt]])]
          /\ queue' = QueueAfter(PickedAt)
          /\ qm' = Null /\ cm' = w
          /\ IF w \in draining THEN Go(w, "read")
             ELSE \E S \in Signal("wait_put") : GoWaking(w, "read", S)
          /\ UNCHANGED <<prefetch, cache, guess, draining, clientVars, sentVars,
                         freed, main, fileVars, fault>>

\* process_request up to getFile.
ReadFile(w) ==
    LET size == disk[filename[hand[w]]]
    IN  /\ Running /\ pc[w] = "read"
        /\ \/ /\ work[w].hit
              /\ Go(w, "reply") /\ work' = work /\ fault' = fault
           \/ /\ ~work[w].hit /\ size = Absent
              /\ work' = [work EXCEPT ![w].err = "read"]
              /\ Go(w, "reply") /\ fault' = fault
           \/ /\ ~work[w].hit /\ size = 0    \* fread of no bytes returns 0
              /\ fault' = "fread_assert" /\ UNCHANGED <<pc, work>>
           \/ /\ ~work[w].hit /\ size > 0
              /\ work' = [work EXCEPT ![w].len = size]
              /\ Go(w, "stat") /\ fault' = fault
        /\ UNCHANGED <<hand, queue, prefetch, cache, qm, cm, guess, draining,
                       clientVars, sentVars, freed, main, fileVars>>

NewEntry(t, fn, n, size) ==
    [req |-> hand[t], by |-> t, name |-> fn, len |-> n, size |-> size, chained |-> FALSE]

\* getFileSize, then createCacheEntry and cache_putEntry.
StatFile(w) ==
    LET fn == filename[hand[w]]
        e == NewEntry(w, fn, work[w].len, disk[fn])
    IN  /\ Running /\ pc[w] = "stat"
        /\ \/ /\ disk[fn] = Absent
              /\ work' = [work EXCEPT ![w].err = "size"]
              /\ Go(w, "reply") /\ UNCHANGED <<cache, fault>>
           \/ /\ disk[fn] # Absent /\ EvictsChained(cache)
              /\ fault' = "use_after_free" /\ UNCHANGED <<pc, work, cache>>
           \/ /\ disk[fn] # Absent /\ ~EvictsChained(cache)
              /\ cache' = PutEntry(cache, e)
              /\ work' = [work EXCEPT ![w].ent = Linked(cache, e)]
              /\ Go(w, "reply") /\ fault' = fault
        /\ UNCHANGED <<hand, queue, prefetch, qm, cm, guess, draining, clientVars,
                       sentVars, freed, main, fileVars>>

\* What process_request sends: the bundle's data under the bundle's size, or an error.
ReplyOf(w) ==
    IF work[w].err # "none" THEN [status |-> work[w].err]
    ELSE [status |-> "ok", name |-> work[w].ent.name, len |-> work[w].len,
          size |-> work[w].ent.size]

\* Mutant: the size is asked for again.
LineOfDisk(w) ==
    IF work[w].err # "none" THEN [status |-> work[w].err, hit |-> work[w].hit]
    ELSE [status |-> "ok", hit |-> work[w].hit, size |-> disk[filename[hand[w]]]]

\* What logRequest writes: the size in the entry, or the error.
LineOf(w) ==
    IF work[w].err # "none" THEN [status |-> work[w].err, hit |-> work[w].hit]
    ELSE [status |-> "ok", hit |-> work[w].hit, size |-> work[w].ent.size]

\* getFileContentType steps past a null pointer on a name without a dot.
ReplyFaults(w) == work[w].err = "none" /\ filename[hand[w]] \in NoExtension
LogFaults(w) == LogAsserts /\ work[w].ent = Null

\* return_result or return_error, then the log and the cache unlock: in the main
\* loop the log is written first, in the drain loop after the unlock (DrainLog).
Reply(w) ==
    LET r == hand[w]
    IN  /\ Running /\ pc[w] = "reply"
        /\ \/ /\ ReplyFaults(w)
              /\ fault' = "null_extension" /\ UNCHANGED <<pc, cm, work, replies, log>>
           \/ /\ ~ReplyFaults(w)
              /\ replies' = [replies EXCEPT ![r] = Append(@, ReplyOf(w))]
              /\ \/ /\ w \in draining
                    /\ cm' = Null /\ Go(w, "drain_log") /\ UNCHANGED <<work, log, fault>>
                 \/ /\ w \notin draining /\ LogFaults(w)
                    /\ fault' = "log_assert" /\ UNCHANGED <<pc, cm, work, log>>
                 \/ /\ w \notin draining /\ ~LogFaults(w)
                    /\ log' = [log EXCEPT ![r] = Append(@, LineOf(w))]
                    /\ work' = [work EXCEPT ![w] = NoWork]    \* dead from here
                    /\ cm' = Null /\ Go(w, "offer") /\ fault' = fault
        /\ UNCHANGED <<hand, queue, prefetch, cache, qm, guess, draining,
                       clientVars, freed, main, fileVars>>

\* A request that is still linked in the queue (SFF): relinking or freeing it
\* leaves the queue with foreign or dangling pointers.
StillQueued(r) == r \in Range(queue)

\* Mutant: the pointer is cleared before it is freed.
DestroyCleared(t, l) ==
    /\ hand' = [hand EXCEPT ![t] = Null]
    /\ freed' = freed \cup {hand'[t]}
    /\ Go(t, l)

Destroy(t, l) ==
    /\ freed' = freed \cup {hand[t]}
    /\ hand' = [hand EXCEPT ![t] = Null]
    /\ Go(t, l)

\* Mutant: prefetch_size is not tested.
OfferAlways(w) ==
    /\ Running /\ pc[w] = "offer"
    /\ Go(w, "put_prefetch")
    /\ UNCHANGED <<hand, queue, prefetch, cache, qm, cm, work, guess, draining,
                   clientVars, sentVars, freed, main, fileVars, fault>>

\* The unlocked test of prefetch_size, and destroyRequest if there is no room.
Offer(w) ==
    /\ Running /\ pc[w] = "offer"
    /\ \/ /\ Len(prefetch) < MaxPrefetch
          /\ Go(w, "put_prefetch") /\ UNCHANGED <<hand, freed, fault>>
       \/ /\ Len(prefetch) >= MaxPrefetch /\ StillQueued(hand[w])
          /\ fault' = "list_corrupt" /\ UNCHANGED <<pc, hand, freed>>
       \/ /\ Len(prefetch) >= MaxPrefetch /\ ~StillQueued(hand[w])
          /\ Destroy(w, "check") /\ fault' = fault
    /\ UNCHANGED <<queue, prefetch, cache, qm, cm, work, guess, draining, clientVars,
                   sentVars, main, fileVars>>

\* prefetch_putRequest and the signal, with prefetch_mutex.
PutPrefetch(w) ==
    /\ Running /\ pc[w] = "put_prefetch"
    /\ \/ StillQueued(hand[w]) /\ Fault("list_corrupt")
       \/ /\ ~StillQueued(hand[w])
          /\ prefetch' = Append(prefetch, hand[w])
          /\ hand' = [hand EXCEPT ![w] = Null]
          /\ \E S \in Signal("p_wait") : GoWaking(w, "check", S)
          /\ UNCHANGED <<queue, cache, qm, cm, work, guess, draining, clientVars,
                         sentVars, freed, main, fileVars, fault>>

\* while (queue_size > 0), without the lock.
DrainCheck(w) ==
    /\ Running /\ pc[w] = "drain_check"
    /\ Go(w, IF queue = <<>> THEN "exited" ELSE "drain_lock")
    /\ UNCHANGED <<hand, queue, prefetch, cache, qm, cm, work, guess, draining,
                   clientVars, sentVars, freed, main, fileVars, fault>>

\* logRequest after the cache was unlocked: bundle.ent may have been evicted.
DrainLog(w) ==
    /\ Running /\ pc[w] = "drain_log"
    /\ \/ LogFaults(w) /\ Fault("log_assert")
       \/ /\ ~LogFaults(w) /\ work[w].err = "none"
          /\ work[w].ent \notin Range(cache)
          /\ Fault("use_after_free")
       \/ /\ ~LogFaults(w) /\ (work[w].err # "none" \/ work[w].ent \in Range(cache))
          /\ log' = [log EXCEPT ![hand[w]] = Append(@, LineOf(w))]
          /\ work' = [work EXCEPT ![w] = NoWork]
          /\ IF StillQueued(hand[w])
             THEN fault' = "list_corrupt" /\ UNCHANGED <<pc, hand, freed>>
             ELSE Destroy(w, "drain_check") /\ fault' = fault
          /\ UNCHANGED <<queue, prefetch, cache, qm, cm, guess, draining,
                         clientVars, replies, main, fileVars>>
-----------------------------------------------------------------------------
(* prefetch_thread *)

PrefetchCheck(p) ==
    /\ Running /\ pc[p] = "p_check"
    /\ Go(p, IF globalExit THEN "exited" ELSE "p_lock")
    /\ UNCHANGED <<hand, queue, prefetch, cache, qm, cm, work, guess, draining,
                   clientVars, sentVars, freed, main, fileVars, fault>>

\* prefetch_getRequest, to the end of the critical section.
TakePrefetch(p) ==
    /\ hand' = [hand EXCEPT ![p] = Head(prefetch)]
    /\ prefetch' = Tail(prefetch)
    /\ Go(p, "p_guess")
    /\ UNCHANGED <<queue, cache, qm, cm, work, guess, draining, clientVars, sentVars,
                   freed, main, fileVars, fault>>

PrefetchLock(p) ==
    /\ Running /\ pc[p] = "p_lock"
    /\ \/ /\ prefetch = <<>> /\ Go(p, "p_wait")
          /\ UNCHANGED <<hand, queue, prefetch, cache, qm, cm, work, guess, draining,
                         clientVars, sentVars, freed, main, fileVars, fault>>
       \/ prefetch # <<>> /\ TakePrefetch(p)

\* Back from pthread_cond_wait: the condition is not looked at again.
PrefetchWoken(p) ==
    /\ Running /\ pc[p] = "p_woken"
    /\ \/ prefetch = <<>> /\ Fault("prefetch_assert")
       \/ prefetch # <<>> /\ TakePrefetch(p)

\* guess_next finds no successor.
GuessFails(p) ==
    /\ Running /\ pc[p] = "p_guess"
    /\ Destroy(p, "p_check")
    /\ UNCHANGED <<queue, prefetch, cache, qm, cm, work, guess, draining, clientVars,
                   sentVars, main, fileVars, fault>>

\* guess_next answers g; getFile, without any lock.
GuessFile(p, g) ==
    /\ Running /\ pc[p] = "p_guess"
    /\ \/ disk[g] = 0 /\ Fault("fread_assert")
       \/ /\ disk[g] # 0
          /\ guess' = [guess EXCEPT ![p] = [name |-> g, len |-> disk[g], size |-> 0]]
          /\ Go(p, "p_stat")
          /\ UNCHANGED <<hand, queue, prefetch, cache, qm, cm, work, draining,
                         clientVars, sentVars, freed, main, fileVars, fault>>

StatGuess(p) ==
    /\ Running /\ pc[p] = "p_stat"
    /\ guess' = [guess EXCEPT ![p].size = disk[guess[p].name]]
    /\ Go(p, "p_put")
    /\ UNCHANGED <<hand, queue, prefetch, cache, qm, cm, work, draining, clientVars,
                   sentVars, freed, main, fileVars, fault>>

\* createCacheEntry asserts that there is data; cache_putEntry does not look for an
\* entry of the same name; destroyRequest.
StoreGuess(p) ==
    LET g == guess[p]
    IN  \/ g.len = Absent /\ Fault("entry_assert")
        \/ g.len # Absent /\ EvictsChained(cache) /\ Fault("use_after_free")
        \/ /\ g.len # Absent /\ ~EvictsChained(cache)
           /\ cache' = PutEntry(cache, NewEntry(p, g.name, g.len, g.size))
           /\ guess' = [guess EXCEPT ![p] = NoGuess]
           /\ Destroy(p, "p_check")
           /\ UNCHANGED <<queue, prefetch, qm, cm, work, draining, clientVars,
                          sentVars, main, fileVars, fault>>

\* Mutant: without cache_mutex.
PutGuessUnlocked(p) == Running /\ pc[p] = "p_put" /\ StoreGuess(p)

PutGuess(p) == Running /\ pc[p] = "p_put" /\ cm = Null /\ StoreGuess(p)
-----------------------------------------------------------------------------
(* main, and the world outside *)

\* All dispatch threads are joined: global_exit = 1, and nobody is signalled.
JoinDispatchers ==
    /\ Running /\ main = "serving"
    /\ \A d \in Dispatchers : pc[d] = "exited"
    /\ main' = "exiting"
    /\ UNCHANGED <<pc, hand, queue, prefetch, cache, qm, cm, work, guess, draining,
                   clientVars, sentVars, freed, fileVars, fault>>

Return ==
    /\ Running /\ main = "exiting"
    /\ \A t \in Workers \cup Prefetchers : pc[t] = "exited"
    /\ main' = "returned"
    /\ UNCHANGED <<pc, hand, queue, prefetch, cache, qm, cm, work, guess, draining,
                   clientVars, sentVars, freed, fileVars, fault>>

\* Someone rewrites, creates or removes a file of the web tree.
ChangeFile(f) ==
    /\ Running /\ changes < MaxChanges
    /\ \E t \in Trees : t[f] # disk[f] /\ disk' = [disk EXCEPT ![f] = t[f]]
    /\ changes' = changes + 1
    /\ UNCHANGED <<threadVars, queue, prefetch, cache, qm, cm, work, guess,
                   clientVars, sentVars, freed, fault>>

Dispatch(d) == Enqueue(d) \/ EnqueueWoken(d)

Work(w) ==
    \/ WorkerCheck(w) \/ LockQueue(w) \/ LockQueueUnchecked(w) \/ TakeRequest(w)
    \/ ReadFile(w) \/ StatFile(w) \/ Reply(w) \/ Offer(w) \/ PutPrefetch(w)
    \/ DrainCheck(w) \/ DrainLog(w)

Prefetch(p) ==
    \/ PrefetchCheck(p) \/ PrefetchLock(p) \/ PrefetchWoken(p)
    \/ GuessFails(p) \/ (\E g \in Guesses : GuessFile(p, g))
    \/ StatGuess(p) \/ PutGuess(p)

Outside ==
    \/ \E d \in Dispatchers : AcceptFails(d)
    \/ \E d \in Dispatchers, r \in Requests : Refuse(d, r)
    \/ \E d \in Dispatchers, r \in Requests, f \in Files : Accept(d, r, f)
    \/ \E f \in Files : ChangeFile(f)
    \/ \E t \in Threads : SpuriousWakeup(t)

Next ==
    \/ Outside
    \/ \E d \in Dispatchers : Dispatch(d)
    \/ \E w \in Workers : Work(w)
    \/ \E p \in Prefetchers : Prefetch(p)
    \/ JoinDispatchers \/ Return

Spec == Init /\ [][Next]_vars

\* The scheduler runs every thread that can go on; clients and files owe nothing.
Fairness ==
    /\ \A d \in Dispatchers : WF_vars(Dispatch(d))
    /\ \A w \in Workers : WF_vars(Work(w))
    /\ \A p \in Prefetchers : WF_vars(Prefetch(p))
    /\ WF_vars(JoinDispatchers) /\ WF_vars(Return)

FairSpec == Spec /\ Fairness
=============================================================================
