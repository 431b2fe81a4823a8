---------------------------- MODULE CustodyProofs ----------------------------
(***************************************************************************)
(* Proofs about what the threads of WebServer hand to each other: no       *)
(* request is shared or lost, no cache entry goes while a worker answers   *)
(* from it, nobody is answered twice or with another file, and the log     *)
(* says what was sent.  And with one thread of each kind nothing faults.   *)
(***************************************************************************)
EXTENDS WebServerProofs

Takes(t, r) == /\ hand[t] = Null /\ hand' = [hand EXCEPT ![t] = r]
               /\ freed' = freed

Gives(t) == hand[t] # Null /\ hand' = [hand EXCEPT ![t] = Null]

\* All the ways in which requests change hands.
RequestMoves ==
    \/ UNCHANGED <<hand, queue, prefetch, freed>>
    \/ \E t \in Threads :
         \/ \E r \in Requests :
               filename[r] = Null /\ Takes(t, r) /\ UNCHANGED <<queue, prefetch>>
         \/ \E i \in 1 .. Len(queue) :
               Takes(t, queue[i]) /\ queue' = RemoveAt(queue, i) /\ prefetch' = prefetch
         \/ \E i \in 1 .. Len(prefetch) :
               Takes(t, prefetch[i]) /\ prefetch' = RemoveAt(prefetch, i) /\ queue' = queue
         \/ Gives(t) /\ queue' = Append(queue, hand[t]) /\ UNCHANGED <<prefetch, freed>>
         \/ Gives(t) /\ prefetch' = Append(prefetch, hand[t]) /\ UNCHANGED <<queue, freed>>
         \/ Gives(t) /\ freed' = freed \cup {hand[t]} /\ UNCHANGED <<queue, prefetch>>

\* In a mode that unlinks the request it picks, these are all the moves there are.
LEMMA NextMovesRequests ==
    ASSUME TypeInv, [Next]_vars, Mode # "SFF"
    PROVE  RequestMoves
<1> USE DEF RequestMoves
<1>1. CASE UNCHANGED vars
  BY <1>1 DEF vars
<1>2. ASSUME NEW kind, Fault(kind) PROVE RequestMoves
  BY <1>2 DEF Fault
<1>3. /\ \A t \in Threads : hand[t] # Null <=> pc[t] \in Holding
      /\ queue \in Seq(Requests) /\ prefetch \in Seq(Requests)
  BY DEF TypeInv, HandsMatch, TypeOK, DataTypes
<1>4. ASSUME NEW d \in Dispatchers, NEW r \in Requests, NEW f \in Files, Accept(d, r, f)
      PROVE  RequestMoves
  BY <1>3, <1>4, Kinds DEF Accept, Takes, Fresh, Holding
<1>5. ASSUME NEW d \in Dispatchers, Dispatch(d) PROVE RequestMoves
  <2>1. ASSUME pc[d] \in {"enqueue", "woken_put"}, PutRequest(d) PROVE RequestMoves
    <3>1. Gives(d) /\ queue' = Append(queue, hand[d]) /\ UNCHANGED <<prefetch, freed>>
      BY <1>3, <2>1, Kinds DEF PutRequest, Gives, Holding
    <3> QED  BY <3>1, Kinds
  <2> QED  BY <1>2, <1>5, <2>1 DEF Dispatch, Enqueue, EnqueueWoken
<1>6. ASSUME NEW w \in Workers, TakeRequest(w) PROVE RequestMoves
  <2>1. CASE queue # <<>> /\ ~ Fault("null_request")
    <3>1. /\ hand' = [hand EXCEPT ![w] = queue[PickedAt]] /\ freed' = freed
          /\ queue' = QueueAfter(PickedAt) /\ prefetch' = prefetch
          /\ pc[w] = "lock_cache" /\ w \in Threads
      BY <1>6, <2>1, Kinds DEF TakeRequest
    <3>2. PickedAt \in 1 .. Len(queue)
      BY <2>1, PickedIsQueued DEF TypeInv
    <3>3. Takes(w, queue[PickedAt]) /\ queue' = RemoveAt(queue, PickedAt)
      BY <1>3, <3>1 DEF Takes, QueueAfter, Holding
    <3> QED  BY <3>1, <3>2, <3>3
  <2> QED  BY <1>2, <1>6, <2>1 DEF TakeRequest
<1>7. ASSUME NEW w \in Workers, Offer(w) \/ PutPrefetch(w) \/ DrainLog(w)
      PROVE  RequestMoves
  <2>1. hand[w] # Null /\ w \in Threads
    BY <1>3, <1>7, Kinds DEF Offer, PutPrefetch, DrainLog, Holding
  <2>2. CASE Offer(w)
    BY <2>1, <2>2 DEF Offer, Destroy, Gives
  <2>3. CASE PutPrefetch(w)
    BY <1>2, <2>1, <2>3 DEF PutPrefetch, Gives
  <2>4. CASE DrainLog(w)
    BY <1>2, <2>1, <2>4 DEF DrainLog, Destroy, Gives
  <2> QED  BY <1>7, <2>2, <2>3, <2>4
<1>8. ASSUME NEW w \in Workers, Work(w), ~ TakeRequest(w),
             ~ (Offer(w) \/ PutPrefetch(w) \/ DrainLog(w))
      PROVE  RequestMoves
  BY <1>8 DEF Work, WorkerCheck, LockQueue, LockQueueUnchecked, ReadFile, StatFile, Reply,
              DrainCheck
<1>9. ASSUME NEW p \in Prefetchers, Prefetch(p) PROVE RequestMoves
  <2>1. ASSUME pc[p] \in {"p_lock", "p_woken"}, prefetch # <<>>, TakePrefetch(p)
        PROVE  RequestMoves
    <3>1. /\ Head(prefetch) = prefetch[1] /\ Tail(prefetch) = RemoveAt(prefetch, 1)
          /\ 1 \in 1 .. Len(prefetch) /\ p \in Threads
      BY <1>3, <2>1, TailIsRemoveAt, Kinds
    <3>2. /\ Takes(p, prefetch[1]) /\ prefetch' = RemoveAt(prefetch, 1) /\ queue' = queue
      BY <1>3, <2>1, <3>1 DEF TakePrefetch, Takes, Holding
    <3> QED  BY <3>1, <3>2
  <2>2. ASSUME pc[p] \in {"p_guess", "p_put"}, Destroy(p, "p_check"),
               UNCHANGED <<queue, prefetch>>
        PROVE  RequestMoves
    BY <1>3, <2>2, Kinds DEF Destroy, Gives, Holding
  <2>3. CASE PrefetchLock(p) \/ PrefetchWoken(p)
    BY <1>2, <2>1, <2>3 DEF PrefetchLock, PrefetchWoken
  <2>4. CASE GuessFails(p) \/ PutGuess(p)
    BY <1>2, <2>2, <2>4 DEF GuessFails, PutGuess, StoreGuess
  <2>5. CASE PrefetchCheck(p) \/ (\E g \in Guesses : GuessFile(p, g)) \/ StatGuess(p)
    BY <1>2, <2>5 DEF PrefetchCheck, GuessFile, StatGuess
  <2> QED  BY <1>9, <2>3, <2>4, <2>5 DEF Prefetch
<1>10. CASE JoinDispatchers \/ Return
  BY <1>10 DEF JoinDispatchers, Return
<1>11. CASE Outside
  BY <1>4, <1>11 DEF Outside, AcceptFails, Refuse, ChangeFile, SpuriousWakeup, threadVars
<1> QED  BY <1>1, <1>4, <1>5, <1>6, <1>7, <1>8, <1>9, <1>10, <1>11 DEF Next

\* A thread that takes something nobody else has.
LEMMA TakingKeepsOnePlace ==
    ASSUME TypeInv, OnePlace, NEW t \in Threads, NEW r \in Requests, Takes(t, r),
           IsInjective(queue'), IsInjective(prefetch'),
           Range(queue') \subseteq Range(queue), Range(prefetch') \subseteq Range(prefetch),
           r \notin InHand \cup Range(queue') \cup Range(prefetch') \cup freed
    PROVE  OnePlace'
<1>1. hand \in [Threads -> Requests \cup {Null}] /\ r # Null
  BY Kinds DEF TypeInv, TypeOK, ThreadTypes
<1>2. \A u \in Threads : hand'[u] = IF u = t THEN r ELSE hand[u]
  BY <1>1 DEF Takes
<1>3. \A u \in Threads : hand[u] # r
  BY <1>1 DEF InHand
<1>4. \A u, v \in Threads : hand'[u] = hand'[v] /\ hand'[u] # Null => u = v
  BY <1>2, <1>3 DEF OnePlace
<1>5. InHand' \subseteq InHand \cup {r}
  BY <1>2 DEF InHand
<1> QED  BY <1>4, <1>5 DEF OnePlace, Takes

\* A thread that gives up what it has in its hand, to one place.
LEMMA GivingKeepsOnePlace ==
    ASSUME TypeInv, OnePlace, NEW t \in Threads, Gives(t),
           IsInjective(queue'), IsInjective(prefetch'),
           Range(queue') \subseteq Range(queue) \cup {hand[t]},
           Range(prefetch') \subseteq Range(prefetch) \cup {hand[t]},
           freed' \subseteq freed \cup {hand[t]},
           Range(queue') \cap Range(prefetch') = {},
           freed' \cap (Range(queue') \cup Range(prefetch')) = {}
    PROVE  OnePlace'
<1>1. hand \in [Threads -> Requests \cup {Null}]
  BY DEF TypeInv, TypeOK, ThreadTypes
<1>2. \A u \in Threads : hand'[u] = IF u = t THEN Null ELSE hand[u]
  BY <1>1 DEF Gives
<1>3. \A u, v \in Threads : hand'[u] = hand'[v] /\ hand'[u] # Null => u = v
  BY <1>2 DEF OnePlace
<1>4. InHand' \subseteq InHand \ {hand[t]}
  <2> SUFFICES ASSUME NEW u \in Threads, hand'[u] # Null
               PROVE  hand'[u] \in InHand \ {hand[t]}
    BY DEF InHand
  <2>1. u # t /\ hand'[u] = hand[u]
    BY <1>2
  <2> QED  BY <2>1 DEF InHand, OnePlace
<1>5. hand[t] \in InHand
  BY DEF Gives, InHand
<1> QED  BY <1>3, <1>4, <1>5 DEF OnePlace

\* Whatever way a request changes hands, it stays in one place.
LEMMA OnePlaceNext ==
    ASSUME TypeInv, OnePlace, RequestMoves
    PROVE  OnePlace'
<1>1. /\ queue \in Seq(Requests) /\ prefetch \in Seq(Requests)
      /\ IsInjective(queue) /\ IsInjective(prefetch)
      /\ hand \in [Threads -> Requests \cup {Null}]
  BY DEF TypeInv, TypeOK, ThreadTypes, DataTypes, OnePlace
<1>2. CASE UNCHANGED <<hand, queue, prefetch, freed>>
  BY <1>2 DEF OnePlace, InHand
<1>3. ASSUME NEW t \in Threads, NEW r \in Requests, filename[r] = Null, Takes(t, r),
             UNCHANGED <<queue, prefetch>>
      PROVE  OnePlace'
  <2>1. r \notin InHand \cup Range(queue) \cup Range(prefetch) \cup freed
    BY <1>3 DEF TypeInv, AllCreated
  <2>2. /\ IsInjective(queue') /\ IsInjective(prefetch')
        /\ Range(queue') = Range(queue) /\ Range(prefetch') = Range(prefetch)
    BY <1>1, <1>3
  <2> QED  BY <1>3, <2>1, <2>2, TakingKeepsOnePlace
<1>4. ASSUME NEW t \in Threads, NEW i \in 1 .. Len(queue), Takes(t, queue[i]),
             queue' = RemoveAt(queue, i), prefetch' = prefetch
      PROVE  OnePlace'
  <2> DEFINE r == queue[i]
  <2>1. r \in Requests /\ r \in Range(queue)
    BY <1>1 DEF Range
  <2>2. IsInjective(queue') /\ Range(queue') = Range(queue) \ {r}
    BY <1>1, <1>4, RemoveAtInjective
  <2>3. IsInjective(prefetch') /\ Range(prefetch') = Range(prefetch) /\ Takes(t, r)
    BY <1>1, <1>4
  <2> HIDE DEF r
  <2>4. r \notin InHand \cup Range(queue') \cup Range(prefetch') \cup freed
    BY <2>1, <2>2, <2>3 DEF OnePlace
  <2> QED  BY <2>1, <2>2, <2>3, <2>4, TakingKeepsOnePlace
<1>5. ASSUME NEW t \in Threads, NEW i \in 1 .. Len(prefetch), Takes(t, prefetch[i]),
             prefetch' = RemoveAt(prefetch, i), queue' = queue
      PROVE  OnePlace'
  <2> DEFINE r == prefetch[i]
  <2>1. r \in Requests /\ r \in Range(prefetch)
    BY <1>1 DEF Range
  <2>2. IsInjective(prefetch') /\ Range(prefetch') = Range(prefetch) \ {r}
    BY <1>1, <1>5, RemoveAtInjective
  <2>3. IsInjective(queue') /\ Range(queue') = Range(queue) /\ Takes(t, r)
    BY <1>1, <1>5
  <2> HIDE DEF r
  <2>4. r \notin InHand \cup Range(queue') \cup Range(prefetch') \cup freed
    BY <2>1, <2>2, <2>3 DEF OnePlace
  <2> QED  BY <2>1, <2>2, <2>3, <2>4, TakingKeepsOnePlace
<1>6. ASSUME NEW t \in Threads, Gives(t)
      PROVE  /\ hand[t] \in Requests
             /\ hand[t] \notin Range(queue) \cup Range(prefetch) \cup freed
  BY <1>1, <1>6 DEF Gives, OnePlace, InHand
<1>7. ASSUME NEW t \in Threads, Gives(t), queue' = Append(queue, hand[t]),
             UNCHANGED <<prefetch, freed>>
      PROVE  OnePlace'
  <2>1. IsInjective(queue') /\ Range(queue') = Range(queue) \cup {hand[t]}
    BY <1>1, <1>6, <1>7, AppendKeepsInjective, AppendRange
  <2>2. /\ IsInjective(prefetch') /\ Range(prefetch') = Range(prefetch)
        /\ Range(queue') \cap Range(prefetch') = {}
        /\ freed' \cap (Range(queue') \cup Range(prefetch')) = {}
    BY <1>1, <1>6, <1>7, <2>1 DEF OnePlace
  <2> QED  BY <1>7, <2>1, <2>2, GivingKeepsOnePlace
<1>8. ASSUME NEW t \in Threads, Gives(t), prefetch' = Append(prefetch, hand[t]),
             UNCHANGED <<queue, freed>>
      PROVE  OnePlace'
  <2>1. IsInjective(prefetch') /\ Range(prefetch') = Range(prefetch) \cup {hand[t]}
    BY <1>1, <1>6, <1>8, AppendKeepsInjective, AppendRange
  <2>2. /\ IsInjective(queue') /\ Range(queue') = Range(queue)
        /\ Range(queue') \cap Range(prefetch') = {}
        /\ freed' \cap (Range(queue') \cup Range(prefetch')) = {}
    BY <1>1, <1>6, <1>8, <2>1 DEF OnePlace
  <2> QED  BY <1>8, <2>1, <2>2, GivingKeepsOnePlace
<1>9. ASSUME NEW t \in Threads, Gives(t), freed' = freed \cup {hand[t]},
             UNCHANGED <<queue, prefetch>>
      PROVE  OnePlace'
  <2>1. /\ IsInjective(queue') /\ Range(queue') = Range(queue)
        /\ IsInjective(prefetch') /\ Range(prefetch') = Range(prefetch)
        /\ Range(queue') \cap Range(prefetch') = {}
        /\ freed' \cap (Range(queue') \cup Range(prefetch')) = {}
    BY <1>1, <1>6, <1>9 DEF OnePlace
  <2> QED  BY <1>9, <2>1, GivingKeepsOnePlace
<1> QED  BY <1>2, <1>3, <1>4, <1>5, <1>7, <1>8, <1>9 DEF RequestMoves

\* With requests first come first served or cached first, every request that was created
\* has exactly one owner, however many threads there are and however they interleave:
\* no two threads process, relink or free the same request, and none is used once freed.
THEOREM CustodyHolds == Mode # "SFF" /\ Spec => []Custody
<1>1. Init => OnePlace
  BY Kinds DEF Init, OnePlace, InHand, Range, IsInjective
<1>2. Mode # "SFF" /\ TypeInv /\ OnePlace /\ [Next]_vars => OnePlace'
  BY NextMovesRequests, OnePlaceNext
<1>3. TypeInv /\ OnePlace => Custody
  BY DEF TypeInv, Custody
<1>4. CASE Mode # "SFF"
  <2>1. TypeInv /\ OnePlace /\ [Next]_vars => OnePlace'
    BY <1>2, <1>4
  <2>2. Spec => []Custody
    BY <1>1, <1>3, <2>1, TypeInvAlways, PTL DEF Spec
  <2> QED  BY <2>2
<1> QED  BY <1>4
-----------------------------------------------------------------------------
(* The cache lock *)

\* The program points between TakeRequest and Reply, where a worker has cache_mutex.
InCache == {"read", "stat", "reply"}

BucketEmpty(fn) == \A i \in DOMAIN cache : ~ Collides(cache[i], fn)

\* The entry a worker points to is in the cache, in the bucket of the file asked for.
HasEntry(w) ==
    work[w].ent \in Range(cache) /\ Collides(work[w].ent, filename[hand[w]])

\* What a worker relies on between the search and the reply.
BundleRight(w) ==
    /\ pc[w] \in InCache => cm = w
    /\ pc[w] \in InCache /\ work[w].hit => work[w].err = "none" /\ HasEntry(w)
    /\ pc[w] \in {"read", "stat"} /\ ~ work[w].hit =>
          work[w].err = "none" /\ BucketEmpty(filename[hand[w]])
    /\ pc[w] = "stat" => ~ work[w].hit
    /\ pc[w] = "reply" /\ work[w].err = "none" => HasEntry(w)

CacheInv == WorkersNeverChain /\ \A w \in Workers : BundleRight(w)

\* The steps that leave the cache alone, and every worker that has its lock.
Quiet ==
    /\ UNCHANGED <<cache, cm>>
    /\ \A w \in Workers : pc'[w] \in InCache =>
          /\ pc'[w] = pc[w] /\ hand'[w] = hand[w] /\ work'[w] = work[w]
          /\ filename'[hand[w]] = filename[hand[w]]

\* A step that leaves the cache and its lock alone.
LEMMA QuietKeepsCacheInv ==
    ASSUME CacheInv, Quiet PROVE CacheInv'
<1>1. WorkersNeverChain'
  BY DEF CacheInv, WorkersNeverChain, Quiet
<1>2. ASSUME NEW w \in Workers PROVE BundleRight(w)'
  <2>1. BundleRight(w)
    BY DEF CacheInv
  <2>2. CASE pc'[w] \notin InCache
    BY <2>2 DEF BundleRight, InCache
  <2>3. CASE pc'[w] \in InCache
    <3>1. /\ pc'[w] = pc[w] /\ hand'[w] = hand[w] /\ work'[w] = work[w]
          /\ filename'[hand'[w]] = filename[hand[w]] /\ cache' = cache /\ cm' = cm
      BY <2>3 DEF Quiet
    <3> QED  BY <2>1, <3>1 DEF BundleRight, HasEntry, BucketEmpty
  <2> QED  BY <2>2, <2>3
<1> QED  BY <1>1, <1>2 DEF CacheInv

\* A thread that goes somewhere else disturbs no worker in the cache.
LEMMA MoveIsQuiet ==
    ASSUME TypeInv, NEW t \in Threads, NEW l \in LabelsOf(t), Moves(t, l), l \notin InCache,
           UNCHANGED <<cache, cm>>,
           \A w \in Workers \ {t} : hand'[w] = hand[w] /\ work'[w] = work[w],
           \A r \in Requests : filename[r] # Null => filename'[r] = filename[r]
    PROVE  Quiet
<1> SUFFICES ASSUME NEW w \in Workers, pc'[w] \in InCache
             PROVE  /\ pc'[w] = pc[w] /\ hand'[w] = hand[w] /\ work'[w] = work[w]
                    /\ filename'[hand[w]] = filename[hand[w]]
  BY DEF Quiet
<1>1. w \in Threads
  BY Kinds
<1>2. w # t /\ pc'[w] = pc[w]
  BY <1>1, MovePc DEF TypeInv, InCache
<1>3. hand[w] \in Requests /\ filename[hand[w]] # Null
  BY <1>1, <1>2, HandIsCreated, Kinds DEF InCache, Holding
<1> QED  BY <1>2, <1>3

\* The steps that touch what the cache lock protects.
CacheStep ==
    \/ \E w \in Workers : TakeRequest(w) \/ ReadFile(w) \/ StatFile(w) \/ Reply(w)
    \/ \E p \in Prefetchers : PutGuess(p)

\* There are no other steps.
LEMMA NextQuietOrCacheStep ==
    ASSUME TypeInv, [Next]_vars PROVE Quiet \/ CacheStep
<1>0. ASSUME UNCHANGED <<pc, hand, cache, cm, work, filename>> PROVE Quiet
  BY <1>0 DEF Quiet
<1>1. CASE UNCHANGED vars
  BY <1>0, <1>1 DEF vars
<1>2. ASSUME NEW kind, Fault(kind) PROVE Quiet
  BY <1>0, <1>2 DEF Fault
<1>3. ASSUME NEW t \in Threads, NEW l \in LabelsOf(t), Go(t, l), l \notin InCache,
             UNCHANGED <<cache, cm, filename>>,
             \A w \in Workers \ {t} : hand'[w] = hand[w] /\ work'[w] = work[w]
      PROVE  Quiet
  BY <1>3, GoMoves, MoveIsQuiet DEF TypeInv
<1>4. hand \in [Threads -> Requests \cup {Null}] /\ DOMAIN work = Workers
  BY DEF TypeInv, TypeOK, ThreadTypes, DataTypes
<1>5. ASSUME NEW d \in Dispatchers, NEW r \in Requests, NEW f \in Files, Accept(d, r, f)
      PROVE  Quiet
  <2>1. /\ Moves(d, "enqueue") /\ d \in Threads /\ "enqueue" \in LabelsOf(d)
        /\ d \notin Workers
    BY <1>5, GoMoves, Kinds DEF Accept, TypeInv
  <2>2. \A q \in Requests : filename[q] # Null => filename'[q] = filename[q]
    BY <1>5 DEF Accept, Fresh
  <2>3. /\ UNCHANGED <<cache, cm, work>>
        /\ \A w \in Workers \ {d} : hand'[w] = hand[w]
    BY <1>4, <1>5, Kinds DEF Accept
  <2> QED  BY <2>1, <2>2, <2>3, MoveIsQuiet DEF InCache
<1>6. ASSUME NEW d \in Dispatchers, Dispatch(d) PROVE Quiet
  <2>1. d \in Threads /\ "wait_put" \in LabelsOf(d) /\ "accept" \in LabelsOf(d)
    BY Kinds
  <2>2. ASSUME PutRequest(d) PROVE Quiet
    <3>1. Moves(d, "accept")
      BY <2>1, <2>2, SignalMoves DEF PutRequest
    <3>2. /\ UNCHANGED <<cache, cm, work, filename>>
          /\ \A w \in Workers \ {d} : hand'[w] = hand[w]
      BY <1>4, <2>2, Kinds DEF PutRequest, clientVars
    <3> QED  BY <2>1, <3>1, <3>2, MoveIsQuiet DEF InCache
  <2>3. CASE /\ Go(d, "wait_put")
             /\ UNCHANGED <<hand, queue, prefetch, cache, qm, cm, work, guess, draining,
                            clientVars, sentVars, freed, main, fileVars, fault>>
    BY <1>3, <2>1, <2>3 DEF clientVars, InCache
  <2> QED  BY <1>2, <1>6, <2>2, <2>3 DEF Dispatch, Enqueue, EnqueueWoken
<1>7. ASSUME NEW w \in Workers,
             WorkerCheck(w) \/ LockQueue(w) \/ LockQueueUnchecked(w) \/ DrainCheck(w)
      PROVE  Quiet
  <2>1. PICK l \in {"drain_check", "lock_queue", "wait_get", "lock_cache", "exited",
                    "drain_lock"} : Go(w, l) /\ UNCHANGED <<hand, cache, cm, work, filename>>
    BY <1>7 DEF WorkerCheck, LockQueue, LockQueueUnchecked, DrainCheck, clientVars
  <2> QED  BY <1>3, <2>1, Kinds DEF InCache
<1>8. ASSUME NEW w \in Workers, Offer(w) \/ PutPrefetch(w) \/ DrainLog(w)
      PROVE  Quiet
  <2>1. /\ w \in Threads
        /\ {"check", "put_prefetch", "drain_check"} \subseteq LabelsOf(w) \ InCache
    BY Kinds DEF InCache
  <2>2. /\ UNCHANGED <<cache, cm, filename>>
        /\ \A u \in Workers \ {w} : hand'[u] = hand[u] /\ work'[u] = work[u]
    BY <1>4, <1>8, Kinds DEF Offer, PutPrefetch, DrainLog, Destroy, Fault, clientVars
  <2>3. CASE Offer(w)
    <3>1. \/ pc' = pc /\ UNCHANGED <<hand, work>>
          \/ \E l \in {"check", "put_prefetch"} : Go(w, l)
      BY <2>3 DEF Offer, Destroy
    <3> QED  BY <1>0, <1>3, <2>1, <2>2, <3>1
  <2>4. CASE PutPrefetch(w)
    <3>1. Fault("list_corrupt") \/ Moves(w, "check")
      BY <2>1, <2>4, SignalMoves DEF PutPrefetch
    <3> QED  BY <1>2, <2>1, <2>2, <3>1, MoveIsQuiet
  <2>5. CASE DrainLog(w)
    <3>1. CASE pc' = pc /\ hand' = hand
      BY <2>2, <3>1, <2>5, Kinds DEF Quiet, DrainLog, InCache
    <3>2. CASE Go(w, "drain_check")
      BY <1>3, <2>1, <2>2, <3>2
    <3> QED  BY <2>5, <3>1, <3>2 DEF DrainLog, Destroy, Fault
  <2> QED  BY <1>8, <2>3, <2>4, <2>5
<1>9. ASSUME NEW p \in Prefetchers, Prefetch(p), ~ PutGuess(p) PROVE Quiet
  <2>1. /\ p \in Threads /\ p \notin Workers
        /\ {"exited", "p_lock", "p_wait", "p_guess", "p_check", "p_stat", "p_put"}
              \subseteq LabelsOf(p) \ InCache
    BY Kinds DEF InCache
  <2>2. ASSUME NEW l \in {"exited", "p_lock", "p_wait", "p_guess", "p_check", "p_stat",
                          "p_put"}, Go(p, l), UNCHANGED <<cache, cm, work, filename>>,
               \A w \in Workers : hand'[w] = hand[w]
        PROVE  Quiet
    BY <1>3, <2>1, <2>2
  <2>8. ASSUME NEW h, hand' = [hand EXCEPT ![p] = h]
        PROVE  \A w \in Workers : hand'[w] = hand[w]
    BY <1>4, <2>8, <2>1, Kinds
  <2>3. CASE PrefetchCheck(p) \/ StatGuess(p)
    BY <2>2, <2>3 DEF PrefetchCheck, StatGuess, clientVars
  <2>4. CASE GuessFails(p)
    <3>1. hand' = [hand EXCEPT ![p] = Null] /\ Go(p, "p_check")
      BY <2>4 DEF GuessFails, Destroy
    <3>2. UNCHANGED <<cache, cm, work, filename>>
      BY <2>4 DEF GuessFails, clientVars
    <3> QED  BY <2>2, <2>8, <3>1, <3>2
  <2>5. ASSUME TakePrefetch(p) PROVE Quiet
    <3>1. hand' = [hand EXCEPT ![p] = Head(prefetch)] /\ Go(p, "p_guess")
      BY <2>5 DEF TakePrefetch
    <3>2. UNCHANGED <<cache, cm, work, filename>>
      BY <2>5 DEF TakePrefetch, clientVars
    <3> QED  BY <2>2, <2>8, <3>1, <3>2
  <2>6. CASE PrefetchLock(p) \/ PrefetchWoken(p)
    BY <1>2, <2>2, <2>5, <2>6 DEF PrefetchLock, PrefetchWoken, clientVars
  <2>7. ASSUME NEW g \in Guesses, GuessFile(p, g) PROVE Quiet
    BY <1>2, <2>2, <2>7 DEF GuessFile, clientVars
  <2> QED  BY <1>9, <2>3, <2>4, <2>6, <2>7 DEF Prefetch
<1>10. CASE JoinDispatchers \/ Return
  BY <1>0, <1>10 DEF JoinDispatchers, Return, clientVars
<1>11. ASSUME NEW t \in Threads, SpuriousWakeup(t) PROVE Quiet
  <2>1. pc[t] \in {"wait_put", "wait_get", "p_wait"} /\ pc[t] \in LabelsOf(t)
    BY <1>11 DEF SpuriousWakeup, WokenAt, TypeInv, TypeOK, ThreadTypes
  <2>2. WokenAt[pc[t]] \in LabelsOf(t) \ InCache
    BY <2>1, Kinds DEF WokenAt, InCache
  <2> DEFINE l == WokenAt[pc[t]]
  <2>3. Go(t, l) /\ UNCHANGED <<hand, cache, cm, work, filename>>
    BY <1>11 DEF SpuriousWakeup, clientVars
  <2> HIDE DEF l
  <2> QED  BY <1>3, <2>2, <2>3 DEF l
<1>12. CASE Outside
  <2>1. ASSUME NEW d \in Dispatchers, AcceptFails(d) PROVE Quiet
    BY <1>3, <2>1, Kinds DEF AcceptFails, clientVars, InCache
  <2>2. ASSUME NEW d \in Dispatchers, NEW r \in Requests, Refuse(d, r) PROVE Quiet
    BY <1>0, <2>2 DEF Refuse, threadVars
  <2>3. ASSUME NEW f \in Files, ChangeFile(f) PROVE Quiet
    BY <1>0, <2>3 DEF ChangeFile, threadVars, clientVars
  <2> QED  BY <1>5, <1>11, <1>12, <2>1, <2>2, <2>3 DEF Outside
<1> QED  BY <1>1, <1>5, <1>6, <1>7, <1>8, <1>9, <1>10, <1>12 DEF Next, Work, CacheStep

\* What cache_putEntry leaves in the list: old entries and the new one.
LEMMA PutEntryElements ==
    ASSUME NEW e \in Entry, cache \in Seq(Entry)
    PROVE  /\ Linked(cache, e) \in Range(PutEntry(cache, e))
           /\ \A i \in DOMAIN PutEntry(cache, e) :
                 \/ PutEntry(cache, e)[i] = Linked(cache, e)
                 \/ \E j \in DOMAIN cache : PutEntry(cache, e)[i] = cache[j]
           /\ \A i \in DOMAIN MakeRoom(cache) :
                 \E j \in DOMAIN cache : MakeRoom(cache)[i] = cache[j]
<1> DEFINE room == MakeRoom(cache)
           x == Linked(cache, e)
<1>1. Full(cache) => cache # <<>>
  BY CacheAssumption DEF CacheAssumption, Full
<1>2. room \in Seq(Entry) /\ \A i \in 1 .. Len(room) : \E j \in 1 .. Len(cache) :
                                                      room[i] = cache[j]
  <2>1. CASE ~ Full(cache)
    BY <2>1 DEF MakeRoom
  <2>2. CASE Full(cache)
    <3>1. room = Tail(cache) /\ cache # <<>>
      BY <1>1, <2>2 DEF MakeRoom
    <3>2. /\ room \in Seq(Entry) /\ Len(room) = Len(cache) - 1
          /\ \A i \in 1 .. Len(room) : room[i] = cache[i + 1]
      BY <3>1
    <3> QED  BY <3>2
  <2> QED  BY <2>1, <2>2
<1>3. x \in Entry /\ PutEntry(cache, e) = Append(room, x)
  BY LinkedIsEntry DEF PutEntry
<1> HIDE DEF room, x
<1>4. /\ DOMAIN Append(room, x) = 1 .. Len(room) + 1
      /\ Append(room, x)[Len(room) + 1] = x
      /\ \A i \in 1 .. Len(room) : Append(room, x)[i] = room[i]
      /\ \A i \in 1 .. Len(room) + 1 : i \in 1 .. Len(room) \/ i = Len(room) + 1
      /\ Len(room) + 1 \in 1 .. Len(room) + 1
      /\ DOMAIN room = 1 .. Len(room) /\ DOMAIN cache = 1 .. Len(cache)
  BY <1>2, <1>3
<1>5. x \in Range(Append(room, x))
  BY <1>4 DEF Range
<1>6. \A i \in DOMAIN Append(room, x) :
         Append(room, x)[i] = x \/ \E j \in DOMAIN cache : Append(room, x)[i] = cache[j]
  BY <1>2, <1>4
<1> QED  BY <1>2, <1>3, <1>4, <1>5, <1>6 DEF room, x

\* An entry that is put in keeps the chains free of worker's entries, if it does itself.
LEMMA PutKeepsChains ==
    ASSUME NEW e \in Entry, cache \in Seq(Entry), WorkersNeverChain,
           cache' = PutEntry(cache, e),
           Linked(cache, e).chained => e.by \in Prefetchers
    PROVE  WorkersNeverChain'
<1>1. Linked(cache, e).by = e.by
  BY DEF Linked, Entry
<1> QED  BY <1>1, PutEntryElements DEF WorkersNeverChain

\* A step that touches what the cache lock protects.
LEMMA CacheStepKeepsCacheInv ==
    ASSUME TypeInv, CacheInv, CacheStep PROVE CacheInv'
<1>0. ASSUME UNCHANGED <<pc, hand, cache, cm, work, filename>> PROVE CacheInv'
  BY <1>0, QuietKeepsCacheInv DEF Quiet
<1>1. /\ pc \in [Threads -> Labels] /\ hand \in [Threads -> Requests \cup {Null}]
      /\ DOMAIN work = Workers /\ cache \in Seq(Entry) /\ Workers \subseteq Threads
      /\ \A w \in Workers : BundleRight(w)
      /\ WorkersNeverChain /\ Null \notin Workers
  BY Kinds DEF TypeInv, TypeOK, ThreadTypes, DataTypes, CacheInv
<1>2. ASSUME NEW w \in Workers, TakeRequest(w) PROVE CacheInv'
  <2>1. CASE Fault("null_request")
    BY <1>0, <2>1 DEF Fault
  <2>2. CASE ~ Fault("null_request")
    <3> DEFINE r == queue[PickedAt]
    <3>1. /\ pc[w] = "lock_cache" /\ cm = Null /\ cm' = w /\ cache' = cache
          /\ hand' = [hand EXCEPT ![w] = r]
          /\ work' = [work EXCEPT ![w] = Looked(filename[r])]
          /\ filename' = filename
          /\ Go(w, "read") \/ \E S \in Signal("wait_put") : GoWaking(w, "read", S)
      BY <1>2, <2>2 DEF TakeRequest, clientVars
    <3> HIDE DEF r
    <3>2. Moves(w, "read") /\ "read" \in LabelsOf(w)
      BY <1>1, <3>1, GoMoves, SignalMoves, Kinds DEF TypeInv
    <3>3. \A u \in Workers \ {w} : pc'[u] \notin InCache
      <4> SUFFICES ASSUME NEW u \in Workers \ {w}, pc'[u] \in InCache PROVE FALSE
        OBVIOUS
      <4>1. pc'[u] = pc[u]
        BY <1>1, <3>2, MovePc DEF TypeInv, InCache
      <4> QED  BY <1>1, <3>1, <4>1 DEF BundleRight
    <3>4. \A u \in Workers \ {w} : BundleRight(u)'
      BY <3>3 DEF BundleRight, InCache
    <3>5. pc'[w] = "read"
      BY <1>1, <3>2, MovePc DEF TypeInv
    <3>6. hand'[w] = r /\ work'[w] = Looked(filename[r])
      BY <1>1, <3>1
    <3> DEFINE at == Search(cache, filename[r])
    <3>7. /\ Looked(filename[r]).err = "none"
          /\ Looked(filename[r]).hit <=> at # 0
          /\ at # 0 => Looked(filename[r]).ent = cache[at]
      BY DEF Looked, NoWork
    <3>8. /\ at # 0 => cache[at] \in Range(cache) /\ Collides(cache[at], filename[r])
          /\ at = 0 => BucketEmpty(filename[r])
      <4>1. DOMAIN cache = 1 .. Len(cache)
        BY <1>1
      <4> QED  BY <1>1, <4>1, SearchFinds DEF BucketEmpty, Range
    <3> HIDE DEF at
    <3>9. BundleRight(w)'
      BY <3>1, <3>5, <3>6, <3>7, <3>8 DEF BundleRight, HasEntry, BucketEmpty, InCache
    <3>10. WorkersNeverChain'
      BY <1>1, <3>1 DEF WorkersNeverChain
    <3> QED  BY <3>4, <3>9, <3>10 DEF CacheInv
  <2> QED  BY <2>1, <2>2
<1>3. ASSUME NEW w \in Workers, ReadFile(w) PROVE CacheInv'
  <2>1. CASE UNCHANGED <<pc, work>>
    BY <1>0, <1>3, <2>1 DEF ReadFile, clientVars
  <2>2. CASE ~ UNCHANGED <<pc, work>>
    <3>1. /\ UNCHANGED <<hand, cache, cm, filename>> /\ pc[w] = "read"
          /\ \/ work[w].hit /\ Go(w, "reply") /\ work' = work
             \/ /\ ~ work[w].hit /\ work' = [work EXCEPT ![w].err = "read"]
                /\ Go(w, "reply")
             \/ /\ ~ work[w].hit
                /\ work' = [work EXCEPT ![w].len = disk[filename[hand[w]]]]
                /\ Go(w, "stat")
      BY <1>3, <2>2 DEF ReadFile, clientVars
    <3>2. work[w] \in WorkType
      BY DEF TypeInv, TypeOK, DataTypes
    <3>3. /\ \A u \in Workers \ {w} : pc'[u] = pc[u] /\ work'[u] = work[u]
          /\ pc'[w] \in {"stat", "reply"}
      BY <1>1, <3>1 DEF Go
    <3>4. \A u \in Workers \ {w} : BundleRight(u)'
      BY <1>1, <3>1, <3>3 DEF BundleRight, HasEntry, BucketEmpty
    <3>5. \/ work[w].hit /\ pc'[w] = "reply" /\ work'[w] = work[w]
          \/ /\ ~ work[w].hit /\ pc'[w] = "reply"
             /\ work'[w].err = "read" /\ ~ work'[w].hit
          \/ /\ ~ work[w].hit /\ pc'[w] = "stat"
             /\ work'[w].err = work[w].err /\ ~ work'[w].hit
      BY <1>1, <3>1, <3>2 DEF Go, WorkType
    <3>6. BundleRight(w)'
      BY <1>1, <3>1, <3>5 DEF BundleRight, HasEntry, BucketEmpty, InCache
    <3>7. WorkersNeverChain'
      BY <1>1, <3>1 DEF WorkersNeverChain
    <3> QED  BY <3>4, <3>6, <3>7 DEF CacheInv
  <2> QED  BY <2>1, <2>2
<1>4. ASSUME NEW w \in Workers, StatFile(w) PROVE CacheInv'
  <2> DEFINE fn == filename[hand[w]]
             e == NewEntry(w, fn, work[w].len, disk[fn])
  <2>1. CASE UNCHANGED <<pc, work, cache>>
    BY <1>0, <1>4, <2>1 DEF StatFile, clientVars
  <2>2. CASE ~ UNCHANGED <<pc, work, cache>>
    <3>1. /\ UNCHANGED <<hand, cm, filename>> /\ pc[w] = "stat" /\ Go(w, "reply")
          /\ \/ cache' = cache /\ work' = [work EXCEPT ![w].err = "size"]
             \/ /\ cache' = PutEntry(cache, e)
                /\ work' = [work EXCEPT ![w].ent = Linked(cache, e)]
      BY <1>4, <2>2 DEF StatFile, clientVars
    <3>2. /\ hand[w] \in Requests /\ fn \in Files /\ disk[fn] \in Sizes
          /\ work[w] \in WorkType /\ work[w].len \in Nat
      BY <1>1, <3>1, HandIsCreated DEF Holding, TypeInv, TypeOK, DataTypes, WorkType
    <3>3. e \in Entry /\ e.name = fn /\ e.by = w
      BY <1>1, <3>2, NewEntryIsEntry DEF NewEntry
    <3>4. BucketEmpty(fn) /\ cm = w /\ ~ work[w].hit /\ work[w].err = "none"
      BY <1>1, <3>1 DEF BundleRight, InCache
    <3> HIDE DEF e, fn
    <3>5. ~ Linked(cache, e).chained
      <4>1. \A i \in DOMAIN MakeRoom(cache) : ~ Collides(MakeRoom(cache)[i], fn)
        BY <1>1, <3>3, <3>4, PutEntryElements DEF BucketEmpty
      <4> QED  BY <3>3, <4>1 DEF Linked, Entry
    <3>6. /\ Linked(cache, e).name = fn
          /\ Linked(cache, e) \in Range(PutEntry(cache, e))
      BY <1>1, <3>3, PutEntryElements DEF Linked, Entry
    <3>7. WorkersNeverChain'
      BY <1>1, <3>1, <3>3, <3>5, PutKeepsChains DEF WorkersNeverChain
    <3>8. \A u \in Workers \ {w} : pc'[u] = pc[u] /\ pc[u] \notin InCache
      BY <1>1, <3>1, <3>4 DEF Go, BundleRight
    <3>9. \A u \in Workers \ {w} : BundleRight(u)'
      BY <3>8 DEF BundleRight, InCache
    <3>10. /\ pc'[w] = "reply" /\ ~ work'[w].hit
           /\ \/ work'[w].err = "size"
              \/ work'[w].ent = Linked(cache, e) /\ cache' = PutEntry(cache, e)
      BY <1>1, <3>1, <3>2, <3>4 DEF Go, WorkType
    <3>11. filename'[hand'[w]] = fn
      BY <3>1 DEF fn
    <3>12. Collides(Linked(cache, e), fn)
      BY <3>6 DEF Collides
    <3>13. BundleRight(w)'
      BY <3>1, <3>4, <3>6, <3>10, <3>11, <3>12 DEF BundleRight, HasEntry, InCache
    <3> QED  BY <3>7, <3>9, <3>13 DEF CacheInv
  <2> QED  BY <2>1, <2>2
<1>5. ASSUME NEW w \in Workers, Reply(w) PROVE CacheInv'
  <2>1. CASE UNCHANGED <<pc, cm, work>>
    BY <1>0, <1>5, <2>1 DEF Reply, clientVars
  <2>2. CASE ~ UNCHANGED <<pc, cm, work>>
    <3>1. /\ UNCHANGED <<hand, cache, filename>> /\ pc[w] = "reply"
          /\ Go(w, "drain_log") \/ Go(w, "offer")
          /\ cm = w
      BY <1>1, <1>5, <2>2 DEF Reply, clientVars, BundleRight, InCache
    <3>2. \A u \in Workers : pc'[u] \notin InCache
      BY <1>1, <3>1 DEF Go, BundleRight, InCache
    <3>3. \A u \in Workers : BundleRight(u)'
      BY <3>2 DEF BundleRight, InCache
    <3> QED  BY <1>1, <3>1, <3>3 DEF CacheInv, WorkersNeverChain
  <2> QED  BY <2>1, <2>2
<1>6. ASSUME NEW p \in Prefetchers, PutGuess(p) PROVE CacheInv'
  <2>1. CASE UNCHANGED <<pc, hand, cache>>
    <3>1. UNCHANGED <<cm, work, filename>>
      BY <1>6 DEF PutGuess, StoreGuess, Fault, clientVars
    <3> QED  BY <1>0, <2>1, <3>1
  <2>2. CASE ~ UNCHANGED <<pc, hand, cache>>
    <3> DEFINE g == guess[p]
               e == NewEntry(p, g.name, g.len, g.size)
    <3>1. /\ cm = Null /\ pc[p] = "p_put" /\ Go(p, "p_check") /\ g.len # Absent
          /\ cache' = PutEntry(cache, e)
      BY <1>6, <2>2 DEF PutGuess, StoreGuess, Fault, Destroy
    <3>2. p \in Threads /\ p \notin Workers
      BY Kinds
    <3>3. g.name \in Files /\ g.len \in Nat /\ g.size \in Sizes
      <4>1. g \in GuessType /\ g.name \in Files
        BY <3>1 DEF TypeInv, TypeOK, DataTypes, GuessNamed
      <4> QED  BY <3>1, <4>1 DEF GuessType, Sizes
    <3>4. hand[p] \in Requests
      BY <3>1, <3>2, HandIsCreated DEF Holding
    <3>5. e \in Entry /\ e.by = p
      BY <3>2, <3>3, <3>4, NewEntryIsEntry DEF NewEntry
    <3> HIDE DEF e
    <3>6. WorkersNeverChain'
      BY <1>1, <3>1, <3>5, PutKeepsChains
    <3>7. \A u \in Workers : pc'[u] \notin InCache
      BY <1>1, <3>1, <3>2 DEF Go, BundleRight
    <3> QED  BY <3>6, <3>7 DEF CacheInv, BundleRight, InCache
  <2> QED  BY <2>1, <2>2
<1> QED  BY <1>2, <1>3, <1>4, <1>5, <1>6 DEF CacheStep

\* In every mode, with any number of threads.
LEMMA CacheInvAlways == Spec => []CacheInv
<1>1. Init => CacheInv
  <2> SUFFICES ASSUME Init PROVE CacheInv
    OBVIOUS
  <2>1. \A w \in Workers : pc[w] = "check"
    BY Kinds DEF Init
  <2>2. cache = <<>>
    BY DEF Init
  <2> QED  BY <2>1, <2>2 DEF CacheInv, WorkersNeverChain, BundleRight, InCache
<1>2. TypeInv /\ CacheInv /\ [Next]_vars => CacheInv'
  BY NextQuietOrCacheStep, QuietKeepsCacheInv, CacheStepKeepsCacheInv
<1> QED  BY <1>1, <1>2, TypeInvAlways, PTL DEF Spec

\* The entry a worker has found or made is still in the cache when it is sent, whatever
\* the prefetch threads and the other workers do: cache_mutex is held from the search to
\* the reply, in every mode, with any number of threads.
THEOREM EntryStaysPinned == Spec => []EntryPinned
<1>1. CacheInv => EntryPinned
  BY DEF CacheInv, BundleRight, HasEntry, EntryPinned
<1> QED  BY <1>1, CacheInvAlways, PTL

\* Only prefetch threads put an entry behind another one of its bucket.
THEOREM WorkersDoNotChain == Spec => []WorkersNeverChain
<1>1. CacheInv => WorkersNeverChain
  BY DEF CacheInv
<1> QED  BY <1>1, CacheInvAlways, PTL
-----------------------------------------------------------------------------
(* Answers and the log *)

\* The requests that are still to be answered, created or not.
Pending(r) ==
    \/ filename[r] = Null
    \/ r \in Range(queue)
    \/ \E d \in Dispatchers : hand[d] = r
    \/ \E w \in Workers : hand[w] = r /\ pc[w] \in InCache

\* What has been sent and written about each request, as long as the process lives.
AnswersRight ==
    Running =>
        /\ \A r \in Requests : Pending(r) => replies[r] = <<>> /\ log[r] = <<>>
        /\ \A w \in Workers : pc[w] = "drain_log" =>
              replies[hand[w]] = <<ReplyOf(w)>> /\ log[hand[w]] = <<>>

ServiceInv ==
    /\ DOMAIN replies = Requests /\ DOMAIN log = Requests
    /\ replies = [r \in Requests |-> replies[r]] /\ log = [r \in Requests |-> log[r]]
    /\ AnswersRight /\ AnsweredOnce /\ LogFollowsReply

\* The steps that send and write nothing.
Silent ==
    /\ UNCHANGED <<replies, log>>
    /\ Running' => Running
    /\ \A r \in Requests : Pending(r)' => Pending(r)
    /\ \A w \in Workers : pc'[w] = "drain_log" =>
          pc[w] = "drain_log" /\ hand'[w] = hand[w] /\ work'[w] = work[w]

\* A step that sends and writes nothing.
LEMMA SilentKeepsServiceInv ==
    ASSUME ServiceInv, Silent PROVE ServiceInv'
<1>1. AnswersRight'
  <2> SUFFICES ASSUME Running'
               PROVE  /\ \A r \in Requests : Pending(r)' =>
                            replies'[r] = <<>> /\ log'[r] = <<>>
                      /\ \A w \in Workers : pc'[w] = "drain_log" =>
                            replies'[hand'[w]] = <<ReplyOf(w)'>> /\ log'[hand'[w]] = <<>>
    BY DEF AnswersRight
  <2>1. AnswersRight /\ Running
    BY DEF ServiceInv, Silent
  <2> QED  BY <2>1 DEF AnswersRight, Silent, ReplyOf
<1> QED  BY <1>1 DEF ServiceInv, Silent, AnsweredOnce, LogFollowsReply

\* A thread that goes on from one point to another, with a request that is still to be
\* answered or none that matters.
LEMMA MoveIsSilent ==
    ASSUME TypeInv, Running, NEW t \in Threads, NEW l \in LabelsOf(t), Moves(t, l),
           l # "drain_log", UNCHANGED <<replies, log>>,
           \A u \in Threads \ {t} : hand'[u] = hand[u],
           \A w \in Workers \ {t} : work'[w] = work[w],
           \A r \in Requests : filename'[r] = Null => filename[r] = Null,
           \A r \in Requests \cap Range(queue') : Pending(r),
           (t \in Dispatchers \/ l \in InCache) /\ hand'[t] # Null => Pending(hand'[t])
    PROVE  Silent
<1>1. /\ pc'[t] = l
      /\ \A u \in Threads \ {t} : pc'[u] \in InCache \cup {"drain_log"} => pc'[u] = pc[u]
  BY MovePc DEF TypeInv, InCache
<1>2. ASSUME NEW w \in Workers, pc'[w] = "drain_log"
      PROVE  pc[w] = "drain_log" /\ hand'[w] = hand[w] /\ work'[w] = work[w]
  BY <1>1, <1>2, Kinds
<1>3. ASSUME NEW r \in Requests, Pending(r)' PROVE Pending(r)
  <2>1. CASE filename'[r] = Null \/ r \in Range(queue')
    BY <2>1 DEF Pending
  <2>2. ASSUME NEW u \in Threads, u \in Dispatchers \/ pc'[u] \in InCache, hand'[u] = r
        PROVE  Pending(r)
    <3>1. CASE u = t
      BY <1>1, <2>2, <3>1, Kinds
    <3>2. CASE u # t
      <4>1. hand[u] = r /\ (u \in Dispatchers \/ pc[u] \in InCache)
        BY <1>1, <2>2, <3>2
      <4>2. u \in Workers \/ u \in Dispatchers
        <5>1. pc[u] \in LabelsOf(u)
          BY DEF TypeInv, TypeOK, ThreadTypes
        <5> QED  BY <4>1, <5>1, Kinds DEF InCache
      <4>3. u \in Workers => u \notin Dispatchers
        BY Kinds
      <4> QED  BY <4>1, <4>2, <4>3 DEF Pending
    <3> QED  BY <3>1, <3>2
  <2> QED  BY <1>3, <2>1, <2>2, Kinds DEF Pending
<1> QED  BY <1>2, <1>3 DEF Silent

\* Every step but a worker's reply and its writing to the log.
LEMMA NextSilentOrAnswers ==
    ASSUME TypeInv, [Next]_vars
    PROVE  Silent \/ \E w \in Workers : Reply(w) \/ DrainLog(w)
<1>0. ASSUME UNCHANGED <<pc, hand, queue, work, filename, replies, log>>, Running' => Running
      PROVE  Silent
  BY <1>0 DEF Silent, Pending
<1>1. CASE UNCHANGED vars
  BY <1>0, <1>1 DEF vars, Running
<1>2. ASSUME NEW kind, Running, Fault(kind) PROVE Silent
  BY <1>0, <1>2 DEF Fault
<1>3. /\ hand \in [Threads -> Requests \cup {Null}] /\ DOMAIN work = Workers
      /\ queue \in Seq(Requests)
      /\ \A r \in Range(queue) : Pending(r)
      /\ \A w \in Workers : pc[w] \in InCache => Pending(hand[w])
      /\ \A d \in Dispatchers : Pending(hand[d])
  BY DEF TypeInv, TypeOK, ThreadTypes, DataTypes, Pending
\* With the request queue and all names unchanged.
<1>4. ASSUME NEW t \in Threads, NEW l \in LabelsOf(t), Moves(t, l), Running,
             l # "drain_log", UNCHANGED <<replies, log, queue, filename>>,
             \A u \in Threads \ {t} : hand'[u] = hand[u],
             \A w \in Workers \ {t} : work'[w] = work[w],
             (t \in Dispatchers \/ l \in InCache) /\ hand'[t] # Null => Pending(hand'[t])
      PROVE  Silent
  BY <1>3, <1>4, MoveIsSilent
<1>5. ASSUME NEW d \in Dispatchers, NEW r \in Requests, NEW f \in Files, Accept(d, r, f)
      PROVE  Silent
  <2>1. /\ Moves(d, "enqueue") /\ d \in Threads /\ "enqueue" \in LabelsOf(d)
        /\ d \notin Workers /\ Running
    BY <1>5, GoMoves, Kinds DEF Accept, TypeInv
  <2>2. /\ \A q \in Requests : filename'[q] = Null => filename[q] = Null
        /\ Pending(r)
    BY <1>5 DEF Accept, Fresh, Pending, TypeInv, TypeOK, DataTypes
  <2>3. /\ UNCHANGED <<queue, work, replies, log>>
        /\ hand'[d] = r /\ \A u \in Threads \ {d} : hand'[u] = hand[u]
    BY <1>3, <1>5, <2>1 DEF Accept, sentVars
  <2> QED  BY <1>3, <2>1, <2>2, <2>3, MoveIsSilent
<1>6. ASSUME NEW d \in Dispatchers, Dispatch(d) PROVE Silent
  <2>1. d \in Threads /\ "wait_put" \in LabelsOf(d) /\ "accept" \in LabelsOf(d) /\ Running
    BY <1>6, Kinds DEF Dispatch, Enqueue, EnqueueWoken
  <2>2. ASSUME PutRequest(d), pc[d] \in {"enqueue", "woken_put"} PROVE Silent
    <3>1. Moves(d, "accept")
      BY <2>1, <2>2, SignalMoves DEF PutRequest
    <3>2. /\ UNCHANGED <<work, filename, replies, log>> /\ hand'[d] = Null
          /\ \A u \in Threads \ {d} : hand'[u] = hand[u]
          /\ queue' = Append(queue, hand[d])
      BY <1>3, <2>1, <2>2 DEF PutRequest, clientVars, sentVars
    <3>3. hand[d] \in Requests
      BY <2>1, <2>2, HandIsCreated DEF Holding
    <3>4. \A r \in Range(queue') : Pending(r)
      BY <1>3, <3>2, <3>3, AppendRange
    <3> QED  BY <2>1, <3>1, <3>2, <3>4, MoveIsSilent
  <2>3. CASE /\ Go(d, "wait_put")
             /\ UNCHANGED <<hand, queue, prefetch, cache, qm, cm, work, guess, draining,
                            clientVars, sentVars, freed, main, fileVars, fault>>
    BY <1>3, <1>4, <2>1, <2>3, GoMoves DEF clientVars, sentVars, TypeInv
  <2> QED  BY <1>2, <1>6, <2>1, <2>2, <2>3 DEF Dispatch, Enqueue, EnqueueWoken
<1>7. ASSUME NEW t \in Threads, NEW l \in LabelsOf(t), Moves(t, l), Running,
             t \notin Dispatchers, l \notin InCache \cup {"drain_log"},
             UNCHANGED <<replies, log, queue, filename>>,
             \A u \in Threads \ {t} : hand'[u] = hand[u],
             \A w \in Workers \ {t} : work'[w] = work[w]
      PROVE  Silent
  BY <1>4, <1>7
<1>8. ASSUME NEW w \in Workers,
             WorkerCheck(w) \/ LockQueue(w) \/ LockQueueUnchecked(w) \/ DrainCheck(w)
      PROVE  Silent
  <2>1. PICK l \in {"drain_check", "lock_queue", "wait_get", "lock_cache", "exited",
                    "drain_lock"} :
           Go(w, l) /\ UNCHANGED <<hand, queue, work, filename, replies, log>>
    BY <1>8 DEF WorkerCheck, LockQueue, LockQueueUnchecked, DrainCheck, clientVars, sentVars
  <2>2. Running
    BY <1>8 DEF WorkerCheck, LockQueue, LockQueueUnchecked, DrainCheck
  <2>3. w \in Threads /\ w \notin Dispatchers /\ l \in LabelsOf(w) /\ Moves(w, l)
    BY <2>1, GoMoves, Kinds DEF TypeInv
  <2> QED  BY <1>7, <2>1, <2>2, <2>3 DEF InCache
<1>9. ASSUME NEW w \in Workers, TakeRequest(w) PROVE Silent
  <2>1. CASE Fault("null_request")
    BY <1>2, <1>9, <2>1 DEF TakeRequest
  <2>2. CASE ~ Fault("null_request")
    <3> DEFINE k == PickedAt
    <3>1. /\ hand' = [hand EXCEPT ![w] = queue[k]] /\ queue' = QueueAfter(k)
          /\ \E x : work' = [work EXCEPT ![w] = x]
          /\ UNCHANGED <<filename, replies, log>> /\ Running /\ queue # <<>>
          /\ Go(w, "read") \/ \E S \in Signal("wait_put") : GoWaking(w, "read", S)
      BY <1>9, <2>2 DEF TakeRequest, clientVars, sentVars
    <3>2. k \in 1 .. Len(queue)
      BY <3>1, PickedIsQueued DEF TypeInv
    <3> HIDE DEF k
    <3>3. w \in Threads /\ "read" \in LabelsOf(w) /\ Moves(w, "read")
      BY <3>1, GoMoves, SignalMoves, Kinds DEF TypeInv
    <3>4. Range(queue') \subseteq Range(queue)
      BY <1>3, <3>1, <3>2, RemoveAtRange DEF QueueAfter
    <3>5. queue[k] \in Range(queue)
      BY <1>3, <3>2 DEF Range
    <3>6. /\ hand'[w] = queue[k] /\ \A u \in Threads \ {w} : hand'[u] = hand[u]
          /\ \A u \in Workers \ {w} : work'[u] = work[u]
      BY <1>3, <3>1, <3>3
    <3> QED  BY <1>3, <3>1, <3>3, <3>4, <3>5, <3>6, MoveIsSilent
  <2> QED  BY <2>1, <2>2
<1>10. ASSUME NEW w \in Workers, ReadFile(w) \/ StatFile(w) PROVE Silent
  <2>1. /\ UNCHANGED <<hand, queue, filename, replies, log>> /\ pc[w] \in InCache /\ Running
        /\ \A u \in Workers \ {w} : work'[u] = work[u]
        /\ UNCHANGED <<pc, work>> \/ Go(w, "stat") \/ Go(w, "reply")
    BY <1>3, <1>10 DEF ReadFile, StatFile, clientVars, sentVars, InCache
  <2>2. w \in Threads /\ {"stat", "reply"} \subseteq LabelsOf(w)
    BY Kinds
  <2>3. Pending(hand'[w])
    BY <1>3, <2>1
  <2> QED  BY <1>0, <1>4, <2>1, <2>2, <2>3, GoMoves DEF TypeInv
<1>11. ASSUME NEW w \in Workers, Offer(w) \/ PutPrefetch(w) PROVE Silent
  <2>1. /\ w \in Threads /\ w \notin Dispatchers /\ Running
        /\ {"check", "put_prefetch"} \subseteq LabelsOf(w) \ (InCache \cup {"drain_log"})
    BY <1>11, Kinds DEF InCache, Offer, PutPrefetch
  <2>2. /\ UNCHANGED <<queue, work, filename, replies, log>>
        /\ \A u \in Threads \ {w} : hand'[u] = hand[u]
    BY <1>3, <1>11, Kinds DEF Offer, PutPrefetch, Destroy, Fault, clientVars, sentVars
  <2>3. CASE Offer(w)
    <3>1. \/ pc' = pc /\ hand' = hand
          \/ \E l \in {"check", "put_prefetch"} : Go(w, l)
      BY <2>3 DEF Offer, Destroy
    <3> QED  BY <1>0, <1>7, <2>1, <2>2, <3>1, GoMoves DEF TypeInv
  <2>4. CASE PutPrefetch(w)
    <3>1. Fault("list_corrupt") \/ Moves(w, "check")
      BY <2>1, <2>4, SignalMoves DEF PutPrefetch
    <3> QED  BY <1>2, <1>7, <2>1, <2>2, <3>1
  <2> QED  BY <1>11, <2>3, <2>4
<1>12. ASSUME NEW p \in Prefetchers, Prefetch(p) PROVE Silent
  <2>1. /\ p \in Threads /\ p \notin Workers /\ p \notin Dispatchers
        /\ {"exited", "p_lock", "p_wait", "p_guess", "p_check", "p_stat", "p_put"}
              \subseteq LabelsOf(p) \ (InCache \cup {"drain_log"})
    BY Kinds DEF InCache
  <2>2. ASSUME NEW l \in {"exited", "p_lock", "p_wait", "p_guess", "p_check", "p_stat",
                          "p_put"},
               Go(p, l), Running, UNCHANGED <<queue, work, filename, replies, log>>,
               \A u \in Threads \ {p} : hand'[u] = hand[u]
        PROVE  Silent
    BY <1>7, <2>1, <2>2, GoMoves DEF TypeInv
  <2>3. ASSUME NEW h, hand' = [hand EXCEPT ![p] = h]
        PROVE  \A u \in Threads \ {p} : hand'[u] = hand[u]
    BY <1>3, <2>3
  <2>4. ASSUME Destroy(p, "p_check"), Running, UNCHANGED <<queue, work, filename, replies, log>>
        PROVE  Silent
    <3>1. hand' = [hand EXCEPT ![p] = Null] /\ Go(p, "p_check")
      BY <2>4 DEF Destroy
    <3> QED  BY <2>2, <2>3, <2>4, <3>1
  <2>5. ASSUME TakePrefetch(p), Running PROVE Silent
    <3>1. hand' = [hand EXCEPT ![p] = Head(prefetch)] /\ Go(p, "p_guess")
      BY <2>5 DEF TakePrefetch
    <3>2. UNCHANGED <<queue, work, filename, replies, log>>
      BY <2>5 DEF TakePrefetch, clientVars, sentVars
    <3> QED  BY <2>2, <2>3, <2>5, <3>1, <3>2
  <2>6. CASE PrefetchCheck(p) \/ StatGuess(p)
    BY <2>2, <2>6 DEF PrefetchCheck, StatGuess, clientVars, sentVars
  <2>7. CASE GuessFails(p)
    BY <2>4, <2>7 DEF GuessFails, clientVars, sentVars
  <2>8. CASE PrefetchLock(p) \/ PrefetchWoken(p)
    BY <1>2, <2>2, <2>5, <2>8 DEF PrefetchLock, PrefetchWoken, clientVars, sentVars
  <2>9. ASSUME NEW g \in Guesses, GuessFile(p, g) PROVE Silent
    BY <1>2, <2>2, <2>9 DEF GuessFile, clientVars, sentVars
  <2>10. CASE PutGuess(p)
    BY <1>2, <2>4, <2>10 DEF PutGuess, StoreGuess, clientVars, sentVars
  <2> QED  BY <1>12, <2>6, <2>7, <2>8, <2>9, <2>10 DEF Prefetch
<1>13. CASE JoinDispatchers \/ Return
  BY <1>0, <1>13 DEF JoinDispatchers, Return, clientVars, sentVars
<1>14. ASSUME NEW t \in Threads, SpuriousWakeup(t) PROVE Silent
  <2>1. pc[t] \in {"wait_put", "wait_get", "p_wait"} /\ pc[t] \in LabelsOf(t)
    BY <1>14 DEF SpuriousWakeup, WokenAt, TypeInv, TypeOK, ThreadTypes
  <2>2. WokenAt[pc[t]] \in LabelsOf(t) \ (InCache \cup {"drain_log"})
    BY <2>1, Kinds DEF WokenAt, InCache
  <2> DEFINE l == WokenAt[pc[t]]
  <2>3. Go(t, l) /\ UNCHANGED <<hand, queue, work, filename, replies, log>> /\ Running
    BY <1>14 DEF SpuriousWakeup, clientVars, sentVars
  <2> HIDE DEF l
  <2>4. Moves(t, l) /\ l \in LabelsOf(t) \ (InCache \cup {"drain_log"})
    BY <2>2, <2>3, GoMoves DEF l, TypeInv
  <2>5. t \in Dispatchers => Pending(hand'[t])
    BY <1>3, <2>3
  <2> QED  BY <1>4, <2>3, <2>4, <2>5
<1>15. CASE Outside
  <2>1. ASSUME NEW d \in Dispatchers, AcceptFails(d) PROVE Silent
    <3>1. d \in Threads /\ "exited" \in LabelsOf(d)
      BY Kinds
    <3> QED  BY <1>3, <1>4, <2>1, <3>1, GoMoves DEF AcceptFails, clientVars, sentVars, InCache,
                                                   TypeInv
  <2>2. ASSUME NEW d \in Dispatchers, NEW r \in Requests, Refuse(d, r) PROVE Silent
    BY <1>0, <2>2 DEF Refuse, threadVars, sentVars
  <2>3. ASSUME NEW f \in Files, ChangeFile(f) PROVE Silent
    BY <1>0, <2>3 DEF ChangeFile, threadVars, clientVars, sentVars
  <2> QED  BY <1>5, <1>14, <1>15, <2>1, <2>2, <2>3 DEF Outside
<1> QED  BY <1>1, <1>5, <1>6, <1>8, <1>9, <1>10, <1>11, <1>12, <1>13, <1>15 DEF Next, Work

\* A worker that stays where it is, or leaves its request: nothing new to answer.
LEMMA AnswerStepPending ==
    ASSUME TypeInv, NEW w \in Workers, Reply(w) \/ DrainLog(w)
    PROVE  /\ \A r \in Requests : Pending(r)' => Pending(r)
           /\ \A u \in Workers \ {w} :
                 pc'[u] = pc[u] /\ hand'[u] = hand[u] /\ work'[u] = work[u]
           /\ queue' = queue /\ filename' = filename /\ Running
           /\ \A d \in Dispatchers : hand'[d] = hand[d]
<1>1. /\ pc \in [Threads -> Labels] /\ hand \in [Threads -> Requests \cup {Null}]
      /\ DOMAIN work = Workers /\ Workers \cup Dispatchers \subseteq Threads
      /\ w \notin Dispatchers
  BY Kinds DEF TypeInv, TypeOK, ThreadTypes, DataTypes
<1>2. /\ queue' = queue /\ filename' = filename /\ Running
      /\ UNCHANGED hand \/ hand' = [hand EXCEPT ![w] = Null]
      /\ UNCHANGED work \/ work' = [work EXCEPT ![w] = NoWork]
      /\ pc' = pc \/ \E l \in {"drain_log", "offer", "drain_check"} : Go(w, l)
  BY DEF Reply, DrainLog, Destroy, Fault, clientVars
<1>3. /\ \A u \in Workers \ {w} :
            pc'[u] = pc[u] /\ hand'[u] = hand[u] /\ work'[u] = work[u]
      /\ \A d \in Dispatchers : hand'[d] = hand[d]
      /\ hand'[w] = hand[w] \/ hand'[w] = Null
      /\ pc'[w] \in InCache => pc'[w] = pc[w]
  BY <1>1, <1>2 DEF Go, InCache
<1>4. ASSUME NEW r \in Requests, Pending(r)' PROVE Pending(r)
  BY <1>2, <1>3, <1>4, Kinds DEF Pending
<1> QED  BY <1>2, <1>3, <1>4

\* When nobody else has the request, a reply answers what nobody has answered, and the
\* line in the log says what was sent.
LEMMA AnswersKeepServiceInv ==
    ASSUME TypeInv, OnePlace, OnePlace', ServiceInv, NEW w \in Workers,
           Reply(w) \/ DrainLog(w)
    PROVE  ServiceInv'
<1>1. /\ pc \in [Threads -> Labels] /\ DOMAIN pc = Threads /\ w \in Threads
      /\ hand \in [Threads -> Requests \cup {Null}] /\ DOMAIN work = Workers
      /\ work[w] \in WorkType
  BY Kinds DEF TypeInv, TypeOK, ThreadTypes, DataTypes
<1>2. /\ \A q \in Requests : Pending(q)' => Pending(q)
      /\ \A u \in Workers \ {w} :
            pc'[u] = pc[u] /\ hand'[u] = hand[u] /\ work'[u] = work[u]
      /\ queue' = queue /\ filename' = filename /\ Running
      /\ \A d \in Dispatchers : hand'[d] = hand[d]
  BY AnswerStepPending
<1>3. pc[w] \in {"reply", "drain_log"}
  BY DEF Reply, DrainLog
<1>4. PICK r \in Requests : r = hand[w] /\ r # Null /\ filename[r] # Null
  BY <1>1, <1>3, HandIsCreated, Kinds DEF Holding
<1>5. \A u \in Threads \ {w} : hand[u] # r
  BY <1>1, <1>4 DEF OnePlace
<1>6. /\ \A q \in Requests : Pending(q) => replies[q] = <<>> /\ log[q] = <<>>
      /\ \A u \in Workers : pc[u] = "drain_log" =>
            replies[hand[u]] = <<ReplyOf(u)>> /\ log[hand[u]] = <<>>
      /\ replies = [q \in Requests |-> replies[q]] /\ log = [q \in Requests |-> log[q]]
      /\ DOMAIN replies = Requests /\ DOMAIN log = Requests
      /\ \A q \in Requests : Len(replies[q]) <= 1
      /\ LogFollowsReply
  BY <1>2 DEF ServiceInv, AnswersRight, AnsweredOnce
<1>7. ASSUME UNCHANGED <<replies, log>>, Running' => Silent PROVE ServiceInv'
  <2>1. CASE Running'
    BY <1>7, <2>1, SilentKeepsServiceInv
  <2>2. CASE ~ Running'
    BY <1>7, <2>2 DEF ServiceInv, AnswersRight, AnsweredOnce, LogFollowsReply
  <2> QED  BY <2>1, <2>2
\* What the line and the reply say.
<1>8. /\ LineOf(w).status = ReplyOf(w).status
      /\ LineOf(w).status = "ok" => LineOf(w).size = ReplyOf(w).size
  BY <1>1 DEF LineOf, ReplyOf, WorkType
<1> DEFINE answer == ReplyOf(w)
           line == LineOf(w)
<1>9. ASSUME NEW x, NEW y
      PROVE  /\ Len(<<x>>) = 1 /\ <<x>>[1] = x /\ DOMAIN <<x>> = {1}
             /\ Append(<<>>, x) = <<x>>
             /\ Len(<<>>) = 0 /\ DOMAIN <<>> = {}
  OBVIOUS
\* The request was answered by this worker and nobody else has it.
<1>10. ASSUME replies'[r] = <<answer>>, log'[r] \in {<<>>, <<line>>},
              DOMAIN replies' = Requests, DOMAIN log' = Requests,
              replies' = [q \in Requests |-> replies'[q]],
              log' = [q \in Requests |-> log'[q]],
              \A q \in Requests \ {r} : replies'[q] = replies[q] /\ log'[q] = log[q],
              Running' => \/ pc'[w] = "drain_log" /\ hand'[w] = r /\ work'[w] = work[w]
                             /\ log'[r] = <<>>
                          \/ pc'[w] \notin InCache \cup {"drain_log"}
       PROVE  ServiceInv'
  <2> HIDE DEF answer, line
  <2>0. /\ \A q \in Requests : q # r => replies'[q] = replies[q] /\ log'[q] = log[q]
        /\ replies'[r] = <<answer>> /\ log'[r] \in {<<>>, <<line>>}
    BY <1>10
  <2>4. Len(<<answer>>) = 1 /\ Len(<<answer>>) <= 1
    OBVIOUS
  <2>1. AnsweredOnce'
    BY <1>6, <2>0, <2>4 DEF AnsweredOnce
  <2>2. LogFollowsReply'
    <3> SUFFICES ASSUME NEW q \in Requests
                 PROVE  /\ Len(log'[q]) <= Len(replies'[q])
                        /\ \A i \in DOMAIN log'[q] :
                              /\ log'[q][i].status = replies'[q][i].status
                              /\ log'[q][i].status = "ok" =>
                                    log'[q][i].size = replies'[q][i].size
      BY DEF LogFollowsReply
    <3>1. CASE q # r
      BY <1>6, <1>10, <3>1 DEF LogFollowsReply
    <3>2. CASE q = r /\ log'[r] = <<>>
      BY <1>9, <1>10, <3>2
    <3>3. CASE q = r /\ log'[r] = <<line>>
      BY <1>8, <1>9, <1>10, <3>3 DEF answer, line
    <3> QED  BY <1>10, <3>1, <3>2, <3>3
  <2>3. AnswersRight'
    <3> SUFFICES ASSUME Running'
                 PROVE  /\ \A q \in Requests : Pending(q)' =>
                              replies'[q] = <<>> /\ log'[q] = <<>>
                        /\ \A u \in Workers : pc'[u] = "drain_log" =>
                              replies'[hand'[u]] = <<ReplyOf(u)'>> /\ log'[hand'[u]] = <<>>
      BY DEF AnswersRight
    <3>1. ~ Pending(r)'
      <4>1. r \notin Range(queue')
        <5>1. r \in InHand
          BY <1>1, <1>4 DEF InHand
        <5> QED  BY <1>2, <5>1 DEF OnePlace
      <4>2. \A u \in Workers : ~ (hand'[u] = r /\ pc'[u] \in InCache)
        BY <1>2, <1>5, <1>10, Kinds DEF InCache
      <4>3. \A d \in Dispatchers : hand'[d] # r
        BY <1>2, <1>5, Kinds
      <4>4. filename'[r] # Null
        BY <1>2, <1>4
      <4> QED  BY <4>1, <4>2, <4>3, <4>4 DEF Pending
    <3>2. ASSUME NEW q \in Requests, Pending(q)' PROVE replies'[q] = <<>> /\ log'[q] = <<>>
      <4>1. q # r
        BY <3>1, <3>2
      <4>2. Pending(q)
        BY <1>2, <3>2
      <4> QED  BY <1>6, <2>0, <4>1, <4>2
    <3>3. ASSUME NEW u \in Workers, pc'[u] = "drain_log"
          PROVE  replies'[hand'[u]] = <<ReplyOf(u)'>> /\ log'[hand'[u]] = <<>>
      <4>1. CASE u = w
        <5>1. /\ hand'[w] = r /\ work'[w] = work[w] /\ log'[r] = <<>>
          BY <1>10, <3>3, <4>1
        <5>2. ReplyOf(w)' = answer
          BY <5>1 DEF ReplyOf, answer
        <5> QED  BY <1>10, <4>1, <5>1, <5>2
      <4>2. CASE u # w
        <5>1. /\ pc'[u] = pc[u] /\ hand'[u] = hand[u] /\ work'[u] = work[u]
              /\ hand[u] # r
          BY <1>2, <1>5, <4>2, Kinds
        <5>2. hand[u] \in Requests
          BY <3>3, <5>1, HandIsCreated, Kinds DEF Holding
        <5>3. ReplyOf(u)' = ReplyOf(u)
          BY <5>1 DEF ReplyOf
        <5>4. pc[u] = "drain_log"
          BY <3>3, <5>1
        <5>5. replies[hand[u]] = <<ReplyOf(u)>> /\ log[hand[u]] = <<>>
          BY <1>6, <5>4, Zenon
        <5>6. replies'[hand[u]] = replies[hand[u]] /\ log'[hand[u]] = log[hand[u]]
          BY <2>0, <5>1, <5>2, Zenon
        <5>7. hand'[u] = hand[u]
          BY <5>1
        <5> QED  BY <5>3, <5>5, <5>6, <5>7, Zenon
      <4> QED  BY <4>1, <4>2
    <3> QED  BY <3>2, <3>3
  <2> QED  BY <1>10, <2>1, <2>2, <2>3 DEF ServiceInv
<1>11. CASE Reply(w)
  <2>1. Pending(r) /\ replies[r] = <<>> /\ log[r] = <<>>
    BY <1>4, <1>6, <1>11 DEF Reply, Pending, InCache
  <2>2. CASE ReplyFaults(w)
    BY <1>7, <1>11, <2>2 DEF Reply, Running
  <2>3. CASE ~ ReplyFaults(w)
    <3>1. replies' = [replies EXCEPT ![r] = Append(@, answer)] /\ hand' = hand
      BY <1>4, <1>11, <2>3 DEF Reply
    <3>2. \/ /\ Go(w, "drain_log") /\ UNCHANGED <<work, log>>
          \/ ~ Running' /\ log' = log
          \/ Go(w, "offer") /\ log' = [log EXCEPT ![r] = Append(@, line)]
      BY <1>4, <1>11, <2>3 DEF Reply, Running
    <3> HIDE DEF answer, line
    <3>3. /\ replies'[r] = <<answer>> /\ DOMAIN replies' = Requests
          /\ replies' = [q \in Requests |-> replies'[q]]
          /\ \A q \in Requests \ {r} : replies'[q] = replies[q]
      BY <1>4, <1>6, <1>9, <2>1, <3>1
    <3>4. /\ log'[r] \in {<<>>, <<line>>} /\ DOMAIN log' = Requests
          /\ log' = [q \in Requests |-> log'[q]]
          /\ \A q \in Requests \ {r} : log'[q] = log[q]
      <4>1. CASE log' = log
        BY <1>6, <2>1, <4>1
      <4>2. CASE log' = [log EXCEPT ![r] = Append(@, line)]
        BY <1>4, <1>6, <1>9, <2>1, <4>2
      <4> QED  BY <3>2, <4>1, <4>2
    <3>5. Running' => \/ pc'[w] = "drain_log" /\ hand'[w] = r /\ work'[w] = work[w]
                         /\ log'[r] = <<>>
                      \/ pc'[w] \notin InCache \cup {"drain_log"}
      BY <1>1, <1>4, <2>1, <3>1, <3>2 DEF Go, InCache
    <3> QED  BY <1>10, <3>3, <3>4, <3>5
  <2> QED  BY <2>2, <2>3
<1>12. CASE DrainLog(w)
  <2>1. replies[r] = <<answer>> /\ log[r] = <<>> /\ UNCHANGED replies
    BY <1>4, <1>6, <1>12 DEF DrainLog, Fault
  <2>2. CASE log' = log /\ ~ Running'
    BY <1>7, <2>1, <2>2
  <2>3. CASE ~ (log' = log /\ ~ Running')
    <3>1. /\ log' = [log EXCEPT ![r] = Append(@, line)]
          /\ ~ Running' \/ Go(w, "drain_check")
      BY <1>4, <1>12, <2>3 DEF DrainLog, Fault, Destroy, Running
    <3> HIDE DEF answer, line
    <3>2. /\ log'[r] = <<line>> /\ DOMAIN log' = Requests
          /\ log' = [q \in Requests |-> log'[q]]
          /\ \A q \in Requests \ {r} : log'[q] = log[q]
      BY <1>4, <1>6, <1>9, <2>1, <3>1
    <3>3. Running' => pc'[w] \notin InCache \cup {"drain_log"}
      BY <1>1, <3>1 DEF Go, InCache
    <3> QED  BY <1>6, <1>10, <2>1, <3>2, <3>3
  <2> QED  BY <2>2, <2>3
<1> QED  BY <1>11, <1>12

\* Each request is in one place, so it is answered and logged by one worker.
LEMMA ServiceInvAlways == Mode # "SFF" /\ Spec => []ServiceInv
<1>1. Init => ServiceInv
  <2> SUFFICES ASSUME Init PROVE ServiceInv
    OBVIOUS
  <2>1. /\ replies = [r \in Requests |-> <<>>] /\ log = [r \in Requests |-> <<>>]
        /\ \A w \in Workers : pc[w] = "check"
    BY Kinds DEF Init
  <2>2. AnswersRight
    BY <2>1 DEF AnswersRight
  <2> QED  BY <2>1, <2>2 DEF ServiceInv, AnsweredOnce, LogFollowsReply
<1>2. TypeInv /\ OnePlace /\ OnePlace' /\ ServiceInv /\ [Next]_vars => ServiceInv'
  BY NextSilentOrAnswers, SilentKeepsServiceInv, AnswersKeepServiceInv
<1>3. CASE Mode # "SFF"
  <2>1. Spec => []OnePlace
    <3>1. Custody => OnePlace
      BY DEF Custody
    <3>2. Spec => []Custody
      BY <1>3, CustodyHolds
    <3> QED  BY <3>1, <3>2, PTL
  <2>2. Spec => []ServiceInv
    BY <1>1, <1>2, <2>1, TypeInvAlways, PTL DEF Spec
  <2> QED  BY <2>2
<1> QED  BY <1>3

\* The log has a line about a request only after the reply, of the same kind and with the
\* same size, even in the drain loop, which logs after it has given up the cache.
THEOREM LogAlwaysFollowsReply == Mode # "SFF" /\ Spec => []LogFollowsReply
<1>1. ServiceInv => LogFollowsReply
  BY DEF ServiceInv
<1>2. CASE Mode # "SFF"
  <2>1. Spec => []LogFollowsReply
    BY <1>1, <1>2, ServiceInvAlways, PTL
  <2> QED  BY <2>1
<1> QED  BY <1>2

\* Outside the mode in which the queue keeps what it returns, no connection is answered
\* twice.
THEOREM NeverAnsweredTwice == Mode # "SFF" /\ Spec => []AnsweredOnce
<1>1. ServiceInv => AnsweredOnce
  BY DEF ServiceInv
<1>2. CASE Mode # "SFF"
  <2>1. Spec => []AnsweredOnce
    BY <1>1, <1>2, ServiceInvAlways, PTL
  <2> QED  BY <2>1
<1> QED  BY <1>2
-----------------------------------------------------------------------------
(* The service *)

\* No two file names share a bucket.
PerfectlyHashed == \A f, g \in Files : Hash[f] = Hash[g] => f = g

\* What process_request sends is an error or the file that was asked for.
LEMMA RepliesAreProper ==
    ASSUME TypeInv, CacheInv, PerfectlyHashed, NEW w \in Workers, pc[w] = "reply"
    PROVE  Service!Proper(ReplyOf(w), filename[hand[w]])
<1>1. BundleRight(w) /\ work[w] \in WorkType /\ filename[hand[w]] \in Files
  BY Kinds, HandIsCreated DEF CacheInv, TypeInv, TypeOK, DataTypes, Holding
<1>2. CASE work[w].err # "none"
  BY <1>1, <1>2 DEF ReplyOf, WorkType, Service!Proper
<1>3. CASE work[w].err = "none"
  <2>1. HasEntry(w)
    BY <1>1, <1>3 DEF BundleRight
  <2>2. work[w].ent \in Entry
    BY <2>1 DEF HasEntry, Range, TypeInv, TypeOK, DataTypes
  <2>3. work[w].ent.name \in Files
    BY <2>2 DEF Entry
  <2>4. work[w].ent.name = filename[hand[w]]
    BY <1>1, <2>1, <2>3 DEF HasEntry, Collides, PerfectlyHashed
  <2> QED  BY <1>3, <2>4 DEF ReplyOf, Service!Proper
<1> QED  BY <1>2, <1>3

\* A step of the server is a step of the service, or one its clients do not see.
LEMMA NextImplementsService ==
    ASSUME TypeInv, CacheInv, ServiceInv, PerfectlyHashed, [Next]_vars
    PROVE  [Service!Next]_<<filename, refused, replies>>
<1> DEFINE seen == <<filename, refused, replies>>
<1> SUFFICES Service!Next \/ UNCHANGED seen
  OBVIOUS
<1>1. ASSUME NEW w \in Workers, Reply(w) PROVE Service!Next \/ UNCHANGED seen
  <2> DEFINE r == hand[w]
             answer == ReplyOf(w)
  <2>1. /\ pc[w] = "reply" /\ Running
        /\ UNCHANGED <<filename, refused>>
        /\ UNCHANGED replies \/ replies' = [replies EXCEPT ![r] = Append(@, answer)]
    BY <1>1 DEF Reply, clientVars
  <2>2. r \in Requests /\ filename[r] \in Files /\ filename[r] # Null
    BY <2>1, HandIsCreated, Kinds DEF Holding
  <2>3. replies[r] = <<>> /\ DOMAIN replies = Requests
    BY <2>1, <2>2 DEF ServiceInv, AnswersRight, Pending, InCache
  <2>4. Service!Proper(answer, filename[r])
    BY <2>1, RepliesAreProper
  <2> HIDE DEF r, answer
  <2>5. CASE replies' = [replies EXCEPT ![r] = Append(@, answer)]
    <3>1. replies'[r] = <<answer>>
      BY <2>2, <2>3, <2>5
    <3>2. Len(replies'[r]) = 1 /\ replies'[r][1] = answer
      BY <3>1
    <3>3. replies' = [replies EXCEPT ![r] = replies'[r]]
      BY <2>3, <2>5, <3>1
    <3>4. Service!Answer(r)
      BY <2>1, <2>2, <2>3, <2>4, <3>2, <3>3 DEF Service!Answer
    <3> QED  BY <2>2, <3>4 DEF Service!Next
  <2> QED  BY <2>1, <2>5
<1>2. ASSUME NEW d \in Dispatchers, NEW r \in Requests, NEW f \in Files, Accept(d, r, f)
      PROVE  Service!Next
  BY <1>2 DEF Accept, Fresh, Service!Next, Service!Ask, sentVars
<1>3. ASSUME NEW d \in Dispatchers, NEW r \in Requests, Refuse(d, r) PROVE Service!Next
  BY <1>3 DEF Refuse, Fresh, Service!Next, Service!Refuse, sentVars
<1>4. CASE UNCHANGED vars
  BY <1>4 DEF vars
<1>5. ASSUME NEW kind, Fault(kind) PROVE UNCHANGED seen
  BY <1>5 DEF Fault
<1>6. ASSUME NEW d \in Dispatchers, Dispatch(d) PROVE UNCHANGED seen
  BY <1>5, <1>6 DEF Dispatch, Enqueue, EnqueueWoken, PutRequest, clientVars, sentVars
<1>7. ASSUME NEW w \in Workers, Work(w), ~ Reply(w) PROVE UNCHANGED seen
  BY <1>5, <1>7 DEF Work, WorkerCheck, LockQueue, LockQueueUnchecked, TakeRequest, ReadFile,
     StatFile, Offer, PutPrefetch, DrainCheck, DrainLog, clientVars, sentVars
<1>8. ASSUME NEW p \in Prefetchers, Prefetch(p) PROVE UNCHANGED seen
  BY <1>5, <1>8 DEF Prefetch, PrefetchCheck, PrefetchLock, PrefetchWoken, TakePrefetch,
     GuessFails, GuessFile, StatGuess, PutGuess, StoreGuess, clientVars, sentVars
<1>9. CASE JoinDispatchers \/ Return
  BY <1>9 DEF JoinDispatchers, Return, clientVars, sentVars
<1>10. CASE Outside
  BY <1>2, <1>3, <1>10 DEF Outside, AcceptFails, ChangeFile, SpuriousWakeup, clientVars, sentVars
<1> HIDE DEF seen
<1> QED  BY <1>1, <1>4, <1>6, <1>7, <1>8, <1>9, <1>10 DEF Next

\* The whole server, with any number of threads, queues of any length and files that
\* change, answers every connection at most once and only with the file it asked for,
\* provided that it serves first come first served or cached first (getSmallRequest
\* answers twice) and that no two names share a bucket (hash_search does not compare
\* them).
THEOREM WebServerImplementsService ==
    Mode # "SFF" /\ PerfectlyHashed /\ Spec => ImplementsService
<1>1. Init => Service!Init
  BY DEF Init, Service!Init
<1>2. CASE Mode # "SFF" /\ PerfectlyHashed
  <2>1. TypeInv /\ CacheInv /\ ServiceInv /\ [Next]_vars
            => [Service!Next]_<<filename, refused, replies>>
    BY <1>2, NextImplementsService
  <2>2. Spec => []ServiceInv
    BY <1>2, ServiceInvAlways
  <2>3. Spec => Service!Spec
    BY <1>1, <2>1, <2>2, TypeInvAlways, CacheInvAlways, PTL DEF Spec, Service!Spec
  <2> QED  BY <2>3 DEF ImplementsService
<1> QED  BY <1>2
-----------------------------------------------------------------------------
(* How many entries there are *)

\* The workers' entries are in different buckets, and prefetch threads made theirs for
\* different requests, which they destroyed.
EntriesCounted ==
    /\ \A i \in 1 .. Len(cache) : cache[i].by \in Prefetchers => cache[i].req \in freed
    /\ \A i, j \in 1 .. Len(cache) : i # j =>
        /\ cache[i].by \notin Prefetchers /\ cache[j].by \notin Prefetchers =>
              Hash[cache[i].name] # Hash[cache[j].name]
        /\ cache[i].by \in Prefetchers /\ cache[j].by \in Prefetchers =>
              cache[i].req # cache[j].req

\* Each entry of the new list but the last is an old one, and no two are the same.
LEMMA PutEntryPlaces ==
    ASSUME NEW e \in Entry, cache \in Seq(Entry), cache' = PutEntry(cache, e)
    PROVE  /\ cache' \in Seq(Entry) /\ Len(cache') \in Nat \ {0} /\ Len(cache) \in Nat
           /\ cache'[Len(cache')] = Linked(cache, e)
           /\ \E o \in {0, 1} : \A i \in 1 .. Len(cache') - 1 :
                 i + o \in 1 .. Len(cache) /\ cache'[i] = cache[i + o]
<1> DEFINE room == MakeRoom(cache)
           x == Linked(cache, e)
<1>1. PICK o \in {0, 1} : /\ room \in Seq(Entry) /\ Len(room) = Len(cache) - o
                          /\ \A i \in 1 .. Len(room) : room[i] = cache[i + o]
  <2>1. CASE ~ Full(cache)
    <3>1. room = cache
      BY <2>1 DEF MakeRoom
    <3> HIDE DEF room
    <3>2. /\ room \in Seq(Entry) /\ Len(room) = Len(cache) - 0
          /\ \A i \in 1 .. Len(room) : room[i] = cache[i + 0]
      BY <3>1
    <3> QED  BY <3>2
  <2>2. CASE Full(cache)
    <3>1. room = Tail(cache) /\ cache # <<>>
      BY <2>2, CacheAssumption DEF CacheAssumption, Full, MakeRoom
    <3> HIDE DEF room
    <3>2. /\ room \in Seq(Entry) /\ Len(room) = Len(cache) - 1
          /\ \A i \in 1 .. Len(room) : room[i] = cache[i + 1]
      BY <3>1
    <3> QED  BY <3>2
  <2> QED  BY <2>1, <2>2
<1>2. x \in Entry /\ cache' = Append(room, x)
  BY LinkedIsEntry DEF PutEntry
<1> HIDE DEF room, x
<1>3. /\ cache' \in Seq(Entry) /\ Len(cache') = Len(room) + 1 /\ Len(room) \in Nat
      /\ cache'[Len(room) + 1] = x /\ \A i \in 1 .. Len(room) : cache'[i] = room[i]
  BY <1>1, <1>2
<1>4. Len(cache) \in Nat
  OBVIOUS
<1>5. \A i \in 1 .. Len(cache') - 1 : i + o \in 1 .. Len(cache) /\ cache'[i] = cache[i + o]
  BY <1>1, <1>3, <1>4
<1>6. \E p \in {0, 1} : \A i \in 1 .. Len(cache') - 1 :
         i + p \in 1 .. Len(cache) /\ cache'[i] = cache[i + p]
  BY <1>5
<1>7. Len(cache') \in Nat \ {0} /\ cache'[Len(cache')] = x
  BY <1>3
<1> QED  BY <1>3, <1>4, <1>6, <1>7 DEF x

\* An entry that is put in is counted, if it is a worker's in an empty bucket or that of a
\* prefetch thread for a request that is destroyed now.
LEMMA PutKeepsCounted ==
    ASSUME NEW e \in Entry, cache \in Seq(Entry), EntriesCounted,
           cache' = PutEntry(cache, e), freed \subseteq freed',
           e.by \notin Prefetchers => BucketEmpty(e.name),
           e.by \in Prefetchers => e.req \notin freed /\ e.req \in freed'
    PROVE  EntriesCounted'
<1>1. PICK o \in {0, 1} :
          /\ Len(cache') \in Nat \ {0} /\ Len(cache) \in Nat
          /\ cache'[Len(cache')] = Linked(cache, e)
          /\ \A i \in 1 .. Len(cache') - 1 : i + o \in 1 .. Len(cache) /\ cache'[i] = cache[i + o]
  BY PutEntryPlaces
<1>2. /\ Linked(cache, e).by = e.by /\ Linked(cache, e).req = e.req
      /\ Linked(cache, e).name = e.name
  BY DEF Linked, Entry
<1>3. ASSUME NEW i \in 1 .. Len(cache') - 1
      PROVE  /\ cache'[i].by \in Prefetchers => cache'[i].req \in freed
             /\ cache'[i].by \notin Prefetchers /\ e.by \notin Prefetchers =>
                   Hash[cache'[i].name] # Hash[e.name]
  <2>1. i + o \in 1 .. Len(cache) /\ cache'[i] = cache[i + o]
    BY <1>1
  <2> DEFINE a == i + o
  <2>2. a \in DOMAIN cache /\ cache'[i] = cache[a] /\ a \in 1 .. Len(cache)
    BY <2>1
  <2> HIDE DEF a
  <2> QED  BY <2>2 DEF EntriesCounted, BucketEmpty, Collides
<1>4. ASSUME NEW i \in 1 .. Len(cache') - 1, NEW j \in 1 .. Len(cache') - 1, i # j
      PROVE  /\ cache'[i].by \notin Prefetchers /\ cache'[j].by \notin Prefetchers =>
                   Hash[cache'[i].name] # Hash[cache'[j].name]
             /\ cache'[i].by \in Prefetchers /\ cache'[j].by \in Prefetchers =>
                   cache'[i].req # cache'[j].req
  <2> DEFINE a == i + o
             b == j + o
  <2>1. /\ a \in 1 .. Len(cache) /\ b \in 1 .. Len(cache) /\ a # b
        /\ cache'[i] = cache[a] /\ cache'[j] = cache[b]
    BY <1>1, <1>4
  <2> HIDE DEF a, b
  <2> QED  BY <2>1 DEF EntriesCounted
<1>5. \A i \in 1 .. Len(cache') : i \in 1 .. Len(cache') - 1 \/ i = Len(cache')
  BY <1>1
<1>6. ASSUME NEW i \in 1 .. Len(cache'), cache'[i].by \in Prefetchers
      PROVE  cache'[i].req \in freed'
  BY <1>1, <1>2, <1>3, <1>5, <1>6
<1>7. ASSUME NEW i \in 1 .. Len(cache'), NEW j \in 1 .. Len(cache'), i # j
      PROVE  /\ cache'[i].by \notin Prefetchers /\ cache'[j].by \notin Prefetchers =>
                   Hash[cache'[i].name] # Hash[cache'[j].name]
             /\ cache'[i].by \in Prefetchers /\ cache'[j].by \in Prefetchers =>
                   cache'[i].req # cache'[j].req
  <2>1. CASE i \in 1 .. Len(cache') - 1 /\ j \in 1 .. Len(cache') - 1
    BY <1>4, <1>7, <2>1
  <2>2. CASE i \in 1 .. Len(cache') - 1 /\ j = Len(cache')
    BY <1>1, <1>2, <1>3, <2>2
  <2>3. CASE i = Len(cache') /\ j \in 1 .. Len(cache') - 1
    BY <1>1, <1>2, <1>3, <2>3
  <2> QED  BY <1>5, <1>7, <2>1, <2>2, <2>3
<1> QED  BY <1>6, <1>7 DEF EntriesCounted

\* Only two actions put an entry in, and nothing is taken back from freed.
LEMMA NextPutsOrNot ==
    ASSUME [Next]_vars
    PROVE  /\ freed \subseteq freed'
           /\ \/ cache' = cache
              \/ \E w \in Workers : StatFile(w)
              \/ \E p \in Prefetchers : PutGuess(p)
<1>1. CASE UNCHANGED vars
  BY <1>1 DEF vars
<1>2. ASSUME NEW d \in Dispatchers, Dispatch(d) PROVE UNCHANGED <<cache, freed>>
  BY <1>2 DEF Dispatch, Enqueue, EnqueueWoken, PutRequest, Fault
<1>3. ASSUME NEW w \in Workers, Work(w)
      PROVE  freed \subseteq freed' /\ (cache' = cache \/ StatFile(w))
  BY <1>3 DEF Work, WorkerCheck, LockQueue, LockQueueUnchecked, TakeRequest, ReadFile,
              StatFile, Reply, Offer, PutPrefetch, DrainCheck, DrainLog, Destroy, Fault
<1>4. ASSUME NEW p \in Prefetchers, Prefetch(p)
      PROVE  freed \subseteq freed' /\ (cache' = cache \/ PutGuess(p))
  BY <1>4 DEF Prefetch, PrefetchCheck, PrefetchLock, PrefetchWoken, TakePrefetch, GuessFails,
              GuessFile, StatGuess, PutGuess, StoreGuess, Destroy, Fault
<1>5. CASE Outside \/ JoinDispatchers \/ Return
  BY <1>5 DEF Outside, AcceptFails, Refuse, Accept, ChangeFile, SpuriousWakeup,
              JoinDispatchers, Return
<1> QED  BY <1>1, <1>2, <1>3, <1>4, <1>5 DEF Next

\* EntriesCounted is kept where every request is in one place.
LEMMA CountedStep ==
    ASSUME TypeInv, OnePlace, CacheInv, EntriesCounted, [Next]_vars
    PROVE  EntriesCounted'
<1>1. freed \subseteq freed' /\ cache \in Seq(Entry)
  BY NextPutsOrNot DEF TypeInv, TypeOK, DataTypes
<1>2. CASE cache' = cache
  BY <1>1, <1>2 DEF EntriesCounted
<1>3. ASSUME NEW w \in Workers, StatFile(w), cache' # cache PROVE EntriesCounted'
  <2> DEFINE fn == filename[hand[w]]
             e == NewEntry(w, fn, work[w].len, disk[fn])
  <2>1. cache' = PutEntry(cache, e) /\ pc[w] = "stat"
    BY <1>3 DEF StatFile
  <2>2. w \in Threads /\ w \notin Prefetchers /\ hand[w] \in Requests /\ fn \in Files
    BY <2>1, HandIsCreated, Kinds DEF Holding
  <2>3. work[w].len \in Nat /\ disk[fn] \in Sizes
    BY <2>2 DEF TypeInv, TypeOK, DataTypes, WorkType
  <2>4. BucketEmpty(fn)
    BY <2>1 DEF CacheInv, BundleRight
  <2> HIDE DEF fn
  <2>5. e \in Entry /\ e.by = w /\ e.name = fn
    BY <2>2, <2>3, NewEntryIsEntry DEF NewEntry
  <2> HIDE DEF e
  <2> QED  BY <1>1, <2>1, <2>2, <2>4, <2>5, PutKeepsCounted
<1>4. ASSUME NEW p \in Prefetchers, PutGuess(p), cache' # cache PROVE EntriesCounted'
  <2> DEFINE e == NewEntry(p, guess[p].name, guess[p].len, guess[p].size)
  <2>1. /\ pc[p] = "p_put" /\ cache' = PutEntry(cache, e) /\ guess[p].len # Absent
        /\ freed' = freed \cup {hand[p]}
    BY <1>4 DEF PutGuess, StoreGuess, Fault, Destroy
  <2>2. p \in Threads /\ p \notin Workers /\ hand[p] \in Requests
    BY <2>1, HandIsCreated, Kinds DEF Holding
  <2>3. guess[p].name \in Files /\ guess[p].len \in Nat /\ guess[p].size \in Sizes
    BY <2>1 DEF TypeInv, TypeOK, DataTypes, GuessNamed, GuessType, Sizes
  <2>4. e \in Entry /\ e.by = p /\ e.req = hand[p]
    BY <2>2, <2>3, NewEntryIsEntry DEF NewEntry
  <2>5. hand[p] \notin freed
    BY <2>2, Kinds DEF OnePlace, InHand
  <2> HIDE DEF e
  <2> QED  BY <1>1, <2>1, <2>2, <2>4, <2>5, PutKeepsCounted
<1> QED  BY <1>2, <1>3, <1>4, NextPutsOrNot

\* In the modes that unlink the request they pick, with any number of threads.
LEMMA CountedAlways == Mode # "SFF" /\ Spec => []EntriesCounted
<1>1. Init => EntriesCounted
  BY DEF Init, EntriesCounted
<1>2. Custody => OnePlace
  BY DEF Custody
<1> QED  BY <1>1, <1>2, CountedStep, TypeInvAlways, CustodyHolds, CacheInvAlways, PTL DEF Spec

\* Room in the cache for a request each prefetch thread may guess after, and for a file
\* in each bucket.
CacheHasRoom ==
    IsFiniteSet(Requests) /\ Cardinality(Requests) + Cardinality(Range(Hash)) < MaxCache

\* With so much room the cache is never full.
LEMMA NeverFull ==
    ASSUME TypeInv, EntriesCounted, CacheHasRoom
    PROVE  ~ Full(cache)
<1> DEFINE I == 1 .. Len(cache)
           P == {i \in I : cache[i].by \in Prefetchers}
           W == I \ P
           f == [i \in P |-> cache[i].req]
           g == [i \in W |-> Hash[cache[i].name]]
<1>1. /\ Len(cache) \in Nat /\ \A i \in I : cache[i].req \in Requests /\ cache[i].name \in Files
      /\ Hash \in [Files -> 0 .. MaxCache - 1] /\ MaxCache \in Nat
  <2>1. cache \in Seq(Entry)
    BY DEF TypeInv, TypeOK, DataTypes
  <2>2. Len(cache) \in Nat /\ \A i \in I : cache[i] \in Entry
    BY <2>1
  <2>3. \A x \in Entry : x.req \in Requests /\ x.name \in Files
    BY DEF Entry
  <2> QED  BY <2>2, <2>3, CacheAssumption DEF CacheAssumption
<1>2. f \in Injection(P, Requests)
  BY <1>1 DEF EntriesCounted, Injection, IsInjective
<1>3. g \in Injection(W, Range(Hash))
  <2>1. \A i \in W : Hash[cache[i].name] \in Range(Hash)
    BY <1>1 DEF Range
  <2>2. g \in [W -> Range(Hash)]
    BY <2>1
  <2>3. \A i, j \in W : g[i] = g[j] => i = j
    BY DEF EntriesCounted
  <2> HIDE DEF g, W
  <2> QED  BY <2>2, <2>3 DEF Injection, IsInjective
<1>4. IsFiniteSet(Range(Hash))
  <2>1. Range(Hash) \subseteq 0 .. MaxCache - 1 /\ MaxCache - 1 \in Int
    BY <1>1 DEF Range
  <2>2. IsFiniteSet(0 .. MaxCache - 1)
    BY <2>1, FS_Interval
  <2> QED  BY <2>1, <2>2, FS_Subset
<1>5. IsFiniteSet(I) /\ Cardinality(I) = Len(cache)
  <2> DEFINE n == Len(cache)
  <2>1. n \in Int /\ 1 \in Int /\ n >= 0
    BY <1>1
  <2> HIDE DEF n
  <2>2. IsFiniteSet(1 .. n) /\ Cardinality(1 .. n) = IF 1 > n THEN 0 ELSE n - 1 + 1
    BY <2>1, FS_Interval
  <2>3. (IF 1 > n THEN 0 ELSE n - 1 + 1) = n
    BY <2>1
  <2> QED  BY <2>2, <2>3 DEF n
<1>6. IsFiniteSet(P) /\ IsFiniteSet(W) /\ P \cup W = I /\ P \cap W = {}
  <2>1. P \in SUBSET I /\ W \in SUBSET I /\ P \cup W = I /\ P \cap W = {}
    OBVIOUS
  <2> HIDE DEF I, P, W
  <2> QED  BY <1>5, <2>1, FS_Subset
<1> HIDE DEF I, P, W, f, g
<1>7. Cardinality(I) = Cardinality(P) + Cardinality(W)
  <2>1. Cardinality(P \cup W) = Cardinality(P) + Cardinality(W) - Cardinality(P \cap W)
    BY <1>6, FS_Union
  <2>2. Cardinality(P \cap W) = 0 /\ Cardinality(P) \in Nat /\ Cardinality(W) \in Nat
    BY <1>6, FS_EmptySet, FS_CardinalityType
  <2> QED  BY <1>6, <2>1, <2>2
<1>8. Cardinality(P) <= Cardinality(Requests) /\ Cardinality(W) <= Cardinality(Range(Hash))
  BY <1>2, <1>3, <1>4, FS_Injection DEF CacheHasRoom
<1>9. /\ Cardinality(P) \in Nat /\ Cardinality(W) \in Nat /\ Cardinality(Requests) \in Nat
      /\ Cardinality(Range(Hash)) \in Nat
  BY <1>4, <1>6, FS_CardinalityType DEF CacheHasRoom
<1> QED  BY <1>1, <1>5, <1>7, <1>8, <1>9 DEF Full, CacheHasRoom
-----------------------------------------------------------------------------
(* When nothing goes wrong *)

\* No two threads of a kind.
OneOfEach == \A K \in {Dispatchers, Workers, Prefetchers} : \A t, u \in K : t = u

\* Every file has something in it, and those guess_next comes up with are there.
TreesAreFull ==
    \A tree \in Trees :
        /\ \A f \in Files : tree[f] # 0
        /\ \A g \in Guesses : tree[g] # Absent

\* What the server relies on and does not see to itself: no more than one thread of each
\* kind and no wakeup without a signal, as no condition is tested twice; a mode that
\* unlinks the request it picks; names with a dot; and without prefetch threads any cache,
\* but with them one that does not fill up.
Favourable ==
    /\ OneOfEach /\ ~ Spurious /\ Mode # "SFF"
    /\ TreesAreFull /\ NoExtension = {} /\ ~ LogAsserts
    /\ Prefetchers = {} \/ CacheHasRoom

FilesThere ==
    /\ \A f \in Files : disk[f] # 0
    /\ \A g \in Guesses : disk[g] # Absent
    /\ \A p \in Prefetchers : pc[p] \in {"p_stat", "p_put"} => guess[p].len # Absent

\* A dispatcher finds room in the queue, and room was made for one that was woken.
RoomThere ==
    /\ Len(queue) <= MaxQueue
    /\ \A d \in Dispatchers : pc[d] = "woken_put" => Len(queue) < MaxQueue

\* A thread that goes for a request finds one.
RequestsThere ==
    /\ \A w \in Workers : pc[w] \in {"woken_get", "lock_cache", "drain_lock"} => queue # <<>>
    /\ \A p \in Prefetchers : pc[p] = "p_woken" => prefetch # <<>>

\* The entry a worker writes to the log about after it unlocked the cache.
EntryThere ==
    \A w \in Workers :
        pc[w] = "drain_log" /\ work[w].err = "none" => work[w].ent \in Range(cache)

AllThere == FilesThere /\ RoomThere /\ RequestsThere /\ EntryThere

\* The points that AllThere speaks of.
Relying == {"woken_put", "woken_get", "lock_cache", "drain_lock", "p_woken"}

\* A thread that goes where nothing is relied on, and leaves the queues alone.
LEMMA GoingKeepsQueues ==
    ASSUME TypeInv, RoomThere, RequestsThere, UNCHANGED <<queue, prefetch>>,
           pc' = pc \/ \E t \in Threads : \E l : l \notin Relying /\ Go(t, l)
    PROVE  RoomThere' /\ RequestsThere'
<1>1. /\ pc \in [Threads -> Labels]
      /\ \A t \in Dispatchers \cup Workers \cup Prefetchers : t \in Threads
  BY Kinds DEF TypeInv, TypeOK, ThreadTypes
<1>2. \A t \in Threads : pc'[t] = pc[t] \/ pc'[t] \notin Relying
  BY <1>1 DEF Go
<1>3. \A d \in Dispatchers : pc'[d] = "woken_put" => pc[d] = "woken_put"
  BY <1>1, <1>2 DEF Relying
<1>4. \A w \in Workers : pc'[w] \in {"woken_get", "lock_cache", "drain_lock"} => pc'[w] = pc[w]
  BY <1>1, <1>2 DEF Relying
<1>5. \A p \in Prefetchers : pc'[p] = "p_woken" => pc[p] = "p_woken"
  BY <1>1, <1>2 DEF Relying
<1> QED  BY <1>3, <1>4, <1>5 DEF RoomThere, RequestsThere

\* The dispatcher: it appends where there is room, and wakes the worker.
LEMMA DispatchKeepsQueues ==
    ASSUME TypeInv, OneOfEach, RoomThere, RequestsThere, NEW d \in Dispatchers, Dispatch(d)
    PROVE  RoomThere' /\ RequestsThere' /\ fault' = fault
<1>1. /\ d \in Threads /\ pc \in [Threads -> Labels] /\ queue \in Seq(Requests)
      /\ MaxQueue \in Nat
  BY Kinds, ServerAssumption DEF ServerAssumption, TypeInv, TypeOK, ThreadTypes, DataTypes
<1>2. ASSUME pc[d] \in {"enqueue", "woken_put"}, PutRequest(d), Len(queue) < MaxQueue
      PROVE  RoomThere' /\ RequestsThere' /\ fault' = fault
  <2>1. hand[d] \in Requests
    BY <1>1, <1>2, HandIsCreated DEF Holding
  <2>2. queue' # <<>> /\ Len(queue') <= MaxQueue /\ UNCHANGED <<prefetch, fault>>
    BY <1>1, <1>2, <2>1 DEF PutRequest
  <2>3. Moves(d, "accept") /\ "accept" \in LabelsOf(d)
    BY <1>1, <1>2, SignalMoves, Kinds DEF PutRequest
  <2>4. \A e \in Dispatchers : pc'[e] = "accept"
    <3>1. pc'[d] = "accept"
      BY <1>1, <2>3, MovePc DEF TypeInv
    <3> QED  BY <3>1 DEF OneOfEach
  <2>5. ASSUME NEW p \in Prefetchers, pc'[p] = "p_woken" PROVE pc[p] = "p_woken"
    <3>1. PICK S \in Signal("wait_get") : GoWaking(d, "accept", S)
      BY <1>2 DEF PutRequest
    <3>2. Go(d, "accept") \/ \E u \in At("wait_get") :
              pc' = [pc EXCEPT ![u] = WokenAt["wait_get"], ![d] = "accept"]
      BY <1>1, <3>1, SignalWakes
    <3>3. WokenAt["wait_get"] = "woken_get" /\ p \in Threads
      BY Kinds DEF WokenAt
    <3> QED  BY <1>1, <2>5, <3>2, <3>3 DEF Go, At
  <2> QED  BY <2>2, <2>4, <2>5 DEF RoomThere, RequestsThere
<1>3. CASE Enqueue(d)
  <2>1. ~ (Len(queue) > MaxQueue)
    BY <1>1 DEF RoomThere
  <2>2. CASE Go(d, "wait_put") /\ UNCHANGED <<queue, prefetch, fault>>
    BY <1>1, <2>2, GoingKeepsQueues DEF Relying
  <2> QED  BY <1>2, <1>3, <2>1, <2>2 DEF Enqueue
<1>4. CASE EnqueueWoken(d)
  BY <1>2, <1>4 DEF EnqueueWoken, RoomThere
<1> QED  BY <1>3, <1>4 DEF Dispatch

\* The worker: it takes a request only where one is there.
LEMMA WorkKeepsQueues ==
    ASSUME TypeInv, OneOfEach, RoomThere, RequestsThere, Mode # "SFF",
           NEW w \in Workers, Work(w)
    PROVE  RoomThere' /\ RequestsThere'
<1>1. /\ w \in Threads /\ pc \in [Threads -> Labels] /\ queue \in Seq(Requests)
      /\ prefetch \in Seq(Requests) /\ hand \in [Threads -> Requests \cup {Null}]
      /\ \A u \in Workers : u = w
      /\ w \notin Dispatchers \cup Prefetchers
      /\ \A t \in Dispatchers \cup Prefetchers : t \in Threads
  BY Kinds DEF OneOfEach, TypeInv, TypeOK, ThreadTypes, DataTypes
<1>2. ASSUME NEW kind, Fault(kind) PROVE RoomThere' /\ RequestsThere'
  BY <1>2, GoingKeepsQueues DEF Fault
<1>3. ASSUME pc' = pc \/ \E l : l \notin Relying /\ Go(w, l), UNCHANGED <<queue, prefetch>>
      PROVE  RoomThere' /\ RequestsThere'
  BY <1>1, <1>3, GoingKeepsQueues
<1>4. ASSUME NEW l \in {"lock_cache", "drain_lock"}, Go(w, l), queue # <<>>,
             UNCHANGED <<queue, prefetch>>
      PROVE  RoomThere' /\ RequestsThere'
  BY <1>1, <1>4 DEF Go, RoomThere, RequestsThere
<1>5. CASE WorkerCheck(w) \/ ReadFile(w) \/ StatFile(w) \/ Reply(w) \/ Offer(w)
  BY <1>3, <1>5 DEF WorkerCheck, ReadFile, StatFile, Reply, Offer, Destroy, Relying
<1>6. CASE LockQueue(w)
  BY <1>3, <1>4, <1>6 DEF LockQueue, Relying
<1>7. CASE LockQueueUnchecked(w)
  BY <1>4, <1>7 DEF LockQueueUnchecked, RequestsThere
<1>8. CASE DrainCheck(w)
  BY <1>3, <1>4, <1>8 DEF DrainCheck, Relying
<1>9. CASE DrainLog(w)
  BY <1>2, <1>3, <1>9 DEF DrainLog, Destroy, Relying
<1>10. CASE TakeRequest(w)
  <2>1. queue # <<>> /\ pc[w] = "lock_cache"
    BY <1>10 DEF TakeRequest, RequestsThere
  <2>2. Len(queue') = Len(queue) - 1 /\ UNCHANGED prefetch
    BY <1>10, <2>1, TakenLength DEF TakeRequest
  <2>3. Go(w, "read") \/ \E S \in Signal("wait_put") : GoWaking(w, "read", S)
    BY <1>10, <2>1 DEF TakeRequest
  <2>4. Go(w, "read") \/ \E u \in At("wait_put") :
            pc' = [pc EXCEPT ![u] = WokenAt["wait_put"], ![w] = "read"]
    BY <1>1, <2>3, SignalWakes
  <2>5. pc'[w] = "read" /\ \A p \in Prefetchers : pc'[p] = "p_woken" => pc[p] = "p_woken"
    BY <1>1, <2>4 DEF Go, At, WokenAt
  <2>6. Len(queue) \in Nat /\ Len(queue') \in Nat /\ MaxQueue \in Nat
    BY <1>1, <2>1, <2>2, ServerAssumption DEF ServerAssumption
  <2>7. RoomThere'
    BY <2>2, <2>6 DEF RoomThere
  <2>8. RequestsThere'
    BY <1>1, <2>2, <2>5 DEF RequestsThere
  <2> QED  BY <2>7, <2>8
<1>11. CASE PutPrefetch(w)
  <2>1. CASE Fault("list_corrupt")
    BY <1>2, <2>1
  <2>2. CASE ~ Fault("list_corrupt")
    <3>1. hand[w] \in Requests
      BY <1>1, <1>11, HandIsCreated DEF PutPrefetch, Holding
    <3>2. prefetch' # <<>> /\ UNCHANGED queue
      BY <1>1, <1>11, <2>2, <3>1 DEF PutPrefetch
    <3>3. \E S \in Signal("p_wait") : GoWaking(w, "check", S)
      BY <1>11, <2>2 DEF PutPrefetch
    <3>4. Go(w, "check") \/ \E u \in At("p_wait") :
              pc' = [pc EXCEPT ![u] = WokenAt["p_wait"], ![w] = "check"]
      BY <1>1, <3>3, SignalWakes
    <3>5. pc'[w] = "check" /\ \A d \in Dispatchers : pc'[d] = "woken_put" => pc[d] = "woken_put"
      BY <1>1, <3>4 DEF Go, At, WokenAt
    <3> QED  BY <1>1, <3>2, <3>5 DEF RoomThere, RequestsThere
  <2> QED  BY <2>1, <2>2
<1> QED  BY <1>5, <1>6, <1>7, <1>8, <1>9, <1>10, <1>11 DEF Work

\* Nobody else makes a queue shorter but the prefetch thread, which is then busy.
LEMMA NextKeepsQueues ==
    ASSUME TypeInv, Favourable, RoomThere, RequestsThere, [Next]_vars
    PROVE  RoomThere' /\ RequestsThere'
<1>1. ASSUME NEW kind, Fault(kind) PROVE RoomThere' /\ RequestsThere'
  BY <1>1, GoingKeepsQueues DEF Fault
<1>2. ASSUME NEW t \in Threads, pc' = pc \/ \E l : l \notin Relying /\ Go(t, l),
             UNCHANGED <<queue, prefetch>>
      PROVE  RoomThere' /\ RequestsThere'
  BY <1>2, GoingKeepsQueues
<1>3. CASE UNCHANGED vars
  BY <1>3, GoingKeepsQueues DEF vars
<1>4. ASSUME NEW p \in Prefetchers, Prefetch(p) PROVE RoomThere' /\ RequestsThere'
  <2>1. p \in Threads /\ pc \in [Threads -> Labels] /\ \A q \in Prefetchers : q = p
    BY Kinds DEF Favourable, OneOfEach, TypeInv, TypeOK, ThreadTypes
  <2>2. CASE TakePrefetch(p)
    <3>1. /\ \A d \in Dispatchers : d # p /\ pc'[d] = pc[d]
          /\ \A w \in Workers : w # p /\ pc'[w] = pc[w]
          /\ \A q \in Prefetchers : pc'[q] = "p_guess"
      BY <2>1, <2>2, Kinds DEF TakePrefetch, Go
    <3> QED  BY <2>2, <3>1 DEF TakePrefetch, RoomThere, RequestsThere
  <2>3. CASE PrefetchLock(p) \/ PrefetchWoken(p)
    BY <1>1, <1>2, <2>1, <2>2, <2>3 DEF PrefetchLock, PrefetchWoken, Relying
  <2>4. CASE PutGuess(p) \/ \E g \in Guesses : GuessFile(p, g)
    BY <1>1, <1>2, <2>1, <2>4 DEF PutGuess, StoreGuess, GuessFile, Destroy, Relying
  <2>5. CASE PrefetchCheck(p) \/ StatGuess(p) \/ GuessFails(p)
    BY <1>2, <2>1, <2>5 DEF PrefetchCheck, StatGuess, GuessFails, Destroy, Relying
  <2> QED  BY <1>4, <2>3, <2>4, <2>5 DEF Prefetch
<1>5. CASE Outside
  <2>1. \A d \in Dispatchers : d \in Threads
    BY Kinds
  <2> QED  BY <1>2, <1>5, <2>1, GoingKeepsQueues
        DEF Outside, AcceptFails, Refuse, Accept, ChangeFile, SpuriousWakeup, threadVars,
            Favourable, Relying
<1>6. CASE JoinDispatchers \/ Return
  BY <1>6, GoingKeepsQueues DEF JoinDispatchers, Return
<1> QED  BY <1>3, <1>4, <1>5, <1>6, DispatchKeepsQueues, WorkKeepsQueues DEF Next, Favourable

\* What the cache never drops: an entry that is chained, and with prefetch threads any.
LEMMA NothingBreaks ==
    ASSUME TypeInv, CacheInv, EntriesCounted, Favourable
    PROVE  ~ EvictsChained(cache) /\ (Prefetchers # {} => ~ Full(cache))
<1>1. CASE Prefetchers # {}
  BY <1>1, NeverFull DEF Favourable, EvictsChained
<1>2. CASE Prefetchers = {}
  <2> SUFFICES ASSUME Full(cache), Head(cache).chained PROVE FALSE
    BY <1>2 DEF EvictsChained
  <2>1. cache \in Seq(Entry) /\ Len(cache) = MaxCache /\ MaxCache \in Nat \ {0}
    BY CacheAssumption DEF CacheAssumption, Full, TypeInv, TypeOK, DataTypes
  <2>2. Head(cache) = cache[1] /\ 1 \in DOMAIN cache
    BY <2>1
  <2> QED  BY <1>2, <2>2 DEF CacheInv, WorkersNeverChain
<1> QED  BY <1>1, <1>2

\* A thread's own step: nobody comes to a place where a file was guessed.
LEMMA StepsGuessNothing ==
    ASSUME TypeInv, NEW t \in Dispatchers \cup Workers, Dispatch(t) \/ Work(t),
           t \in Dispatchers => Dispatch(t), t \in Workers => Work(t)
    PROVE  /\ UNCHANGED <<disk, guess>>
           /\ pc' = pc \/ \E l \in LabelsOf(t) : Moves(t, l)
<1>1. t \in Threads /\ TypeOK
  BY Kinds DEF TypeInv
<1>2. ASSUME NEW l \in LabelsOf(t), Go(t, l) PROVE \E k \in LabelsOf(t) : Moves(t, k)
  BY <1>1, <1>2, GoMoves
<1>3. CASE t \in Dispatchers
  <2>1. {"accept", "wait_put"} \subseteq LabelsOf(t)
    BY <1>3, Kinds
  <2>2. ASSUME PutRequest(t) PROVE Moves(t, "accept") /\ UNCHANGED <<disk, guess>>
    BY <1>1, <2>2, SignalMoves DEF PutRequest, fileVars
  <2> QED  BY <1>2, <1>3, <2>1, <2>2 DEF Dispatch, Enqueue, EnqueueWoken, Fault, fileVars
<1>4. CASE t \in Workers
  <2>1. LabelsOf(t) = {"check", "lock_queue", "wait_get", "woken_get", "lock_cache", "read",
            "stat", "reply", "offer", "put_prefetch", "drain_check", "drain_lock",
            "drain_log", "exited"}
    BY <1>4, Kinds
  <2>2. CASE TakeRequest(t)
    <3>1. pc' = pc \/ Go(t, "read") \/ \E S \in Signal("wait_put") : GoWaking(t, "read", S)
      BY <2>2 DEF TakeRequest, Fault
    <3>2. UNCHANGED <<disk, guess>>
      BY <2>2 DEF TakeRequest, Fault, fileVars
    <3> QED  BY <1>1, <1>2, <2>1, <3>1, <3>2, SignalMoves
  <2>3. CASE PutPrefetch(t)
    <3>1. pc' = pc \/ \E S \in Signal("p_wait") : GoWaking(t, "check", S)
      BY <2>3 DEF PutPrefetch, Fault
    <3>2. UNCHANGED <<disk, guess>>
      BY <2>3 DEF PutPrefetch, Fault, fileVars
    <3> QED  BY <1>1, <2>1, <3>1, <3>2, SignalMoves
  <2>4. CASE WorkerCheck(t) \/ LockQueue(t) \/ LockQueueUnchecked(t) \/ DrainCheck(t)
    BY <1>2, <2>1, <2>4 DEF WorkerCheck, LockQueue, LockQueueUnchecked, DrainCheck, fileVars
  <2>5. CASE ReadFile(t) \/ StatFile(t) \/ Reply(t) \/ Offer(t) \/ DrainLog(t)
    BY <1>2, <2>1, <2>5 DEF ReadFile, StatFile, Reply, Offer, DrainLog, Destroy, Fault, fileVars
  <2> QED  BY <1>4, <2>2, <2>3, <2>4, <2>5 DEF Work
<1> QED  BY <1>3, <1>4

\* So what was guessed stays right.
LEMMA FilesStillThere ==
    ASSUME TypeInv, FilesThere, UNCHANGED <<disk, guess>>, NEW t \in Threads \ Prefetchers,
           pc' = pc \/ \E l \in LabelsOf(t) : Moves(t, l)
    PROVE  FilesThere' /\ \A u \in Threads \ {t} : pc'[u] = "drain_log" => pc[u] = "drain_log"
<1>1. \A p \in Prefetchers : p \in Threads /\ p # t
  BY Kinds
<1>2. \A u \in Threads \ {t} :
          pc'[u] \in {"p_stat", "p_put", "drain_log"} => pc'[u] = pc[u]
  BY MovePc DEF TypeInv
<1> QED  BY <1>1, <1>2 DEF FilesThere

\* The worker goes through.
LEMMA WorkGoesRight ==
    ASSUME TypeInv, Favourable, OnePlace, CacheInv, AllThere, ~ EvictsChained(cache),
           fault = "none", NEW w \in Workers, Work(w)
    PROVE  FilesThere' /\ EntryThere' /\ fault' = "none"
<1>1. /\ w \in Threads /\ w \notin Prefetchers /\ pc \in [Threads -> Labels]
      /\ \A u \in Workers : u = w
      /\ DOMAIN work = Workers
      /\ ~ LogAsserts /\ NoExtension = {}
  BY Kinds DEF Favourable, OneOfEach, TypeInv, TypeOK, ThreadTypes, DataTypes
<1>2. FilesThere'
  <2>1. w \notin Dispatchers
    BY Kinds
  <2> QED  BY <1>1, <2>1, StepsGuessNothing, FilesStillThere DEF AllThere
<1>3. ASSUME pc[w] \in Holding PROVE hand[w] \in Requests /\ filename[hand[w]] \in Files
                                     /\ ~ StillQueued(hand[w])
  <2>1. hand[w] \in Requests /\ filename[hand[w]] \in Files
    BY <1>1, <1>3, HandIsCreated
  <2>2. hand[w] \in InHand
    BY <1>1, <2>1, Kinds DEF InHand
  <2> QED  BY <2>1, <2>2 DEF OnePlace, StillQueued
<1>4. ASSUME NEW l, Go(w, l), l # "drain_log" PROVE EntryThere'
  BY <1>1, <1>4 DEF Go, EntryThere
<1>5. ASSUME fault' = fault PROVE fault' = "none"
  BY <1>5
<1>6. CASE WorkerCheck(w) \/ LockQueue(w) \/ LockQueueUnchecked(w) \/ DrainCheck(w)
  BY <1>2, <1>4, <1>6 DEF WorkerCheck, LockQueue, LockQueueUnchecked, DrainCheck
<1>7. CASE TakeRequest(w)
  <2>1. queue # <<>>
    BY <1>7 DEF TakeRequest, AllThere, RequestsThere
  <2>2. Go(w, "read") \/ \E S \in Signal("wait_put") : GoWaking(w, "read", S)
    BY <1>7, <2>1 DEF TakeRequest
  <2>3. pc'[w] = "read"
    BY <1>1, <2>2 DEF Go, GoWaking
  <2> QED  BY <1>1, <1>2, <1>7, <2>1, <2>3 DEF TakeRequest, EntryThere
<1>8. CASE ReadFile(w)
  <2>1. filename[hand[w]] \in Files
    BY <1>3, <1>8 DEF ReadFile, Holding
  <2>2. disk[filename[hand[w]]] # 0
    BY <2>1 DEF AllThere, FilesThere
  <2> QED  BY <1>2, <1>4, <1>8, <2>2 DEF ReadFile
<1>9. CASE StatFile(w)
  BY <1>2, <1>4, <1>9 DEF StatFile
<1>10. CASE Reply(w)
  <2>1. ~ ReplyFaults(w) /\ ~ LogFaults(w)
    BY <1>1 DEF ReplyFaults, LogFaults
  <2>2. CASE w \in draining
    <3>1. pc[w] = "reply" /\ UNCHANGED <<work, cache, fault>>
      BY <1>10, <2>1, <2>2 DEF Reply
    <3>2. work[w].err = "none" => work[w].ent \in Range(cache)
      BY <3>1 DEF CacheInv, BundleRight, HasEntry
    <3> QED  BY <1>1, <1>2, <3>1, <3>2 DEF EntryThere
  <2>3. CASE w \notin draining
    BY <1>2, <1>4, <1>10, <2>1, <2>3 DEF Reply
  <2> QED  BY <2>2, <2>3
<1>11. CASE Offer(w)
  BY <1>2, <1>3, <1>4, <1>11 DEF Offer, Destroy, Holding
<1>12. CASE PutPrefetch(w)
  <2>1. ~ StillQueued(hand[w])
    BY <1>3, <1>12 DEF PutPrefetch, Holding
  <2>2. \E S \in Signal("p_wait") : GoWaking(w, "check", S)
    BY <1>12, <2>1 DEF PutPrefetch
  <2>3. pc'[w] = "check"
    BY <1>1, <2>2 DEF GoWaking
  <2> QED  BY <1>1, <1>2, <1>12, <2>1, <2>3 DEF PutPrefetch, EntryThere
<1>13. CASE DrainLog(w)
  <2>1. ~ StillQueued(hand[w])
    BY <1>3, <1>13 DEF DrainLog, Holding
  <2>2. ~ LogFaults(w)
    BY <1>1 DEF LogFaults
  <2>3. work[w].err # "none" \/ work[w].ent \in Range(cache)
    BY <1>13 DEF DrainLog, AllThere, EntryThere
  <2>4. Go(w, "drain_check") /\ fault' = fault
    BY <1>13, <2>1, <2>2, <2>3 DEF DrainLog, Destroy
  <2> QED  BY <1>2, <1>4, <2>4
<1> QED  BY <1>6, <1>7, <1>8, <1>9, <1>10, <1>11, <1>12, <1>13 DEF Work

\* The prefetch thread goes through.
LEMMA PrefetchGoesRight ==
    ASSUME TypeInv, Favourable, AllThere, ~ Full(cache), fault = "none",
           NEW p \in Prefetchers, Prefetch(p)
    PROVE  FilesThere' /\ EntryThere' /\ fault' = "none"
<1>1. /\ p \in Threads /\ p \notin Workers /\ pc \in [Threads -> Labels]
      /\ \A q \in Prefetchers : q = p
      /\ \A w \in Workers : w \in Threads /\ w # p
      /\ Guesses \subseteq Files /\ guess \in [Prefetchers -> GuessType]
      /\ cache \in Seq(Entry)
  BY Kinds, ServerAssumption
     DEF ServerAssumption, Favourable, OneOfEach, TypeInv, TypeOK, ThreadTypes, DataTypes
<1>2. ASSUME NEW l, Go(p, l) PROVE \A w \in Workers : pc'[w] = pc[w]
  BY <1>1, <1>2 DEF Go
<1>3. ASSUME NEW l, Go(p, l), UNCHANGED <<work, cache>> PROVE EntryThere'
  BY <1>2, <1>3 DEF AllThere, EntryThere
<1>4. ASSUME NEW l, Go(p, l), l \notin {"p_stat", "p_put"}, UNCHANGED disk PROVE FilesThere'
  <2>1. pc'[p] = l
    BY <1>1, <1>4 DEF Go
  <2> QED  BY <1>1, <1>4, <2>1 DEF AllThere, FilesThere
<1>5. CASE PrefetchCheck(p) \/ GuessFails(p)
  BY <1>3, <1>4, <1>5 DEF PrefetchCheck, GuessFails, Destroy, fileVars
<1>6. CASE PrefetchLock(p) \/ PrefetchWoken(p)
  <2>1. ASSUME TakePrefetch(p) PROVE FilesThere' /\ EntryThere' /\ fault' = "none"
    BY <1>3, <1>4, <2>1 DEF TakePrefetch, fileVars
  <2>2. CASE PrefetchLock(p)
    BY <1>3, <1>4, <2>1, <2>2 DEF PrefetchLock, fileVars
  <2>3. CASE PrefetchWoken(p)
    BY <2>1, <2>3 DEF PrefetchWoken, AllThere, RequestsThere
  <2> QED  BY <1>6, <2>2, <2>3
<1>7. ASSUME NEW g \in Guesses, GuessFile(p, g) PROVE FilesThere' /\ EntryThere' /\ fault' = "none"
  <2>1. disk[g] # 0 /\ disk[g] # Absent
    BY <1>1 DEF AllThere, FilesThere
  <2>2. Go(p, "p_stat") /\ UNCHANGED <<work, cache, disk, fault>> /\ guess'[p].len = disk[g]
    BY <1>1, <1>7, <2>1 DEF GuessFile, fileVars
  <2>3. FilesThere'
    BY <1>1, <2>1, <2>2 DEF AllThere, FilesThere
  <2> QED  BY <1>3, <2>2, <2>3
<1>8. CASE StatGuess(p)
  <2>1. /\ Go(p, "p_put") /\ UNCHANGED <<work, cache, disk, fault>> /\ pc[p] = "p_stat"
        /\ guess'[p].len = guess[p].len
    BY <1>1, <1>8 DEF StatGuess, fileVars, GuessType
  <2>2. FilesThere'
    BY <1>1, <2>1 DEF AllThere, FilesThere
  <2> QED  BY <1>3, <2>1, <2>2
<1>9. CASE PutGuess(p)
  <2> DEFINE e == NewEntry(p, guess[p].name, guess[p].len, guess[p].size)
  <2>1. guess[p].len # Absent /\ ~ EvictsChained(cache)
    BY <1>9 DEF PutGuess, AllThere, FilesThere, EvictsChained
  <2>2. /\ cache' = PutEntry(cache, e) /\ Go(p, "p_check")
        /\ UNCHANGED <<work, disk, fault>>
    BY <1>9, <2>1 DEF PutGuess, StoreGuess, Destroy, fileVars
  <2>3. PutEntry(cache, e) = Append(cache, Linked(cache, e))
    BY DEF PutEntry, MakeRoom
  <2>4. Range(cache) \subseteq Range(cache')
    <3> DEFINE x == Linked(cache, e)
    <3>1. cache' = Append(cache, x)
      BY <2>2, <2>3
    <3> HIDE DEF x
    <3>2. /\ DOMAIN cache = 1 .. Len(cache) /\ DOMAIN Append(cache, x) = 1 .. Len(cache) + 1
          /\ \A i \in 1 .. Len(cache) : Append(cache, x)[i] = cache[i] /\ i \in 1 .. Len(cache) + 1
      BY <1>1
    <3> QED  BY <3>1, <3>2 DEF Range
  <2>5. EntryThere'
    BY <1>2, <2>2, <2>4 DEF AllThere, EntryThere
  <2> QED  BY <1>4, <2>2, <2>5
<1> QED  BY <1>5, <1>6, <1>7, <1>8, <1>9 DEF Prefetch, PrefetchCheck, GuessFails

\* Nothing goes wrong in a step.
LEMMA AllStaysRight ==
    ASSUME TypeInv, Favourable, OnePlace, CacheInv, EntriesCounted, AllThere, NoFault,
           [Next]_vars
    PROVE  AllThere' /\ NoFault'
<1>1. RoomThere' /\ RequestsThere'
  BY NextKeepsQueues DEF AllThere
<1>2. ~ EvictsChained(cache) /\ (Prefetchers # {} => ~ Full(cache)) /\ fault = "none"
  BY NothingBreaks DEF NoFault
<1>3. /\ pc \in [Threads -> Labels] /\ TypeOK
      /\ \A w \in Workers : w \in Threads
  BY Kinds DEF TypeInv, TypeOK, ThreadTypes
<1>4. ASSUME UNCHANGED <<pc, guess, disk, work, cache>> PROVE FilesThere' /\ EntryThere'
  BY <1>4 DEF AllThere, FilesThere, EntryThere
<1>5. ASSUME NEW d \in Dispatchers, UNCHANGED <<guess, disk, work, cache>>,
             pc' = pc \/ \E l \in LabelsOf(d) : Moves(d, l)
      PROVE  FilesThere' /\ EntryThere'
  <2>1. d \in Threads \ Prefetchers /\ \A w \in Workers : w # d
    BY Kinds
  <2> QED  BY <1>3, <1>5, <2>1, FilesStillThere DEF AllThere, EntryThere
<1>6. ASSUME NEW d \in Dispatchers, Dispatch(d) PROVE FilesThere' /\ EntryThere' /\ fault' = "none"
  <2>1. UNCHANGED <<work, cache>>
    BY <1>6 DEF Dispatch, Enqueue, EnqueueWoken, PutRequest, Fault
  <2>2. fault' = fault
    BY <1>6, DispatchKeepsQueues DEF AllThere, Favourable
  <2>3. d \notin Workers
    BY Kinds
  <2> QED  BY <1>2, <1>5, <1>6, <2>1, <2>2, <2>3, StepsGuessNothing
<1>7. CASE Outside
  <2>1. ASSUME NEW d \in Dispatchers, NEW l \in LabelsOf(d), Go(d, l)
        PROVE  \E k \in LabelsOf(d) : Moves(d, k)
    BY <1>3, <2>1, GoMoves, Kinds
  <2>2. ASSUME NEW d \in Dispatchers, AcceptFails(d) PROVE FilesThere' /\ EntryThere'
    BY <1>5, <2>1, <2>2, Kinds DEF AcceptFails, fileVars
  <2>3. ASSUME NEW d \in Dispatchers, NEW r \in Requests, NEW f \in Files, Accept(d, r, f)
        PROVE  FilesThere' /\ EntryThere'
    BY <1>5, <2>1, <2>3, Kinds DEF Accept, fileVars
  <2>4. ASSUME NEW d \in Dispatchers, NEW r \in Requests, Refuse(d, r)
        PROVE  FilesThere' /\ EntryThere'
    BY <1>4, <2>4 DEF Refuse, threadVars, fileVars
  <2>5. ASSUME NEW f \in Files, ChangeFile(f) PROVE FilesThere' /\ EntryThere'
    <3>1. /\ disk' \in [Files -> Sizes]
          /\ \A g \in Files : disk'[g] = disk[g] \/ \E tree \in Trees : disk'[g] = tree[g]
      <4>1. PICK tree \in Trees : disk' = [disk EXCEPT ![f] = tree[f]]
        BY <2>5 DEF ChangeFile
      <4>2. tree \in [Files -> Sizes] /\ disk \in [Files -> Sizes]
        BY <1>3, ServerAssumption DEF ServerAssumption, TypeOK, DataTypes
      <4> QED  BY <4>1, <4>2
    <3>2. \A g \in Files : disk'[g] # 0 /\ (g \in Guesses => disk'[g] # Absent)
      BY <3>1 DEF AllThere, FilesThere, Favourable, TreesAreFull
    <3>3. UNCHANGED <<pc, guess, work, cache>>
      BY <2>5 DEF ChangeFile, threadVars
    <3>4. Guesses \subseteq Files
      BY ServerAssumption DEF ServerAssumption
    <3> QED  BY <3>2, <3>3, <3>4 DEF AllThere, FilesThere, EntryThere
  <2>6. fault' = fault
    BY <1>7 DEF Outside, AcceptFails, Accept, Refuse, ChangeFile, SpuriousWakeup, Favourable
  <2> QED  BY <1>1, <1>2, <1>7, <2>2, <2>3, <2>4, <2>5, <2>6
           DEF Outside, SpuriousWakeup, Favourable, AllThere, NoFault
<1>8. CASE JoinDispatchers \/ Return
  BY <1>1, <1>2, <1>4, <1>8 DEF JoinDispatchers, Return, fileVars, AllThere, NoFault
<1>9. CASE UNCHANGED vars
  BY <1>1, <1>2, <1>4, <1>9 DEF vars, AllThere, NoFault
<1>10. ASSUME NEW p \in Prefetchers, Prefetch(p) PROVE AllThere' /\ NoFault'
  BY <1>1, <1>2, <1>10, PrefetchGoesRight DEF AllThere, NoFault
<1>11. ASSUME NEW w \in Workers, Work(w) PROVE AllThere' /\ NoFault'
  BY <1>1, <1>2, <1>11, WorkGoesRight DEF AllThere, NoFault
<1> QED  BY <1>1, <1>2, <1>6, <1>7, <1>8, <1>9, <1>10, <1>11 DEF Next, AllThere, NoFault

\* With one thread of each kind, in the modes that unlink what they pick, over files that
\* are not empty and have a dot in their names, and with a cache that no prefetch thread
\* can fill up, the server never reaches an assertion, a null pointer or freed memory.
THEOREM NoFaultHolds == Favourable /\ Spec => []NoFault
<1> SUFFICES ASSUME Favourable PROVE Spec => []NoFault
  OBVIOUS
<1>1. Mode # "SFF"
  BY DEF Favourable
<1>2. Init => AllThere /\ NoFault
  <2> SUFFICES ASSUME Init PROVE AllThere /\ NoFault
    OBVIOUS
  <2>1. /\ \A w \in Workers : pc[w] = "check"
        /\ \A p \in Prefetchers : pc[p] = "p_check"
        /\ \A d \in Dispatchers : pc[d] = "accept"
    BY Kinds DEF Init
  <2>2. queue = <<>> /\ MaxQueue \in Nat /\ Guesses \subseteq Files /\ disk \in Trees
    BY ServerAssumption DEF ServerAssumption, Init
  <2>3. FilesThere
    BY <2>1, <2>2 DEF FilesThere, Favourable, TreesAreFull
  <2>4. RoomThere /\ RequestsThere /\ EntryThere
    BY <2>1, <2>2 DEF RoomThere, RequestsThere, EntryThere
  <2> QED  BY <2>3, <2>4 DEF AllThere, NoFault, Init
<1>3. Custody => OnePlace
  BY DEF Custody
<1>4. TypeInv /\ OnePlace /\ CacheInv /\ EntriesCounted /\ AllThere /\ NoFault
         /\ [Next]_vars => AllThere' /\ NoFault'
  BY AllStaysRight
<1> QED  BY <1>1, <1>2, <1>3, <1>4, TypeInvAlways, CustodyHolds, CacheInvAlways,
            CountedAlways, PTL DEF Spec
=============================================================================
