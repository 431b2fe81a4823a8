--------------------------- MODULE WebServerProofs ---------------------------
(***************************************************************************)
(* Proofs about the threads and the queues of WebServer for any number of  *)
(* threads, requests, files and places: every variable has its type, the   *)
(* queues stay bounded, and nobody sleeps while there is something to take *)
(* or room to put it.                                                      *)
(***************************************************************************)
EXTENDS WebServerProperties, SequenceLemmas, FiniteSetTheorems

-----------------------------------------------------------------------------
(* Helpers *)

\* hash_search ends in an entry of the list that collides with the name, or nowhere.
LEMMA SearchFinds ==
    ASSUME NEW S, NEW c \in Seq(S), NEW fn
    PROVE  /\ Search(c, fn) \in 0 .. Len(c)
           /\ Search(c, fn) = 0 <=> \A i \in 1 .. Len(c) : ~ Collides(c[i], fn)
           /\ Search(c, fn) # 0 => Collides(c[Search(c, fn)], fn)
<1> DEFINE I == {i \in 1 .. Len(c) : Collides(c[i], fn)}
<1>1. Search(c, fn) = IF I # {} THEN Min(I) ELSE 0
  BY DEF Search, SelectInSeq
<1>2. I \subseteq Nat
  OBVIOUS
<1>3. I # {} => Min(I) \in I
  <2> HIDE DEF I
  <2> QED  BY <1>2, MinIsLeast
<1> QED  BY <1>1, <1>3

\* A queued request has the name of a file, and the file a size.
LEMMA QueuedHasSize ==
    ASSUME TypeOK, AllCreated
    PROVE  \A i \in DOMAIN queue :
              /\ queue[i] \in Requests /\ filename[queue[i]] \in Files
              /\ FileSize(i) \in Int /\ FileSize(i) >= -1
<1> SUFFICES ASSUME NEW i \in DOMAIN queue
             PROVE  /\ queue[i] \in Requests /\ filename[queue[i]] \in Files
                    /\ FileSize(i) \in Int /\ FileSize(i) >= -1
  OBVIOUS
<1>1. queue[i] \in Requests /\ queue[i] \in Range(queue)
  BY DEF TypeOK, DataTypes, Range
<1>2. filename[queue[i]] \in Files
  BY <1>1 DEF TypeOK, DataTypes, AllCreated
<1> QED  BY <1>1, <1>2 DEF TypeOK, DataTypes, FileSize, Sizes, Absent

\* Every mode picks a place that is in the queue.
LEMMA PickedIsQueued ==
    ASSUME TypeOK, AllCreated, queue # <<>>
    PROVE  PickedAt \in 1 .. Len(queue)
<1> DEFINE all == DOMAIN queue
           cached == {i \in all : Cached(i)}
           smallest == {i \in all : \A j \in all : FileSize(i) <= FileSize(j)}
<1>1. 1 \in all /\ all = 1 .. Len(queue)
  BY DEF TypeOK, DataTypes
<1>2. /\ cached # {} => Min(cached) \in cached
      /\ smallest # {} => Min(smallest) \in smallest
  <2>1. cached \subseteq Nat /\ smallest \subseteq Nat
    BY <1>1
  <2> HIDE DEF cached, smallest
  <2> QED  BY <2>1, MinIsLeast
<1>3. smallest # {}
  <2> DEFINE sizes == {FileSize(i) + 1 : i \in all}
  <2>1. sizes \subseteq Nat /\ sizes # {}
    BY <1>1, QueuedHasSize
  <2>2. PICK n \in sizes : \A m \in sizes : n <= m
    <3> HIDE DEF sizes
    <3> QED  BY <2>1, LeastNatural
  <2>3. PICK k \in all : FileSize(k) + 1 = n
    BY <2>2
  <2>4. \A j \in all : FileSize(k) <= FileSize(j)
    <3> TAKE j \in all
    <3>1. FileSize(j) + 1 \in sizes
      OBVIOUS
    <3>2. FileSize(k) + 1 <= FileSize(j) + 1
      BY <2>2, <2>3, <3>1
    <3> QED  BY <3>2, QueuedHasSize
  <2> QED  BY <2>4
<1>4. PickedAt = CASE Mode = "FCFS" -> 1
                   [] Mode = "CRF"  -> IF cached = {} THEN 1 ELSE Min(cached)
                   [] Mode = "SFF"  -> Min(smallest)
  BY DEF PickedAt
<1> HIDE DEF cached, smallest
<1>5. (cached # {} => Min(cached) \in all) /\ Min(smallest) \in all
  BY <1>2, <1>3 DEF cached, smallest
<1> QED  BY <1>1, <1>4, <1>5, ServerAssumption DEF ServerAssumption
-----------------------------------------------------------------------------
(* How the threads move *)

\* The kinds of threads, the points of each, and what Null is not.
LEMMA Kinds ==
    /\ \A d \in Dispatchers : d \in Threads /\ LabelsOf(d) =
          {"accept", "enqueue", "wait_put", "woken_put", "exited"}
    /\ \A w \in Workers : w \in Threads /\ w \notin Dispatchers /\ LabelsOf(w) =
          {"check", "lock_queue", "wait_get", "woken_get", "lock_cache", "read", "stat",
           "reply", "offer", "put_prefetch", "drain_check", "drain_lock", "drain_log",
           "exited"}
    /\ \A p \in Prefetchers :
          p \in Threads /\ p \notin Dispatchers \cup Workers /\ LabelsOf(p) =
          {"p_check", "p_lock", "p_wait", "p_woken", "p_guess", "p_stat", "p_put",
           "exited"}
    /\ \A t \in Threads : t \in Dispatchers \/ t \in Workers \/ t \in Prefetchers
    /\ \A t \in Threads : LabelsOf(t) \subseteq Labels
    /\ Null \notin Requests /\ Null \notin Files /\ Null \notin Threads /\ Null \notin Entry
BY ServerAssumption DEF ServerAssumption, Threads, LabelsOf, Labels

\* Thread t goes on to l, and some of the waiting threads wake up.
Moves(t, l) == \E S \in SUBSET Threads :
    /\ \A u \in S : pc[u] \in {"wait_get", "wait_put", "p_wait"}
    /\ GoWaking(t, l, S)

LEMMA GoMoves ==
    ASSUME TypeOK, NEW t \in Threads, NEW l, Go(t, l)
    PROVE  Moves(t, l)
<1>1. GoWaking(t, l, {})
  BY DEF Go, GoWaking, TypeOK, ThreadTypes
<1> QED  BY <1>1 DEF Moves

LEMMA SignalMoves ==
    ASSUME NEW t \in Threads, NEW l, NEW at \in {"wait_get", "wait_put", "p_wait"},
           NEW S \in Signal(at), GoWaking(t, l, S)
    PROVE  Moves(t, l)
<1>1. S \in SUBSET Threads /\ \A u \in S : pc[u] = at
  BY DEF Signal, At
<1> QED  BY <1>1 DEF Moves

\* Everybody else stays in its function, and is inside or outside a stretch of code
\* where it has a request as before.
LEMMA MovePc ==
    ASSUME TypeOK, NEW t \in Threads, NEW l \in LabelsOf(t), Moves(t, l)
    PROVE  /\ pc' \in [Threads -> Labels]
           /\ pc'[t] = l
           /\ \A u \in Threads : pc'[u] \in LabelsOf(u)
           /\ \A u \in Threads \ {t} :
                /\ pc'[u] = pc[u] \/ <<pc[u], pc'[u]>> \in
                     {<<"wait_get", "woken_get">>, <<"wait_put", "woken_put">>,
                      <<"p_wait", "p_woken">>}
                /\ pc'[u] \in Holding <=> pc[u] \in Holding
<1>1. PICK S \in SUBSET Threads :
           /\ \A u \in S : pc[u] \in {"wait_get", "wait_put", "p_wait"}
           /\ GoWaking(t, l, S)
  BY DEF Moves
<1>2. pc' = [u \in Threads |-> IF u = t THEN l
                               ELSE IF u \in S THEN WokenAt[pc[u]] ELSE pc[u]]
  BY <1>1 DEF GoWaking
<1>3. ASSUME NEW u \in Threads \ {t}
      PROVE  /\ pc'[u] \in LabelsOf(u)
             /\ pc'[u] = pc[u] \/ <<pc[u], pc'[u]>> \in
                  {<<"wait_get", "woken_get">>, <<"wait_put", "woken_put">>,
                   <<"p_wait", "p_woken">>}
             /\ pc'[u] \in Holding <=> pc[u] \in Holding
  <2>1. pc[u] \in LabelsOf(u)
    BY DEF TypeOK, ThreadTypes
  <2>2. CASE u \notin S
    BY <1>2, <2>1, <2>2
  <2>3. CASE u \in S /\ pc[u] = "wait_get"
    <3>1. pc'[u] = "woken_get"
      BY <1>2, <2>3 DEF WokenAt
    <3> QED  BY <2>1, <2>3, <3>1, Kinds DEF Holding
  <2>4. CASE u \in S /\ pc[u] = "wait_put"
    <3>1. pc'[u] = "woken_put"
      BY <1>2, <2>4 DEF WokenAt
    <3> QED  BY <2>1, <2>4, <3>1, Kinds DEF Holding
  <2>5. CASE u \in S /\ pc[u] = "p_wait"
    <3>1. pc'[u] = "p_woken"
      BY <1>2, <2>5 DEF WokenAt
    <3> QED  BY <2>1, <2>5, <3>1, Kinds DEF Holding
  <2> QED  BY <1>1, <2>2, <2>3, <2>4, <2>5
<1>4. pc'[t] = l
  BY <1>2
<1>5. \A u \in Threads : pc'[u] \in LabelsOf(u)
  BY <1>3, <1>4
<1>6. pc' \in [Threads -> Labels]
  BY <1>2, <1>5, Kinds
<1> QED  BY <1>3, <1>4, <1>5, <1>6
-----------------------------------------------------------------------------
(* Type correctness *)

\* What is inductive about types, in every mode: a thread uses a request only where it
\* has one, and every request it can get hold of was created with a file's name.
TypeInv == TypeOK /\ HandsMatch /\ AllCreated

LEMMA HandIsCreated ==
    ASSUME TypeInv, NEW t \in Threads, pc[t] \in Holding
    PROVE  hand[t] \in Requests /\ filename[hand[t]] \in Files
BY Kinds DEF TypeInv, TypeOK, ThreadTypes, DataTypes, HandsMatch, AllCreated, InHand

\* A step of thread t to l, after which it has h in its hand; what the other threads can
\* get hold of was created.
LEMMA TypeStep ==
    ASSUME TypeInv, NEW t \in Threads, NEW l \in LabelsOf(t), Moves(t, l),
           NEW h \in Requests \cup {Null}, h # Null <=> l \in Holding,
           hand' = [hand EXCEPT ![t] = h],
           DataTypes',
           l \in {"p_stat", "p_put"} => guess'[t].name \in Files,
           \A u \in Prefetchers \ {t} : guess'[u] = guess[u],
           \A r \in Requests : filename[r] # Null => filename'[r] # Null,
           \A r \in Range(queue') \cup Range(prefetch') \cup freed' : filename'[r] # Null,
           h # Null => filename'[h] # Null
    PROVE  TypeInv'
<1>1. /\ pc' \in [Threads -> Labels] /\ pc'[t] = l
      /\ \A u \in Threads : pc'[u] \in LabelsOf(u)
      /\ \A u \in Threads \ {t} : pc'[u] \in Holding <=> pc[u] \in Holding
      /\ \A u \in Threads \ {t} : pc'[u] \in {"p_stat", "p_put"} => pc[u] = pc'[u]
  BY MovePc DEF TypeInv
<1>2. /\ hand' \in [Threads -> Requests \cup {Null}] /\ hand'[t] = h
      /\ \A u \in Threads \ {t} : hand'[u] = hand[u]
  BY DEF TypeInv, TypeOK, ThreadTypes
<1>3. GuessNamed'
  BY <1>1, Kinds DEF TypeInv, TypeOK, GuessNamed
<1>4. TypeOK'
  BY <1>1, <1>2, <1>3 DEF TypeOK, ThreadTypes
<1>5. HandsMatch'
  BY <1>1, <1>2 DEF TypeInv, HandsMatch
<1>6. AllCreated'
  <2> SUFFICES ASSUME NEW r \in InHand' PROVE filename'[r] # Null
    BY DEF AllCreated
  <2>1. PICK u \in Threads : r = hand'[u] /\ r # Null
    BY DEF InHand
  <2>2. CASE u = t  BY <1>2, <2>1, <2>2
  <2>3. CASE u # t
    <3>1. r \in InHand /\ r \in Requests
      BY <1>2, <2>1, <2>3 DEF InHand, TypeInv, TypeOK, ThreadTypes
    <3> QED  BY <3>1 DEF TypeInv, AllCreated
  <2> QED  BY <2>2, <2>3
<1> QED  BY <1>4, <1>5, <1>6 DEF TypeInv

\* A step that moves no request.
LEMMA TypeMove ==
    ASSUME TypeInv, NEW t \in Threads, NEW l \in LabelsOf(t), Moves(t, l),
           l \in Holding <=> pc[t] \in Holding,
           hand' = hand, queue' = queue, prefetch' = prefetch, freed' = freed,
           filename' = filename, DataTypes',
           l \in {"p_stat", "p_put"} => guess'[t].name \in Files,
           \A u \in Prefetchers \ {t} : guess'[u] = guess[u]
    PROVE  TypeInv'
<1>1. /\ hand[t] \in Requests \cup {Null} /\ (hand[t] # Null <=> l \in Holding)
      /\ hand' = [hand EXCEPT ![t] = hand[t]]
  BY DEF TypeInv, TypeOK, ThreadTypes, HandsMatch
<1>2. /\ \A r \in Range(queue') \cup Range(prefetch') \cup freed' : filename'[r] # Null
      /\ hand[t] # Null => filename'[hand[t]] # Null
      /\ \A r \in Requests : filename[r] # Null => filename'[r] # Null
  BY DEF TypeInv, AllCreated, InHand
<1> HIDE DEF TypeInv
<1> DEFINE h == hand[t]
<1>3. h \in Requests \cup {Null} /\ (h # Null <=> l \in Holding)
      /\ hand' = [hand EXCEPT ![t] = h] /\ (h # Null => filename'[h] # Null)
  BY <1>1, <1>2
<1> HIDE DEF h
<1> QED  BY <1>2, <1>3, TypeStep

\* The process ends.
LEMMA TypeFault ==
    ASSUME TypeInv, NEW kind \in Faults, Fault(kind)
    PROVE  TypeInv'
BY DEF TypeInv, TypeOK, ThreadTypes, DataTypes, GuessNamed, HandsMatch, AllCreated,
       InHand, Fault

\* What the dispatch threads do.
LEMMA TypeDispatch ==
    ASSUME TypeInv, NEW d \in Dispatchers,
           \/ \E r \in Requests, f \in Files : Accept(d, r, f)
           \/ \E r \in Requests : Refuse(d, r)
           \/ AcceptFails(d) \/ Dispatch(d)
    PROVE  TypeInv'
<1> d \in Threads
  BY Kinds
<1>1. ASSUME NEW r \in Requests, NEW f \in Files, Accept(d, r, f) PROVE TypeInv'
  BY <1>1, Kinds DEF Accept, Go, TypeInv, TypeOK, ThreadTypes, DataTypes, GuessNamed,
                     HandsMatch, AllCreated, InHand, Holding, Range, sentVars, fileVars
<1>2. ASSUME NEW r \in Requests, Refuse(d, r) PROVE TypeInv'
  BY <1>2 DEF Refuse, TypeInv, TypeOK, ThreadTypes, DataTypes, GuessNamed, HandsMatch,
              AllCreated, InHand, threadVars, sentVars, fileVars
<1>3. CASE AcceptFails(d)
  BY <1>3, Kinds DEF AcceptFails, Go, TypeInv, TypeOK, ThreadTypes, DataTypes,
                     GuessNamed, HandsMatch, AllCreated, InHand, Holding, clientVars,
                     sentVars, fileVars
<1>4. ASSUME pc[d] \in {"enqueue", "woken_put"}, PutRequest(d) PROVE TypeInv'
  <2>1. Moves(d, "accept")
    BY <1>4, SignalMoves DEF PutRequest
  <2>2. hand[d] \in Requests /\ filename[hand[d]] # Null
    BY <1>4, Kinds, HandIsCreated DEF Holding
  <2>3. queue' \in Seq(Requests) /\ Range(queue') = Range(queue) \cup {hand[d]}
    BY <1>4, <2>2, AppendRange DEF PutRequest, TypeInv, TypeOK, DataTypes
  <2>4. DataTypes'
    BY <1>4, <2>3 DEF PutRequest, TypeInv, TypeOK, DataTypes, clientVars, fileVars
  <2>5. /\ \A r \in Range(queue') \cup Range(prefetch') \cup freed' : filename'[r] # Null
        /\ \A r \in Requests : filename[r] # Null => filename'[r] # Null
        /\ \A u \in Prefetchers \ {d} : guess'[u] = guess[u]
        /\ hand' = [hand EXCEPT ![d] = Null]
    BY <1>4, <2>2, <2>3 DEF PutRequest, TypeInv, AllCreated, clientVars
  <2>6. "accept" \in LabelsOf(d) /\ "accept" \notin Holding
    BY Kinds DEF Holding
  <2> QED  BY <2>1, <2>4, <2>5, <2>6, TypeStep
<1>5. CASE Enqueue(d)
  <2>1. CASE Fault("queue_assert")
    BY <2>1, TypeFault DEF Faults
  <2>2. CASE /\ Go(d, "wait_put")
             /\ UNCHANGED <<hand, queue, prefetch, cache, qm, cm, work, guess, draining,
                            clientVars, sentVars, freed, main, fileVars, fault>>
    <3>1. Moves(d, "wait_put") /\ pc[d] = "enqueue"
      BY <1>5, <2>2, GoMoves DEF Enqueue, TypeInv
    <3>2. DataTypes'
      BY <2>2 DEF TypeInv, TypeOK, DataTypes, clientVars, fileVars
    <3>3. /\ "wait_put" \in LabelsOf(d)
          /\ "wait_put" \in Holding <=> pc[d] \in Holding
      BY <3>1, Kinds DEF Holding
    <3> QED  BY <2>2, <3>1, <3>2, <3>3, TypeMove DEF clientVars
  <2> QED  BY <1>4, <1>5, <2>1, <2>2 DEF Enqueue
<1>6. CASE EnqueueWoken(d)
  BY <1>4, <1>6 DEF EnqueueWoken
<1> QED  BY <1>1, <1>2, <1>3, <1>5, <1>6 DEF Dispatch

\* A worker's own data, and entries it makes, keep their types.
LEMMA LinkedIsEntry ==
    ASSUME NEW e \in Entry, cache \in Seq(Entry)
    PROVE  Linked(cache, e) \in Entry /\ PutEntry(cache, e) \in Seq(Entry)
<1>1. Linked(cache, e) \in Entry
  BY DEF Linked, Entry
<1>2. Full(cache) => cache # <<>>
  BY CacheAssumption DEF CacheAssumption, Full
<1>3. MakeRoom(cache) \in Seq(Entry)
  BY <1>2 DEF MakeRoom
<1> QED  BY <1>1, <1>3 DEF PutEntry

LEMMA LookedIsWork ==
    ASSUME NEW fn, cache \in Seq(Entry)
    PROVE  Looked(fn) \in WorkType
<1> DEFINE at == Search(cache, fn)
<1>1. at # 0 => cache[at] \in Entry
  BY SearchFinds
<1>2. \A e \in Entry : e.len \in Nat
  BY DEF Entry
<1>3. NoWork \in WorkType
  BY DEF NoWork, WorkType
<1>4. Looked(fn) = IF at = 0 THEN NoWork
          ELSE [NoWork EXCEPT !.ent = cache[at], !.hit = TRUE, !.len = cache[at].len]
  BY DEF Looked
<1> HIDE DEF at
<1>5. ASSUME NEW e \in Entry
      PROVE  [NoWork EXCEPT !.ent = e, !.hit = TRUE, !.len = e.len] \in WorkType
  BY <1>2 DEF NoWork, WorkType
<1> QED  BY <1>1, <1>3, <1>4, <1>5

\* A worker on its way to a request.
LEMMA TypeFetch ==
    ASSUME TypeInv, NEW w \in Workers,
           \/ WorkerCheck(w) \/ LockQueue(w) \/ LockQueueUnchecked(w) \/ DrainCheck(w)
           \/ TakeRequest(w)
    PROVE  TypeInv'
<1> w \in Threads
  BY Kinds
<1>1. ASSUME NEW l, l \in {"lock_queue", "drain_check", "wait_get", "lock_cache",
                           "drain_lock", "exited"},
             pc[w] \notin Holding, Go(w, l),
             qm' \in {qm, w}, draining' \in {draining, draining \cup {w}},
             UNCHANGED <<hand, queue, prefetch, cache, cm, work, guess, clientVars,
                         sentVars, freed, main, fileVars, fault>>
      PROVE  TypeInv'
  <2>1. Moves(w, l) /\ l \in LabelsOf(w) /\ (l \in Holding <=> pc[w] \in Holding)
    BY <1>1, GoMoves, Kinds DEF TypeInv, Holding
  <2>2. DataTypes'
    BY <1>1 DEF TypeInv, TypeOK, DataTypes, clientVars, fileVars
  <2>3. l \notin {"p_stat", "p_put"}
    BY <1>1
  <2> QED  BY <1>1, <2>1, <2>2, <2>3, TypeMove DEF clientVars
<1>2. CASE WorkerCheck(w)
  BY <1>1, <1>2 DEF WorkerCheck, Holding
<1>3. CASE LockQueue(w)
  BY <1>1, <1>3 DEF LockQueue, Holding
<1>4. CASE LockQueueUnchecked(w)
  BY <1>1, <1>4 DEF LockQueueUnchecked, Holding
<1>5. CASE DrainCheck(w)
  BY <1>1, <1>5 DEF DrainCheck, Holding
<1>6. CASE TakeRequest(w)
  <2>1. CASE Fault("null_request")
    BY <2>1, TypeFault DEF Faults
  <2>2. CASE queue # <<>> /\ ~ Fault("null_request")
    <3> DEFINE i == PickedAt
               r == queue[i]
    <3>1. i \in 1 .. Len(queue) /\ queue \in Seq(Requests)
      BY <2>2, PickedIsQueued DEF TypeInv, TypeOK, DataTypes
    <3>2. /\ hand' = [hand EXCEPT ![w] = r]
          /\ work' = [work EXCEPT ![w] = Looked(filename[r])]
          /\ queue' = QueueAfter(i)
          /\ qm' = Null /\ cm' = w
          /\ Go(w, "read") \/ \E S \in Signal("wait_put") : GoWaking(w, "read", S)
          /\ UNCHANGED <<prefetch, cache, guess, draining, clientVars, sentVars,
                         freed, main, fileVars, fault>>
      BY <1>6, <2>2 DEF TakeRequest
    <3> HIDE DEF i
    <3>3. r \in Requests /\ r \in Range(queue)
      BY <3>1 DEF Range
    <3>4. filename[r] # Null
      BY <3>3 DEF TypeInv, AllCreated
    <3> HIDE DEF r
    <3>5. queue' \in Seq(Requests) /\ Range(queue') \subseteq Range(queue)
      BY <3>1, <3>2, RemoveAtRange DEF QueueAfter
    <3>6. Moves(w, "read")
      BY <3>2, GoMoves, SignalMoves DEF TypeInv
    <3>7. Looked(filename[r]) \in WorkType
      BY LookedIsWork DEF TypeInv, TypeOK, DataTypes
    <3>8. DataTypes'
      BY <3>2, <3>5, <3>7 DEF TypeInv, TypeOK, DataTypes, clientVars, fileVars
    <3>9. /\ \A q \in Range(queue') \cup Range(prefetch') \cup freed' : filename'[q] # Null
          /\ \A q \in Requests : filename[q] # Null => filename'[q] # Null
          /\ filename'[r] # Null
          /\ \A u \in Prefetchers \ {w} : guess'[u] = guess[u]
      BY <3>2, <3>4, <3>5 DEF TypeInv, AllCreated, clientVars
    <3>10. /\ "read" \in LabelsOf(w) /\ "read" \in Holding
           /\ r \in Requests \cup {Null} /\ r # Null
      BY <3>3, Kinds DEF Holding
    <3> QED  BY <3>2, <3>6, <3>8, <3>9, <3>10, TypeStep
  <2> QED  BY <1>6, <2>1, <2>2 DEF TakeRequest
<1> QED  BY <1>2, <1>3, <1>4, <1>5, <1>6

\* A step that moves neither thread nor request.
LEMMA TypeStill ==
    ASSUME TypeInv, DataTypes',
           UNCHANGED <<pc, hand, queue, prefetch, freed, filename, guess>>
    PROVE  TypeInv'
BY DEF TypeInv, TypeOK, ThreadTypes, GuessNamed, HandsMatch, AllCreated, InHand

\* What a worker reads about the file it was asked for.
LEMMA NewEntryIsEntry ==
    ASSUME TypeInv, NEW t \in Threads, hand[t] \in Requests, NEW fn \in Files,
           NEW n \in Nat, NEW size \in Sizes
    PROVE  NewEntry(t, fn, n, size) \in Entry
BY DEF NewEntry, Entry

\* A worker answering its request: the steps that keep it.
LEMMA TypeAnswer ==
    ASSUME TypeInv, NEW w \in Workers, ReadFile(w) \/ StatFile(w) \/ Reply(w)
    PROVE  TypeInv'
<1> w \in Threads
  BY Kinds
<1> DEFINE fn == filename[hand[w]]
<1>1. /\ pc[w] \in {"read", "stat", "reply"}
      /\ UNCHANGED <<hand, queue, prefetch, guess, freed, clientVars>>
      /\ qm' = qm /\ draining' = draining /\ main' = main /\ UNCHANGED fileVars
  BY DEF ReadFile, StatFile, Reply
<1>2. hand[w] \in Requests /\ fn \in Files /\ disk[fn] \in Sizes
  BY <1>1, HandIsCreated DEF Holding, TypeInv, TypeOK, DataTypes
<1>3. work[w] \in WorkType /\ cache \in Seq(Entry) /\ cm \in Workers \cup {Null}
  BY DEF TypeInv, TypeOK, DataTypes
<1> HIDE DEF fn
<1>4. ASSUME NEW wk \in WorkType, work' \in {work, [work EXCEPT ![w] = wk]},
             cache' \in Seq(Entry), cm' \in {cm, Null}, fault' \in Faults
      PROVE  DataTypes'
  BY <1>1, <1>4 DEF TypeInv, TypeOK, DataTypes, clientVars, fileVars
<1>5. ASSUME DataTypes', pc' = pc PROVE TypeInv'
  BY <1>1, <1>5, TypeStill DEF clientVars
<1>6. ASSUME DataTypes', NEW l \in {"stat", "reply", "offer", "drain_log"}, Go(w, l)
      PROVE  TypeInv'
  <2>1. /\ Moves(w, l) /\ l \in LabelsOf(w) /\ (l \in Holding <=> pc[w] \in Holding)
        /\ l \notin {"p_stat", "p_put"}
    BY <1>1, <1>6, GoMoves, Kinds DEF TypeInv, Holding
  <2> QED  BY <1>1, <1>6, <2>1, TypeMove DEF clientVars
<1>7. fault \in Faults
  BY DEF TypeInv, TypeOK, DataTypes
<1>8. CASE ReadFile(w)
  <2> DEFINE wk == IF disk[fn] = Absent THEN [work[w] EXCEPT !.err = "read"]
                   ELSE [work[w] EXCEPT !.len = disk[fn]]
  <2>1. disk[fn] = Absent \/ disk[fn] \in Nat
    BY <1>2 DEF Sizes
  <2>2. wk \in WorkType
    BY <1>3, <2>1 DEF WorkType
  <2>3. /\ work' \in {work, [work EXCEPT ![w] = wk]}
        /\ cache' = cache /\ cm' = cm
        /\ fault' \in {fault, "fread_assert"}
        /\ pc' = pc \/ Go(w, "reply") \/ Go(w, "stat")
    BY <1>8 DEF ReadFile, fn, Absent
  <2> HIDE DEF wk
  <2>4. DataTypes'
    BY <1>3, <1>4, <1>7, <2>2, <2>3 DEF Faults
  <2> QED  BY <1>5, <1>6, <2>3, <2>4
<1>9. CASE StatFile(w)
  <2> DEFINE e == NewEntry(w, fn, work[w].len, disk[fn])
             wk == IF disk[fn] = Absent THEN [work[w] EXCEPT !.err = "size"]
                   ELSE [work[w] EXCEPT !.ent = Linked(cache, e)]
  <2>1. work[w].len \in Nat
    BY <1>3 DEF WorkType
  <2>2. Linked(cache, e) \in Entry /\ PutEntry(cache, e) \in Seq(Entry)
    BY <1>2, <1>3, <2>1, NewEntryIsEntry, LinkedIsEntry
  <2>3. wk \in WorkType
    BY <1>3, <2>2 DEF WorkType
  <2>4. /\ work' \in {work, [work EXCEPT ![w] = wk]}
        /\ cache' \in {cache, PutEntry(cache, e)} /\ cm' = cm
        /\ fault' \in {fault, "use_after_free"}
        /\ pc' = pc \/ Go(w, "reply")
    BY <1>9 DEF StatFile, fn
  <2> HIDE DEF e, wk
  <2>5. DataTypes'
    BY <1>3, <1>4, <1>7, <2>2, <2>3, <2>4 DEF Faults
  <2> QED  BY <1>5, <1>6, <2>4, <2>5
<1>10. CASE Reply(w)
  <2>1. /\ work' \in {work, [work EXCEPT ![w] = NoWork]}
        /\ cache' = cache /\ cm' \in {cm, Null}
        /\ fault' \in {fault, "null_extension", "log_assert"}
        /\ pc' = pc \/ Go(w, "drain_log") \/ Go(w, "offer")
    BY <1>10 DEF Reply
  <2>2. NoWork \in WorkType
    BY DEF NoWork, WorkType
  <2>3. DataTypes'
    BY <1>3, <1>4, <1>7, <2>1, <2>2 DEF Faults
  <2> QED  BY <1>5, <1>6, <2>1, <2>3
<1> QED  BY <1>8, <1>9, <1>10

\* A worker handing its request on.
LEMMA TypeHandOver ==
    ASSUME TypeInv, NEW w \in Workers, Offer(w) \/ PutPrefetch(w) \/ DrainLog(w)
    PROVE  TypeInv'
<1> w \in Threads
  BY Kinds
<1>1. /\ pc[w] \in {"offer", "put_prefetch", "drain_log"}
      /\ UNCHANGED <<queue, cache, qm, cm, draining, clientVars, main, fileVars, guess>>
      /\ work' \in {work, [work EXCEPT ![w] = NoWork]}
  BY DEF Offer, PutPrefetch, DrainLog, Fault, fileVars, clientVars
<1>2. hand[w] \in Requests /\ filename[hand[w]] # Null
  BY <1>1, HandIsCreated, Kinds DEF Holding
<1>3. NoWork \in WorkType
  BY DEF NoWork, WorkType
<1>4. ASSUME prefetch' \in Seq(Requests), freed' \in {freed, freed \cup {hand[w]}},
             fault' \in Faults
      PROVE  DataTypes'
  BY <1>1, <1>2, <1>3, <1>4 DEF TypeInv, TypeOK, DataTypes, clientVars, fileVars
<1>5. ASSUME UNCHANGED <<pc, hand, prefetch, freed>>, DataTypes' PROVE TypeInv'
  BY <1>1, <1>5, TypeStill DEF clientVars
<1>6. ASSUME DataTypes', NEW l \in {"check", "put_prefetch", "drain_check"}, Moves(w, l),
             NEW h \in {hand[w], Null}, h # Null <=> l = "put_prefetch",
             hand' = [hand EXCEPT ![w] = h],
             Range(prefetch') \subseteq Range(prefetch) \cup {hand[w]},
             freed' \in {freed, freed \cup {hand[w]}}
      PROVE  TypeInv'
  <2>1. /\ l \in LabelsOf(w) /\ l \notin {"p_stat", "p_put"}
        /\ l \in Holding <=> l = "put_prefetch"
    BY Kinds DEF Holding
  <2>2. /\ \A q \in Range(queue') \cup Range(prefetch') \cup freed' : filename'[q] # Null
        /\ \A q \in Requests : filename[q] # Null => filename'[q] # Null
        /\ h # Null => filename'[h] # Null
        /\ \A u \in Prefetchers \ {w} : guess'[u] = guess[u]
        /\ h \in Requests \cup {Null} /\ (h # Null <=> l \in Holding)
    BY <1>1, <1>2, <1>6, <2>1 DEF TypeInv, AllCreated, clientVars
  <2> QED  BY <1>6, <2>1, <2>2, TypeStep
<1>7. prefetch \in Seq(Requests) /\ fault \in Faults /\ hand[w] # Null
  BY <1>2, Kinds DEF TypeInv, TypeOK, DataTypes
<1>8. hand = [hand EXCEPT ![w] = hand[w]]
  BY DEF TypeInv, TypeOK, ThreadTypes
<1>9. ASSUME NEW l \in {"check", "drain_check"}, Destroy(w, l), prefetch' = prefetch,
             fault' = fault
      PROVE  TypeInv'
  <2>1. /\ freed' = freed \cup {hand[w]} /\ Moves(w, l)
        /\ hand' = [hand EXCEPT ![w] = Null]
    BY <1>9, GoMoves DEF Destroy, TypeInv
  <2>2. DataTypes'
    BY <1>4, <1>7, <1>9, <2>1
  <2> QED  BY <1>6, <1>7, <1>9, <2>1, <2>2
<1>10. CASE Offer(w)
  <2>1. prefetch' = prefetch
    BY <1>10 DEF Offer
  <2>2. CASE Go(w, "put_prefetch") /\ UNCHANGED <<hand, freed, fault>>
    <3>1. Moves(w, "put_prefetch")
      BY <2>2, GoMoves DEF TypeInv
    <3>2. DataTypes'
      BY <1>4, <1>7, <2>1, <2>2
    <3> QED  BY <1>6, <1>7, <1>8, <2>1, <2>2, <3>1, <3>2
  <2>3. CASE fault' = "list_corrupt" /\ UNCHANGED <<pc, hand, freed>>
    <3>1. DataTypes'
      BY <1>4, <1>7, <2>1, <2>3 DEF Faults
    <3> QED  BY <1>5, <2>1, <2>3, <3>1
  <2>4. CASE Destroy(w, "check") /\ fault' = fault
    BY <1>9, <2>1, <2>4
  <2> QED  BY <1>10, <2>2, <2>3, <2>4 DEF Offer
<1>11. CASE PutPrefetch(w)
  <2>1. CASE Fault("list_corrupt")
    BY <2>1, TypeFault DEF Faults
  <2>2. CASE ~ Fault("list_corrupt")
    <3>1. /\ prefetch' = Append(prefetch, hand[w])
          /\ hand' = [hand EXCEPT ![w] = Null]
          /\ freed' = freed /\ fault' = fault /\ Moves(w, "check")
      BY <1>11, <2>2, SignalMoves DEF PutPrefetch
    <3>2. prefetch' \in Seq(Requests) /\ Range(prefetch') = Range(prefetch) \cup {hand[w]}
      BY <1>2, <1>7, <3>1, AppendRange
    <3>3. DataTypes'
      BY <1>4, <1>7, <3>1, <3>2
    <3> QED  BY <1>6, <1>7, <3>1, <3>2, <3>3
  <2> QED  BY <2>1, <2>2
<1>12. CASE DrainLog(w)
  <2>1. CASE \E kind \in {"log_assert", "use_after_free"} : Fault(kind)
    BY <2>1, TypeFault DEF Faults
  <2>2. CASE fault' = "list_corrupt" /\ UNCHANGED <<pc, hand, freed, prefetch>>
    <3>1. DataTypes'
      BY <1>4, <1>7, <2>2 DEF Faults
    <3> QED  BY <1>5, <2>2, <3>1
  <2>3. CASE Destroy(w, "drain_check") /\ fault' = fault /\ prefetch' = prefetch
    BY <1>9, <2>3
  <2> QED  BY <1>12, <2>1, <2>2, <2>3 DEF DrainLog
<1> QED  BY <1>10, <1>11, <1>12

\* What the prefetch threads do.
LEMMA TypePrefetch ==
    ASSUME TypeInv, NEW p \in Prefetchers, Prefetch(p)
    PROVE  TypeInv'
<1> p \in Threads
  BY Kinds
<1>1. /\ prefetch \in Seq(Requests) /\ guess[p] \in GuessType
      /\ guess \in [Prefetchers -> GuessType] /\ cache \in Seq(Entry)
      /\ disk \in [Files -> Sizes] /\ Guesses \subseteq Files
    BY ServerAssumption DEF TypeInv, TypeOK, DataTypes, ServerAssumption
<1>2. NoGuess \in GuessType
  BY DEF NoGuess, GuessType, Sizes
<1>3. ASSUME prefetch' \in Seq(Requests), freed' \subseteq Requests,
             guess' \in [Prefetchers -> GuessType], cache' \in Seq(Entry),
             UNCHANGED <<queue, qm, cm, work, draining, clientVars, main, fileVars, fault>>
      PROVE  DataTypes'
  BY <1>3 DEF TypeInv, TypeOK, DataTypes, clientVars, fileVars
\* The thread goes on, with its request if it has one.
<1>4. ASSUME NEW l \in {"exited", "p_lock", "p_wait", "p_stat", "p_put"}, Go(p, l),
             l \in {"p_stat", "p_put"} <=> pc[p] \in {"p_guess", "p_stat"},
             pc[p] \in {"p_check", "p_lock", "p_guess", "p_stat"},
             NEW g \in GuessType, l \in {"p_stat", "p_put"} => g.name \in Files,
             guess' = [guess EXCEPT ![p] = g],
             UNCHANGED <<hand, queue, prefetch, cache, qm, cm, work, draining,
                         clientVars, sentVars, freed, main, fileVars, fault>>
      PROVE  TypeInv'
  <2>1. Moves(p, l) /\ l \in LabelsOf(p) /\ (l \in Holding <=> pc[p] \in Holding)
    BY <1>4, GoMoves, Kinds DEF TypeInv, Holding
  <2>2. /\ l \in {"p_stat", "p_put"} => guess'[p].name \in Files
        /\ \A u \in Prefetchers \ {p} : guess'[u] = guess[u]
    BY <1>1, <1>4
  <2>3. freed' \subseteq Requests
    BY <1>4 DEF TypeInv, TypeOK, DataTypes
  <2>4. guess' \in [Prefetchers -> GuessType]
    BY <1>1, <1>4
  <2>5. DataTypes'
    BY <1>1, <1>3, <1>4, <2>3, <2>4
  <2> QED  BY <1>4, <2>1, <2>2, <2>5, TypeMove DEF clientVars
<1>5. CASE PrefetchCheck(p)
  <2>1. guess' = [guess EXCEPT ![p] = guess[p]] /\ pc[p] = "p_check"
    BY <1>1, <1>5 DEF PrefetchCheck
  <2> QED  BY <1>1, <1>4, <1>5, <2>1 DEF PrefetchCheck
<1>6. ASSUME prefetch # <<>>, TakePrefetch(p) PROVE TypeInv'
  <2> DEFINE r == Head(prefetch)
  <2>1. /\ r \in Requests /\ r \in Range(prefetch)
        /\ prefetch' \in Seq(Requests) /\ Range(prefetch') \subseteq Range(prefetch)
    BY <1>1, <1>6, TailIsRemoveAt, RemoveAtRange DEF TakePrefetch, Range
  <2>2. /\ hand' = [hand EXCEPT ![p] = r] /\ Moves(p, "p_guess")
        /\ UNCHANGED <<queue, cache, qm, cm, work, guess, draining, clientVars, sentVars,
                       freed, main, fileVars, fault>>
    BY <1>6, GoMoves DEF TakePrefetch, TypeInv
  <2> HIDE DEF r
  <2>3. /\ "p_guess" \in LabelsOf(p) /\ "p_guess" \in Holding /\ r # Null
        /\ r \in Requests \cup {Null}
    BY <2>1, Kinds DEF Holding
  <2>4. freed' \subseteq Requests /\ guess' \in [Prefetchers -> GuessType]
    BY <1>1, <2>2 DEF TypeInv, TypeOK, DataTypes
  <2>5. DataTypes'
    BY <1>1, <1>3, <2>1, <2>2, <2>4
  <2>6. /\ \A q \in Range(queue') \cup Range(prefetch') \cup freed' : filename'[q] # Null
        /\ \A q \in Requests : filename[q] # Null => filename'[q] # Null
        /\ filename'[r] # Null
        /\ \A u \in Prefetchers \ {p} : guess'[u] = guess[u]
    BY <2>1, <2>2 DEF TypeInv, AllCreated, clientVars
  <2> QED  BY <2>2, <2>3, <2>5, <2>6, TypeStep
<1>7. CASE PrefetchLock(p)
  <2>1. guess = [guess EXCEPT ![p] = guess[p]] /\ pc[p] = "p_lock"
    BY <1>1, <1>7 DEF PrefetchLock
  <2> QED  BY <1>1, <1>4, <1>6, <1>7, <2>1 DEF PrefetchLock
<1>8. CASE PrefetchWoken(p)
  <2>1. CASE Fault("prefetch_assert")
    BY <2>1, TypeFault DEF Faults
  <2> QED  BY <1>6, <1>8, <2>1 DEF PrefetchWoken
\* The thread is done with its request.
<1>9. ASSUME pc[p] \in {"p_guess", "p_put"}, Destroy(p, "p_check"),
             cache' \in Seq(Entry), guess' \in {guess, [guess EXCEPT ![p] = NoGuess]},
             UNCHANGED <<queue, prefetch, qm, cm, work, draining, clientVars,
                         sentVars, main, fileVars, fault>>
      PROVE  TypeInv'
  <2>1. hand[p] \in Requests /\ filename[hand[p]] # Null
    BY <1>9, HandIsCreated, Kinds DEF Holding
  <2>2. /\ freed' = freed \cup {hand[p]} /\ Moves(p, "p_check")
        /\ hand' = [hand EXCEPT ![p] = Null]
    BY <1>9, GoMoves DEF Destroy, TypeInv
  <2>3. freed' \subseteq Requests /\ guess' \in [Prefetchers -> GuessType]
    BY <1>1, <1>2, <1>9, <2>1, <2>2 DEF TypeInv, TypeOK, DataTypes
  <2>4. DataTypes'
    BY <1>1, <1>3, <1>9, <2>3
  <2>5. /\ \A q \in Range(queue') \cup Range(prefetch') \cup freed' : filename'[q] # Null
        /\ \A q \in Requests : filename[q] # Null => filename'[q] # Null
        /\ \A u \in Prefetchers \ {p} : guess'[u] = guess[u]
    BY <1>1, <1>9, <2>1, <2>2 DEF TypeInv, AllCreated, clientVars
  <2>6. "p_check" \in LabelsOf(p) /\ "p_check" \notin Holding
    BY Kinds DEF Holding
  <2> QED  BY <2>2, <2>4, <2>5, <2>6, TypeStep
<1>10. CASE GuessFails(p)
  BY <1>1, <1>9, <1>10 DEF GuessFails
<1>11. ASSUME NEW g \in Guesses, GuessFile(p, g) PROVE TypeInv'
  <2>1. CASE Fault("fread_assert")
    BY <2>1, TypeFault DEF Faults
  <2>2. CASE ~ Fault("fread_assert")
    <3> DEFINE gs == [name |-> g, len |-> disk[g], size |-> 0]
    <3>1. gs \in GuessType /\ gs.name \in Files
      BY <1>1 DEF GuessType, Sizes
    <3>2. /\ guess' = [guess EXCEPT ![p] = gs] /\ Go(p, "p_stat") /\ pc[p] = "p_guess"
          /\ UNCHANGED <<hand, queue, prefetch, cache, qm, cm, work, draining,
                         clientVars, sentVars, freed, main, fileVars, fault>>
      BY <1>11, <2>2 DEF GuessFile
    <3> HIDE DEF gs
    <3> QED  BY <1>4, <3>1, <3>2
  <2> QED  BY <2>1, <2>2
<1>12. CASE StatGuess(p)
  <2> DEFINE gs == [guess[p] EXCEPT !.size = disk[guess[p].name]]
  <2>1. guess[p].name \in Files /\ disk[guess[p].name] \in Sizes
    BY <1>1, <1>12 DEF StatGuess, TypeInv, TypeOK, GuessNamed
  <2>2. gs \in GuessType /\ gs.name \in Files
    BY <1>1, <2>1 DEF GuessType
  <2>3. /\ guess' = [guess EXCEPT ![p] = gs] /\ Go(p, "p_put") /\ pc[p] = "p_stat"
        /\ UNCHANGED <<hand, queue, prefetch, cache, qm, cm, work, draining,
                       clientVars, sentVars, freed, main, fileVars, fault>>
    BY <1>12 DEF StatGuess
  <2> HIDE DEF gs
  <2> QED  BY <1>4, <2>2, <2>3
<1>13. CASE PutGuess(p)
  <2>1. CASE \E kind \in {"entry_assert", "use_after_free"} : Fault(kind)
    BY <2>1, TypeFault DEF Faults
  <2>2. CASE ~ \E kind \in {"entry_assert", "use_after_free"} : Fault(kind)
    <3> DEFINE e == NewEntry(p, guess[p].name, guess[p].len, guess[p].size)
    <3>1. /\ pc[p] = "p_put" /\ guess[p].len # Absent
          /\ cache' = PutEntry(cache, e) /\ guess' = [guess EXCEPT ![p] = NoGuess]
          /\ Destroy(p, "p_check")
          /\ UNCHANGED <<queue, prefetch, qm, cm, work, draining, clientVars, sentVars,
                         main, fileVars, fault>>
      BY <1>13, <2>2 DEF PutGuess, StoreGuess
    <3>2. /\ guess[p].name \in Files /\ guess[p].len \in Nat /\ guess[p].size \in Sizes
          /\ hand[p] \in Requests
      BY <1>1, <3>1, HandIsCreated
         DEF TypeInv, TypeOK, GuessNamed, GuessType, Sizes, Holding
    <3>3. PutEntry(cache, e) \in Seq(Entry)
      BY <1>1, <3>2, NewEntryIsEntry, LinkedIsEntry
    <3> HIDE DEF e
    <3> QED  BY <1>9, <3>1, <3>3
  <2> QED  BY <2>1, <2>2
<1> QED  BY <1>5, <1>7, <1>8, <1>10, <1>11, <1>12, <1>13 DEF Prefetch

\* What main does, a file that changes, a spurious wakeup.
LEMMA TypeElse ==
    ASSUME TypeInv,
           \/ JoinDispatchers \/ Return
           \/ \E f \in Files : ChangeFile(f)
           \/ \E t \in Threads : SpuriousWakeup(t)
    PROVE  TypeInv'
<1>1. CASE JoinDispatchers \/ Return
  <2>1. DataTypes'
    BY <1>1 DEF JoinDispatchers, Return, TypeInv, TypeOK, DataTypes, clientVars, fileVars
  <2> QED  BY <1>1, <2>1, TypeStill DEF JoinDispatchers, Return, clientVars
<1>2. ASSUME NEW f \in Files, ChangeFile(f) PROVE TypeInv'
  <2>1. PICK t \in Trees : disk' = [disk EXCEPT ![f] = t[f]]
    BY <1>2 DEF ChangeFile
  <2>2. t[f] \in Sizes
    BY ServerAssumption DEF ServerAssumption
  <2>3. DataTypes'
    BY <1>2, <2>1, <2>2
       DEF ChangeFile, TypeInv, TypeOK, DataTypes, clientVars, threadVars
  <2> QED  BY <1>2, <2>3, TypeStill DEF ChangeFile, clientVars, threadVars
<1>3. ASSUME NEW t \in Threads, SpuriousWakeup(t) PROVE TypeInv'
  <2>1. pc[t] \in {"wait_put", "wait_get", "p_wait"} /\ Go(t, WokenAt[pc[t]])
    BY <1>3 DEF SpuriousWakeup, WokenAt
  <2> DEFINE l == WokenAt[pc[t]]
  <2>2. <<pc[t], l>> \in {<<"wait_get", "woken_get">>, <<"wait_put", "woken_put">>,
                          <<"p_wait", "p_woken">>}
    BY <2>1 DEF WokenAt
  <2>3. pc[t] \in LabelsOf(t) /\ Moves(t, l)
    BY <2>1, GoMoves DEF TypeInv, TypeOK, ThreadTypes
  <2> HIDE DEF l
  <2>4. /\ l \in LabelsOf(t) /\ (l \in Holding <=> pc[t] \in Holding)
        /\ l \notin {"p_stat", "p_put"}
    BY <2>2, <2>3, Kinds DEF Holding
  <2>5. DataTypes'
    BY <1>3 DEF SpuriousWakeup, TypeInv, TypeOK, DataTypes, clientVars, fileVars
  <2> QED  BY <1>3, <2>3, <2>4, <2>5, TypeMove DEF SpuriousWakeup, clientVars
<1> QED  BY <1>1, <1>2, <1>3

LEMMA TypeInit ==
    ASSUME Init
    PROVE  TypeInv
<1>1. /\ \A t \in Threads : pc[t] \in LabelsOf(t) /\ pc[t] \notin {"p_stat", "p_put"}
      /\ \A t \in Threads : pc[t] \notin Holding
  BY Kinds DEF Init, Holding
<1>2. NoWork \in WorkType /\ NoGuess \in GuessType
  BY DEF NoWork, WorkType, NoGuess, GuessType, Sizes
<1>3. pc \in [Threads -> Labels]
  BY <1>1, Kinds DEF Init
<1>4. ThreadTypes
  BY <1>1, <1>3 DEF Init, ThreadTypes
<1>5. DataTypes
  BY <1>2, ServerAssumption DEF Init, DataTypes, Faults, ServerAssumption
<1>6. GuessNamed
  BY <1>1, Kinds DEF GuessNamed
<1>7. HandsMatch
  BY <1>1 DEF Init, HandsMatch
<1>8. AllCreated
  BY DEF Init, AllCreated, InHand, Range
<1> QED  BY <1>4, <1>5, <1>6, <1>7, <1>8 DEF TypeInv, TypeOK

\* TypeInv is inductive.
LEMMA TypeNext ==
    ASSUME TypeInv, [Next]_vars
    PROVE  TypeInv'
<1>1. CASE UNCHANGED vars
  <2>1. UNCHANGED <<pc, hand, queue, prefetch, freed, filename, guess>>
    BY <1>1 DEF vars
  <2>2. DataTypes'
    BY <1>1 DEF vars, TypeInv, TypeOK, DataTypes
  <2> QED  BY <2>1, <2>2, TypeStill
<1>2. ASSUME NEW d \in Dispatchers,
             \/ \E r \in Requests, f \in Files : Accept(d, r, f)
             \/ \E r \in Requests : Refuse(d, r)
             \/ AcceptFails(d) \/ Dispatch(d)
      PROVE  TypeInv'
  BY <1>2, TypeDispatch
<1>3. ASSUME NEW w \in Workers, Work(w) PROVE TypeInv'
  BY <1>3, TypeFetch, TypeAnswer, TypeHandOver DEF Work
<1>4. ASSUME NEW p \in Prefetchers, Prefetch(p) PROVE TypeInv'
  BY <1>4, TypePrefetch
<1>5. CASE \/ JoinDispatchers \/ Return
           \/ \E f \in Files : ChangeFile(f)
           \/ \E t \in Threads : SpuriousWakeup(t)
  BY <1>5, TypeElse
<1> QED  BY <1>1, <1>2, <1>3, <1>4, <1>5 DEF Next, Outside

LEMMA TypeInvAlways == Spec => []TypeInv
<1>1. Init => TypeInv
  BY TypeInit
<1>2. TypeInv /\ [Next]_vars => TypeInv'
  BY TypeNext
<1> QED  BY <1>1, <1>2, PTL DEF Spec

\* In every scheduling mode each thread stays in its own function, each variable keeps
\* its type, and a prefetch thread that reads a file has been told which.
THEOREM TypeCorrect == Spec => []TypeOK
<1>1. TypeInv => TypeOK
  BY DEF TypeInv
<1> QED  BY <1>1, TypeInvAlways, PTL
-----------------------------------------------------------------------------
(* Counting threads *)

\* The threads at one of the points in C.
In(C) == {t \in Threads : pc[t] \in C}

LEMMA FiniteCounts ==
    /\ IsFiniteSet(Threads)
    /\ \A S \in SUBSET Threads : IsFiniteSet(S) /\ Cardinality(S) \in Nat
    /\ Cardinality(Workers) \in Nat /\ Cardinality(Dispatchers) \in Nat
<1>1. IsFiniteSet(Dispatchers) /\ IsFiniteSet(Workers) /\ IsFiniteSet(Prefetchers)
  BY ServerAssumption DEF ServerAssumption
<1>2. IsFiniteSet(Threads)
  BY <1>1, FS_Union DEF Threads
<1> QED  BY <1>1, <1>2, FS_Subset, FS_CardinalityType

LEMMA FewerThreads ==
    ASSUME NEW A \in SUBSET Threads, NEW B \in SUBSET A
    PROVE  Cardinality(B) <= Cardinality(A)
BY FiniteCounts, FS_Subset

LEMMA OneThreadLess ==
    ASSUME NEW A \in SUBSET Threads, NEW t \in A, NEW B \in SUBSET (A \ {t})
    PROVE  Cardinality(B) <= Cardinality(A) - 1
<1>1. Cardinality(A \ {t}) = Cardinality(A) - 1
  BY FiniteCounts, FS_RemoveElement
<1> QED  BY <1>1, FewerThreads

\* Two points are counted apart or together.
LEMMA AtTwo ==
    ASSUME NEW a, NEW b, a # b
    PROVE  Cardinality(At(a)) + Cardinality(At(b)) = Cardinality(In({a, b}))
<1>1. In({a, b}) = At(a) \cup At(b) /\ At(a) \cap At(b) = {}
  BY DEF In, At
<1>2. IsFiniteSet(At(a)) /\ IsFiniteSet(At(b))
  BY FiniteCounts DEF At
<1>3. /\ Cardinality(At(a)) \in Nat /\ Cardinality(At(b)) \in Nat
      /\ Cardinality(At(a) \cap At(b)) = 0
  BY <1>1, <1>2, FS_CardinalityType, FS_EmptySet
<1>4. Cardinality(At(a) \cup At(b))
          = Cardinality(At(a)) + Cardinality(At(b)) - Cardinality(At(a) \cap At(b))
  BY <1>2, FS_Union
<1>5. Cardinality(In({a, b})) = Cardinality(At(a) \cup At(b))
  BY <1>1
<1>6. ASSUME NEW m \in Nat, NEW n \in Nat, NEW k, k = m + n - 0 PROVE m + n = k
  BY <1>6
<1> QED  BY <1>3, <1>4, <1>5, <1>6

\* A signal wakes one of the threads that wait, if any.
LEMMA SignalWakes ==
    ASSUME TypeInv, NEW t \in Threads, NEW l, NEW at \in {"wait_get", "wait_put", "p_wait"},
           NEW S \in Signal(at), GoWaking(t, l, S)
    PROVE  \/ At(at) = {} /\ Go(t, l)
           \/ \E u \in At(at) : pc' = [pc EXCEPT ![u] = WokenAt[at], ![t] = l]
<1>1. pc \in [Threads -> Labels]
  BY DEF TypeInv, TypeOK, ThreadTypes
<1>2. CASE S = {}
  <2>1. At(at) = {}
    BY <1>2 DEF Signal
  <2> QED  BY <1>1, <1>2, <2>1 DEF GoWaking, Go
<1>3. ASSUME NEW u \in At(at), S = {u}
      PROVE  pc' = [pc EXCEPT ![u] = WokenAt[at], ![t] = l]
  <2>1. u \in Threads /\ pc[u] = at
    BY DEF At
  <2> QED  BY <1>1, <1>3, <2>1 DEF GoWaking
<1> QED  BY <1>2, <1>3 DEF Signal

-----------------------------------------------------------------------------
(* The steps that matter to the queues *)

\* The points at which threads are counted below.
Counted == {"wait_put", "woken_put", "wait_get", "woken_get", "lock_cache",
            "put_prefetch"}

\* A step that leaves the queues and the threads at these points alone.
QueuesRest ==
    /\ UNCHANGED <<queue, prefetch>>
    /\ \/ pc' = pc
       \/ \E t \in Threads, l \in Labels \ Counted :
             pc[t] \notin Counted \cup {"exited"} /\ Go(t, l)

LEMMA QuietOrNot ==
    ASSUME TypeInv, [Next]_vars
    PROVE  \/ QueuesRest
           \/ \E d \in Dispatchers : Dispatch(d)
           \/ \E w \in Workers :
                 \/ LockQueue(w) \/ LockQueueUnchecked(w) \/ TakeRequest(w)
                 \/ Offer(w) \/ PutPrefetch(w)
           \/ \E p \in Prefetchers :
                 pc[p] \in {"p_lock", "p_woken"} /\ prefetch # <<>> /\ TakePrefetch(p)
           \/ \E t \in Threads : SpuriousWakeup(t)
<1> USE DEF QueuesRest
<1>1. CASE UNCHANGED vars
  BY <1>1 DEF vars
<1>2. ASSUME NEW kind, Fault(kind) PROVE QueuesRest
  BY <1>2 DEF Fault
<1>3. ASSUME NEW t \in Threads, NEW l \in Labels \ Counted,
             pc[t] \notin Counted \cup {"exited"}, Go(t, l), UNCHANGED <<queue, prefetch>>
      PROVE  QueuesRest
  BY <1>3
<1>4. /\ \A t \in Dispatchers \cup Workers \cup Prefetchers : t \in Threads
      /\ {"accept", "enqueue", "exited", "check", "lock_queue", "read", "stat", "reply",
          "offer", "drain_check", "drain_lock", "drain_log", "p_check", "p_lock",
          "p_wait", "p_woken", "p_guess", "p_stat", "p_put"} \subseteq Labels \ Counted
  BY Kinds DEF Labels, Counted
<1>5. ASSUME NEW d \in Dispatchers,
             \/ \E r \in Requests, f \in Files : Accept(d, r, f)
             \/ \E r \in Requests : Refuse(d, r)
             \/ AcceptFails(d)
      PROVE  QueuesRest
  BY <1>3, <1>4, <1>5 DEF Accept, Refuse, AcceptFails, threadVars, Counted
<1>6. ASSUME NEW w \in Workers, WorkerCheck(w) \/ DrainCheck(w) PROVE QueuesRest
  BY <1>3, <1>4, <1>6 DEF WorkerCheck, DrainCheck, Counted
<1>7. ASSUME NEW w \in Workers, ReadFile(w) \/ StatFile(w) \/ Reply(w) PROVE QueuesRest
  <2>1. /\ pc' = pc \/ \E l \in {"reply", "stat", "drain_log", "offer"} : Go(w, l)
        /\ pc[w] \in {"read", "stat", "reply"} /\ UNCHANGED <<queue, prefetch>>
    BY <1>7 DEF ReadFile, StatFile, Reply
  <2> QED  BY <1>3, <1>4, <2>1 DEF Counted
<1>8. ASSUME NEW w \in Workers, DrainLog(w) PROVE QueuesRest
  BY <1>2, <1>3, <1>4, <1>8 DEF DrainLog, Destroy, Counted
<1>9. ASSUME NEW p \in Prefetchers, Prefetch(p)
      PROVE  \/ QueuesRest
             \/ pc[p] \in {"p_lock", "p_woken"} /\ prefetch # <<>> /\ TakePrefetch(p)
  <2>1. CASE PrefetchCheck(p) \/ StatGuess(p) \/ GuessFails(p)
    BY <1>3, <1>4, <2>1 DEF PrefetchCheck, StatGuess, GuessFails, Destroy, Counted
  <2>2. CASE PrefetchLock(p) \/ PrefetchWoken(p)
    BY <1>2, <1>3, <1>4, <2>2 DEF PrefetchLock, PrefetchWoken, Counted
  <2>3. CASE PutGuess(p) \/ \E g \in Guesses : GuessFile(p, g)
    BY <1>2, <1>3, <1>4, <2>3 DEF PutGuess, StoreGuess, GuessFile, Destroy, Counted
  <2> QED  BY <1>9, <2>1, <2>2, <2>3 DEF Prefetch
<1>10. CASE JoinDispatchers \/ Return \/ \E f \in Files : ChangeFile(f)
  BY <1>10 DEF JoinDispatchers, Return, ChangeFile, threadVars
<1> QED  BY <1>1, <1>5, <1>6, <1>7, <1>8, <1>9, <1>10 DEF Next, Outside, Work

-----------------------------------------------------------------------------
(* How long the queues get *)

\* A queue of length n and the threads in A about to add to it, when one more may set out
\* while n is below the limit.
LEMMA BoundKept ==
    ASSUME NEW n \in Nat, NEW m \in Nat, NEW limit \in Nat, NEW All \in SUBSET Threads,
           NEW A \in SUBSET All, NEW B \in SUBSET All,
           n + Cardinality(A) <= limit + Cardinality(All),
           \/ m <= n /\ B \subseteq A
           \/ m <= limit
           \/ m = n + 1 /\ \E t \in A : B \subseteq A \ {t}
    PROVE  m + Cardinality(B) <= limit + Cardinality(All)
<1>1. /\ Cardinality(A) \in Nat /\ Cardinality(B) \in Nat /\ Cardinality(All) \in Nat
      /\ Cardinality(B) <= Cardinality(All)
  BY FiniteCounts, FewerThreads
<1>2. CASE m <= n /\ B \subseteq A
  <2>1. Cardinality(B) <= Cardinality(A)
    BY <1>2, FewerThreads
  <2> QED  BY <1>1, <1>2, <2>1
<1>3. CASE m <= limit
  BY <1>1, <1>3
<1>4. ASSUME m = n + 1, NEW t \in A, B \subseteq A \ {t}
      PROVE  m + Cardinality(B) <= limit + Cardinality(All)
  <2>1. Cardinality(B) <= Cardinality(A) - 1
    BY <1>4, OneThreadLess
  <2> QED  BY <1>1, <1>4, <2>1
<1> QED  BY <1>2, <1>3, <1>4

\* What a worker leaves in the queue.
LEMMA TakenLength ==
    ASSUME TypeInv, NEW w \in Workers, TakeRequest(w), queue # <<>>
    PROVE  /\ Len(queue') <= Len(queue)
           /\ Mode # "SFF" => Len(queue') = Len(queue) - 1
           /\ Mode = "SFF" => Len(queue') = Len(queue)
<1>1. queue' = QueueAfter(PickedAt) /\ queue \in Seq(Requests) /\ Len(queue) \in Nat
  BY DEF TakeRequest, TypeInv, TypeOK, DataTypes
<1>2. PickedAt \in 1 .. Len(queue)
  BY PickedIsQueued DEF TypeInv
<1>3. Len(RemoveAt(queue, PickedAt)) = Len(queue) - 1
  BY <1>1, <1>2, RemoveAtProperties
<1> QED  BY <1>1, <1>3 DEF QueueAfter

\* The dispatchers that wait or have been woken.
Blocked == In({"wait_put", "woken_put"})

LEMMA PutMoves ==
    ASSUME TypeInv, TypeInv', [Next]_vars
    PROVE  \/ Len(queue') <= Len(queue) /\ Blocked' \subseteq Blocked
           \/ Len(queue') <= MaxQueue
           \/ Len(queue') = Len(queue) + 1 /\ \E d \in Blocked : Blocked' \subseteq Blocked \ {d}
<1>1. pc \in [Threads -> Labels] /\ Len(queue) \in Nat /\ queue \in Seq(Requests)
      /\ hand \in [Threads -> Requests \cup {Null}]
  BY DEF TypeInv, TypeOK, ThreadTypes, DataTypes
<1>2. CASE QueuesRest
  BY <1>1, <1>2 DEF QueuesRest, Counted, Blocked, In, Go
<1>3. ASSUME NEW t \in Threads, NEW l, l \notin {"wait_put", "woken_put"}, Go(t, l)
      PROVE  Blocked' \subseteq Blocked \ {t}
  BY <1>1, <1>3 DEF Go, Blocked, In
<1>4. ASSUME NEW t \in Threads, NEW l, l \notin {"wait_put", "woken_put"},
             NEW at \in {"wait_get", "wait_put", "p_wait"},
             NEW S \in Signal(at), GoWaking(t, l, S)
      PROVE  Blocked' \subseteq Blocked \ {t}
  <2>1. ASSUME NEW u \in At(at), pc' = [pc EXCEPT ![u] = WokenAt[at], ![t] = l]
        PROVE  Blocked' \subseteq Blocked \ {t}
    <3>1. u \in Threads /\ pc[u] = at
      BY DEF At
    <3>2. (WokenAt[at] = "woken_put" => at = "wait_put") /\ WokenAt[at] # "wait_put"
      BY DEF WokenAt
    <3> QED  BY <1>1, <1>4, <2>1, <3>1, <3>2 DEF Blocked, In
  <2>2. Go(t, l) \/ \E u \in At(at) : pc' = [pc EXCEPT ![u] = WokenAt[at], ![t] = l]
    BY <1>4, SignalWakes
  <2>3. CASE Go(t, l)
    BY <1>3, <1>4, <2>3
  <2> QED  BY <2>1, <2>2, <2>3
<1>5. ASSUME NEW d \in Dispatchers, Dispatch(d)
      PROVE  \/ Len(queue') <= Len(queue) /\ Blocked' \subseteq Blocked
             \/ Len(queue') <= MaxQueue
             \/ /\ Len(queue') = Len(queue) + 1
                /\ \E e \in Blocked : Blocked' \subseteq Blocked \ {e}
  <2>1. d \in Threads /\ MaxQueue \in Nat
    BY Kinds, ServerAssumption DEF ServerAssumption
  <2>2. ASSUME pc[d] \in {"enqueue", "woken_put"}, PutRequest(d)
        PROVE  Len(queue') = Len(queue) + 1 /\ Blocked' \subseteq Blocked \ {d}
    <3>1. hand[d] \in Requests
      BY <2>1, <2>2, HandIsCreated DEF Holding
    <3>2. Len(queue') = Len(queue) + 1
      BY <1>1, <2>2, <3>1 DEF PutRequest
    <3>3. Blocked' \subseteq Blocked \ {d}
      BY <1>4, <2>1, <2>2 DEF PutRequest
    <3> QED  BY <3>2, <3>3
  <2>3. CASE Enqueue(d)
    <3>1. CASE Fault("queue_assert")
      BY <1>1, <3>1 DEF Fault, Blocked, In
    <3>2. CASE Len(queue) = MaxQueue /\ queue' = queue
      BY <1>1, <2>1, <3>2
    <3>3. CASE Len(queue) < MaxQueue /\ PutRequest(d)
      <4>1. Len(queue') = Len(queue) + 1
        BY <2>2, <2>3, <3>3 DEF Enqueue
      <4> QED  BY <1>1, <2>1, <3>3, <4>1
    <3> QED  BY <2>3, <3>1, <3>2, <3>3 DEF Enqueue
  <2>4. CASE EnqueueWoken(d)
    <3>1. d \in Blocked
      BY <2>1, <2>4 DEF EnqueueWoken, Blocked, In
    <3> QED  BY <2>2, <2>4, <3>1 DEF EnqueueWoken
  <2> QED  BY <1>5, <2>3, <2>4 DEF Dispatch
<1>6. ASSUME NEW w \in Workers, LockQueue(w) \/ LockQueueUnchecked(w) \/ Offer(w)
      PROVE  Len(queue') <= Len(queue) /\ Blocked' \subseteq Blocked
  <2>1. w \in Threads /\ Len(queue') <= Len(queue)
    BY <1>1, <1>6, Kinds DEF LockQueue, LockQueueUnchecked, Offer
  <2>2. pc' = pc \/ \E l \in {"wait_get", "lock_cache", "put_prefetch", "check"} : Go(w, l)
    BY <1>6 DEF LockQueue, LockQueueUnchecked, Offer, Destroy
  <2> QED  BY <1>3, <2>1, <2>2 DEF Blocked, In
<1>7. ASSUME NEW w \in Workers, PutPrefetch(w)
      PROVE  Len(queue') <= Len(queue) /\ Blocked' \subseteq Blocked
  <2>1. CASE Fault("list_corrupt")
    BY <1>1, <2>1 DEF Fault, Blocked, In
  <2>2. CASE ~ Fault("list_corrupt")
    <3>1. Blocked' \subseteq Blocked \ {w}
      BY <1>4, <1>7, <2>2, Kinds DEF PutPrefetch
    <3> QED  BY <1>1, <1>7, <3>1 DEF PutPrefetch, Fault
  <2> QED  BY <2>1, <2>2
<1>8. ASSUME NEW w \in Workers, TakeRequest(w)
      PROVE  Len(queue') <= Len(queue) /\ Blocked' \subseteq Blocked
  <2>1. CASE Fault("null_request")
    BY <1>1, <2>1 DEF Fault, Blocked, In
  <2>2. CASE queue # <<>> /\ ~ Fault("null_request")
    <3>1. Blocked' \subseteq Blocked \ {w}
      BY <1>3, <1>4, <1>8, <2>2, Kinds DEF TakeRequest
    <3>2. Len(queue') <= Len(queue)
      BY <1>8, <2>2, TakenLength DEF TypeInv
    <3> QED  BY <3>1, <3>2
  <2> QED  BY <1>8, <2>1, <2>2 DEF TakeRequest
<1>9. ASSUME NEW p \in Prefetchers, TakePrefetch(p)
      PROVE  Len(queue') <= Len(queue) /\ Blocked' \subseteq Blocked
  BY <1>1, <1>3, <1>9, Kinds DEF TakePrefetch
<1>10. ASSUME NEW t \in Threads, SpuriousWakeup(t)
       PROVE  Len(queue') <= Len(queue) /\ Blocked' \subseteq Blocked
  <2>1. pc[t] \in {"wait_put", "wait_get", "p_wait"} /\ Go(t, WokenAt[pc[t]])
    BY <1>10 DEF SpuriousWakeup, WokenAt
  <2> QED  BY <1>1, <1>10, <2>1 DEF SpuriousWakeup, WokenAt, Go, Blocked, In
<1> QED  BY <1>2, <1>5, <1>6, <1>7, <1>8, <1>9, <1>10, QuietOrNot

LEMMA BlockedAreDispatchers ==
    ASSUME TypeInv
    PROVE  Blocked \in SUBSET Dispatchers
BY Kinds DEF Blocked, In, TypeInv, TypeOK, ThreadTypes

\* A dispatcher that is woken puts its request without looking at the queue again, so the
\* queue can outgrow qlen, but only by one request per dispatcher.  In every mode.
THEOREM QueueBoundHolds == Spec => []QueueBound
<1> DEFINE Inv == Len(queue) + Cardinality(Blocked) <= MaxQueue + Cardinality(Dispatchers)
<1>1. Init => Inv
  <2> SUFFICES ASSUME Init PROVE Inv
    OBVIOUS
  <2>1. Len(queue) = 0
    BY DEF Init
  <2>2. Cardinality(Blocked) <= Cardinality(Dispatchers)
    BY TypeInit, BlockedAreDispatchers, FewerThreads, Kinds
  <2>3. MaxQueue \in Nat /\ Cardinality(Dispatchers) \in Nat /\ Cardinality(Blocked) \in Nat
    BY FiniteCounts, ServerAssumption DEF ServerAssumption, Blocked, In
  <2> QED  BY <2>1, <2>2, <2>3
<1>2. TypeInv /\ TypeInv' /\ Inv /\ [Next]_vars => Inv'
  <2> SUFFICES ASSUME TypeInv, TypeInv', Inv, [Next]_vars PROVE Inv'
    OBVIOUS
  <2>1. /\ Blocked \in SUBSET Dispatchers /\ Blocked' \in SUBSET Dispatchers
        /\ Dispatchers \in SUBSET Threads
    BY Kinds DEF Blocked, In, TypeInv, TypeOK, ThreadTypes
  <2>2. Len(queue) \in Nat /\ Len(queue)' \in Nat /\ MaxQueue \in Nat
    BY ServerAssumption DEF ServerAssumption, TypeInv, TypeOK, DataTypes
  <2>3. \/ Len(queue') <= Len(queue) /\ Blocked' \subseteq Blocked
        \/ Len(queue') <= MaxQueue
        \/ Len(queue') = Len(queue) + 1 /\ \E d \in Blocked : Blocked' \subseteq Blocked \ {d}
    BY PutMoves
  <2> HIDE DEF Blocked
  <2>4. Len(queue') + Cardinality(Blocked') <= MaxQueue + Cardinality(Dispatchers)
    BY <2>1, <2>2, <2>3, BoundKept
  <2> QED  BY <2>4
<1>3. Inv => QueueBound
  <2>1. Cardinality(At("wait_put")) + Cardinality(At("woken_put")) = Cardinality(Blocked)
    BY AtTwo DEF Blocked
  <2>2. /\ Cardinality(At("wait_put")) \in Nat /\ Cardinality(At("woken_put")) \in Nat
    BY FiniteCounts DEF At
  <2> QED  BY <2>1, <2>2 DEF QueueBound
<1> HIDE DEF Inv
<1> QED  BY <1>1, <1>2, <1>3, TypeInvAlways, PTL DEF Spec

\* The workers that have found room in the prefetch queue and not used it yet.
Offering == In({"put_prefetch"})

LEMMA OfferMoves ==
    ASSUME TypeInv, TypeInv', [Next]_vars
    PROVE  \/ Len(prefetch') <= Len(prefetch) /\ Offering' \subseteq Offering
           \/ Len(prefetch') < MaxPrefetch
           \/ /\ Len(prefetch') = Len(prefetch) + 1
              /\ \E w \in Offering : Offering' \subseteq Offering \ {w}
<1>1. /\ pc \in [Threads -> Labels] /\ Len(prefetch) \in Nat /\ prefetch \in Seq(Requests)
      /\ hand \in [Threads -> Requests \cup {Null}]
  BY DEF TypeInv, TypeOK, ThreadTypes, DataTypes
<1>2. CASE QueuesRest
  BY <1>1, <1>2 DEF QueuesRest, Counted, Offering, In, Go
<1>3. ASSUME NEW t \in Threads, NEW l, l # "put_prefetch", Go(t, l)
      PROVE  Offering' \subseteq Offering \ {t}
  BY <1>1, <1>3 DEF Go, Offering, In
<1>4. ASSUME NEW t \in Threads, NEW l, l # "put_prefetch",
             NEW at \in {"wait_get", "wait_put", "p_wait"},
             NEW S \in Signal(at), GoWaking(t, l, S)
      PROVE  Offering' \subseteq Offering \ {t}
  <2>1. Go(t, l) \/ \E u \in At(at) : pc' = [pc EXCEPT ![u] = WokenAt[at], ![t] = l]
    BY <1>4, SignalWakes
  <2>2. WokenAt[at] # "put_prefetch"
    BY DEF WokenAt
  <2>3. CASE Go(t, l)
    BY <1>3, <1>4, <2>3
  <2>4. ASSUME NEW u \in At(at), pc' = [pc EXCEPT ![u] = WokenAt[at], ![t] = l]
        PROVE  Offering' \subseteq Offering \ {t}
    BY <1>1, <1>4, <2>2, <2>4 DEF Offering, In
  <2> QED  BY <2>1, <2>3, <2>4
<1>5. ASSUME NEW d \in Dispatchers, Dispatch(d)
      PROVE  Len(prefetch') <= Len(prefetch) /\ Offering' \subseteq Offering
  <2>1. prefetch' = prefetch /\ d \in Threads
    BY <1>5, Kinds DEF Dispatch, Enqueue, EnqueueWoken, PutRequest, Fault
  <2>2. CASE pc' = pc
    BY <1>1, <2>1, <2>2 DEF Offering, In
  <2>3. CASE PutRequest(d)
    BY <1>1, <1>4, <2>1, <2>3 DEF PutRequest
  <2>4. CASE Go(d, "wait_put")
    BY <1>1, <1>3, <2>1, <2>4
  <2> QED  BY <1>5, <2>2, <2>3, <2>4 DEF Dispatch, Enqueue, EnqueueWoken, Fault
<1>6. ASSUME NEW w \in Workers, LockQueue(w) \/ LockQueueUnchecked(w)
      PROVE  Len(prefetch') <= Len(prefetch) /\ Offering' \subseteq Offering
  <2>1. w \in Threads /\ prefetch' = prefetch
    BY <1>6, Kinds DEF LockQueue, LockQueueUnchecked
  <2>2. Go(w, "wait_get") \/ Go(w, "lock_cache")
    BY <1>6 DEF LockQueue, LockQueueUnchecked
  <2> QED  BY <1>1, <1>3, <2>1, <2>2
<1>7. ASSUME NEW w \in Workers, Offer(w)
      PROVE  \/ Len(prefetch') <= Len(prefetch) /\ Offering' \subseteq Offering
             \/ Len(prefetch') < MaxPrefetch
  <2>1. w \in Threads /\ prefetch' = prefetch
    BY <1>7, Kinds DEF Offer
  <2>2. CASE pc' = pc
    BY <1>1, <2>1, <2>2 DEF Offering, In
  <2>3. CASE Go(w, "check")
    BY <1>1, <1>3, <2>1, <2>3
  <2> QED  BY <1>7, <2>1, <2>2, <2>3 DEF Offer, Destroy
<1>8. ASSUME NEW w \in Workers, PutPrefetch(w)
      PROVE  \/ Len(prefetch') <= Len(prefetch) /\ Offering' \subseteq Offering
             \/ /\ Len(prefetch') = Len(prefetch) + 1
                /\ \E v \in Offering : Offering' \subseteq Offering \ {v}
  <2>1. CASE Fault("list_corrupt")
    BY <1>1, <2>1 DEF Fault, Offering, In
  <2>2. CASE ~ Fault("list_corrupt")
    <3>1. w \in Threads /\ w \in Offering /\ hand[w] \in Requests
      BY <1>8, HandIsCreated, Kinds DEF PutPrefetch, Offering, In, Holding
    <3>2. Len(prefetch') = Len(prefetch) + 1
      BY <1>1, <1>8, <2>2, <3>1 DEF PutPrefetch
    <3>3. Offering' \subseteq Offering \ {w}
      BY <1>4, <1>8, <2>2, <3>1 DEF PutPrefetch
    <3> QED  BY <3>1, <3>2, <3>3
  <2> QED  BY <2>1, <2>2
<1>9. ASSUME NEW w \in Workers, TakeRequest(w)
      PROVE  Len(prefetch') <= Len(prefetch) /\ Offering' \subseteq Offering
  <2>1. CASE Fault("null_request")
    BY <1>1, <2>1 DEF Fault, Offering, In
  <2>2. CASE queue # <<>> /\ ~ Fault("null_request")
    <3>1. Offering' \subseteq Offering \ {w}
      BY <1>3, <1>4, <1>9, <2>2, Kinds DEF TakeRequest
    <3> QED  BY <1>1, <1>9, <2>2, <3>1 DEF TakeRequest
  <2> QED  BY <1>9, <2>1, <2>2 DEF TakeRequest
<1>10. ASSUME NEW p \in Prefetchers, TakePrefetch(p), prefetch # <<>>
       PROVE  Len(prefetch') <= Len(prefetch) /\ Offering' \subseteq Offering
  <2>1. Offering' \subseteq Offering
    BY <1>3, <1>10, Kinds DEF TakePrefetch
  <2> QED  BY <1>1, <1>10, <2>1 DEF TakePrefetch
<1>11. ASSUME NEW t \in Threads, SpuriousWakeup(t)
       PROVE  Len(prefetch') <= Len(prefetch) /\ Offering' \subseteq Offering
  <2>1. pc[t] \in {"wait_put", "wait_get", "p_wait"} /\ Go(t, WokenAt[pc[t]])
    BY <1>11 DEF SpuriousWakeup, WokenAt
  <2>2. WokenAt[pc[t]] # "put_prefetch"
    BY <2>1 DEF WokenAt
  <2> QED  BY <1>1, <1>3, <1>11, <2>1, <2>2 DEF SpuriousWakeup
<1> QED  BY <1>2, <1>5, <1>6, <1>7, <1>8, <1>9, <1>10, <1>11, QuietOrNot

\* prefetch_size is tested without the lock, so the prefetch queue can outgrow its limit,
\* but only by one request per other worker.  In every mode.
THEOREM PrefetchBoundHolds == Spec => []PrefetchBound
<1> DEFINE Inv == Len(prefetch) + Cardinality(Offering)
                      <= (MaxPrefetch - 1) + Cardinality(Workers)
<1>1. \A S \in SUBSET Workers : Cardinality(S) \in Nat /\ Cardinality(S) <= Cardinality(Workers)
  BY FiniteCounts, FewerThreads, Kinds
<1>2. Cardinality(Workers) \in Nat /\ MaxPrefetch \in Nat \ {0}
  BY FiniteCounts, ServerAssumption DEF ServerAssumption
<1>3. TypeInv => Offering \in SUBSET Workers
  BY Kinds DEF Offering, In, TypeInv, TypeOK, ThreadTypes
<1>4. Init => Inv
  BY <1>1, <1>2, <1>3, TypeInit DEF Init
<1>5. TypeInv /\ TypeInv' /\ Inv /\ [Next]_vars => Inv'
  <2> SUFFICES ASSUME TypeInv, TypeInv', Inv, [Next]_vars PROVE Inv'
    OBVIOUS
  <2>1. /\ Offering \in SUBSET Workers /\ Offering' \in SUBSET Workers
        /\ Workers \in SUBSET Threads
    BY Kinds DEF Offering, In, TypeInv, TypeOK, ThreadTypes
  <2>2. Len(prefetch) \in Nat /\ Len(prefetch)' \in Nat /\ MaxPrefetch - 1 \in Nat
    BY <1>2 DEF TypeInv, TypeOK, DataTypes
  <2>3. \/ Len(prefetch') <= Len(prefetch) /\ Offering' \subseteq Offering
        \/ Len(prefetch') < MaxPrefetch
        \/ /\ Len(prefetch') = Len(prefetch) + 1
           /\ \E w \in Offering : Offering' \subseteq Offering \ {w}
    BY OfferMoves
  <2>4. Len(prefetch') < MaxPrefetch => Len(prefetch') <= MaxPrefetch - 1
    BY <1>2, <2>2
  <2> HIDE DEF Offering
  <2>5. Len(prefetch') + Cardinality(Offering') <= (MaxPrefetch - 1) + Cardinality(Workers)
    BY <2>1, <2>2, <2>3, <2>4, BoundKept
  <2> QED  BY <2>5
<1>6. TypeInv /\ Inv => PrefetchBound
  <2> SUFFICES ASSUME TypeInv, Inv PROVE PrefetchBound
    OBVIOUS
  <2>1. Offering = At("put_prefetch")
    BY DEF Offering, In, At
  <2>2. Len(prefetch) \in Nat /\ Cardinality(Offering) \in Nat
    BY <1>1, <1>3 DEF TypeInv, TypeOK, DataTypes
  <2> QED  BY <1>2, <2>1, <2>2 DEF PrefetchBound
<1> HIDE DEF Inv
<1> QED  BY <1>4, <1>5, <1>6, TypeInvAlways, PTL DEF Spec

-----------------------------------------------------------------------------
(* No signal is lost *)

\* A queue of length n, the threads in A coming for it, and the threads in Z asleep.
LEMMA ComingKept ==
    ASSUME NEW n \in Int, NEW m \in Int,
           NEW A \in SUBSET Threads, NEW B \in SUBSET Threads, NEW Y, NEW Z,
           Y # {} => n <= Cardinality(A),
           \/ m <= n /\ A \subseteq B /\ Z \subseteq Y
           \/ m = 0
           \/ Z = {}
           \/ Y # {} /\ m = n + 1 /\ \E t \in Threads \ A : A \cup {t} \subseteq B
           \/ m = n - 1 /\ Z \subseteq Y /\ \E t \in A : A \ {t} \subseteq B
    PROVE  Z # {} => m <= Cardinality(B)
<1>1. Cardinality(A) \in Nat /\ Cardinality(B) \in Nat
  BY FiniteCounts
<1>2. CASE m <= n /\ A \subseteq B /\ Z \subseteq Y
  <2>1. Cardinality(A) <= Cardinality(B)
    BY <1>2, FewerThreads
  <2> QED  BY <1>1, <1>2, <2>1
<1>3. ASSUME Y # {}, m = n + 1, NEW t \in Threads \ A, A \cup {t} \subseteq B
      PROVE  m <= Cardinality(B)
  <2>1. t \in B /\ A \subseteq B \ {t}
    BY <1>3
  <2>2. Cardinality(A) <= Cardinality(B) - 1
    BY <2>1, OneThreadLess
  <2> QED  BY <1>1, <1>3, <2>2
<1>4. ASSUME m = n - 1, Y # {}, NEW t \in A, A \ {t} \subseteq B
      PROVE  m <= Cardinality(B)
  <2>1. IsFiniteSet(A) /\ Cardinality(A \ {t}) = Cardinality(A) - 1
    BY FiniteCounts, FS_RemoveElement
  <2>2. Cardinality(A \ {t}) <= Cardinality(B)
    BY <1>4, FewerThreads
  <2> QED  BY <1>1, <1>4, <2>1, <2>2
<1> QED  BY <1>1, <1>2, <1>3, <1>4

\* The workers that sleep, and those that have been woken or are about to take a request.
Asleep == At("wait_get")
Coming == In({"woken_get", "lock_cache"})

LEMMA GetMoves ==
    ASSUME TypeInv, TypeInv', [Next]_vars, Mode # "SFF"
    PROVE  \/ Len(queue') <= Len(queue) /\ Coming \subseteq Coming' /\ Asleep' \subseteq Asleep
           \/ Len(queue') = 0
           \/ Asleep' = {}
           \/ /\ Asleep # {} /\ Len(queue') = Len(queue) + 1
              /\ \E t \in Threads \ Coming : Coming \cup {t} \subseteq Coming'
           \/ /\ Len(queue') = Len(queue) - 1 /\ Asleep' \subseteq Asleep
              /\ \E t \in Coming : Coming \ {t} \subseteq Coming'
<1> DEFINE Same == /\ Len(queue') <= Len(queue)
                   /\ Coming \subseteq Coming' /\ Asleep' \subseteq Asleep
<1>1. /\ pc \in [Threads -> Labels] /\ Len(queue) \in Nat /\ queue \in Seq(Requests)
      /\ hand \in [Threads -> Requests \cup {Null}]
  BY DEF TypeInv, TypeOK, ThreadTypes, DataTypes
<1>2. CASE QueuesRest
  BY <1>1, <1>2 DEF QueuesRest, Counted, Coming, Asleep, At, In, Go
<1>3. ASSUME NEW t \in Threads, pc[t] \notin {"woken_get", "lock_cache"},
             NEW l, l # "wait_get", Go(t, l)
      PROVE  Coming \subseteq Coming' /\ Asleep' \subseteq Asleep
  BY <1>1, <1>3 DEF Go, Coming, Asleep, At, In
<1>4. ASSUME NEW t \in Threads, NEW l, l # "wait_get",
             NEW at \in {"wait_put", "p_wait"}, NEW S \in Signal(at), GoWaking(t, l, S)
      PROVE  Coming \ {t} \subseteq Coming' /\ Asleep' \subseteq Asleep
  <2>1. Go(t, l) \/ \E u \in At(at) : pc' = [pc EXCEPT ![u] = WokenAt[at], ![t] = l]
    BY <1>4, SignalWakes
  <2>2. WokenAt[at] # "wait_get"
    BY DEF WokenAt
  <2>3. CASE Go(t, l)
    BY <1>1, <1>4, <2>3 DEF Go, Coming, Asleep, At, In
  <2>4. ASSUME NEW u \in At(at), pc' = [pc EXCEPT ![u] = WokenAt[at], ![t] = l]
        PROVE  Coming \ {t} \subseteq Coming' /\ Asleep' \subseteq Asleep
    <3>1. u \in Threads /\ pc[u] = at
      BY DEF At
    <3> QED  BY <1>1, <1>4, <2>2, <2>4, <3>1 DEF Coming, Asleep, At, In
  <2> QED  BY <2>1, <2>3, <2>4
<1>5. ASSUME NEW d \in Dispatchers, Dispatch(d), PutRequest(d)
      PROVE  \/ Asleep' = {}
             \/ /\ Asleep # {} /\ Len(queue') = Len(queue) + 1
                /\ \E t \in Threads \ Coming : Coming \cup {t} \subseteq Coming'
  <2>1. d \in Threads /\ pc[d] \in {"enqueue", "woken_put"} /\ hand[d] \in Requests
    BY <1>5, HandIsCreated, Kinds DEF Holding, Dispatch, Enqueue, EnqueueWoken
  <2>2. Len(queue') = Len(queue) + 1
    BY <1>1, <1>5, <2>1 DEF PutRequest
  <2>3. \/ At("wait_get") = {} /\ Go(d, "accept")
        \/ \E u \in At("wait_get") :
              pc' = [pc EXCEPT ![u] = "woken_get", ![d] = "accept"]
    <3>1. WokenAt["wait_get"] = "woken_get"
      BY DEF WokenAt
    <3> QED  BY <1>5, <2>1, <3>1, SignalWakes DEF PutRequest
  <2>4. CASE At("wait_get") = {} /\ Go(d, "accept")
    BY <1>1, <2>1, <2>4 DEF Go, Asleep, At
  <2>5. ASSUME NEW u \in At("wait_get"),
               pc' = [pc EXCEPT ![u] = "woken_get", ![d] = "accept"]
        PROVE  Asleep # {} /\ \E t \in Threads \ Coming : Coming \cup {t} \subseteq Coming'
    <3>1. u \in Threads /\ pc[u] = "wait_get" /\ u # d
      BY <2>1 DEF At
    <3>2. u \in Threads \ Coming /\ Coming \cup {u} \subseteq Coming'
      BY <1>1, <2>1, <2>5, <3>1 DEF Coming, In
    <3> QED  BY <3>2 DEF Asleep
  <2> QED  BY <2>2, <2>3, <2>4, <2>5
<1>6. ASSUME NEW d \in Dispatchers, Dispatch(d), ~ PutRequest(d)
      PROVE  Same
  <2>1. /\ d \in Threads /\ pc[d] \in {"enqueue", "woken_put"} /\ queue' = queue
        /\ pc' = pc \/ Go(d, "wait_put")
    BY <1>6, Kinds DEF Dispatch, Enqueue, EnqueueWoken, Fault
  <2>2. CASE pc' = pc
    BY <1>1, <2>1, <2>2 DEF Coming, Asleep, At, In
  <2> QED  BY <1>1, <1>3, <2>1, <2>2
<1>7. ASSUME NEW w \in Workers, LockQueue(w)
      PROVE  Same \/ Len(queue') = 0
  <2>1. CASE queue = <<>>
    BY <1>7, <2>1 DEF LockQueue
  <2>2. CASE queue # <<>>
    BY <1>1, <1>3, <1>7, <2>2, Kinds DEF LockQueue
  <2> QED  BY <2>1, <2>2
<1>8. ASSUME NEW w \in Workers, LockQueueUnchecked(w)
      PROVE  Same
  BY <1>1, <1>8, Kinds DEF LockQueueUnchecked, Go, Coming, Asleep, At, In
<1>9. ASSUME NEW w \in Workers, TakeRequest(w)
      PROVE  \/ Same
             \/ /\ Len(queue') = Len(queue) - 1 /\ Asleep' \subseteq Asleep
                /\ \E t \in Coming : Coming \ {t} \subseteq Coming'
  <2>1. CASE Fault("null_request")
    BY <1>1, <2>1 DEF Fault, Coming, Asleep, At, In
  <2>2. CASE queue # <<>> /\ ~ Fault("null_request")
    <3>1. w \in Threads /\ pc[w] = "lock_cache" /\ w \in Coming
      BY <1>9, Kinds DEF TakeRequest, Coming, In
    <3>2. Coming \ {w} \subseteq Coming' /\ Asleep' \subseteq Asleep
      <4>1. CASE Go(w, "read")
        BY <1>1, <3>1, <4>1 DEF Go, Coming, Asleep, At, In
      <4> QED  BY <1>4, <1>9, <2>2, <3>1, <4>1 DEF TakeRequest
    <3>3. Len(queue') = Len(queue) - 1
      BY <1>9, <2>2, TakenLength
    <3> QED  BY <3>1, <3>2, <3>3
  <2> QED  BY <1>9, <2>1, <2>2 DEF TakeRequest
<1>10. ASSUME NEW w \in Workers, Offer(w) \/ PutPrefetch(w)
       PROVE  Same
  <2>1. /\ w \in Threads /\ queue' = queue /\ pc[w] \in {"offer", "put_prefetch"}
        /\ w \notin Coming
    BY <1>10, Kinds DEF Offer, PutPrefetch, Fault, Coming, In
  <2>2. CASE pc' = pc
    BY <1>1, <2>1, <2>2 DEF Coming, Asleep, At, In
  <2>3. CASE Go(w, "check") \/ Go(w, "put_prefetch")
    BY <1>1, <1>3, <2>1, <2>3
  <2>4. CASE \E S \in Signal("p_wait") : GoWaking(w, "check", S)
    <3>1. Coming \ {w} \subseteq Coming' /\ Asleep' \subseteq Asleep
      BY <1>4, <2>1, <2>4
    <3>2. Coming \subseteq Coming' /\ Len(queue') <= Len(queue)
      BY <1>1, <2>1, <3>1
    <3> QED  BY <3>1, <3>2
  <2>5. CASE Offer(w)
    BY <2>2, <2>3, <2>5 DEF Offer, Destroy
  <2>6. CASE PutPrefetch(w)
    BY <2>2, <2>4, <2>6 DEF PutPrefetch, Fault
  <2> QED  BY <1>10, <2>5, <2>6
<1>11. ASSUME NEW p \in Prefetchers, pc[p] \in {"p_lock", "p_woken"}, TakePrefetch(p)
       PROVE  Same
  BY <1>1, <1>3, <1>11, Kinds DEF TakePrefetch
<1>12. ASSUME NEW t \in Threads, SpuriousWakeup(t)
       PROVE  Same
  <2>1. pc[t] \in {"wait_put", "wait_get", "p_wait"} /\ Go(t, WokenAt[pc[t]])
    BY <1>12 DEF SpuriousWakeup, WokenAt
  <2>2. WokenAt[pc[t]] # "wait_get"
    BY <2>1 DEF WokenAt
  <2> QED  BY <1>1, <1>3, <1>12, <2>1, <2>2 DEF SpuriousWakeup
<1> QED  BY <1>2, <1>5, <1>6, <1>7, <1>8, <1>9, <1>10, <1>11, <1>12, QuietOrNot

\* As long as a worker sleeps, every queued request has a worker that was woken or is about
\* to take one: no signal to the workers is lost, with first come first served or cached
\* first.  (A queue from which nothing is taken, as with smallest first, proves nothing.)
THEOREM NoLostGetHolds == Mode # "SFF" /\ Spec => []NoLostGet
<1> DEFINE Inv == Asleep # {} => Len(queue) <= Cardinality(Coming)
<1>1. Init => Inv
  <2> SUFFICES ASSUME Init PROVE Asleep = {}
    OBVIOUS
  <2> QED  BY DEF Init, Asleep, At
<1>2. ASSUME Mode # "SFF"
      PROVE  TypeInv /\ TypeInv' /\ Inv /\ [Next]_vars => Inv'
  <2> SUFFICES ASSUME TypeInv, TypeInv', Inv, [Next]_vars PROVE Inv'
    OBVIOUS
  <2>1. Len(queue) \in Nat /\ Len(queue)' \in Nat
    BY DEF TypeInv, TypeOK, DataTypes
  <2>2. Coming \in SUBSET Threads /\ Coming' \in SUBSET Threads
    BY DEF Coming, In
  <2>3. \/ Len(queue') <= Len(queue) /\ Coming \subseteq Coming' /\ Asleep' \subseteq Asleep
        \/ Len(queue') = 0
        \/ Asleep' = {}
        \/ /\ Asleep # {} /\ Len(queue') = Len(queue) + 1
           /\ \E t \in Threads \ Coming : Coming \cup {t} \subseteq Coming'
        \/ /\ Len(queue') = Len(queue) - 1 /\ Asleep' \subseteq Asleep
           /\ \E t \in Coming : Coming \ {t} \subseteq Coming'
    BY <1>2, GetMoves
  <2> HIDE DEF Coming, Asleep
  <2>4. Asleep' # {} => Len(queue') <= Cardinality(Coming')
    BY <2>1, <2>2, <2>3, ComingKept
  <2> QED  BY <2>4
<1>3. Inv => NoLostGet
  <2>1. Cardinality(At("woken_get")) + Cardinality(At("lock_cache")) = Cardinality(Coming)
    BY AtTwo DEF Coming
  <2> QED  BY <2>1 DEF NoLostGet, Asleep
<1> HIDE DEF Inv
<1>4. CASE Mode # "SFF"
  <2>1. TypeInv /\ TypeInv' /\ Inv /\ [Next]_vars => Inv'
    BY <1>2, <1>4
  <2>2. Spec => []NoLostGet
    BY <1>1, <1>3, <2>1, TypeInvAlways, PTL DEF Spec
  <2> QED  BY <2>2
<1> QED  BY <1>4

-----------------------------------------------------------------------------
(* The dispatchers that sleep *)

\* Main stops serving when all dispatchers have exited, and workers drain the queue only
\* then.
ExitInv ==
    /\ main # "serving" => \A d \in Dispatchers : pc[d] = "exited"
    /\ draining # {} => main # "serving"

LEMMA ExitedStays ==
    ASSUME TypeInv, [Next]_vars, NEW t \in Threads, pc[t] = "exited"
    PROVE  pc'[t] = "exited"
<1>1. pc \in [Threads -> Labels]
  BY DEF TypeInv, TypeOK, ThreadTypes
<1>2. ASSUME NEW u \in Threads, pc[u] # "exited", NEW l, Go(u, l)
      PROVE  pc'[t] = "exited"
  BY <1>1, <1>2 DEF Go
<1>3. ASSUME NEW u \in Threads, pc[u] # "exited", NEW l,
             NEW at \in {"wait_get", "wait_put", "p_wait"},
             NEW S \in Signal(at), GoWaking(u, l, S)
      PROVE  pc'[t] = "exited"
  <2>1. t # u /\ t \notin S
    BY <1>3 DEF Signal, At
  <2> QED  BY <1>3, <2>1 DEF GoWaking
<1>4. CASE pc' = pc
  BY <1>4
<1>5. CASE QueuesRest
  BY <1>2, <1>4, <1>5 DEF QueuesRest
<1>6. ASSUME NEW d \in Dispatchers, Dispatch(d) PROVE pc'[t] = "exited"
  BY <1>2, <1>3, <1>4, <1>6, Kinds
     DEF Dispatch, Enqueue, EnqueueWoken, PutRequest, Fault
<1>7. ASSUME NEW w \in Workers, LockQueue(w) \/ LockQueueUnchecked(w) \/ Offer(w)
      PROVE  pc'[t] = "exited"
  BY <1>2, <1>4, <1>7, Kinds DEF LockQueue, LockQueueUnchecked, Offer, Destroy
<1>8. ASSUME NEW w \in Workers, TakeRequest(w) \/ PutPrefetch(w) PROVE pc'[t] = "exited"
  BY <1>2, <1>3, <1>4, <1>8, Kinds DEF TakeRequest, PutPrefetch, Fault
<1>9. ASSUME NEW p \in Prefetchers, pc[p] \in {"p_lock", "p_woken"}, TakePrefetch(p)
      PROVE  pc'[t] = "exited"
  BY <1>2, <1>9, Kinds DEF TakePrefetch
<1>10. ASSUME NEW u \in Threads, SpuriousWakeup(u) PROVE pc'[t] = "exited"
  BY <1>2, <1>10 DEF SpuriousWakeup, WokenAt
<1> QED  BY <1>5, <1>6, <1>7, <1>8, <1>9, <1>10, QuietOrNot

LEMMA MainMoves ==
    ASSUME [Next]_vars
    PROVE  /\ \/ main' = main
              \/ main # "serving"
              \/ main = "serving" /\ \A d \in Dispatchers : pc[d] = "exited"
           /\ main # "serving" => main' # "serving"
           /\ draining' = draining \/ main # "serving"
<1>1. CASE UNCHANGED vars
  BY <1>1 DEF vars
<1>2. CASE Outside
  BY <1>2 DEF Outside, Accept, Refuse, AcceptFails, ChangeFile, SpuriousWakeup, threadVars
<1>3. ASSUME NEW d \in Dispatchers, Dispatch(d)
      PROVE  main' = main /\ draining' = draining
  BY <1>3 DEF Dispatch, Enqueue, EnqueueWoken, PutRequest, Fault
<1>4. ASSUME NEW w \in Workers, Work(w)
      PROVE  main' = main /\ (draining' = draining \/ main # "serving")
  BY <1>4 DEF Work, WorkerCheck, LockQueue, LockQueueUnchecked, TakeRequest, ReadFile,
              StatFile, Reply, Offer, PutPrefetch, DrainCheck, DrainLog, Fault, globalExit
<1>5. ASSUME NEW p \in Prefetchers, Prefetch(p)
      PROVE  main' = main /\ draining' = draining
  BY <1>5 DEF Prefetch, PrefetchCheck, PrefetchLock, PrefetchWoken, TakePrefetch,
              GuessFails, GuessFile, StatGuess, PutGuess, StoreGuess, Fault
<1>6. CASE JoinDispatchers \/ Return
  BY <1>6 DEF JoinDispatchers, Return
<1> QED  BY <1>1, <1>2, <1>3, <1>4, <1>5, <1>6 DEF Next

LEMMA ExitAlways == Spec => []ExitInv
<1>1. Init => ExitInv
  BY DEF Init, ExitInv
<1>2. TypeInv /\ ExitInv /\ [Next]_vars => ExitInv'
  <2> SUFFICES ASSUME TypeInv, ExitInv, [Next]_vars PROVE ExitInv'
    OBVIOUS
  <2>1. \A d \in Dispatchers : pc[d] = "exited" => pc'[d] = "exited"
    BY ExitedStays, Kinds
  <2> QED  BY <2>1, MainMoves DEF ExitInv
<1> QED  BY <1>1, <1>2, TypeInvAlways, PTL DEF Spec

\* The dispatchers that sleep, and those that were woken; how many more requests fit.
Waiting == At("wait_put")
Woken == At("woken_put")
Room == MaxQueue - Len(queue)

LEMMA RoomMoves ==
    ASSUME TypeInv, TypeInv', ExitInv, [Next]_vars
    PROVE  \/ Room' <= Room /\ Woken \subseteq Woken' /\ Waiting' \subseteq Waiting
           \/ Room' = 0
           \/ Waiting' = {}
           \/ /\ Waiting # {} /\ Room' = Room + 1
              /\ \E t \in Threads \ Woken : Woken \cup {t} \subseteq Woken'
           \/ /\ Room' = Room - 1 /\ Waiting' \subseteq Waiting
              /\ \E t \in Woken : Woken \ {t} \subseteq Woken'
<1> DEFINE Same == /\ Len(queue') >= Len(queue)
                   /\ Woken \subseteq Woken' /\ Waiting' \subseteq Waiting
<1>1. /\ pc \in [Threads -> Labels] /\ Len(queue) \in Nat /\ queue \in Seq(Requests)
      /\ hand \in [Threads -> Requests \cup {Null}] /\ MaxQueue \in Nat
      /\ Len(queue') \in Nat
  BY ServerAssumption DEF ServerAssumption, TypeInv, TypeOK, ThreadTypes, DataTypes
<1>2. Room = MaxQueue - Len(queue) /\ Room' = MaxQueue - Len(queue')
  BY DEF Room
<1>3. CASE QueuesRest
  <2>1. Same
    BY <1>1, <1>3 DEF QueuesRest, Counted, Woken, Waiting, At, Go
  <2> QED  BY <1>1, <1>2, <2>1
<1>4. ASSUME NEW t \in Threads, NEW l, l # "wait_put", Go(t, l)
      PROVE  Woken \ {t} \subseteq Woken' /\ Waiting' \subseteq Waiting
  BY <1>1, <1>4 DEF Go, Woken, Waiting, At
<1>5. ASSUME NEW t \in Threads, NEW l, l # "wait_put",
             NEW at \in {"wait_get", "p_wait"}, NEW S \in Signal(at), GoWaking(t, l, S)
      PROVE  Woken \ {t} \subseteq Woken' /\ Waiting' \subseteq Waiting
  <2>1. Go(t, l) \/ \E u \in At(at) : pc' = [pc EXCEPT ![u] = WokenAt[at], ![t] = l]
    BY <1>5, SignalWakes
  <2>2. WokenAt[at] # "wait_put"
    BY DEF WokenAt
  <2>3. CASE Go(t, l)
    BY <1>4, <1>5, <2>3
  <2>4. ASSUME NEW u \in At(at), pc' = [pc EXCEPT ![u] = WokenAt[at], ![t] = l]
        PROVE  Woken \ {t} \subseteq Woken' /\ Waiting' \subseteq Waiting
    <3>1. u \in Threads /\ pc[u] = at
      BY DEF At
    <3> QED  BY <1>1, <1>5, <2>2, <2>4, <3>1 DEF Woken, Waiting, At
  <2> QED  BY <2>1, <2>3, <2>4
<1>6. ASSUME NEW t \in Threads, t \notin Woken, Same \/ (/\ Len(queue') >= Len(queue)
                        /\ Woken \ {t} \subseteq Woken' /\ Waiting' \subseteq Waiting)
      PROVE  Room' <= Room /\ Woken \subseteq Woken' /\ Waiting' \subseteq Waiting
  BY <1>1, <1>2, <1>6
\* A dispatcher adds a request, or goes to sleep on a full queue.
<1>7. ASSUME NEW d \in Dispatchers, Enqueue(d)
      PROVE  \/ Room' <= Room /\ Woken \subseteq Woken' /\ Waiting' \subseteq Waiting
             \/ Room' = 0
  <2>1. d \in Threads /\ pc[d] = "enqueue" /\ d \notin Woken
    BY <1>7, Kinds DEF Enqueue, Woken, At
  <2>2. CASE Fault("queue_assert")
    <3>1. Same
      BY <1>1, <2>2 DEF Fault, Woken, Waiting, At
    <3> QED  BY <1>6, <2>1, <3>1
  <2>3. CASE Len(queue) = MaxQueue /\ queue' = queue
    BY <1>1, <1>2, <2>3
  <2>4. CASE PutRequest(d)
    <3>1. hand[d] \in Requests
      BY <2>1, HandIsCreated DEF Holding
    <3>2. Len(queue') >= Len(queue)
      BY <1>1, <2>4, <3>1 DEF PutRequest
    <3>3. Woken \ {d} \subseteq Woken' /\ Waiting' \subseteq Waiting
      BY <1>5, <2>1, <2>4 DEF PutRequest
    <3> QED  BY <1>6, <2>1, <3>2, <3>3
  <2> QED  BY <1>7, <2>2, <2>3, <2>4 DEF Enqueue
<1>8. ASSUME NEW d \in Dispatchers, EnqueueWoken(d)
      PROVE  /\ Room' = Room - 1 /\ Waiting' \subseteq Waiting
             /\ \E t \in Woken : Woken \ {t} \subseteq Woken'
  <2>1. d \in Threads /\ d \in Woken /\ hand[d] \in Requests
    BY <1>8, HandIsCreated, Kinds DEF EnqueueWoken, Woken, At, Holding
  <2>2. Len(queue') = Len(queue) + 1
    BY <1>1, <1>8, <2>1 DEF EnqueueWoken, PutRequest
  <2>3. Woken \ {d} \subseteq Woken' /\ Waiting' \subseteq Waiting
    BY <1>5, <1>8, <2>1 DEF EnqueueWoken, PutRequest
  <2> QED  BY <1>1, <1>2, <2>1, <2>2, <2>3
\* A worker takes a request: in the main loop it signals, in the drain loop there is
\* nobody left to signal.
<1>9. ASSUME NEW w \in Workers, TakeRequest(w)
      PROVE  \/ Room' <= Room /\ Woken \subseteq Woken' /\ Waiting' \subseteq Waiting
             \/ Waiting' = {}
             \/ /\ Waiting # {} /\ Room' = Room + 1
                /\ \E t \in Threads \ Woken : Woken \cup {t} \subseteq Woken'
  <2>1. w \in Threads /\ pc[w] = "lock_cache" /\ w \notin Woken
    BY <1>9, Kinds DEF TakeRequest, Woken, At
  <2>2. CASE Fault("null_request")
    <3>1. Same
      BY <1>1, <2>2 DEF Fault, Woken, Waiting, At
    <3> QED  BY <1>6, <2>1, <3>1
  <2>3. CASE queue # <<>> /\ w \in draining /\ Go(w, "read")
    <3>1. \A d \in Dispatchers : pc[d] = "exited"
      BY <2>3 DEF ExitInv
    <3>2. \A t \in Threads : pc[t] # "wait_put"
      BY <3>1, Kinds DEF TypeInv, TypeOK, ThreadTypes
    <3> QED  BY <1>1, <2>1, <2>3, <3>2 DEF Go, Waiting, At
  <2>4. ASSUME queue # <<>>, NEW S \in Signal("wait_put"), GoWaking(w, "read", S)
        PROVE  \/ Room' <= Room /\ Woken \subseteq Woken' /\ Waiting' \subseteq Waiting
               \/ Waiting' = {}
               \/ /\ Waiting # {} /\ Room' = Room + 1
                  /\ \E t \in Threads \ Woken : Woken \cup {t} \subseteq Woken'
    <3>1. \/ At("wait_put") = {} /\ Go(w, "read")
          \/ \E u \in At("wait_put") : pc' = [pc EXCEPT ![u] = "woken_put", ![w] = "read"]
      BY <2>1, <2>4, SignalWakes DEF WokenAt
    <3>2. CASE At("wait_put") = {} /\ Go(w, "read")
      BY <1>1, <2>1, <3>2 DEF Go, Waiting, At
    <3>3. ASSUME NEW u \in At("wait_put"),
                 pc' = [pc EXCEPT ![u] = "woken_put", ![w] = "read"]
          PROVE  /\ Waiting # {} /\ Waiting' \subseteq Waiting
                 /\ u \in Threads \ Woken /\ Woken \cup {u} \subseteq Woken'
      <4>1. u \in Threads /\ pc[u] = "wait_put" /\ u # w
        BY <2>1 DEF At
      <4> QED  BY <1>1, <2>1, <3>3, <4>1 DEF Waiting, Woken, At
    <3>4. Len(queue') = Len(queue) \/ Len(queue') = Len(queue) - 1
      BY <1>9, <2>4, TakenLength
    <3>5. CASE Len(queue') = Len(queue)
      BY <1>1, <1>2, <3>1, <3>2, <3>3, <3>5
    <3>6. CASE Len(queue') = Len(queue) - 1
      BY <1>1, <1>2, <3>1, <3>2, <3>3, <3>6
    <3> QED  BY <3>4, <3>5, <3>6
  <2> QED  BY <1>9, <2>2, <2>3, <2>4 DEF TakeRequest
<1>10. ASSUME NEW w \in Workers,
              LockQueue(w) \/ LockQueueUnchecked(w) \/ Offer(w) \/ PutPrefetch(w)
       PROVE  Room' <= Room /\ Woken \subseteq Woken' /\ Waiting' \subseteq Waiting
  <2>1. w \in Threads /\ queue' = queue /\ w \notin Woken
    BY <1>10, Kinds
       DEF LockQueue, LockQueueUnchecked, Offer, PutPrefetch, Fault, Woken, At
  <2>2. \/ pc' = pc
        \/ \E l \in {"wait_get", "lock_cache", "put_prefetch", "check"} : Go(w, l)
        \/ \E S \in Signal("p_wait") : GoWaking(w, "check", S)
    BY <1>10 DEF LockQueue, LockQueueUnchecked, Offer, PutPrefetch, Destroy, Fault
  <2>3. CASE pc' = pc
    BY <1>1, <1>2, <2>1, <2>3 DEF Woken, Waiting, At
  <2>4. CASE pc' # pc
    <3>1. Woken \ {w} \subseteq Woken' /\ Waiting' \subseteq Waiting
      BY <1>4, <1>5, <2>1, <2>2, <2>4
    <3> QED  BY <1>1, <1>6, <2>1, <3>1
  <2> QED  BY <2>3, <2>4
<1>11. ASSUME NEW p \in Prefetchers, pc[p] \in {"p_lock", "p_woken"}, TakePrefetch(p)
       PROVE  Room' <= Room /\ Woken \subseteq Woken' /\ Waiting' \subseteq Waiting
  <2>1. p \in Threads /\ queue' = queue /\ p \notin Woken /\ Go(p, "p_guess")
    BY <1>11, Kinds DEF TakePrefetch, Woken, At
  <2>2. Woken \ {p} \subseteq Woken' /\ Waiting' \subseteq Waiting
    BY <1>4, <2>1
  <2> QED  BY <1>1, <1>6, <2>1, <2>2
<1>12. ASSUME NEW t \in Threads, SpuriousWakeup(t)
       PROVE  Room' <= Room /\ Woken \subseteq Woken' /\ Waiting' \subseteq Waiting
  <2>1. /\ pc[t] \in {"wait_put", "wait_get", "p_wait"} /\ Go(t, WokenAt[pc[t]])
        /\ t \notin Woken /\ queue' = queue
    BY <1>12 DEF SpuriousWakeup, WokenAt, Woken, At
  <2>2. WokenAt[pc[t]] # "wait_put"
    BY <2>1 DEF WokenAt
  <2>3. Woken \ {t} \subseteq Woken' /\ Waiting' \subseteq Waiting
    BY <1>4, <2>1, <2>2
  <2> QED  BY <1>1, <1>6, <2>1, <2>3
<1> QED
  BY <1>3, <1>7, <1>8, <1>9, <1>10, <1>11, <1>12, QuietOrNot DEF Dispatch

\* While dispatchers sleep, the queue is full or the room in it is spoken for by those that
\* were woken, in every mode: no signal to the dispatchers is lost, although the drain loop
\* sends none.
THEOREM NoLostPutHolds == Spec => []NoLostPut
<1> DEFINE Inv == Waiting # {} => Room <= Cardinality(Woken)
<1>1. Init => Inv
  <2> SUFFICES ASSUME Init PROVE Waiting = {}
    OBVIOUS
  <2> QED  BY DEF Init, Waiting, At
<1>2. TypeInv /\ TypeInv' /\ ExitInv /\ Inv /\ [Next]_vars => Inv'
  <2> SUFFICES ASSUME TypeInv, TypeInv', ExitInv, Inv, [Next]_vars PROVE Inv'
    OBVIOUS
  <2>1. Room \in Int /\ Room' \in Int
    BY ServerAssumption DEF ServerAssumption, Room, TypeInv, TypeOK, DataTypes
  <2>2. Woken \in SUBSET Threads /\ Woken' \in SUBSET Threads
    BY DEF Woken, At
  <2>3. \/ Room' <= Room /\ Woken \subseteq Woken' /\ Waiting' \subseteq Waiting
        \/ Room' = 0
        \/ Waiting' = {}
        \/ /\ Waiting # {} /\ Room' = Room + 1
           /\ \E t \in Threads \ Woken : Woken \cup {t} \subseteq Woken'
        \/ /\ Room' = Room - 1 /\ Waiting' \subseteq Waiting
           /\ \E t \in Woken : Woken \ {t} \subseteq Woken'
    BY RoomMoves
  <2> HIDE DEF Room, Woken, Waiting
  <2>4. Waiting' # {} => Room' <= Cardinality(Woken')
    BY <2>1, <2>2, <2>3, ComingKept
  <2> QED  BY <2>4
<1>3. TypeInv /\ Inv => NoLostPut
  <2> SUFFICES ASSUME TypeInv, Inv PROVE NoLostPut
    OBVIOUS
  <2>1. Len(queue) \in Nat /\ MaxQueue \in Nat /\ Cardinality(At("woken_put")) \in Nat
    BY FiniteCounts, ServerAssumption
       DEF ServerAssumption, At, TypeInv, TypeOK, DataTypes
  <2> QED  BY <2>1 DEF NoLostPut, Waiting, Woken, Room
<1> HIDE DEF Inv
<1> QED  BY <1>1, <1>2, <1>3, TypeInvAlways, ExitAlways, PTL DEF Spec
=============================================================================
