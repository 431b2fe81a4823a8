------------------------- MODULE SolServerProperties -------------------------
(* What the reference web server must keep to. *)
EXTENDS SolServer

Slot == [fd : Requests, request : Strings]

\* Every variable has a value of its kind; the ring's two indices are req_num apart.
TypeOK ==
    /\ pc \in [Threads -> {"none", "accept", "read", "parse", "put", "full", "get",
                           "empty", "serve", "exited"}]
    /\ fd \in [Dispatchers -> Requests \cup {Null}]
    /\ mybuf \in [Dispatchers -> [name : Strings, bytes : SUBSET Nat]]
    /\ buffer \in Sent
    /\ requests \in [0..MAX_QLEN - 1 ->
                     Slot \cup {NoSlot, [fd |-> Exit, request |-> Null]}]
    /\ main \notin {"start", "usage"} =>
         /\ req_num \in 0..args.qlen
         /\ req_insert_index = (req_remove_index + req_num) % args.qlen
    /\ job \in [Workers -> Slot \cup {NoSlot}]
    /\ cache_insert_index \in 0..MAX_CE - 1
    /\ asked \in [Requests -> Strings \cup {Null}]
    /\ refused \subseteq Requests
    /\ main \in {"start", "usage", "joining", "put", "full", "exiting", "returned"}

-----------------------------------------------------------------------------
(* The cache *)

\* Where name last stood in the log: on any line, or on a line that loads it.
LastUse(name) == Max({i \in DOMAIN log : log[i].name = name})
LastLoad(name) == Max({i \in DOMAIN log : log[i].name = name /\ ~log[i].hit})

Served == {log[i].name : i \in {j \in DOMAIN log : log[j].status = "ok"}}

\* The newest of the names served, as many as the cache has entries.
Newest(Last(_)) ==
    {n \in Served : Cardinality({m \in Served : Last(m) > Last(n)}) < args.entries}

\* The cache holds, once each and each with its own file, exactly the names its
\* method calls for: none, those loaded last ('oldest'), those used last (LRU).
\* The scan, the timestamps and cache_insert_index of worker have to agree on it.
CacheHoldsTheNewest ==
    main \notin {"start", "usage"} =>
        /\ {cache[i].request : i \in Valid} =
               CASE args.caching = 1 -> Newest(LastLoad)
                 [] args.caching = 2 -> Newest(LastUse)
                 [] OTHER -> {}
        /\ \A i, j \in Valid : cache[i].request = cache[j].request => i = j
        /\ \A i \in Valid : cache[i].memory = cache[i].request
-----------------------------------------------------------------------------
(* The ring buffer and the service *)

RingQueue ==
    [i \in 1..req_num |-> requests[(req_remove_index + i - 1) % args.qlen]]

Queue == INSTANCE BoundedQueue WITH
    Takers <- Workers, Items <- Slot, Nothing <- NoSlot,
    Closer <- [fd |-> Exit, request |-> Null],
    capacity <- args.qlen, queue <- RingQueue, taken <- job

\* The ring buffer, its indices, its counter and the exit request are a bounded
\* first-in first-out queue closed by its last item.
ImplementsQueue == Queue!Spec

Service == INSTANCE RequestService WITH
    Files <- Strings,
    filename <- [r \in Requests |-> IF asked[r] = Null THEN Null ELSE FileOf(asked[r])]

\* Every connection is refused or asks for one file, and is answered at most once,
\* with that file or an error, whatever way it takes through ring and cache.
ImplementsService == Service!Spec
-----------------------------------------------------------------------------
(* Liveness *)

\* A request that got through get_request is answered: no wake-up is lost, in either
\* direction, and the exit request overtakes nobody.
RequestsAnswered == \A r \in Requests : asked[r] # Null ~> replies[r] # <<>>

\* Once accept_connection has failed for every dispatch thread, the workers all see
\* the one exit request and main returns (the comments at sol_server.c:330-345).
ServerExits == (main = "joining" /\ \A d \in args.dispatch : pc[d] = "exited")
                   ~> main = "returned"
=============================================================================
