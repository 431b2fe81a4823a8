------------------------------ MODULE SolServer ------------------------------
(***************************************************************************)
(* The reference web server, project5/sol_server.c, with the connection    *)
(* library it is linked with (util-http.c): dispatch threads accept,       *)
(* parse and put requests in a ring buffer, workers take them out and      *)
(* answer them from a cache, main joins the dispatchers, puts an exit      *)
(* request in the ring and joins the workers.                              *)
(*                                                                         *)
(* A critical section is one step: the holders of req_queue_mutex only     *)
(* block in pthread_cond_wait, which gives the mutex up, and those of      *)
(* cache_mutex only in log_mutex, which nobody holds without it.  Outside  *)
(* them threads share the static buffer that get_request reads into.       *)
(***************************************************************************)
EXTENDS Integers, Sequences, FiniteSets, FiniteSetsExt

CONSTANTS Dispatchers, Workers,
          Requests,   \* connections; each carries one request
          Null,
          Exit,       \* the fd -9999
          Names,      \* the names clients may ask for
          Root,       \* the name "/"
          Index,      \* the name "/index.html"
          Garbled,    \* any other string: bytes left behind, or torn by another read
          Present,    \* the names of the files that can be opened
          Length,     \* the length of each name
          Longer,     \* the names that are a name with one byte more
          Bad,        \* a request with .. or //
          Other,      \* a request that is no GET
          Silent,     \* the client closes without sending
          MAX_THREADS, MAX_QLEN, MAX_CE,
          Starts      \* the arguments main may be given, with the clients that connect

Threads == Dispatchers \cup Workers
Strings == Names \cup {Index, Garbled}
Sent == Names \cup {Bad, Other, Silent}

\* The threads main is asked for, and what each client sends, Null if it stays away.
Argument == [dispatch : SUBSET Dispatchers, work : SUBSET Workers,
             qlen : Int, caching : Int, entries : Int,
             asks : [Requests -> Sent \cup {Null}],
             left : SUBSET Nat]    \* the bytes of a new thread's mybuf that are not 0

ASSUME SolAssumption ==
    /\ IsFiniteSet(Dispatchers) /\ IsFiniteSet(Workers)
    /\ Dispatchers \cap Workers = {} /\ "main" \notin Threads /\ Null \notin Sent
    /\ Root # Index /\ Garbled \notin Names /\ Present \subseteq Names \cup {Index}
    /\ Null \notin Requests \cup Strings /\ Exit \notin Requests \cup {Null}
    /\ Length \in [Names -> Nat] /\ Longer \in [Names -> SUBSET Names]
    /\ {Bad, Other, Silent} \cap Names = {}
    /\ Starts # {} /\ \A a \in Starts : a \in Argument
    /\ {MAX_THREADS, MAX_QLEN, MAX_CE} \subseteq Nat \ {0}

VARIABLES
    pc,         \* where each thread is
    fd,         \* the connection a dispatcher handles
    mybuf,      \* a dispatcher's file name: the string, and the bytes that are not 0
    buffer,     \* the static buffer of get_request
    args,       \* what main was given: the threads to create, qlen, caching, cache_entries
    requests, req_remove_index, req_insert_index, req_num,    \* the ring buffer
    job,        \* the request a worker has taken out and not answered
    cache, cache_insert_index, global_timestamp,
    log,        \* the lines of the log file
    asked,      \* the name get_request gave each connection, Null until it did
    refused,    \* connections whose get_request failed
    replies,    \* what was sent on each connection
    main        \* where main is

ring == <<requests, req_remove_index, req_insert_index, req_num>>
cacheVars == <<cache, cache_insert_index, global_timestamp>>
served == <<job, cacheVars, log, replies>>
parsing == <<fd, mybuf, buffer, asked, refused>>
vars == <<pc, parsing, args, ring, served, main>>

NoSlot == [fd |-> Null, request |-> Null]
NoEntry == [valid |-> 0, request |-> Null, memory |-> Null, timestamp |-> 0]

Init ==
    /\ pc = [t \in Threads |-> "none"]
    /\ fd = [d \in Dispatchers |-> Null]
    /\ args \in Starts
    /\ mybuf = [d \in Dispatchers |-> [name |-> Garbled, bytes |-> args.left]]
    /\ buffer = Other
    /\ requests = [i \in 0..MAX_QLEN - 1 |-> NoSlot]
    /\ req_remove_index = 0 /\ req_insert_index = 0 /\ req_num = 0
    /\ job = [w \in Workers |-> NoSlot]
    /\ cache = [i \in 0..MAX_CE - 1 |-> NoEntry]
    /\ cache_insert_index = 0 /\ global_timestamp = 0
    /\ log = <<>>
    /\ asked = [r \in Requests |-> Null] /\ refused = {}
    /\ replies = [r \in Requests |-> <<>>]
    /\ main = "start"
-----------------------------------------------------------------------------
(* main, to the creation of the threads *)

Legal ==
    /\ Cardinality(args.dispatch) \in 1..MAX_THREADS
    /\ Cardinality(args.work) \in 1..MAX_THREADS
    /\ args.qlen \in 1..MAX_QLEN
    /\ args.caching \in 0..2
    /\ args.entries \in 1..MAX_CE

Start ==
    /\ main = "start"
    /\ IF Legal
       THEN /\ main' = "joining"
            /\ pc' = [t \in Threads |-> IF t \in args.dispatch THEN "accept"
                                       ELSE IF t \in args.work THEN "get" ELSE "none"]
       ELSE main' = "usage" /\ UNCHANGED pc
    /\ UNCHANGED <<args, parsing, ring, served>>

-----------------------------------------------------------------------------
(* req_queue_notfull and req_queue_notempty.  Every wait is in a loop, so a
   woken thread is back where it locked the mutex. *)

\* main waits for room too.
WaitingForRoom == {d \in Dispatchers : pc[d] = "full"}
                      \cup IF main = "full" THEN {"main"} ELSE {}
WaitingForWork == {w \in Workers : pc[w] = "empty"}

SomeOf(S) == IF S = {} THEN {{}} ELSE {{t} : t \in S}

\* Thread t goes on to l, and the workers in S wake up.
GoWakingWorkers(t, l, S) ==
    pc' = [u \in Threads |-> IF u = t THEN l ELSE IF u \in S THEN "get" ELSE pc[u]]

\* Worker w goes on to l, and those in S, who waited for room, wake up.
GoWakingPutters(w, l, S) ==
    /\ pc' = [u \in Threads |-> IF u = w THEN l ELSE IF u \in S THEN "put" ELSE pc[u]]
    /\ main' = IF "main" \in S THEN "put" ELSE main

Go(t, l) == pc' = [pc EXCEPT ![t] = l]

SpuriousWakeup ==
    /\ \/ \E t \in WaitingForRoom \ {"main"} : Go(t, "put") /\ main' = main
       \/ \E t \in WaitingForWork : Go(t, "get") /\ main' = main
       \/ main = "full" /\ main' = "put" /\ UNCHANGED pc
    /\ UNCHANGED <<parsing, args, ring, served>>
-----------------------------------------------------------------------------
(* dispatch, and get_request *)

Fresh(r) == asked[r] = Null /\ r \notin refused /\ \A d \in Dispatchers : fd[d] # r

Accept(d, r) ==
    /\ pc[d] = "accept" /\ Fresh(r) /\ args.asks[r] # Null
    /\ fd' = [fd EXCEPT ![d] = r]
    /\ Go(d, "read")
    /\ UNCHANGED <<mybuf, buffer, asked, refused, args, ring, served, main>>

AcceptFails(d) ==
    /\ pc[d] = "accept"
    /\ Go(d, "exited")
    /\ UNCHANGED <<parsing, args, ring, served, main>>

\* The result of read is not looked at: of a silent client nothing arrives.
Read(d) ==
    /\ pc[d] = "read"
    /\ buffer' = IF args.asks[fd[d]] = Silent THEN buffer ELSE args.asks[fd[d]]
    /\ Go(d, "parse")
    /\ UNCHANGED <<fd, mybuf, asked, refused, args, ring, served, main>>

\* strncpy of the name's n bytes, then the terminator one byte too far: the string
\* ends where it should only if the byte between happens to be 0, and with that byte
\* it may be another client's name.
Copied(old, name) ==
    LET n == Length[name]
        bytes == (old.bytes \cup 0..n - 1) \ {n + 1}
        strings == IF n \in bytes THEN {Garbled} \cup Longer[name] ELSE {name}
    IN  {[name |-> s, bytes |-> bytes] : s \in strings}

\* What mybuf may hold after a successful parse, of what the buffer holds now, or of
\* a mixture if another thread can read into it meanwhile.
Overwritten(d) == \E e \in Dispatchers \ {d} : pc[e] = "read"
Parsed(d) ==
    (IF buffer = Bad THEN {}
     ELSE IF buffer = Other THEN {mybuf[d]} ELSE Copied(mybuf[d], buffer))
    \cup (IF Overwritten(d) THEN {[mybuf[d] EXCEPT !.name = Garbled]} ELSE {})

\* get_request returns 0.
Parse(d) ==
    /\ pc[d] = "parse"
    /\ \E m \in Parsed(d) :
        /\ mybuf' = [mybuf EXCEPT ![d] = m]
        /\ asked' = [asked EXCEPT ![fd[d]] = m.name]
    /\ Go(d, "put")
    /\ UNCHANGED <<fd, buffer, refused, args, ring, served, main>>

\* get_request returns -1: the loop goes round, the connection stays open.
Refuse(d) ==
    /\ pc[d] = "parse" /\ (buffer = Bad \/ Overwritten(d))
    /\ refused' = refused \cup {fd[d]}
    /\ fd' = [fd EXCEPT ![d] = Null]
    /\ Go(d, "accept")
    /\ UNCHANGED <<mybuf, buffer, asked, args, ring, served, main>>

\* Mutant: the insert index wraps one place too late.
InsertLinear(x) ==
    /\ requests' = [requests EXCEPT ![req_insert_index] = x]
    /\ req_num' = req_num + 1
    /\ req_insert_index' = (req_insert_index + 1) % (args.qlen + 1)
    /\ UNCHANGED req_remove_index

\* The ring buffer takes x at req_insert_index.
Insert(x) ==
    /\ requests' = [requests EXCEPT ![req_insert_index] = x]
    /\ req_num' = req_num + 1
    /\ req_insert_index' = (req_insert_index + 1) % args.qlen
    /\ UNCHANGED req_remove_index

Put(d) ==
    /\ pc[d] = "put"
    /\ \/ /\ req_num = args.qlen
          /\ Go(d, "full") /\ UNCHANGED <<ring, fd>>
       \/ /\ req_num # args.qlen
          /\ Insert([fd |-> fd[d], request |-> mybuf[d].name])
          /\ fd' = [fd EXCEPT ![d] = Null]
          /\ \E S \in SomeOf(WaitingForWork) : GoWakingWorkers(d, "accept", S)
    /\ UNCHANGED <<mybuf, buffer, asked, refused, args, served, main>>
-----------------------------------------------------------------------------
(* worker *)

\* Mutants: nobody is told of the room; the exit request is taken out like any other.
GetSilently(w) ==
    /\ pc[w] = "get"
    /\ IF req_num = 0 \/ requests[req_remove_index].fd = Exit
       THEN Go(w, IF req_num = 0 THEN "empty" ELSE "exited") /\ UNCHANGED <<ring, job>>
       ELSE /\ job' = [job EXCEPT ![w] = requests[req_remove_index]]
            /\ req_num' = req_num - 1
            /\ req_remove_index' = (req_remove_index + 1) % args.qlen
            /\ Go(w, "serve") /\ UNCHANGED <<requests, req_insert_index>>
    /\ UNCHANGED <<parsing, args, cacheVars, log, replies, main>>
GetTakingExit(w) ==
    /\ pc[w] = "get" /\ req_num # 0
    /\ req_num' = req_num - 1
    /\ req_remove_index' = (req_remove_index + 1) % args.qlen
    /\ IF requests[req_remove_index].fd = Exit
       THEN Go(w, "exited") /\ UNCHANGED <<job, main>>
       ELSE /\ job' = [job EXCEPT ![w] = requests[req_remove_index]]
            /\ \E S \in SomeOf(WaitingForRoom) : GoWakingPutters(w, "serve", S)
    /\ UNCHANGED <<parsing, args, requests, req_insert_index, cacheVars, log, replies>>

\* The first critical section: wait, see the exit request (which stays for the
\* others), or take a request out.
Get(w) ==
    /\ pc[w] = "get"
    /\ \/ /\ req_num = 0
          /\ Go(w, "empty") /\ UNCHANGED <<ring, job, main>>
       \/ /\ req_num # 0 /\ requests[req_remove_index].fd = Exit
          /\ Go(w, "exited") /\ UNCHANGED <<ring, job, main>>
       \/ /\ req_num # 0 /\ requests[req_remove_index].fd # Exit
          /\ job' = [job EXCEPT ![w] = requests[req_remove_index]]
          /\ req_num' = req_num - 1
          /\ req_remove_index' = (req_remove_index + 1) % args.qlen
          /\ \E S \in SomeOf(WaitingForRoom) : GoWakingPutters(w, "serve", S)
          /\ UNCHANGED <<requests, req_insert_index>>
    /\ UNCHANGED <<parsing, args, cacheVars, log, replies>>

FileOf(name) == IF name = Root THEN Index ELSE name

Slots == 0..args.entries - 1
Valid == {i \in Slots : cache[i].valid = 1}

\* Mutant: the names are not compared.
FoundAny(name) == Valid
Found(name) == {i \in Valid : cache[i].request = name}

\* Mutant: the newest entry is replaced.
VictimNewest ==
    IF Valid # Slots THEN Max(Slots \ Valid)
    ELSE Min({i \in Slots : \A j \in Slots : cache[i].timestamp >= cache[j].timestamp})

\* The scan's lru_replace_index: the last empty slot, else the first of the oldest.
Victim ==
    IF Valid # Slots THEN Max(Slots \ Valid)
    ELSE Min({i \in Slots : \A j \in Slots : cache[i].timestamp <= cache[j].timestamp})

\* A miss puts the file where the caching method says.  'oldest' leaves the timestamp.
Store(name, now) ==
    LET entry(i) == [valid |-> 1, request |-> name, memory |-> name,
                     timestamp |-> IF args.caching = 2 THEN now ELSE cache[i].timestamp]
    IN  CASE args.caching = 0 -> UNCHANGED <<cache, cache_insert_index>>
          [] args.caching = 1 ->
               /\ cache' = [cache EXCEPT ![cache_insert_index] = entry(cache_insert_index)]
               /\ cache_insert_index' = (cache_insert_index + 1) % args.entries
          [] args.caching = 2 ->
               /\ cache' = [cache EXCEPT ![Victim] = entry(Victim)]
               /\ UNCHANGED cache_insert_index

\* Mutant: a hit does not count as a use.
HitUnstamped(i, now) == UNCHANGED <<cache, cache_insert_index>>

Hit(i, now) ==
    /\ cache' = [cache EXCEPT ![i].timestamp = now]
    /\ UNCHANGED cache_insert_index

Line(w, name, hit, status) ==
    [fd |-> job[w].fd, name |-> name, hit |-> hit, status |-> status]

\* The second critical section: look in the cache, read the file, log, answer.
Serve(w) ==
    LET name == FileOf(job[w].request)
        now == global_timestamp + 1
        found == Found(name)
        sent(reply) == replies' = [replies EXCEPT ![job[w].fd] = Append(@, reply)]
    IN  /\ pc[w] = "serve"
        /\ global_timestamp' = now
        /\ \/ /\ found = {} /\ name \notin Present
              /\ sent([status |-> "error"])
              /\ log' = Append(log, Line(w, name, FALSE, "error"))
              /\ UNCHANGED <<cache, cache_insert_index>>
           \/ /\ found = {} /\ name \in Present
              /\ Store(name, now)
              /\ sent([status |-> "ok", name |-> name])
              /\ log' = Append(log, Line(w, name, FALSE, "ok"))
           \/ /\ found # {}
              /\ Hit(Max(found), now)
              /\ sent([status |-> "ok", name |-> cache[Max(found)].memory])
              /\ log' = Append(log, Line(w, name, TRUE, "ok"))
        /\ job' = [job EXCEPT ![w] = NoSlot]
        /\ Go(w, "get")
        /\ UNCHANGED <<parsing, args, ring, main>>
-----------------------------------------------------------------------------
(* main, after the dispatch threads *)

JoinDispatchers ==
    /\ main = "joining"
    /\ \A d \in args.dispatch : pc[d] = "exited"
    /\ main' = "put"
    /\ UNCHANGED <<pc, parsing, args, ring, served>>

\* Mutant: the exit request wakes one worker.
PutExitSignal ==
    /\ main = "put" /\ req_num # args.qlen
    /\ Insert([fd |-> Exit, request |-> Null])
    /\ main' = "exiting"
    /\ \E S \in SomeOf(WaitingForWork) : GoWakingWorkers("main", "", S)
    /\ UNCHANGED <<parsing, args, served>>

\* Wait for room, or put the exit request and broadcast.
PutExit ==
    /\ main = "put"
    /\ \/ /\ req_num = args.qlen
          /\ main' = "full" /\ UNCHANGED <<pc, ring>>
       \/ /\ req_num # args.qlen
          /\ Insert([fd |-> Exit, request |-> Null])
          /\ main' = "exiting"
          /\ GoWakingWorkers("main", "", WaitingForWork)
    /\ UNCHANGED <<parsing, args, served>>

Return ==
    /\ main = "exiting"
    /\ \A w \in args.work : pc[w] = "exited"
    /\ main' = "returned"
    /\ UNCHANGED <<pc, parsing, args, ring, served>>

Dispatch(d) == Read(d) \/ Parse(d) \/ Refuse(d) \/ Put(d)
Work(w) == Get(w) \/ Serve(w)
Main == Start \/ JoinDispatchers \/ PutExit \/ Return

Next ==
    \/ Main
    \/ \E d \in Dispatchers : Dispatch(d) \/ AcceptFails(d)
    \/ \E d \in Dispatchers, r \in Requests : Accept(d, r)
    \/ \E w \in Workers : Work(w)
    \/ SpuriousWakeup

Spec == Init /\ [][Next]_vars

\* The scheduler runs every thread that can go on; clients owe nothing.
FairSpec ==
    /\ Spec
    /\ \A d \in Dispatchers : WF_vars(Dispatch(d))
    /\ \A w \in Workers : WF_vars(Work(w))
    /\ WF_vars(Main)
=============================================================================
