# Verification of the CSci 4061 programs

The repository holds five course projects. The largest is a multi-threaded web
server (`project5/server.c`, with `project4/server.c` as its earlier version);
the others are a tabbed browser of communicating processes (`project2`), a
memory manager with a signal-driven client (`project3`) and an all-pairs
shortest-paths program (`Algs_HW`). With the web server comes a reference solution
(`project5/sol_server.c`) and the connection library both are linked with
(`project5/util-http.c`). All of them are modelled here, each by modules of its own.

## The system

### Web server: parts, state, interaction

| part | state | operations | shared through |
|---|---|---|---|
| dispatch threads | a request in hand | accept, parse, queue | `queue_mutex`, `queue_put_cond` |
| worker threads | `bundle` (request, cache entry) | take, answer, log, pass on, drain | `queue_mutex`, `cache_mutex`, `log_mutex`, `prefetch_mutex`, `queue_get_cond` |
| prefetch threads | guessed name, data, size | take, guess, load, store | `prefetch_mutex`, `cache_mutex`, `prefetch_get_cond` |
| main | `global_exit` | join dispatchers, set `global_exit`, join the others | the flag, unlocked |
| request queue | linked list, `queue_size` | put; get first, get cached, get smallest | `queue_mutex` |
| prefetch queue | linked list, `prefetch_size` | put, get | `prefetch_mutex`; the size is also read without it |
| cache | linked list, hash table with collision chains, `cache_size` | put (evicting the oldest), search | `cache_mutex` |
| connection library | the listening socket | `accept_connection`, `get_request`, `return_result`, `return_error` | called by the threads |
| `guess.o` | unknown (object code) | `guess_next` | called by prefetch threads |

A connection becomes a request in a dispatcher's hand, goes through the request
queue into a worker's hand, is answered from the cache or the disk and logged,
and then goes through the prefetch queue into a prefetch thread's hand and is
freed there; if the prefetch queue is full, or the server is shutting down, the
worker frees it.

### Reference web server

The same threads without prefetching, written by other hands: `dispatch` and
`worker` share a ring buffer (`requests`, `req_insert_index`, `req_remove_index`,
`req_num`, under `req_queue_mutex` with two condition variables) and a cache that is
an array with timestamps (`cache_mutex`), filled by one of three methods. main joins
the dispatchers, puts an exit request (fd -9999) into the ring, and joins the workers,
each of which sees that request and leaves it there for the next. The dispatchers
call `get_request`, which parses in one static buffer for all of them.

### Tabbed browser

| part | state | operations | shared through |
|---|---|---|---|
| router (`main`, `fork_tab`, `poll_children`) | `channel_alive`, the next tab's number, the request read last | poll every pipe, create a tab, pass an address on, kill one or all | a pair of pipes per child |
| controller | its window | click +, enter an address for a tab, close | pipe 0 |
| tab | its window, the address it shows | close, render, exit | its pipe |

`fork_tab` goes on as the router in the child and becomes the tab in the parent, so
each tab keeps the pipe ends of the router it was.

### Memory manager and packet assembly

`mm_public.c` hands out first-fit chunks of one block and keeps their sizes in a
catalog with a cell per byte. `packet_public.c` is its client: a timer's signal handler
receives packets, takes memory for a whole message from the manager when the first
one comes, stores each, and gives all of it back with the last; main sleeps in `pause`
until a message is complete and resets the counters the handler uses.

### All-pairs shortest paths

`apsp.java` reads adjacency lists, `Graph.java` runs Johnson's algorithm: a source with
edges of weight 0 to every vertex, Bellman-Ford from it, new weights for all edges, then
Dijkstra from every vertex with a `PriorityQueue`. The copy of the graph shares its edges
with the original.

### What is hard

In the web server:

* Every `pthread_cond_wait` stands under an `if`: a thread that wakes up acts on
  a condition that another thread may have made false in between.
* One signal is sent per item. Whether one is enough depends on how many threads
  sleep and how many are already on their way.
* `queue_size` (drain loop) and `prefetch_size` are tested without their locks.
* Cache entries are used by reference while other threads evict.
* `global_exit` is set without waking anyone.
* The cache's collision chains are changed by sequences of puts and evictions;
  pointers outlive what they point to.
* Files change between the two looks the server takes at them.

In the reference server:

* The ring's two indices, its counter and the exit request must agree at wrap-around;
  main waits for room on the condition variable of the dispatchers.
* One scan over the cache looks for the name and picks the entry to replace.
* `get_request` shares its buffer, does not look at the result of `read`, and puts the
  terminator one byte too far.

In the browser:

* At end of file `read` returns 0, which the router takes for a request: it handles the
  one it read last once more.
* Who may write to whom depends on who is dead already; a write nobody can read ends
  the writer.
* The router looks at `channel_alive`, which it learns of by messages.

In the packet program:

* The signal may come between any two statements of main, also between the test of
  `pkt_cnt` and `pause`.
* `mm_put` merges free chunks by cells that may hold what an earlier chunk left there, or
  what malloc's memory held.

In the shortest paths:

* A vertex's key changes while the vertex is in the priority queue.
* One pass of Bellman-Ford too few leaves a negative weight to Dijkstra.

`PROJECT.json` lists each hazard at its line with the properties that watch it.

## Modules

| module | models | source |
|---|---|---|
| `EntryCache` | the cache as a list of entries: search, eviction, put | `server.c` 457-733 |
| `CacheService` | `EntryCache` as a state machine | the same |
| `HashCache` | the cache cell by cell: list, sentinel, table, chains, malloc and free | the same |
| `LinkedLists` | walks along pointers, and rings through a sentinel | |
| `RequestQueues` | both queues as sequences | `server.c` 736-826 |
| `RequestLists` | both queues pointer by pointer, and the search along one of them | `server.c` 151-450, 736-867 |
| `ServerLists` | the three lists together | `server.c` 151-867 |
| `WebServer` | the threads, both queues, locks, condition variables, shut-down, the file tree | `server.c` 622-1242 |
| `RequestService` | what clients may see of the server | `util-http.c` 53-166 |
| `WebServerProperties` | the properties of `WebServer` | |
| `SolServer` | the reference server with `get_request` | `sol_server.c` 56-350, `util-http.c` 53-166 |
| `BoundedQueue` | what the ring buffer is for: a bounded queue closed by its last item | `sol_server.c` 85-131 |
| `SolServerProperties` | the properties of `SolServer` | |
| `Browser` | router, controller, tabs and their pipes | `browser.c`, `wrapper.c` |
| `BrowserProperties` | the properties of `Browser` | |
| `MemoryManager` | the catalog: `mm_init`, `mm_get`, `mm_put`, as operators | `mm_public.c` |
| `Heap` | what users of a memory manager count on: chunks that do not overlap | `mm_public.h` |
| `Packets` | the signal handler and main, over `MemoryManager` | `packet_public.c` |
| `PacketsProperties` | the properties of `Packets` | |
| `Johnson` | reading, Bellman-Ford, reweighting, Dijkstra, writing | `apsp.java`, `Graph.java`, `Edge.java` |
| `JohnsonProperties` | the graph in a file, its paths and their weights; the properties of `Johnson`, against shortest paths as a minimum over all paths | |
| `MCWebServer`, `MCHashCache`, `MCServerLists`, `MCSolServer`, `MCBrowser`, `MCPackets`, `MCJohnson` | constants for TLC | |
| `SequenceLemmas` | facts about `Head`, `Tail`, `Append`, `RemoveAt`, ranges | |
| `WebServerProofs`, `CustodyProofs` | theorems about `WebServer` | |
| `ListsProofs` | theorems about `RequestLists`, `HashCache` and `ServerLists` | |
| `SolServerProofs` | theorems about `SolServer` | |
| `BrowserProofs` | theorems about `Browser` | |
| `PacketsProofs` | theorems about `Packets` and `MemoryManager` | |
| `JohnsonProofs` | theorems about `Johnson`, and about paths in a graph | |

`WebServer` extends `EntryCache`; `WebServerProperties` instantiates
`RequestService`, `HashCache` instantiates `CacheService`, and `RequestLists`
instantiates `RequestQueues`. So the cache and the queues the server is checked with
are the ones the pointers are shown to implement. `ServerLists` extends `HashCache` and
`RequestLists`, which both extend `LinkedLists`.
`SolServerProperties` instantiates `RequestService` too, so both servers are held to
one promise, and `BoundedQueue`; `Packets` extends `MemoryManager`, and
`PacketsProperties` instantiates `Heap`.

### How WebServer corresponds to the code

`pc[t]` names the place a thread is at; a step is everything up to the next place
where another thread can interfere, that is a whole critical section, or one
access to shared state without the lock.

* `enqueue`, `wait_put`, `woken_put`: `dispatch_thread`, the lock at 968, the
  wait at 973, and back from it (`Enqueue`, `EnqueueWoken`).
* `check`, `lock_queue`, `wait_get`, `woken_get`, `lock_cache`: the worker's
  loop from the test of `global_exit` to holding the queue and asking for the
  cache. `qm` is held while the worker waits for `cm`.
* `read`, `stat`, `reply`: `process_request` under `cache_mutex`. `getFile` and
  `getFileSize` are two steps, since a file can change in between.
* `offer`, `put_prefetch`: the unlocked test of `prefetch_size`, then the put.
* `drain_check`, `drain_lock`, `drain_log`: the loop after `global_exit`, where
  the log is written after the cache has been unlocked. It shares `lock_cache`
  to `reply` with the main loop; `draining` tells the two apart (no signal, and
  no prefetch).
* `p_check` to `p_put`: `prefetch_thread`.

`log_mutex` and `prefetch_mutex` are only held where the holder cannot block, so
what is done under them is one step and they need no variable. `fault` is set, and
the process ends, where an `assert` fails or a null or freed pointer is used:
`queue_assert` (970), `null_request` (1022), `fread_assert` (644),
`null_extension` (677), `entry_assert` (247), `prefetch_assert`, `log_assert`
(`project4/server.c:878` only, constant `LogAsserts`), `use_after_free` (a stale
`prev_collision` on eviction, or `bundle.ent` in the drain loop), `list_corrupt`
(relinking or freeing a request that smallest-file-first left in the queue).

`Mode` is the scheduling argument: `FCFS`, `CRF` (cached first), `SFF` (smallest
first). `Hash` is `MurmurHash2` modulo the cache size: any function. `Trees` are
the file trees to start from; `ChangeFile` moves one file to what another tree
has for it, at most `MaxChanges` times (a bound).

In the hash table, `chained` in `EntryCache` records that an entry's
`prev_collision` is not null. It never becomes null again, which is why evicting
such an entry writes through a stale pointer (`EvictsChained`); `HashCache`
shows that this is exactly when it happens.

### How the lists correspond to the code

Cells and requests are memory: malloc takes any that is not in use, and free gives it
back. `heap` in `HashCache` has the fields of every `cache_entry`, the sentinel's pointers,
the table and `cache_size`; a put or a search is one step, as `cache_mutex` is held.
In `RequestLists` `next` and `prev` are the two pointers of a `request`, which serve
whichever queue it is in; the operations keep their names (`q_add`, `q_remove`, `q_first`,
`q_nextOf`, and the same with `p_`). Each queue has its own mutex, so what is done to it is
one step, but for `getCachedRequest`: it holds `queue_mutex` and `cache_mutex` for the whole
search and goes one request at a time (`SearchFirst`, `SearchMisses`, `SearchHits`, with
`req` the variable of that name), while threads with the other mutex change the prefetch
list. `where` says which list or kind of thread has a request; it stands for what
`WebServer` has of the threads. `filename` is kept while a request is in the queue, where
the search reads it.

### How SolServer corresponds to the code

A critical section is one step (`Put`, `Get`, `Serve`, `PutExit`), and so are `read` and
the parsing of `get_request`. The waits are in loops, so a woken thread is back at
`put` or `get`; a signal wakes one of the waiters, whichever, and spurious wakeups are
steps. main is a thread with places of its own (`main`), and it waits among the
dispatchers. `mybuf` is a dispatcher's file name: the string, and which bytes of the
array are not 0, which is what the misplaced terminator depends on: a byte left there
makes the name another string, or another client's name (`Longer`). `buffer` is the
static buffer; while another dispatcher is about to read into it, what a parse finds is
torn: another string (`Garbled`), or a refusal. `Starts` are the arguments main may be
given, `asks` what each client sends.

### How Browser corresponds to the code

`Poll` is one turn of the `for` loop in `poll_children` with all it does with the request
it reads; `KillNext` one turn of the loop that tells the tabs to exit. `up[c]` and
`down[c]` are the pipes of channel c, the controller's being 0. `Readable` and `Written`
say whether anyone still has the other end open, the tabs that kept ends from when they
were the router included (`kept`); they decide between end of file, EAGAIN and SIGPIPE.
A child blocks on a full pipe; the router does not get ahead either. `broken` records
the channel whose write ended the router. `ReadDown` is `tab_flow`, the callbacks keep
their names. Where a second `close` of one descriptor may hit another pipe the model
stops (`double_close`).

### How Packets corresponds to the code

The handler masks signals and main stands still meanwhile, so one of the two moves at
a time. `handler` is idle or at the loop of `mm_get` (`allocate`), the copy (`store`) or
the loop of `mm_put` (`put`); `pc` is the statement main is at, one step for each assignment
the handler can see. `Alarm` may fall anywhere in main; outside `pause` it counts as
`late`, at most `MaxAlarms` times (a bound). `held` are the packets whose memory was
got and not put back.

`MemoryManager` has the catalog with `Size` cells and the one behind the last, which
`mm_get` reads. A write to any other cell would make that cell part of `catalog`, against
`TypeOK`. What `malloc` left in it is a choice of `Fills`.

### How Johnson corresponds to the code

A file is a sequence of lines of numbers. Edges are objects, so `edges` is a sequence of
records (parallel edges stay apart), in the order of the `LinkedHashSet`; `MakeGprime`
appends those of the source, and `Reweight` changes the weights for both graphs.
`RelaxNext` and `ScanEdge` relax one edge; `queue` holds the vertices in Q with the
keys they were inserted with, so that a key that is not renewed would be seen; `poll`
gives any vertex with the least key.

## Runs

| run | instance | checks |
|---|---|---|
| `WsPool` | 2 dispatchers, 2 workers, 1 prefetcher, 3 requests, queues of 1, spurious wakeups, FCFS | `TypeOK`, `Custody`, `NoLostGet`, `NoLostPut`, `PrefetchBound`, `RestsOnlyWhenDone`, `EntryPinned`, `WorkersNeverChain`, `ImplementsService` |
| `WsSingle` | one thread of each kind, 3 requests, a queue of 2, CRF, a file that may be missing, a cache that never fills, fair | `NoFault`, `EventuallyAnswered` |
| `WsOverfull` | 2 dispatchers, 1 worker, 1 prefetcher, 4 requests, queues of 1, spurious wakeups, FCFS, a file that appears or disappears | `QueueBound`, `LogFollowsReply` |
| `ServerLists` | 2 requests; 3 names in 2 buckets, 3 entries, 4 cells | `ServerTypeOK`, `CacheIntact`, `ListsIntact`, `ImplementsCacheService`, `ImplementsQueues`, `PicksFirstCached` |
| `SolServer` | six starts: 1 or 2 dispatchers and workers, queues of 1 and 2, caches of 1 and 2, each caching method, 4 connections; one start with a queue of 0 | `TypeOK`, `CacheHoldsTheNewest`, `ImplementsQueue`, `ImplementsService`, `RequestsAnswered`, `ServerExits` |
| `Browser` | 2 tabs, pipes of 2 requests, 3 clicks, 2 addresses, one tab may crash | `TypeOK`, `AliveIsRight`, `BrokenOnlyByDeath`, `TabsWereAskedFor`, `UrisInOrder`, `UriArrives`, `ControllerTakesAll` |
| `Packets` | 5 messages, 45 bytes, packets of 2 bytes, a signal outside `pause`, memory of 0 or -3 | `TypeOK`, `MessagesWhole`, `ImplementsHeap`, `Ends` |
| `Johnson` | every graph of 3 vertices with weights -2, 1, 2; graphs with parallel edges, loops, 4 vertices, none; files with mistakes | `TypeOK`, `FinalIsRight`, `PathLeadsBack`, `ExtractedIsFinal` |
| `WsShutdown` | one thread of each kind, fair | `ExitsCleanly` is violated |
| `WsWakeup` | 1 dispatcher, 2 workers, no spurious wakeups | `WorkerGetsRequest` is violated |
| `WsSmallest` | 2 workers, SFF | `AnsweredOnce` is violated |
| `HashCacheSearch` | the cache of `ServerLists` | `FindsTheEntry` is violated |

What the passing runs show: as long as the process has not died, requests keep
exactly one owner; one signal per item is enough, because a sleeping worker is
only left alone if as many others are coming as there are requests; the `if`s let
the queue outgrow `qlen`, but by no more than the number of dispatchers (and the next
one to come then aborts, below), and the unlocked test lets the prefetch queue outgrow its limit by no more than the number
of other workers; the lock order is free of cycles; a client gets at most one
answer and never another client's file, if no two names share a bucket. With one
thread of each kind, files that are not empty, guesses that exist, names with a
dot and a cache that does not fill up, the server never dies.

The lists of the server keep their shape under every sequence of operations and every
reuse of memory, until the eviction of a chained entry follows a stale pointer
(`EvictsChained`), and behave as the sequences `WebServer` has in their place. A request
in transit between two lists carries old pointers, which no operation reads.
`getCachedRequest` picks the first cached request of the queue, or the first one, although
its search goes on while prefetch threads work on the other list.

The reference server does what the other does not: whatever the clients send and
however often a thread is woken for nothing, every request that got through
`get_request` is answered, the one exit request stops all workers, and main returns. The
ring is a bounded queue through every wrap-around, with the exit request in it, and the
cache holds exactly the names its method calls for, defined by the log alone. A
connection is answered once, with the file it is taken to have asked for; that this is
not always the one it did ask for is the library's doing (below).

In the browser an address on its way to an open tab arrives, in order, even when the
router handles a dead tab's request twice; without a crash `channel_alive` is right
whenever the router relies on it, and no tab opens without a click. SIGPIPE ends the
router in two ways only: a tab that died on its own, or the controller gone before its
TAB_KILLED was answered. In every other run closing the main window ends all tabs.

The packet program works although `mm_put` does not merge as it should: its order of
puts never makes two packets share a byte, also with a signal at the wrong time. While
signals come in `pause`, messages are printed in order and whole; a signal between the test
and `pause` costs a tick, one during the reset a message or a write to `NULL`. The
program always comes to its end or to a fault.

Johnson's algorithm is right on every graph of the run: lengths, predecessors, negative
cycles and refused files, each against a definition by all paths without a repeated
vertex.

What the violations show, each against a sentence of the repository:

* `ExitsCleanly` (`util.h:24`): `global_exit = 1` wakes nobody. A worker asleep
  on the empty queue stays asleep, and main stays in its join.
* `WorkerGetsRequest` (`server.c:158`): the woken worker is overtaken, and
  dereferences a null request.
* `AnsweredOnce` (`server.c:770`): `queue_getSmallRequest` does not unlink.
* `FindsTheEntry` (`server.c:503`): `hash_search` returns the head of the bucket.

What the code does otherwise than a comment says, and a passing run has in it:

* A woken dispatcher overfills the queue (`server.c:973`), against the next one's
  `assert(queue_size <= max_queue_size)` (970), which ends the server: it waits under an
  `if`, and another dispatcher may have taken its place. No spurious wakeup is needed.
  `QueueBound` is what remains true; the run has queues of three where `qlen` is one, and
  ends in `queue_assert`.
* `mm_put` (`mm_public.c:147`) looks for the right neighbour one chunk too far after it
  merged to the left, so two free chunks may stay side by side
  (`mm_public.c:13` says never). `ImplementsHeap` shows what remains true.
* The router may die of SIGPIPE when the main window is closed (`browser.c:310`), and the
  tabs stay, where `project2/README:37` has them killed: `BrokenOnlyByDeath`.
* `get_request` (`util-http.c:82`, `128`) may store a name the client did not ask for,
  against `util.h:37`: `ImplementsService` says what holds of such a connection.
* A last vertex without a weight is dropped (`apsp.java:53`), although there is a message
  for it (54): the run computes with such a file.

### Bounds, and why they are enough

Two threads of a kind are what a race between them needs, and a queue of one
brings every boundary (empty, full, overfull) within three requests: one
queued, one waiting, one being processed. Where cached-first order matters
(`WsSingle`) the queue holds two, so that there is a choice, and a dispatcher can
still find it full. What overfills a queue is a second dispatcher or a spurious
wakeup; with both a queue of one comes to hold three in `WsOverfull`, which is
its bound, and one that outgrew the bound would hold four: the run has four
requests. The cache of two in `WsPool` and `WsOverfull` fills and evicts; that of
six in `WsSingle` has room for what three requests can put into it, two misses and
three guesses, which isolates `NoFault` from the eviction of a chained entry. Two files tell hit from miss and own from
foreign; a file that is there at one look and missing at the next tells the two
looks apart. Three names in two buckets with three entries make a chain of
three, a removal at its head, and a bucket that empties; the fourth cell is the
entry created before the oldest is evicted, and makes malloc reuse freed cells. Two
requests make each queue empty, full of one and full of two, a search with a choice, and a
request that moves from one list to the other while its neighbour stays behind.
`SolServer`'s starts give each method a queue and a cache that are full and one that
wraps; the four requests of its first start repeat a name between two others, which
tells the order of use from the order of loading, and the silent, refused and absent
clients are in the others. Two tabs are what it takes to have one tab keep another's
pipe ends, and three clicks one more than there are tabs; a pipe of two can be full while
the router is busy. The
packet program has five messages in the code, too; its 200 bytes in packets of 9 are
45 in packets of 2, which is as many chunks (22), so that the walk over the catalog
passes what earlier messages left there; fills of 0 and below are what fresh or
debug-filled memory holds. Three vertices have all shapes of cycles and
of re-keyed vertices; the graph of four has a path of three edges found late.
`Infinity` is 1000, beyond every sum of weights of at most `MaxWeight`, which is 5:
TLC evaluates `WeightsAssumption` on every file of the run.

Threads, requests and cells are interchangeable and reduced by symmetry, except
in the fair runs. Deadlock is not checked: the server rests when no client comes
and after a fault, and `ServerLists` stops at a stale pointer. What deadlock would
show is `RestsOnlyWhenDone`, which says what may be left when no thread can go on. The
other systems stop when they are done; that they are not stuck before is what their
liveness properties say.

### Fairness

`FairSpec` gives weak fairness to every thread's own steps and to main: the
scheduler runs what can run. Clients, file changes and spurious wakeups get none:
nobody has to connect. No strong fairness is assumed: the locks
(`qm`, `cm`) are contended only finitely often with finitely many requests, so
weak fairness suffices. With endless clients a mutex may starve a thread, and
cached-first may starve a request; the model has a finite set of connections and
cannot show either.

The other `FairSpec`s follow the same rule, weak fairness for what the scheduler runs.
`SolServer`: every thread's own steps and main; accepting and failing to accept depend on
clients and get none. `Browser`: the router, the controller's exit once it left
`gtk_main`, and a tab's reading of its pipe, which a GTK idle function does for ever;
the user, and the rendering engine that may crash, get none. `Packets`: main, the
handler, and an alarm in `pause`, as the interval timer keeps ticking. `Johnson` needs
none: nothing that is checked of it is a liveness property.

## Proofs

### Web server

TLAPS proves the following for all values of the constants that satisfy
`ServerAssumption` and `CacheAssumption` (finite disjoint sets of threads, at least one worker,
positive limits, a hash into the table), spurious wakeups, file changes, faults and shut-down included.

| theorem | statement | modes |
|---|---|---|
| `TypeCorrect` | `Spec => []TypeOK` | all |
| `CustodyHolds` | `Spec => []Custody` | FCFS, CRF |
| `QueueBoundHolds` | `Spec => []QueueBound` | all |
| `PrefetchBoundHolds` | `Spec => []PrefetchBound` | all |
| `NoLostGetHolds` | `Spec => []NoLostGet` | FCFS, CRF |
| `NoLostPutHolds` | `Spec => []NoLostPut` | all |
| `EntryStaysPinned` | `Spec => []EntryPinned` | all |
| `WorkersDoNotChain` | `Spec => []WorkersNeverChain` | all |
| `LogAlwaysFollowsReply` | `Spec => []LogFollowsReply` | FCFS, CRF |
| `NeverAnsweredTwice` | `Spec => []AnsweredOnce` | FCFS, CRF |
| `WebServerImplementsService` | `Spec => ImplementsService` | FCFS, CRF, no two names in a bucket |
| `NoFaultHolds` | `Favourable /\ Spec => []NoFault` | FCFS, CRF, and see below |

* `TypeOK` alone is not inductive: `queue' = Append(queue, hand[d])` needs
  `hand[d]` to be a request. `TypeInv == TypeOK /\ HandsMatch /\ AllCreated` is: a
  thread holds a request exactly at the program points whose code uses one, and
  every request that is about was created, so its file name is one.
* `Custody` is proved over `TypeInv` by the six ways a step can change hands:
  created, put, taken, freed, or not moved at all. `PickedAt` is in the queue's
  domain in every mode, and removing that element leaves the rest in place; in
  `SFF` it is not removed, and the theorem excludes that mode by hypothesis.
* The queue theorems count threads at program points. The lemmas that carry them
  say what one `Go` or `GoWaking` does to the cardinality of `At(l)`. `NoLostGet`
  needs that dispatchers signal after each put, and that the worker that holds
  the queue lock counts as coming; `NoLostPut` needs in addition that
  a worker that takes a request without signalling is draining, that main has then joined
  all dispatchers and so none sleeps (`ExitInv`).

* The cache theorems rest on who holds `cm`: from the search to the reply the worker
  does. `CacheInv` says of that time (`BundleRight`) that an entry the worker found or made
  is in the cache, in the bucket of the file it was asked for, and that a bucket it found
  empty still is. The first gives `EntryPinned`, the second `WorkersNeverChain`: a worker
  puts its entry into an empty bucket.
* `ServiceInv` says that a request that is still to be answered (`Pending`) has no reply and
  no line in the log, so that the reply is the first, and that a draining worker, which has
  given up the cache, still knows what it replied. It needs `Custody`: two owners would be
  two answers.
  `WebServerImplementsService` puts this and the cache together step by step: a step of
  the server stores a name, refuses a connection, answers it with what its file
  holds or held, or is a stutter of `RequestService`. Its two hypotheses are what the
  findings below the runs say: `queue_getSmallRequest` and `hash_search` break it.
* `NoFaultHolds` is about the server where it is right. `Favourable` is what it relies
  on and does not see to itself: at most one thread of each kind and no spurious
  wakeups, since no condition is tested a second time; not `SFF`; no empty file
  (`fread_assert`), no guess that does not exist, no name without a dot, and not the
  assertion of project4 (`LogAsserts`), which fails for a file that cannot be read; and
  either no prefetch threads, or a cache with more room than there are requests and
  buckets together, since the eviction of a chained entry follows a stale pointer. The
  constants of `WsSingle` satisfy it. `AllThere` says that what a thread goes for is
  there: a request for a worker that saw or was told of one, room for a dispatcher,
  an entry for the line a draining worker writes after it unlocked the cache. With a second
  worker it fails (`WorkerGetsRequest`). `EntriesCounted` bounds the cache: a
  worker adds at most one entry per bucket, as it finds the bucket empty, and a
  prefetch thread at most one per request, as it frees the request with it; so under
  `CacheHasRoom` nothing is ever evicted (`NeverFull`). Without prefetch threads there are
  no chains, and any cache will do.

The order of the argument: `SequenceLemmas`, `WebServerProofs` (types, a lemma per
action, then the queues and signals), `CustodyProofs` (owners, the cache, the answers,
and last `NoFault`).

### Lists and cache

`ListsProofs` proves for any memory, names, hash and cache size (`HeapAssumption`,
`ListsAssumption`):

| theorem | statement |
|---|---|
| `ListsStayIntact` | `ListsSpec => [](ListsTypeOK /\ ListsIntact)` |
| `ListsImplementQueues` | `ListsSpec => ImplementsQueues` |
| `SearchPicksFirstCached` | `ServerSpec => PicksFirstCached` |
| `CacheStaysIntact` | `Spec => [](TypeOK /\ CacheIntact)` |
| `CacheImplementsService` | `Spec => ImplementsCacheService` |
| `ServerTypesCorrect` | `ServerSpec => []ServerTypeOK` |
| `ServerListsStayIntact`, `ServerCacheStaysIntact`, `ServerCacheImplementsService` | the same of the three lists together |

* What is in a list is defined by a walk, and a fact about walks of every length seems to
  ask for induction. `WalkSteps` and `RingWalk` do with a least counterexample. With them a
  ring is a relation between pointers and *any* sequence that fits, so that a step is shown
  by naming the sequence it leaves: `Append` after linking, `RemoveAt` after unlinking.
* `ListsInv == ListsTypeOK /\ ListsIntact` is inductive. Behind it are `TwoRingsAppend`
  and `TwoRingsRemove`: linking into one ring, or unlinking from it, leaves another alone that
  shares no node with it.
* `SearchInv` says that the search is at a request of the queue and none before it is
  cached. It holds in every step because `cache_mutex` is locked, so no put changes what
  `Cached` says, and because the steps that may come between keep the sequence.
* `CacheInv == Shape(heap, Listed) /\ Range(Listed) = Allocated(heap) /\ ...` is inductive. `Shape` has
  the ring and `Chained`: each bucket's table cell points to the first entry of that bucket in
  the list, each `next_collision` to the next one of its bucket, each `prev_collision`
  back, and memory outside the list has neither. The last part is what `CacheIntact` lacks:
  without it a new entry could come with a chain of its own. That an entry at the head of
  its bucket may still have a `prev_collision` is not excluded: it is how the stale pointer
  arises, and what `chained` in `EntryCache` stands for.

### Reference web server

`SolServerProofs` proves for all values of the constants that satisfy `SolAssumption`: any
finite disjoint sets of threads, any connections and names, any limits, and any arguments,
illegal ones included. (`"main" \notin Threads` is there because main is named as a waiter
beside the dispatchers.)

| theorem | statement |
|---|---|
| `TypeCorrect` | `Spec => []TypeOK` |
| `RingIsQueue` | `Spec => ImplementsQueue` |
| `ServiceHolds` | `Spec => ImplementsService` |
| `CacheIsTheNewest` | `Spec => []CacheHoldsTheNewest` |

* `SolInv == TypeOK /\ ArgsInv /\ ThreadInv /\ RingInv` is inductive. The indices stay
  in the ring only because the arguments were checked before a thread ran (`ArgsInv`);
  a dispatcher puts a request, and not the null connection, because of where it is
  (`ThreadInv`); nothing follows the exit request because main puts it when every
  dispatcher is gone.
* `RingIsQueue` is arithmetic modulo the length of the queue: `Wrap` says what the
  remainder is for numbers below twice the divisor, `Inserted` that writing at
  `req_insert_index` appends to the queue and overwrites nothing in it, `Removed` that
  advancing `req_remove_index` drops its head. The counter is what tells a full
  ring from an empty one.
* `ServiceHolds` needs that a connection is in one place: `OneHolder` says that one
  dispatcher has it, or one slot of the ring, or one worker, that it is then
  unanswered, and that the name that travels with it is the one get_request stored.
  `OwnFile` says that a cache entry holds the file it is named after; so a hit and
  a miss answer alike. Neither can be left out: a second holder would be a second answer.
* `CacheIsTheNewest` rests on `LogInv` and `CacheInv`. `Stamp` is the place in the log that a
  name's rank comes from. For LRU the timestamp of an entry is that place (`Stamped`); for
  `oldest` the entries from `cache_insert_index` on, and round to it, are in the order of
  their loads (`InTurn`); either way the slot chosen is empty or holds the oldest entry
  (`OldestChosen`), so what is left out stays older than all that is cached (`LeftOut`),
  and `NewestOfAll` counts: the entries are the newest, as many as there is room for.

### Tabbed browser

`BrowserProofs` proves for any number of tabs, any capacity of the pipes and any number of
clicks and addresses (`BrowserAssumption`), tabs that crash included:

| theorem | statement |
|---|---|
| `TypeCorrect` | `Spec => []TypeOK` |
| `AliveStaysRight` | `Spec => []AliveIsRight` |
| `RouterBrokenOnlyByDeath` | `Spec => []BrokenOnlyByDeath` |
| `TabsStayAskedFor` | `Spec => []TabsWereAskedFor` |
| `UrisStayInOrder` | `Spec => UrisInOrder` |

* `BrowserInv` is the inductive invariant. `PipeInv` says who writes what into which pipe,
  and that an unused number has nothing in its pipes. `ControllerInv`: once the
  controller has closed, its TAB_KILLED is in its pipe for as long as the router polls.
  `KillInv`: a tab whose TAB_KILLED is on the way down is off the list, and one that has
  sent its own is closed, on the list, and has sent nothing else.
* `RouterCases` reduces a turn of the loop to what it does with one request, the one read
  or the last one. `NoRepeat` is the heart of the first four theorems: without a death on
  its own, the channels that are polled have living processes, or their TAB_KILLED before
  the end of file, so no request is handled twice. `AliveIsRight` is used and kept at once:
  it says that polled channels are alive, and `NoRepeat` that only a request takes one off.
* `TabsStayAskedFor` counts: a click adds a request, and a tab takes one away.
* `UrisStayInOrder` needs no such hypothesis. `UriInv` orders the addresses at one moment:
  what a tab shows, what is on its way to it, the request the router holds, and what is in
  the controller's pipe, strictly from the last to the third and weakly elsewhere, so that
  handling the held request twice sends an address again but never an older one.

### Memory manager and packets

`PacketsProofs` proves for any number of messages, any size of packets and of the heap
(`PacketsAssumption`, `ManagerAssumption`, `RoomAssumption`):

| theorem | statement |
|---|---|
| `MessagesStayWhole` | `Spec => []MessagesWhole` |
| `PacketTypes` | `Spec => [](late = 0 => TypeOK)` |
| `PacketsKeepTheirMemory` | `Spec /\ [](late = 0) => ImplementsHeap` |

`late = 0` says that no signal has come outside `pause` so far; `MessagesWhole` is stated
under it too. `RoomAssumption` says how big the heap must be. A message of m packets may
leave it shorter by half of m, as `mm_put` merges wrongly, so room for
`NumMessages * (NumMessages + 3) / 2` packets covers what is lost, the longest message,
and the cells behind it that `mm_put` looks at. The program has 200 bytes; its
five messages of nine-byte packets need 181. It also says that the memory of the catalog
does not look like a free chunk before it is used, as fresh pages do not. TLC evaluates
both on the run.

* The heart is the catalog. Every message gets its chunks at the same places, `At(0)`,
  `At(1)`, ..., so all that matters are the cells at the ends of those chunks. `Getting(c,
  T, m, n)` is the catalog when message m has n chunks: these are in use, and the next
  free chunk is the rest of the heap, or the space of the message before with the rest
  behind it, the two not having been merged. `Putting(c, T, m, n)` is the catalog when
  n chunks have been put back: what `mm_put` sees to the left, what the cell at 0 says,
  and that the rest is still in its place. For an odd m = 2q + 1 the put of chunk q
  looks too far to the right and merges the rest into it although chunks in between are in use: the
  catalog then counts bytes in use as free, and the next message finds one free chunk
  that is q packets shorter than the heap. `T` is the end of what is left.
* `GettingStep` (with `FirstFitIs`: where the walk of `mm_get` ends), `PuttingStep` (with
  `PutWrites`: which two cells `mm_put` writes) and `PuttingLast` lead from one form to
  the next; `EndIsFar` says that the far end of a merge lies behind all the chunks, by
  what `RoomAssumption` leaves of the heap (`Ample`).
* `InStep` has the program: six stages of a message, from `Fresh` to `Resetting`, each
  with what the counters, the places and the catalog are. It is inductive as long as
  `late` is 0; a late signal makes it say nothing, since `late` never falls.
* `walk` in `mm_get` and the sum in `Lines` are recursive functions. `WalkExists` and
  `SumsToExist` show with `CountingUp` that there are such functions. The walk's
  has to be shown also for a catalog it would never leave, as a cell of 0 stops it.

### Shortest paths

`JohnsonProofs` proves for every graph, of any size, and for every file
(`JohnsonAssumption`), that the whole algorithm is right:

| theorem | statement |
|---|---|
| `TypeCorrect` | `Spec => []TypeOK` |
| `WeightsStayNonNegative` | `Spec => []NonNegative` |
| `ExtractedStayFinal` | `Spec => ExtractedIsFinal` |
| `FinalStaysRight` | `Spec => []FinalIsRight` |
| `PathsLeadBack` | `Spec => []PathLeadsBack` |

`WeightsAssumption` says that weights are at most `MaxWeight` away from 0, whatever that
is, and that no sum of them over a path comes near `Infinity`, also with the two
potentials of a reweighted edge on top. The program reads the weights as ints
(`apsp.java:60`) and adds them up in longs (`Vertex.java:7`), and its matrices have a row
for every vertex, so a graph that breaks it does not fit into memory. Without it a
distance could reach `Infinity` and be taken for none.

The inductive invariant is `RightInv`. Its parts follow the phases of the program, and
TLC has checked each on the `Johnson` run before it was proved:

* `TypeInv`, `NonNegative` and `Frontier` carry the first three theorems. `NonNegative` is
  about the phases after the reweighting: only `Reweight` leads there, and its guard says
  that no edge can be relaxed, which is what makes `w + h(u) - h(v)` non-negative.
  `Frontier` ties together what Dijkstra relies on: the keys in the queue are the
  distances (each relaxation renews the key), the current vertex is no nearer than the
  extracted ones, and none in the queue is nearer than it. None of the three is inductive
  alone: an extraction needs the keys to be right to keep the order, and a relaxation
  needs the order, and non-negative weights, to leave extracted vertices alone.
* `Reading`: the edges are the arcs of the lines read so far, one for one, with the
  potentials in their weights; while Bellman-Ford runs, also those of the added source.
* `BellmanFord` has a distance between two bounds: it is at most the weight of every path
  with fewer vertices than the pass has number, and at least that of some path. The upper
  bound grows edge by edge within a pass (`Passed`). The lower bound holds only
  without a negative cycle, as a walk could go round one: a relaxation that would close a
  cycle is shown to have no effect then. So an edge that can still be relaxed after
  the last pass proves a negative cycle, and none proves that there is no such cycle.
* `Reweighted`: none is left, and no potential is further from 0 than a path can weigh.
* `Tree` and `ScannedEdges`: Dijkstra's predecessors lead back from each vertex it has
  reached along a path that weighs at most the distance and of which all but the end
  has been extracted; and edges of extracted vertices have nothing left to relax. When
  no vertex is left to extract the second bounds every distance by every path, which
  with the first makes it the shortest.
* `Rows`: the rows recorded so far are right, after `h(u) - h(v)` is taken out again.

A path's weight is a recursive function of the number of vertices, and facts about paths
would be proved by induction on it, which no installed prover can instantiate. Instead
`CountingUp` (`SequenceLemmas`) says that a set of numbers that has the first, and with
each the next, has them all; it follows from a least number that is missing. With it
`SumsExist` shows that there is one table of sums along a path, `Further`
that without a negative cycle a path can be replaced by one that an arc extends, and
`Telescope` and `Reaching` that distances no arc can lower are at most the weight of
every path, the second under potentials and with `Infinity` for vertices out of reach.

### Only model-checked

`RestsOnlyWhenDone` is stated with `ENABLED`. `EventuallyAnswered`, `RequestsAnswered`,
`ServerExits`, `UriArrives`, `ControllerTakesAll` and `Ends` are liveness properties
under fairness. Neither is in the prover's reach.

Of `Packets` with signals outside `pause` nothing is proved: the run has one of them,
and checks `TypeOK` and `ImplementsHeap` with it. What is not named here of the passing
runs' invariants and action properties is a theorem for all values of the constants,
under the hypotheses given with it.

## What is not modelled

* `cache_hashtable` is never cleared after `malloc` (`server.c:201`). `Init`
  takes it to be zero, as fresh pages are; any other content is a wild pointer on
  the first look-up.
* The window inside `getFile` between measuring and reading, and the narrowing
  of `filesize` to `int` before `return_result`.
* `MurmurHash2` itself, the text of replies and of the log, HTTP parsing, sockets,
  the start-up checks of the arguments, and failures of malloc and pthread_create.
* In `WebServer`, what is in `filename` is what `get_request` stored; how it comes to
  store something else is in `SolServer`.
* `util-http.c`: sockets, `init`, and the text of requests and replies; `util-http-file.c`,
  a variant for tests.
* The browser's widgets, and what happens after one descriptor was closed twice.
* What `mm_get` does when everything is taken (it reads past the catalog), memory of
  positive garbage, and puts in another order than the packet program's; the two
  programs that measure `mm_get` and `malloc`.
* The heap inside `java.util.PriorityQueue`, and 64-bit overflow of sums of weights.
* An endless stream of connections (see Fairness).
* The prototypes in `project4`, the copies in `tags`, test data and HTML.

## Plan

Every program of the repository is modelled, and what its runs check of safety is proved
where the prover reaches. What could be added:

1. Of `Packets`, theorems with signals outside `pause`: a message that lost its reset gets
   fewer chunks than packets, so that the forms of the catalog need a second number of
   chunks.
2. Of `WebServer`, which faults are left with one worker and several dispatchers (the
   assertion on an overfull queue is one).
