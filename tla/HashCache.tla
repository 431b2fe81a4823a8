------------------------------ MODULE HashCache ------------------------------
(***************************************************************************)
(* The cache of project5/server.c as it lies in memory: a doubly linked    *)
(* list through a sentinel, oldest entry first, and a table of collision   *)
(* chains, themselves doubly linked.  Every operation runs under           *)
(* cache_mutex from its first to its last access, so each is one step.     *)
(* malloc may return any cell that is not in use.                          *)
(***************************************************************************)
EXTENDS LinkedLists, FiniteSets, Functions, SequencesExt

CONSTANTS Files, Hash, MaxCache,
          Cells,       \* the memory entries are allocated from
          Sentinel     \* cache_sentinel

ASSUME HeapAssumption ==
    /\ MaxCache \in Nat \ {0}
    /\ Hash \in [Files -> 0 .. MaxCache - 1]
    /\ IsFiniteSet(Cells) /\ Cardinality(Cells) > MaxCache
    /\ Sentinel \notin Cells /\ Null \notin Cells \cup Files \cup {Sentinel}

VARIABLES heap,     \* the entries' fields, cache_hashtable and cache_size
          found,    \* the last call of hash_search: its argument, and the name it got
          fault     \* a pointer to freed memory has been followed

vars == <<heap, found, fault>>

Links == Cells \cup {Sentinel, Null}
Allocated(h) == {c \in Cells : h.filename[c] # Null}

\* init_lists.
Init ==
    /\ heap = [next |-> [c \in Cells \cup {Sentinel} |->
                            IF c = Sentinel THEN Sentinel ELSE Null],
               prev |-> [c \in Cells \cup {Sentinel} |->
                            IF c = Sentinel THEN Sentinel ELSE Null],
               next_collision |-> [c \in Cells |-> Null],
               prev_collision |-> [c \in Cells |-> Null],
               filename |-> [c \in Cells |-> Null],
               table |-> [b \in 0 .. MaxCache - 1 |-> Null],
               size |-> 0]
    /\ found = [asked |-> Null, got |-> Null]
    /\ fault = FALSE
-----------------------------------------------------------------------------
(* The operations on the chains *)

\* The end of the chain that starts in e.
ChainEnd(h, e) ==
    LET end[c \in Cells] ==
            IF h.next_collision[c] = Null THEN c ELSE end[h.next_collision[c]]
    IN  end[e]

hash_add(h, e) ==
    LET b == Hash[h.filename[e]]
        last == ChainEnd(h, h.table[b])
    IN  IF h.table[b] = Null
        THEN [h EXCEPT !.table[b] = e]
        ELSE [h EXCEPT !.next_collision[last] = e, !.prev_collision[e] = last]

\* Mutant: removing the first of a chain empties the bucket.
hash_remove_bucket(h, e) == [h EXCEPT !.table[Hash[h.filename[e]]] = Null]

\* The first of a chain leaves the prev_collision of the second one as it is.
hash_remove(h, e) ==
    LET before == h.prev_collision[e]
        after == h.next_collision[e]
        bypassed == [h EXCEPT !.next_collision[before] = after]
    IN  IF before = Null THEN [h EXCEPT !.table[Hash[h.filename[e]]] = after]
        ELSE IF after = Null THEN bypassed
        ELSE [bypassed EXCEPT !.prev_collision[after] = before]

\* Mutant: the last of the chain.
hash_search_last(h, fn) ==
    IF h.table[Hash[fn]] = Null THEN Null ELSE ChainEnd(h, h.table[Hash[fn]])

\* The loop looks for fn along the chain, but its result is dropped.
hash_search(h, fn) == h.table[Hash[fn]]
-----------------------------------------------------------------------------
(* The operations on the list *)

c_first(h) == h.next[Sentinel]

c_add(h, e) ==
    LET last == h.prev[Sentinel]
    IN  hash_add([h EXCEPT !.next[last] = e, !.prev[e] = last,
                           !.prev[Sentinel] = e, !.next[e] = Sentinel,
                           !.size = @ + 1], e)

\* Mutant: cache_size is not counted down.
c_remove_uncounted(h, e) ==
    hash_remove([h EXCEPT !.next[h.prev[e]] = h.next[e],
                          !.prev[h.next[e]] = h.prev[e]], e)

c_remove(h, e) ==
    hash_remove([h EXCEPT !.next[h.prev[e]] = h.next[e],
                          !.prev[h.next[e]] = h.prev[e],
                          !.size = @ - 1], e)

createCacheEntry(h, e, fn) == [h EXCEPT !.filename[e] = fn]

\* free: what the cell held is gone, whoever still points to it.
destroyCacheEntry(h, e) ==
    [h EXCEPT !.filename[e] = Null, !.next[e] = Null, !.prev[e] = Null,
              !.next_collision[e] = Null, !.prev_collision[e] = Null]

\* prev_collision of e points to memory that was freed since it was set, whether or
\* not it has been allocated again.
StaleBack(h, e) ==
    LET before == h.prev_collision[e]
    IN  before # Null /\ h.next_collision[before] # e

Shifted(h) == destroyCacheEntry(c_remove(h, c_first(h)), c_first(h))

\* createCacheEntry and cache_putEntry.
Put(e, fn) ==
    LET created == createCacheEntry(heap, e, fn)
        full == heap.size = MaxCache
    IN  /\ ~fault /\ e \notin Allocated(heap)
        /\ \/ full /\ StaleBack(heap, c_first(heap)) /\ fault' = TRUE /\ heap' = heap
           \/ /\ full /\ ~StaleBack(heap, c_first(heap))
              /\ heap' = c_add(Shifted(created), e) /\ fault' = fault
           \/ ~full /\ heap' = c_add(created, e) /\ fault' = fault
        /\ found' = found

\* cache_search.
Lookup(fn) ==
    LET e == hash_search(heap, fn)
    IN  /\ ~fault
        /\ found' = [asked |-> fn, got |-> IF e = Null THEN Null ELSE heap.filename[e]]
        /\ UNCHANGED <<heap, fault>>

Next == \E fn \in Files : Lookup(fn) \/ \E e \in Cells : Put(e, fn)

Spec == Init /\ [][Next]_vars
-----------------------------------------------------------------------------
(* Properties *)

TypeOK ==
    /\ heap.next \in [Cells \cup {Sentinel} -> Links]
    /\ heap.prev \in [Cells \cup {Sentinel} -> Links]
    /\ heap.next_collision \in [Cells -> Cells \cup {Null}]
    /\ heap.prev_collision \in [Cells -> Cells \cup {Null}]
    /\ heap.filename \in [Cells -> Files \cup {Null}]
    /\ heap.table \in [0 .. MaxCache - 1 -> Cells \cup {Null}]
    /\ heap.size \in 0 .. MaxCache
    /\ found \in [asked : Files \cup {Null}, got : Files \cup {Null}]
    /\ fault \in BOOLEAN

\* The entries in list order.
Listed == Walk(heap.next, c_first(heap), heap.size)

\* The list is a ring of the entries that are allocated, each once.
RingIntact ==
    /\ Range(Listed) = Allocated(heap) /\ IsInjective(Listed)
    /\ Ring(heap.next, heap.prev, Sentinel, Listed)

\* The first entry of bucket b that is listed at i or behind, Null if there is none.
FirstFrom(i, b) ==
    LET chained == {k \in i .. heap.size : Hash[heap.filename[Listed[k]]] = b}
    IN  IF chained = {} THEN Null ELSE Listed[Min(chained)]

\* The table leads to the first entry of every bucket and each entry to the next one of
\* its own: every entry is in its chain, in list order, and none leads to freed memory.
ChainsFollowList ==
    /\ \A b \in DOMAIN heap.table : heap.table[b] = FirstFrom(1, b)
    /\ \A i \in DOMAIN Listed :
          heap.next_collision[Listed[i]] = FirstFrom(i + 1, Hash[heap.filename[Listed[i]]])

\* Within a chain prev_collision is right; before its first entry it may be anything.
BackwardsWithinChains ==
    \A e \in Allocated(heap) :
        LET after == heap.next_collision[e]
        IN  after # Null => heap.prev_collision[after] = e

\* The list and the chains keep their shape, whatever is put in and evicted and
\* wherever malloc puts it, until a stale pointer is followed.
CacheIntact == RingIntact /\ ChainsFollowList /\ BackwardsWithinChains

Entries ==
    [i \in 1 .. heap.size |->
        [name |-> heap.filename[Listed[i]],
         chained |-> heap.prev_collision[Listed[i]] # Null]]

Service == INSTANCE CacheService WITH cache <- Entries, broken <- fault, NoName <- Null

\* The linked cells behave as the list of entries that WebServer computes with.
ImplementsCacheService == Service!Spec

\* "Return the cache entry with filename key 'fn' or NULL if no such entry exists".
FindsTheEntry == found.got \in {found.asked, Null}
=============================================================================
