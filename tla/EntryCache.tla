----------------------------- MODULE EntryCache -----------------------------
(***************************************************************************)
(* The file cache of project5/server.c at the level its clients see it: a  *)
(* list of entries, oldest first, searched through a hash table.           *)
(*                                                                         *)
(* The chain of a bucket holds the colliding entries in list order, and    *)
(* hash_search returns the FIRST of them whatever its name is.  An entry   *)
(* that was appended behind another one keeps a prev_collision pointer for *)
(* life (hash_remove never clears it), which `chained' records: removing   *)
(* such an entry once it heads its chain writes through a dangling         *)
(* pointer.  HashCache has the pointers and implements this module.        *)
(***************************************************************************)
EXTENDS Integers, Sequences, SequencesExt

CONSTANTS Files,     \* file names, the keys
          Hash,      \* MurmurHash2(name) % max_cache_size
          MaxCache   \* max_cache_size

ASSUME CacheAssumption ==
    /\ MaxCache \in Nat \ {0}
    /\ Hash \in [Files -> 0 .. MaxCache - 1]

Collides(e, fn) == Hash[e.name] = Hash[fn]

\* hash_search: where the head of fn's chain is in the list, 0 if the bucket is empty.
Search(c, fn) == SelectInSeq(c, LAMBDA e : Collides(e, fn))

Full(c) == Len(c) = MaxCache

\* c_shift on a full cache reaches hash_remove's else branch with a stale pointer.
EvictsChained(c) == Full(c) /\ Head(c).chained

\* The list that cache_putEntry appends to: the oldest entry goes if there is no room.
MakeRoom(c) == IF Full(c) THEN Tail(c) ELSE c

\* The entry as hash_add links it: behind another one iff its bucket is taken.
Linked(c, e) ==
    [e EXCEPT !.chained = \E i \in DOMAIN MakeRoom(c) :
                               Collides(MakeRoom(c)[i], e.name)]

PutEntry(c, e) == Append(MakeRoom(c), Linked(c, e))
=============================================================================
