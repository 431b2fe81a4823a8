--------------------------- MODULE SolServerProofs ---------------------------
(***************************************************************************)
(* What holds of the reference server for any number of threads and        *)
(* requests, any queue and any cache: its types, that the ring buffer is a *)
(* bounded queue, that a connection is answered once, with the file it is  *)
(* taken to have asked for, and that the cache holds what its method calls *)
(* for.                                                                    *)
(***************************************************************************)
EXTENDS SolServerProperties, SequenceLemmas, FiniteSetTheorems

ExitSlot == [fd |-> Exit, request |-> Null]

Unstarted == {"start", "usage"}
BeforeExit == Unstarted \cup {"joining", "put", "full"}

\* The arguments have been looked at once the threads run.
ArgsInv ==
    /\ args \in Argument
    /\ main \notin Unstarted =>
        args.qlen \in 1..MAX_QLEN /\ args.caching \in 0..2 /\ args.entries \in 1..MAX_CE

\* Threads are in their own functions, and hold something exactly where these use it;
\* main goes on to the exit request when the dispatchers are gone.
ThreadInv ==
    /\ main \in Unstarted => \A t \in Threads : pc[t] = "none"
    /\ \A d \in Dispatchers :
        /\ pc[d] \in {"none", "accept", "read", "parse", "put", "full", "exited"}
        /\ pc[d] \in {"read", "parse", "put", "full"} =>
            fd[d] \in Requests /\ args.asks[fd[d]] # Null
        /\ d \notin args.dispatch => pc[d] = "none"
        /\ main \in {"put", "full", "exiting", "returned"} => pc[d] \in {"none", "exited"}
    /\ \A w \in Workers :
        /\ pc[w] \in {"none", "get", "empty", "serve", "exited"}
        /\ pc[w] = "serve" <=> job[w] # NoSlot
    /\ buffer \in Names \cup {Bad, Other}

\* The ring holds requests, and from a place on the exit request.
RingInv ==
    /\ main \in Unstarted =>
        req_num = 0 /\ req_remove_index = 0 /\ req_insert_index = 0
    /\ main \notin Unstarted => req_remove_index \in 0..args.qlen - 1
    /\ RingQueue \in Seq(Slot \cup {ExitSlot}) /\ Len(RingQueue) = req_num
    /\ main \in BeforeExit => \A k \in DOMAIN RingQueue : RingQueue[k] # ExitSlot

SolInv == TypeOK /\ ArgsInv /\ ThreadInv /\ RingInv
-----------------------------------------------------------------------------
(* Facts about the operators *)

\* The place k behind r in a ring of q.
LEMMA Wrap ==
    ASSUME NEW q \in Nat \ {0}, NEW r \in 0..q - 1, NEW k \in 0..q
    PROVE  (r + k) % q = IF r + k < q THEN r + k ELSE r + k - q
<1>1. ASSUME NEW a \in 0..q - 1 PROVE a % q = a
    BY SMT
<1>2. ASSUME NEW a \in q..2*q - 1 PROVE a % q = a - q
    BY SMTT(30)
<1> QED BY <1>1, <1>2

\* One place on from there, and there from one place on.
LEMMA WrapNext ==
    ASSUME NEW q \in Nat \ {0}, NEW r \in 0..q - 1, NEW k \in 0..q - 1
    PROVE  /\ (((r + k) % q) + 1) % q = (r + (k + 1)) % q
           /\ (((r + 1) % q) + k) % q = (r + (k + 1)) % q
<1> DEFINE Turn(n) == IF n < q THEN n ELSE n - q
<1>1. ASSUME NEW a \in 0..q - 1, NEW j \in 0..q PROVE (a + j) % q = Turn(a + j)
    <2>1. (a + j) % q = IF a + j < q THEN a + j ELSE a + j - q
        BY Wrap
    <2> QED BY <2>1
<1>2. k \in 0..q /\ 1 \in 0..q /\ k + 1 \in 0..q
    OBVIOUS
<1>3. Turn(r + k) \in 0..q - 1 /\ Turn(r + 1) \in 0..q - 1
    OBVIOUS
<1>4. Turn(Turn(r + k) + 1) = Turn(r + (k + 1)) /\ Turn(Turn(r + 1) + k) = Turn(r + (k + 1))
    OBVIOUS
<1> HIDE DEF Turn
<1>5. /\ (r + k) % q = Turn(r + k) /\ (r + 1) % q = Turn(r + 1)
      /\ (r + (k + 1)) % q = Turn(r + (k + 1))
    BY <1>1, <1>2, Zenon
<1>6. (Turn(r + k) + 1) % q = Turn(Turn(r + k) + 1)
    BY <1>1, <1>2, <1>3, Zenon
<1>7. (Turn(r + 1) + k) % q = Turn(Turn(r + 1) + k)
    BY <1>1, <1>2, <1>3, Zenon
<1> QED BY <1>4, <1>5, <1>6, <1>7, Zenon

\* What the signals wake was waiting.
LEMMA PuttersWoken ==
    ASSUME NEW S \in SomeOf(WaitingForRoom)
    PROVE  /\ \A u \in Threads : u \in S => u \in Dispatchers /\ pc[u] = "full"
           /\ "main" \in S => main = "full"
    BY SolAssumption DEF SomeOf, WaitingForRoom, Threads

\* One worker that waited by a signal, all of them by the broadcast.
LEMMA WorkersWoken ==
    ASSUME NEW S, S \in SomeOf(WaitingForWork) \/ S = WaitingForWork
    PROVE  \A u \in S : u \in Workers /\ pc[u] = "empty"
    BY DEF SomeOf, WaitingForWork

\* The ring's numbers, once the threads run.
LEMMA RingBounds ==
    ASSUME TypeOK, ArgsInv, RingInv, main \notin Unstarted
    PROVE  /\ MAX_QLEN \in Nat /\ args.qlen \in Nat \ {0} /\ args.qlen <= MAX_QLEN
           /\ req_remove_index \in 0..args.qlen - 1 /\ req_num \in 0..args.qlen
           /\ req_insert_index = (req_remove_index + req_num) % args.qlen
<1>1. MAX_QLEN \in Nat \ {0} /\ args.qlen \in 1..MAX_QLEN
    BY SolAssumption DEF ArgsInv
<1> QED BY <1>1 DEF TypeOK, RingInv, Unstarted

\* An insertion appends to the queue, and keeps the indices apart.
LEMMA Inserted ==
    ASSUME TypeOK, ArgsInv, RingInv, main \notin Unstarted, req_num # args.qlen,
           NEW x \in Slot \cup {ExitSlot}, Insert(x), args' = args
    PROVE  /\ RingQueue' = Append(RingQueue, x)
           /\ req_num' \in 0..args.qlen
           /\ req_insert_index' = (req_remove_index + req_num') % args.qlen
           /\ req_remove_index' = req_remove_index
           /\ requests' \in [0..MAX_QLEN - 1 -> Slot \cup {NoSlot, ExitSlot}]
<1> DEFINE q == args.qlen
           r == req_remove_index
           m == req_num
<1>1. /\ q \in Nat \ {0} /\ q <= MAX_QLEN /\ MAX_QLEN \in Nat
      /\ r \in 0..q - 1 /\ m \in 0..q - 1 /\ req_insert_index = (r + m) % q
    BY RingBounds DEF q, r, m
<1> HIDE DEF q, r, m
<1>2. \A k \in 0..q : (r + k) % q = IF r + k < q THEN r + k ELSE r + k - q
    BY <1>1, Wrap
<1>3. req_num' = m + 1 /\ req_remove_index' = r
      /\ req_insert_index' = (((r + m) % q) + 1) % q
      /\ requests' = [requests EXCEPT ![(r + m) % q] = x]
    BY <1>1 DEF Insert, q, r, m
<1>4. (((r + m) % q) + 1) % q = (r + (m + 1)) % q
    BY <1>1, WrapNext
<1>5. \A k \in 0..m : (r + k) % q \in 0..MAX_QLEN - 1 /\ (k # m => (r + k) % q # (r + m) % q)
    BY <1>1, <1>2
<1>6. requests \in [0..MAX_QLEN - 1 -> Slot \cup {NoSlot, ExitSlot}]
    BY DEF TypeOK, ExitSlot
<1>7. \A k \in 0..m : requests'[(r + k) % q] = IF k = m THEN x ELSE requests[(r + k) % q]
    BY <1>1, <1>3, <1>5, <1>6
<1>8. RingQueue' = [i \in 1..m + 1 |-> requests'[(r + i - 1) % q]]
    BY <1>3 DEF RingQueue, q, r
<1>9. RingQueue = [i \in 1..m |-> requests[(r + i - 1) % q]]
      /\ RingQueue \in Seq(Slot \cup {ExitSlot}) /\ Len(RingQueue) = m
    BY DEF RingQueue, RingInv, q, r, m
<1>10. ASSUME NEW i \in 1..m + 1 PROVE RingQueue'[i] = IF i = m + 1 THEN x ELSE RingQueue[i]
    <2>1. i - 1 \in 0..m /\ r + i - 1 = r + (i - 1)
        BY <1>1
    <2>2. RingQueue'[i] = requests'[(r + (i - 1)) % q]
        BY <1>8, <2>1
    <2>3. i # m + 1 => RingQueue[i] = requests[(r + (i - 1)) % q]
        BY <1>1, <1>9, <2>1
    <2> QED BY <1>1, <1>7, <2>1, <2>2, <2>3
<1>11. RingQueue' = Append(RingQueue, x)
    <2> HIDE DEF RingQueue
    <2>1. Append(RingQueue, x) = [i \in 1..m + 1 |-> IF i = m + 1 THEN x ELSE RingQueue[i]]
        BY <1>1, <1>9
    <2>2. RingQueue' = [i \in 1..m + 1 |-> RingQueue'[i]]
        BY <1>8
    <2> QED BY <1>10, <2>1, <2>2
<1>12. requests' \in [0..MAX_QLEN - 1 -> Slot \cup {NoSlot, ExitSlot}]
    BY <1>3, <1>6
<1>13. /\ req_num' \in 0..q /\ req_remove_index' = r
       /\ req_insert_index' = (r + req_num') % q
    BY <1>1, <1>3, <1>4
<1> QED BY <1>11, <1>12, <1>13, Zenon DEF q, r, m

\* A removal takes the head of the queue.
LEMMA Removed ==
    ASSUME TypeOK, ArgsInv, RingInv, main \notin Unstarted, req_num # 0,
           req_num' = req_num - 1, req_remove_index' = (req_remove_index + 1) % args.qlen,
           UNCHANGED <<requests, req_insert_index, args>>
    PROVE  /\ RingQueue # <<>> /\ Head(RingQueue) = requests[req_remove_index]
           /\ RingQueue' = Tail(RingQueue)
           /\ req_num' \in 0..args.qlen /\ req_remove_index' \in 0..args.qlen - 1
           /\ req_insert_index' = (req_remove_index' + req_num') % args.qlen
<1> DEFINE q == args.qlen
           r == req_remove_index
           m == req_num
           s1 == (r + 1) % q
<1>1. /\ q \in Nat \ {0} /\ q <= MAX_QLEN /\ MAX_QLEN \in Nat
      /\ r \in 0..q - 1 /\ m \in 1..q /\ req_insert_index = (r + m) % q
    BY RingBounds DEF q, r, m
<1> HIDE DEF q, r, m
<1>2. \A k \in 0..q : (r + k) % q = IF r + k < q THEN r + k ELSE r + k - q
    BY <1>1, Wrap
<1>3. s1 = (IF r + 1 < q THEN r + 1 ELSE 0) /\ s1 \in 0..q - 1
    BY <1>1, <1>2
<1>5. \A k \in 0..m - 1 : (s1 + k) % q = (r + (k + 1)) % q
    BY <1>1, WrapNext
<1>6. RingQueue = [i \in 1..m |-> requests[(r + i - 1) % q]]
      /\ RingQueue \in Seq(Slot \cup {ExitSlot}) /\ Len(RingQueue) = m
    BY DEF RingQueue, RingInv, q, r, m
<1>7. RingQueue' = [i \in 1..m - 1 |-> requests[(s1 + i - 1) % q]]
    BY DEF RingQueue, q, r, m
<1>8. ASSUME NEW i \in 1..m - 1 PROVE RingQueue'[i] = RingQueue[i + 1]
    <2>1. i - 1 \in 0..m - 1 /\ s1 + i - 1 = s1 + (i - 1) /\ r + (i + 1) - 1 = r + (i - 1 + 1)
          /\ i + 1 \in 1..m
        BY <1>1, <1>3
    <2>2. RingQueue'[i] = requests[(s1 + (i - 1)) % q]
        BY <1>7, <2>1
    <2>3. RingQueue[i + 1] = requests[(r + (i - 1 + 1)) % q]
        BY <1>6, <2>1
    <2> QED BY <1>5, <2>1, <2>2, <2>3
<1>9. RingQueue' = Tail(RingQueue)
    <2> HIDE DEF RingQueue
    <2>1. Tail(RingQueue) = [i \in 1..m - 1 |-> RingQueue[i + 1]]
        BY <1>1, <1>6
    <2>2. RingQueue' = [i \in 1..m - 1 |-> RingQueue'[i]]
        BY <1>7
    <2> QED BY <1>8, <2>1, <2>2
<1>10. RingQueue # <<>> /\ Head(RingQueue) = RingQueue[1]
    BY <1>1, <1>6
<1>11. RingQueue[1] = requests[r]
    <2>1. 1 \in 1..m /\ r + 1 - 1 = r + 0 /\ (r + 0) % q = r
        BY <1>1, <1>2
    <2> QED BY <1>6, <2>1
<1>12. m - 1 \in 0..m - 1 /\ (s1 + (m - 1)) % q = (r + m) % q
    <2>1. m - 1 \in 0..m - 1 /\ m - 1 + 1 = m
        BY <1>1
    <2> QED BY <1>5, <2>1
<1> QED BY <1>1, <1>3, <1>9, <1>10, <1>11, <1>12 DEF q, r, m
-----------------------------------------------------------------------------
(* Types *)

Places == {"none", "accept", "read", "parse", "put", "full", "get", "empty", "serve", "exited"}

\* A step that leaves ring and arguments alone keeps the ring as it is.
LEMMA RingKept ==
    ASSUME RingInv, UNCHANGED <<ring, args>>,
           main' \in Unstarted <=> main \in Unstarted, main' \in BeforeExit => main \in BeforeExit
    PROVE  RingQueue' = RingQueue /\ RingInv'
<1>1. RingQueue' = RingQueue
    BY DEF RingQueue, ring
<1> QED BY <1>1 DEF RingInv, ring

\* The parts of TypeOK, for the steps that leave most of them alone.
LEMMA TypeKept ==
    ASSUME TypeOK, UNCHANGED <<ring, args, cache_insert_index>>,
           main' \in Unstarted <=> main \in Unstarted,
           pc' \in [Threads -> {"none", "accept", "read", "parse", "put", "full", "get",
                               "empty", "serve", "exited"}],
           main' \in {"start", "usage", "joining", "put", "full", "exiting", "returned"},
           fd' \in [Dispatchers -> Requests \cup {Null}],
           mybuf' \in [Dispatchers -> [name : Strings, bytes : SUBSET Nat]],
           buffer' \in Sent,
           job' \in [Workers -> Slot \cup {NoSlot}],
           asked' \in [Requests -> Strings \cup {Null}],
           refused' \subseteq Requests
    PROVE  TypeOK'
    BY DEF TypeOK, ring, Unstarted

\* What a parse leaves in a dispatcher's mybuf is a string.
LEMMA ParsedType ==
    ASSUME TypeOK, ThreadInv, NEW d \in Dispatchers, NEW m \in Parsed(d)
    PROVE  m \in [name : Strings, bytes : SUBSET Nat]
<1>1. mybuf[d] \in [name : Strings, bytes : SUBSET Nat]
    BY DEF TypeOK
<1>2. CASE buffer \notin {Bad, Other} /\ m \in Copied(mybuf[d], buffer)
    <2>1. buffer \in Names /\ Length[buffer] \in Nat /\ Longer[buffer] \subseteq Names
        BY <1>2, SolAssumption DEF ThreadInv
    <2> QED BY <1>1, <1>2, <2>1 DEF Copied, Strings
<1>3. CASE m = mybuf[d]
    BY <1>1, <1>3
<1>4. CASE m = [mybuf[d] EXCEPT !.name = Garbled]
    BY <1>1, <1>4 DEF Strings
<1> QED BY <1>2, <1>3, <1>4 DEF Parsed

\* The invariant holds at the beginning.
LEMMA SolInvInitially == Init => SolInv
<1> SUFFICES ASSUME Init PROVE SolInv
    OBVIOUS
<1>1. MAX_QLEN \in Nat \ {0} /\ MAX_CE \in Nat \ {0} /\ args \in Argument
    BY SolAssumption DEF Init
<1>2. RingQueue \in Seq(Slot \cup {ExitSlot}) /\ Len(RingQueue) = 0
    <2>1. RingQueue = <<>>
        BY DEF Init, RingQueue
    <2> QED BY <2>1
<1>3. RingInv
    BY <1>2 DEF Init, RingInv, Unstarted, BeforeExit
<1>4. TypeOK
    <2>1. args.left \subseteq Nat
        BY <1>1 DEF Argument
    <2> QED BY <1>1, <2>1 DEF Init, TypeOK, Strings, Sent
<1>5. ArgsInv
    BY <1>1 DEF Init, ArgsInv, Unstarted
<1>6. ThreadInv
    BY DEF Init, ThreadInv, Unstarted, Threads
<1> QED BY <1>3, <1>4, <1>5, <1>6 DEF SolInv

\* main up to the threads, and its joins: the ring is left alone.
LEMMA MainJoins == ASSUME SolInv, Start \/ JoinDispatchers \/ Return PROVE SolInv'
<1> USE DEF SolInv
<1>1. CASE Start
    <2>1. main = "start" /\ UNCHANGED <<args, parsing, ring, served>>
        BY <1>1 DEF Start
    <2>2. RingQueue' = RingQueue
        BY <2>1 DEF RingQueue, ring
    <2>3. CASE Legal /\ main' = "joining"
        <3>1. /\ pc' = [t \in Threads |-> IF t \in args.dispatch THEN "accept"
                                         ELSE IF t \in args.work THEN "get" ELSE "none"]
              /\ args.qlen \in 1..MAX_QLEN /\ args.caching \in 0..2 /\ args.entries \in 1..MAX_CE
              /\ args.dispatch \subseteq Dispatchers /\ args.work \subseteq Workers
            BY <1>1, <2>3 DEF Start, Legal, ArgsInv, Argument
        <3>2. req_num = 0 /\ req_remove_index = 0 /\ req_insert_index = 0
            BY <2>1 DEF RingInv, Unstarted
        <3>3. 0 \in 0..args.qlen - 1 /\ 0 \in 0..args.qlen /\ (0 + 0) % args.qlen = 0
            <4>1. args.qlen \in Nat \ {0}
                BY <3>1, SolAssumption
            <4>2. 0 \in 0..args.qlen - 1 /\ 0 \in 0..args.qlen
                BY <4>1
            <4>3. (0 + 0) % args.qlen = IF 0 + 0 < args.qlen THEN 0 + 0 ELSE 0 + 0 - args.qlen
                BY <4>1, <4>2, Wrap
            <4> QED BY <4>1, <4>2, <4>3
        <3>4. RingInv'
            BY <2>1, <2>2, <2>3, <3>2, <3>3 DEF RingInv, Unstarted, BeforeExit, ring
        <3>5. TypeOK'
            BY <2>1, <2>3, <3>1, <3>2, <3>3 DEF TypeOK, ring, parsing, served, cacheVars
        <3>6. ArgsInv'
            BY <2>1, <3>1 DEF ArgsInv
        <3>7. ThreadInv'
            BY <2>1, <2>3, <3>1, SolAssumption
               DEF ThreadInv, Unstarted, Threads, parsing, served, TypeOK
        <3> QED BY <3>4, <3>5, <3>6, <3>7
    <2>4. CASE main' = "usage" /\ pc' = pc
        <3>1. RingInv'
            BY <2>1, <2>4, RingKept DEF Unstarted, BeforeExit
        <3>2. TypeOK'
            BY <2>1, <2>4 DEF TypeOK, ring, parsing, served, cacheVars
        <3>3. ArgsInv' /\ ThreadInv'
            BY <2>1, <2>4 DEF ArgsInv, ThreadInv, Unstarted, parsing, served
        <3> QED BY <3>1, <3>2, <3>3
    <2> QED BY <1>1, <2>3, <2>4 DEF Start
<1>2. CASE JoinDispatchers
    <2>1. /\ main = "joining" /\ main' = "put" /\ UNCHANGED <<pc, parsing, args, ring, served>>
          /\ \A d \in args.dispatch : pc[d] = "exited"
        BY <1>2 DEF JoinDispatchers
    <2>2. RingInv'
        BY <2>1, RingKept DEF Unstarted, BeforeExit
    <2>3. TypeOK'
        BY <2>1 DEF TypeOK, ring, parsing, served, cacheVars
    <2>4. ArgsInv' /\ ThreadInv'
        BY <2>1 DEF ArgsInv, ThreadInv, Unstarted, parsing, served
    <2> QED BY <2>2, <2>3, <2>4
<1>3. CASE Return
    <2>1. main = "exiting" /\ main' = "returned" /\ UNCHANGED <<pc, parsing, args, ring, served>>
        BY <1>3 DEF Return
    <2>2. RingInv'
        BY <2>1, RingKept DEF Unstarted, BeforeExit
    <2>3. TypeOK'
        BY <2>1 DEF TypeOK, ring, parsing, served, cacheVars
    <2>4. ArgsInv' /\ ThreadInv'
        BY <2>1 DEF ArgsInv, ThreadInv, Unstarted, parsing, served
    <2> QED BY <2>2, <2>3, <2>4
<1> QED BY <1>1, <1>2, <1>3

\* main and the exit request.
LEMMA MainExits == ASSUME SolInv, PutExit PROVE SolInv'
<1> USE DEF SolInv
<1>1. main = "put" /\ UNCHANGED <<parsing, args, served>> /\ main \notin Unstarted
    BY DEF PutExit, Unstarted
<1>2. CASE main' = "full" /\ UNCHANGED <<pc, ring>>
    <2>1. RingInv'
        BY <1>1, <1>2, RingKept DEF Unstarted, BeforeExit
    <2>2. TypeOK'
        BY <1>1, <1>2 DEF TypeOK, ring, parsing, served, cacheVars
    <2>3. ArgsInv' /\ ThreadInv'
        BY <1>1, <1>2 DEF ArgsInv, ThreadInv, Unstarted, parsing, served
    <2> QED BY <2>1, <2>2, <2>3
<1>3. CASE /\ req_num # args.qlen /\ Insert(ExitSlot) /\ main' = "exiting"
           /\ GoWakingWorkers("main", "", WaitingForWork)
    <2>1. /\ RingQueue' = Append(RingQueue, ExitSlot)
          /\ req_num' \in 0..args.qlen
          /\ req_insert_index' = (req_remove_index + req_num') % args.qlen
          /\ req_remove_index' = req_remove_index
          /\ requests' \in [0..MAX_QLEN - 1 -> Slot \cup {NoSlot, ExitSlot}]
          /\ req_num' = req_num + 1
        <3>1. ExitSlot \in Slot \cup {ExitSlot} /\ args' = args
            BY <1>1
        <3> QED BY <1>1, <1>3, <3>1, Inserted DEF Insert
    <2>2. /\ pc' = [u \in Threads |-> IF u \in WaitingForWork THEN "get" ELSE pc[u]]
          /\ \A u \in WaitingForWork : u \in Workers /\ pc[u] = "empty"
        <3>1. \A u \in Threads : u # "main"
            BY SolAssumption
        <3>2. pc' = [u \in Threads |-> IF u = "main" THEN ""
                                      ELSE IF u \in WaitingForWork THEN "get" ELSE pc[u]]
            BY <1>3 DEF GoWakingWorkers
        <3> QED BY <3>1, <3>2, WorkersWoken
    <2>3. RingInv'
        <3>1. RingQueue' \in Seq(Slot \cup {ExitSlot}) /\ Len(RingQueue') = req_num'
            BY <2>1 DEF RingInv
        <3> QED BY <1>1, <1>3, <2>1, <3>1 DEF RingInv, Unstarted, BeforeExit
    <2>4. TypeOK'
        BY <1>1, <1>3, <2>1, <2>2 DEF TypeOK, parsing, served, cacheVars, ExitSlot
    <2>5. ArgsInv'
        BY <1>1, <1>3 DEF ArgsInv
    <2>6. ThreadInv'
        BY <1>1, <1>3, <2>2, SolAssumption DEF ThreadInv, Unstarted, parsing, served, Threads
    <2> QED BY <2>3, <2>4, <2>5, <2>6
<1> QED BY <1>2, <1>3 DEF PutExit, ExitSlot

\* A dispatcher on its way to the ring.
LEMMA DispatcherMoves ==
    ASSUME SolInv, NEW d \in Dispatchers,
           \/ \E r \in Requests : Accept(d, r)
           \/ AcceptFails(d) \/ Read(d) \/ Parse(d) \/ Refuse(d)
    PROVE  SolInv'
<1> USE DEF SolInv
<1>1. /\ UNCHANGED <<args, ring, served, main>>
      /\ pc[d] \in {"accept", "read", "parse"}
      /\ pc' \in {[pc EXCEPT ![d] = l] : l \in {"read", "exited", "parse", "put", "accept"}}
    BY DEF Accept, AcceptFails, Read, Parse, Refuse, Go, parsing
<1>2. d \in Threads /\ d \notin Workers
    BY SolAssumption DEF Threads
<1>3. RingInv'
    BY <1>1, RingKept
<1>4. ArgsInv'
    BY <1>1 DEF ArgsInv
<1>5. PICK l \in {"read", "exited", "parse", "put", "accept"} : pc' = [pc EXCEPT ![d] = l]
    BY <1>1
<1>6. pc' \in [Threads -> {"none", "accept", "read", "parse", "put", "full", "get",
                           "empty", "serve", "exited"}]
      /\ (\A t \in Threads \ {d} : pc'[t] = pc[t]) /\ pc'[d] = l
    BY <1>2, <1>5 DEF TypeOK
<1>7. args \in Argument /\ main \notin Unstarted
    BY <1>1, <1>2 DEF ArgsInv, ThreadInv
<1>8. CASE \E r \in Requests : Accept(d, r)
    <2>1. PICK r \in Requests : Accept(d, r)
        BY <1>8
    <2>2. /\ fd' = [fd EXCEPT ![d] = r] /\ args.asks[r] # Null /\ pc'[d] = "read"
          /\ UNCHANGED <<mybuf, buffer, asked, refused>> /\ pc[d] = "accept"
        BY <1>2, <2>1 DEF Accept, Go, TypeOK
    <2>3. TypeOK'
        BY <1>1, <1>6, <2>2, TypeKept DEF TypeOK, served, cacheVars
    <2>4. ThreadInv'
        BY <1>1, <1>2, <1>6, <1>7, <2>2 DEF ThreadInv, TypeOK, Threads, served
    <2> QED BY <1>3, <1>4, <2>3, <2>4
<1>9. CASE AcceptFails(d)
    <2>1. UNCHANGED parsing /\ pc'[d] = "exited" /\ pc[d] = "accept"
        BY <1>2, <1>9 DEF AcceptFails, Go, TypeOK
    <2>2. TypeOK'
        BY <1>1, <1>6, <2>1, TypeKept DEF TypeOK, served, cacheVars, parsing
    <2>3. ThreadInv'
        BY <1>1, <1>2, <1>6, <1>7, <2>1 DEF ThreadInv, TypeOK, Threads, served, parsing
    <2> QED BY <1>3, <1>4, <2>2, <2>3
<1>10. CASE Read(d)
    <2>1. /\ buffer' = IF args.asks[fd[d]] = Silent THEN buffer ELSE args.asks[fd[d]]
          /\ pc'[d] = "parse" /\ pc[d] = "read" /\ UNCHANGED <<fd, mybuf, asked, refused>>
        BY <1>2, <1>10 DEF Read, Go, TypeOK
    <2>2. fd[d] \in Requests /\ args.asks[fd[d]] \in Sent
        BY <1>7, <2>1 DEF ThreadInv, Argument
    <2>3. buffer' \in Names \cup {Bad, Other}
        BY <2>1, <2>2 DEF ThreadInv, Sent
    <2>4. TypeOK'
        BY <1>1, <1>6, <2>1, <2>3, TypeKept DEF TypeOK, served, cacheVars, Sent
    <2>5. ThreadInv'
        BY <1>1, <1>2, <1>6, <1>7, <2>1, <2>3 DEF ThreadInv, TypeOK, Threads, served
    <2> QED BY <1>3, <1>4, <2>4, <2>5
<1>11. CASE Parse(d)
    <2>1. PICK m \in Parsed(d) :
            mybuf' = [mybuf EXCEPT ![d] = m] /\ asked' = [asked EXCEPT ![fd[d]] = m.name]
        BY <1>11 DEF Parse
    <2>2. pc'[d] = "put" /\ pc[d] = "parse" /\ UNCHANGED <<fd, buffer, refused>>
        BY <1>2, <1>11 DEF Parse, Go, TypeOK
    <2>3. m \in [name : Strings, bytes : SUBSET Nat]
        BY ParsedType
    <2>4. TypeOK'
        <3>1. asked' \in [Requests -> Strings \cup {Null}]
            BY <2>1, <2>3 DEF TypeOK
        <3>2. mybuf' \in [Dispatchers -> [name : Strings, bytes : SUBSET Nat]]
            BY <2>1, <2>3 DEF TypeOK
        <3> QED BY <1>1, <1>6, <2>2, <3>1, <3>2, TypeKept DEF TypeOK, served, cacheVars
    <2>5. ThreadInv'
        BY <1>1, <1>2, <1>6, <1>7, <2>2 DEF ThreadInv, TypeOK, Threads, served
    <2> QED BY <1>3, <1>4, <2>4, <2>5
<1>12. CASE Refuse(d)
    <2>1. /\ refused' = refused \cup {fd[d]} /\ fd' = [fd EXCEPT ![d] = Null]
          /\ pc'[d] = "accept" /\ pc[d] = "parse" /\ UNCHANGED <<mybuf, buffer, asked>>
        BY <1>2, <1>12 DEF Refuse, Go, TypeOK
    <2>2. fd[d] \in Requests
        BY <2>1 DEF ThreadInv
    <2>3. TypeOK'
        BY <1>1, <1>6, <2>1, <2>2, TypeKept DEF TypeOK, served, cacheVars
    <2>4. ThreadInv'
        BY <1>1, <1>2, <1>6, <1>7, <2>1 DEF ThreadInv, TypeOK, Threads, served
    <2> QED BY <1>3, <1>4, <2>3, <2>4
<1> QED BY <1>8, <1>9, <1>10, <1>11, <1>12

\* A dispatcher at the ring.
LEMMA DispatcherPuts == ASSUME SolInv, NEW d \in Dispatchers, Put(d) PROVE SolInv'
<1> USE DEF SolInv
<1>1. /\ pc[d] = "put" /\ UNCHANGED <<mybuf, buffer, asked, refused, args, served, main>>
      /\ d \in Threads /\ d \notin Workers
    BY SolAssumption DEF Put, Threads
<1>2. main = "joining" /\ args \in Argument /\ pc \in [Threads -> Places]
    BY <1>1 DEF ThreadInv, TypeOK, ArgsInv, Unstarted, Places
<1>3. ArgsInv'
    BY <1>1 DEF ArgsInv
<1>4. CASE Go(d, "full") /\ UNCHANGED <<ring, fd>>
    <2>1. pc' \in [Threads -> Places] /\ pc'[d] = "full" /\ \A t \in Threads \ {d} : pc'[t] = pc[t]
        BY <1>1, <1>2, <1>4 DEF Go, Places
    <2>2. RingInv'
        BY <1>1, <1>4, RingKept
    <2>3. TypeOK'
        BY <1>1, <1>4, <2>1, TypeKept DEF TypeOK, served, cacheVars, Places
    <2>4. ThreadInv'
        BY <1>1, <1>2, <1>4, <2>1 DEF ThreadInv, Threads, served, Unstarted
    <2> QED BY <1>3, <2>2, <2>3, <2>4
<1>5. CASE /\ req_num # args.qlen
           /\ Insert([fd |-> fd[d], request |-> mybuf[d].name])
           /\ fd' = [fd EXCEPT ![d] = Null]
           /\ \E S \in SomeOf(WaitingForWork) : GoWakingWorkers(d, "accept", S)
    <2> DEFINE x == [fd |-> fd[d], request |-> mybuf[d].name]
    <2>1. x \in Slot /\ x # ExitSlot
        BY <1>1, SolAssumption DEF ThreadInv, TypeOK, Slot, ExitSlot
    <2>2. /\ RingQueue' = Append(RingQueue, x)
          /\ req_num' \in 0..args.qlen
          /\ req_insert_index' = (req_remove_index + req_num') % args.qlen
          /\ req_remove_index' = req_remove_index
          /\ requests' \in [0..MAX_QLEN - 1 -> Slot \cup {NoSlot, ExitSlot}]
          /\ req_num' = req_num + 1
        BY <1>1, <1>2, <1>5, <2>1, Inserted DEF Insert, Unstarted
    <2>3. PICK S \in SomeOf(WaitingForWork) : GoWakingWorkers(d, "accept", S)
        BY <1>5
    <2>4. /\ pc' = [u \in Threads |-> IF u = d THEN "accept" ELSE IF u \in S THEN "get" ELSE pc[u]]
          /\ \A u \in S : u \in Workers /\ pc[u] = "empty"
        BY <2>3, WorkersWoken DEF GoWakingWorkers
    <2>5. RingInv'
        <3>1. RingQueue' \in Seq(Slot \cup {ExitSlot}) /\ Len(RingQueue') = req_num'
            BY <2>1, <2>2 DEF RingInv
        <3>2. \A k \in DOMAIN RingQueue' : RingQueue'[k] # ExitSlot
            <4>1. RingQueue \in Seq(Slot \cup {ExitSlot})
                  /\ \A k \in DOMAIN RingQueue : RingQueue[k] # ExitSlot
                BY <1>2 DEF RingInv, BeforeExit
            <4> HIDE DEF x
            <4>2. \A k \in DOMAIN Append(RingQueue, x) : Append(RingQueue, x)[k] # ExitSlot
                BY <2>1, <4>1
            <4> QED BY <2>2, <4>2
        <3> QED BY <1>1, <1>2, <2>2, <3>1, <3>2 DEF RingInv, Unstarted, BeforeExit
    <2>6. TypeOK'
        <3>1. fd' \in [Dispatchers -> Requests \cup {Null}] /\ pc' \in [Threads -> Places]
            BY <1>2, <1>5, <2>4 DEF TypeOK, Places
        <3> QED BY <1>1, <1>2, <2>2, <3>1 DEF TypeOK, served, cacheVars, ExitSlot, Places
    <2>7. ThreadInv'
        <3>1. \A e \in Dispatchers \ {d} : pc'[e] = pc[e] /\ fd'[e] = fd[e]
            BY <1>2, <1>5, <2>4, SolAssumption DEF Threads, TypeOK
        <3>2. pc'[d] = "accept" /\ d \in args.dispatch
            BY <1>1, <2>4 DEF ThreadInv
        <3>3. \A w \in Workers : pc'[w] \in {"none", "get", "empty", "serve", "exited"}
                                 /\ (pc'[w] = "serve" <=> pc[w] = "serve")
            BY <1>1, <1>2, <2>4 DEF ThreadInv, Threads
        <3> QED BY <1>1, <1>2, <3>1, <3>2, <3>3 DEF ThreadInv, Unstarted, served
    <2> QED BY <1>3, <2>5, <2>6, <2>7
<1> QED BY <1>4, <1>5 DEF Put

\* A worker at the ring.
LEMMA WorkerGets == ASSUME SolInv, NEW w \in Workers, Get(w) PROVE SolInv'
<1> USE DEF SolInv
<1>1. /\ pc[w] = "get" /\ UNCHANGED <<parsing, args, cacheVars, log, replies>>
      /\ w \in Threads /\ w \notin Dispatchers
    BY SolAssumption DEF Get, Threads
<1>2. main \notin Unstarted /\ args \in Argument /\ pc \in [Threads -> Places]
      /\ job \in [Workers -> Slot \cup {NoSlot}] /\ job[w] = NoSlot
    BY <1>1 DEF ThreadInv, TypeOK, ArgsInv, Unstarted, Places
<1>3. ArgsInv'
    <2>1. main' \notin Unstarted
        BY <1>2 DEF Get, GoWakingPutters, Unstarted
    <2> QED BY <1>1, <1>2, <2>1 DEF ArgsInv
<1>4. CASE UNCHANGED <<ring, job, main>> /\ (Go(w, "empty") \/ Go(w, "exited"))
    <2>1. /\ pc' \in [Threads -> Places] /\ pc'[w] \in {"empty", "exited"}
          /\ \A t \in Threads \ {w} : pc'[t] = pc[t]
        BY <1>1, <1>2, <1>4 DEF Go, Places
    <2>2. RingInv'
        BY <1>1, <1>4, RingKept
    <2>3. TypeOK'
        BY <1>1, <1>4, <2>1, TypeKept DEF TypeOK, parsing, cacheVars, Places
    <2>4. ThreadInv'
        BY <1>1, <1>2, <1>4, <2>1 DEF ThreadInv, Threads, parsing
    <2> QED BY <1>3, <2>2, <2>3, <2>4
<1>5. CASE /\ req_num # 0 /\ requests[req_remove_index].fd # Exit
           /\ job' = [job EXCEPT ![w] = requests[req_remove_index]]
           /\ req_num' = req_num - 1
           /\ req_remove_index' = (req_remove_index + 1) % args.qlen
           /\ \E S \in SomeOf(WaitingForRoom) : GoWakingPutters(w, "serve", S)
           /\ UNCHANGED <<requests, req_insert_index>>
    <2>1. /\ RingQueue # <<>> /\ Head(RingQueue) = requests[req_remove_index]
          /\ RingQueue' = Tail(RingQueue)
          /\ req_num' \in 0..args.qlen /\ req_remove_index' \in 0..args.qlen - 1
          /\ req_insert_index' = (req_remove_index' + req_num') % args.qlen
        BY <1>1, <1>2, <1>5, Removed
    <2>2. PICK S \in SomeOf(WaitingForRoom) : GoWakingPutters(w, "serve", S)
        BY <1>5
    <2>3. /\ pc' = [u \in Threads |-> IF u = w THEN "serve" ELSE IF u \in S THEN "put" ELSE pc[u]]
          /\ \A u \in Threads : u \in S => u \in Dispatchers /\ pc[u] = "full"
          /\ main' = main \/ (main = "full" /\ main' = "put")
        BY <2>2, PuttersWoken DEF GoWakingPutters
    <2>4. Head(RingQueue) \in Slot
        <3>1. RingQueue \in Seq(Slot \cup {ExitSlot})
            BY DEF RingInv
        <3>2. Head(RingQueue) \in Slot \cup {ExitSlot}
            BY <2>1, <3>1
        <3>3. Head(RingQueue) # ExitSlot
            BY <1>5, <2>1 DEF ExitSlot
        <3> QED BY <3>2, <3>3
    <2>5. RingInv'
        <3>1. RingQueue \in Seq(Slot \cup {ExitSlot}) /\ Len(RingQueue) = req_num
            BY DEF RingInv
        <3>2. RingQueue' \in Seq(Slot \cup {ExitSlot}) /\ Len(RingQueue') = req_num'
            BY <1>5, <2>1, <3>1
        <3>3. (\A k \in DOMAIN RingQueue : RingQueue[k] # ExitSlot) =>
                \A k \in DOMAIN RingQueue' : RingQueue'[k] # ExitSlot
            BY <2>1, <3>1
        <3>4. main' \notin Unstarted /\ (main' \in BeforeExit => main \in BeforeExit)
            BY <1>2, <2>3 DEF Unstarted, BeforeExit
        <3>5. main' \in BeforeExit => \A k \in DOMAIN RingQueue' : RingQueue'[k] # ExitSlot
            BY <3>3, <3>4 DEF RingInv
        <3>6. args' = args /\ Unstarted' = Unstarted /\ BeforeExit' = BeforeExit
            BY <1>1 DEF Unstarted, BeforeExit
        <3> HIDE DEF RingQueue
        <3> QED BY <2>1, <3>2, <3>4, <3>5, <3>6 DEF RingInv, Slot, ExitSlot
    <2>6. TypeOK'
        <3>1. job' \in [Workers -> Slot \cup {NoSlot}]
            BY <1>2, <1>5, <2>1, <2>4
        <3>2. pc' \in [Threads -> Places]
            BY <1>2, <2>3 DEF Places
        <3> QED BY <1>1, <1>2, <1>5, <2>1, <2>3, <3>1, <3>2
                DEF TypeOK, parsing, cacheVars, Places, Unstarted
    <2>7. ThreadInv'
        <3>1. \A d \in Dispatchers : pc'[d] = pc[d] \/ (pc[d] = "full" /\ pc'[d] = "put")
            BY <1>1, <2>3 DEF Threads
        <3>2. pc'[w] = "serve" /\ job'[w] # NoSlot
            BY <1>1, <1>2, <1>5, <2>1, <2>3, <2>4, SolAssumption DEF Slot, NoSlot
        <3>3. \A v \in Workers \ {w} : pc'[v] = pc[v] /\ job'[v] = job[v]
            BY <1>2, <1>5, <2>3, SolAssumption DEF Threads
        <3> QED BY <1>1, <1>2, <2>3, <3>1, <3>2, <3>3 DEF ThreadInv, Unstarted, parsing
    <2> QED BY <1>3, <2>5, <2>6, <2>7
<1> QED BY <1>4, <1>5 DEF Get

\* A worker at the cache.
LEMMA WorkerServes == ASSUME SolInv, NEW w \in Workers, Serve(w) PROVE SolInv'
<1> USE DEF SolInv
<1>1. /\ pc[w] = "serve" /\ pc' = [pc EXCEPT ![w] = "get"]
      /\ job' = [job EXCEPT ![w] = NoSlot]
      /\ UNCHANGED <<parsing, args, ring, main>>
      /\ w \in Threads /\ w \notin Dispatchers
    BY SolAssumption DEF Serve, Go, Threads
<1>2. /\ main \notin Unstarted /\ args.entries \in Nat \ {0} /\ args.entries <= MAX_CE
      /\ MAX_CE \in Nat
    <2>1. MAX_CE \in Nat \ {0} /\ main \notin Unstarted
        BY <1>1, SolAssumption DEF ThreadInv
    <2> QED BY <2>1 DEF ArgsInv
<1>3. cache_insert_index' \in 0..MAX_CE - 1
    <2>1. cache_insert_index \in 0..MAX_CE - 1
        BY DEF TypeOK
    <2>2. (cache_insert_index + 1) % args.entries \in 0..args.entries - 1
        BY <1>2, <2>1
    <2>3. cache_insert_index' \in {cache_insert_index, (cache_insert_index + 1) % args.entries}
        <3>1. \/ UNCHANGED cache_insert_index
              \/ Store(FileOf(job[w].request), global_timestamp + 1)
            BY DEF Serve, Hit
        <3>2. args.caching \in {0, 1, 2}
            BY <1>2 DEF ArgsInv
        <3> QED BY <3>1, <3>2 DEF Store
    <2> QED BY <1>2, <2>1, <2>2, <2>3
<1>4. /\ pc' \in [Threads -> Places] /\ pc'[w] = "get" /\ (\A t \in Threads \ {w} : pc'[t] = pc[t])
      /\ job' \in [Workers -> Slot \cup {NoSlot}] /\ job'[w] = NoSlot
      /\ \A v \in Workers \ {w} : job'[v] = job[v]
    BY <1>1 DEF TypeOK, Places
<1>5. RingInv'
    BY <1>1, RingKept
<1>6. TypeOK'
    BY <1>1, <1>3, <1>4 DEF TypeOK, ring, parsing, Places
<1>7. ArgsInv'
    BY <1>1 DEF ArgsInv
<1>8. ThreadInv'
    BY <1>1, <1>2, <1>4 DEF ThreadInv, Threads, parsing
<1> QED BY <1>5, <1>6, <1>7, <1>8

\* A wait that ends by itself.
LEMMA WakesUp == ASSUME SolInv, SpuriousWakeup PROVE SolInv'
<1> USE DEF SolInv
<1>1. UNCHANGED <<parsing, args, ring, served>>
    BY DEF SpuriousWakeup
<1>2. main' = main \/ (main = "full" /\ main' = "put")
    BY DEF SpuriousWakeup
<1>3. /\ \A d \in Dispatchers : pc'[d] = pc[d] \/ (pc[d] = "full" /\ pc'[d] = "put")
      /\ \A w \in Workers : pc'[w] = pc[w] \/ (pc[w] = "empty" /\ pc'[w] = "get")
      /\ pc' \in [Threads -> Places]
    <2>1. CASE UNCHANGED pc
        BY <2>1 DEF TypeOK, Places
    <2>2. CASE \E t \in WaitingForRoom \ {"main"} : Go(t, "put")
        <3>1. PICK t \in Dispatchers : pc[t] = "full" /\ pc' = [pc EXCEPT ![t] = "put"]
            BY <2>2 DEF WaitingForRoom, Go
        <3> QED BY <3>1, SolAssumption DEF TypeOK, Places, Threads
    <2>3. CASE \E t \in WaitingForWork : Go(t, "get")
        <3>1. PICK t \in Workers : pc[t] = "empty" /\ pc' = [pc EXCEPT ![t] = "get"]
            BY <2>3 DEF WaitingForWork, Go
        <3> QED BY <3>1, SolAssumption DEF TypeOK, Places, Threads
    <2> QED BY <2>1, <2>2, <2>3 DEF SpuriousWakeup
<1>4. RingInv'
    BY <1>1, <1>2, RingKept DEF Unstarted, BeforeExit
<1>5. TypeOK'
    BY <1>1, <1>2, <1>3, TypeKept DEF TypeOK, parsing, served, cacheVars, Places, Unstarted
<1>6. ArgsInv'
    BY <1>1, <1>2 DEF ArgsInv, Unstarted
<1>7. ThreadInv'
    <2>1. main' \in Unstarted => UNCHANGED pc \/ \A t \in Threads : pc'[t] = pc[t]
        BY <1>2, <1>3 DEF ThreadInv, Threads, Unstarted
    <2> QED BY <1>1, <1>2, <1>3, <2>1 DEF ThreadInv, Unstarted, parsing, served
<1> QED BY <1>4, <1>5, <1>6, <1>7

\* And through every step.
LEMMA SolInvStep == SolInv /\ [Next]_vars => SolInv'
<1> SUFFICES ASSUME SolInv, [Next]_vars PROVE SolInv'
    OBVIOUS
<1>1. CASE UNCHANGED vars
    <2>1. UNCHANGED <<pc, parsing, args, ring, served, main>>
        BY <1>1 DEF vars
    <2>2. RingInv'
        BY <2>1, RingKept DEF SolInv
    <2> QED BY <2>1, <2>2
            DEF SolInv, TypeOK, ArgsInv, ThreadInv, parsing, ring, served, cacheVars
<1>2. CASE Main
    BY <1>2, MainJoins, MainExits DEF Main
<1>3. CASE \E d \in Dispatchers : Dispatch(d) \/ AcceptFails(d)
    BY <1>3, DispatcherMoves, DispatcherPuts DEF Dispatch
<1>4. CASE \E d \in Dispatchers, r \in Requests : Accept(d, r)
    BY <1>4, DispatcherMoves
<1>5. CASE \E w \in Workers : Work(w)
    BY <1>5, WorkerGets, WorkerServes DEF Work
<1>6. CASE SpuriousWakeup
    BY <1>6, WakesUp
<1> QED BY <1>1, <1>2, <1>3, <1>4, <1>5, <1>6 DEF Next

\* The types of the run, for any arguments main is given.
THEOREM TypeCorrect == Spec => []TypeOK
<1>1. SolInv => TypeOK
    BY DEF SolInv
<1> QED BY SolInvInitially, SolInvStep, <1>1, PTL DEF Spec
-----------------------------------------------------------------------------
(* The ring buffer *)

\* Each step puts an item, takes one, finishes with one, or leaves the queue alone.
LEMMA QueueStep == SolInv /\ [Next]_vars => [Queue!Next]_<<args.qlen, RingQueue, job>>
<1> SUFFICES ASSUME SolInv, Next,
                    ~ UNCHANGED <<args.qlen, RingQueue, job>>
             PROVE  Queue!Next
    BY DEF vars, ring, served, RingQueue
<1> USE DEF SolInv
<1>1. ASSUME UNCHANGED <<ring, args, job>> PROVE FALSE
    BY <1>1 DEF ring, RingQueue
<1>2. RingQueue \in Seq(Slot \cup {ExitSlot}) /\ Len(RingQueue) = req_num
    BY DEF RingInv
<1>3. ASSUME main \in BeforeExit, RingQueue # <<>> PROVE RingQueue[Len(RingQueue)] # ExitSlot
    BY <1>2, <1>3 DEF RingInv
<1>4. ASSUME NEW x \in Slot \cup {ExitSlot}, main \in {"joining", "put"}, req_num # args.qlen,
             Insert(x), UNCHANGED <<args, job>>
      PROVE  Queue!Next
    <2>1. RingQueue' = Append(RingQueue, x)
        BY <1>4, Inserted DEF Unstarted
    <2>2. req_num < args.qlen
        BY <1>4, RingBounds DEF Unstarted
    <2>3. Queue!Put(x)
        BY <1>2, <1>3, <1>4, <2>1, <2>2 DEF Queue!Put, ExitSlot, BeforeExit
    <2> QED BY <2>3 DEF Queue!Next, ExitSlot
<1>5. ASSUME NEW d \in Dispatchers, Put(d) PROVE Queue!Next
    <2>1. /\ pc[d] = "put" /\ UNCHANGED <<args, job>>
          /\ req_num # args.qlen /\ Insert([fd |-> fd[d], request |-> mybuf[d].name])
        BY <1>1, <1>5 DEF Put, served
    <2>2. main = "joining" /\ [fd |-> fd[d], request |-> mybuf[d].name] \in Slot
        BY <2>1 DEF ThreadInv, TypeOK, Unstarted, Slot, Threads
    <2> QED BY <1>4, <2>1, <2>2
<1>6. ASSUME PutExit PROVE Queue!Next
    <2>1. main = "put" /\ UNCHANGED <<args, job>> /\ req_num # args.qlen /\ Insert(ExitSlot)
        BY <1>1, <1>6 DEF PutExit, served, ExitSlot
    <2> QED BY <1>4, <2>1
<1>7. ASSUME NEW w \in Workers, Get(w) PROVE Queue!Next
    <2>1. /\ pc[w] = "get" /\ UNCHANGED <<args, requests, req_insert_index>>
          /\ req_num # 0 /\ requests[req_remove_index].fd # Exit
          /\ job' = [job EXCEPT ![w] = requests[req_remove_index]]
          /\ req_num' = req_num - 1
          /\ req_remove_index' = (req_remove_index + 1) % args.qlen
        BY <1>1, <1>7 DEF Get
    <2>2. main \notin Unstarted /\ job[w] = NoSlot
        <3>1. w \in Threads /\ pc[w] # "none" /\ pc[w] # "serve"
            BY <2>1 DEF Threads
        <3> QED BY <3>1 DEF ThreadInv
    <2>3. RingQueue # <<>> /\ Head(RingQueue) = requests[req_remove_index]
          /\ RingQueue' = Tail(RingQueue)
        BY <2>1, <2>2, Removed
    <2>4. Queue!Take(w)
        <3>1. Head(RingQueue) # [fd |-> Exit, request |-> Null] /\ args' = args
            BY <2>1, <2>3
        <3>2. job' = [job EXCEPT ![w] = Head(RingQueue)]
            BY <2>1, <2>3
        <3> QED BY <2>2, <2>3, <3>1, <3>2, Zenon DEF Queue!Take
    <2> QED BY <2>4 DEF Queue!Next
<1>8. ASSUME NEW w \in Workers, Serve(w) PROVE Queue!Next
    <2>1. pc[w] = "serve" /\ job' = [job EXCEPT ![w] = NoSlot] /\ UNCHANGED <<args, ring>>
        BY <1>8 DEF Serve
    <2>2. job[w] # NoSlot /\ RingQueue' = RingQueue
        BY <2>1 DEF ThreadInv, ring, RingQueue
    <2>3. Queue!Finish(w)
        BY <2>1, <2>2 DEF Queue!Finish
    <2> QED BY <2>3 DEF Queue!Next
<1> QED BY <1>1, <1>5, <1>6, <1>7, <1>8
        DEF Next, Main, Start, JoinDispatchers, Return, Dispatch, Work, Read, Parse, Refuse,
            Accept, AcceptFails, SpuriousWakeup, served

\* The array, its two indices and its counter are a bounded queue whatever its length,
\* and the exit request closes it: nothing is lost, overwritten or taken twice at the
\* wrap-around, and no worker takes the exit request from the others.
THEOREM RingIsQueue == Spec => ImplementsQueue
<1>1. Init => Queue!Init
    <2> SUFFICES ASSUME Init PROVE Queue!Init
        OBVIOUS
    <2>1. args.qlen \in Int
        BY SolAssumption DEF Init, Argument
    <2> QED BY <2>1 DEF Init, Queue!Init, RingQueue
<1> QED BY <1>1, SolInvInitially, SolInvStep, QueueStep, PTL DEF Spec, ImplementsQueue, Queue!Spec
-----------------------------------------------------------------------------
(* One answer for each connection *)

Reply == [status : {"error"}] \cup [status : {"ok"}, name : Strings]

\* Connection r was taken to ask for f, and waits for its answer.
Due(r, f) == r \in Requests /\ f \in Strings /\ asked[r] = f /\ replies[r] = <<>>

\* A connection is in one dispatcher's hand,
InHand ==
    \A d \in Dispatchers : fd[d] # Null =>
        /\ pc[d] \in {"read", "parse", "put", "full"}
        /\ pc[d] \in {"read", "parse"} => asked[fd[d]] = Null /\ fd[d] \notin refused
        /\ pc[d] \in {"put", "full"} => Due(fd[d], mybuf[d].name)
        /\ \A e \in Dispatchers : fd[e] = fd[d] => e = d

\* or at one place in the ring,
InRing ==
    \A k \in 1..req_num : RingQueue[k] # ExitSlot =>
        /\ Due(RingQueue[k].fd, RingQueue[k].request)
        /\ \A d \in Dispatchers : fd[d] # RingQueue[k].fd
        /\ \A m \in 1..req_num : RingQueue[m].fd = RingQueue[k].fd => m = k

\* or with one worker.
InWork ==
    \A w \in Workers : job[w] # NoSlot =>
        /\ Due(job[w].fd, job[w].request)
        /\ \A d \in Dispatchers : fd[d] # job[w].fd
        /\ \A k \in 1..req_num : RingQueue[k].fd # job[w].fd
        /\ \A v \in Workers : job[v].fd = job[w].fd => v = w

Replied ==
    /\ replies \in [Requests -> Seq(Reply)]
    /\ \A r \in Requests : asked[r] = Null => replies[r] = <<>>

OneHolder == Replied /\ InHand /\ InRing /\ InWork

Entry == [valid : {0, 1}, request : Strings \cup {Null}, memory : Strings \cup {Null},
          timestamp : Nat]

\* An entry of the cache holds the file it is named after.
OwnFile ==
    /\ cache \in [0..MAX_CE - 1 -> Entry] /\ global_timestamp \in Nat
    /\ \A i \in 0..MAX_CE - 1 :
        cache[i].valid = 1 => cache[i].request \in Strings /\ cache[i].memory = cache[i].request

\* What is in the queue is there, and is typed.
LEMMA QueueTypes ==
    ASSUME SolInv
    PROVE  /\ req_num \in Nat /\ RingQueue \in Seq(Slot \cup {ExitSlot}) /\ Len(RingQueue) = req_num
           /\ \A k \in 1..req_num : RingQueue[k] \in Slot \cup {ExitSlot}
           /\ Null \notin Requests /\ Null \notin Strings /\ Exit \notin Requests
           /\ ExitSlot.fd = Exit /\ NoSlot.fd = Null /\ NoSlot \notin Slot /\ ExitSlot \notin Slot
<1>1. RingQueue \in Seq(Slot \cup {ExitSlot}) /\ Len(RingQueue) = req_num
    BY DEF SolInv, RingInv
<1>2. req_num \in Nat /\ \A k \in 1..req_num : RingQueue[k] \in Slot \cup {ExitSlot}
    BY <1>1
<1> QED BY <1>1, <1>2, SolAssumption DEF Slot, NoSlot, ExitSlot

\* Steps in which no connection changes hands and nothing is asked or answered.
LEMMA HolderKept ==
    ASSUME OneHolder, UNCHANGED <<fd, mybuf, asked, refused, req_num, RingQueue, job, replies>>,
           \A d \in Dispatchers : fd[d] # Null =>
                \/ pc'[d] = pc[d]
                \/ pc[d] = "full" /\ pc'[d] = "put"
                \/ pc[d] = "put" /\ pc'[d] = "full"
                \/ pc[d] = "read" /\ pc'[d] = "parse"
    PROVE  OneHolder'
<1>1. Replied' /\ InRing' /\ InWork'
    BY DEF OneHolder, Replied, InRing, InWork, Due
<1>2. InHand'
    BY DEF OneHolder, InHand, Due
<1> QED BY <1>1, <1>2 DEF OneHolder

\* A dispatcher's steps.
LEMMA HolderAccept ==
    ASSUME SolInv, OneHolder, NEW d \in Dispatchers, NEW r \in Requests, Accept(d, r)
    PROVE  OneHolder'
<1>1. /\ pc[d] = "accept" /\ asked[r] = Null /\ r \notin refused /\ \A e \in Dispatchers : fd[e] # r
      /\ fd' = [fd EXCEPT ![d] = r] /\ pc' = [pc EXCEPT ![d] = "read"]
      /\ UNCHANGED <<mybuf, asked, refused, req_num, job, replies>> /\ RingQueue' = RingQueue
    BY DEF Accept, Fresh, Go, ring, served, RingQueue
<1>2. /\ fd'[d] = r /\ pc'[d] = "read" /\ r # Null
      /\ \A e \in Dispatchers \ {d} : fd'[e] = fd[e] /\ pc'[e] = pc[e]
    BY <1>1, SolAssumption DEF SolInv, TypeOK, Threads
<1>3. InHand'
    BY <1>1, <1>2 DEF OneHolder, InHand, Due
<1>4. InRing'
    BY <1>1, <1>2, QueueTypes DEF OneHolder, InRing, Due
<1>5. InWork'
    BY <1>1, <1>2, QueueTypes DEF OneHolder, InWork, Due
<1>6. Replied'
    BY <1>1 DEF OneHolder, Replied
<1> QED BY <1>3, <1>4, <1>5, <1>6 DEF OneHolder

\* The file name it reads is what it was asked for.
LEMMA HolderParse ==
    ASSUME SolInv, OneHolder, NEW d \in Dispatchers, Parse(d)
    PROVE  OneHolder'
<1>1. PICK m \in Parsed(d) :
        mybuf' = [mybuf EXCEPT ![d] = m] /\ asked' = [asked EXCEPT ![fd[d]] = m.name]
    BY DEF Parse
<1>2. /\ pc[d] = "parse" /\ pc' = [pc EXCEPT ![d] = "put"]
      /\ UNCHANGED <<fd, refused, req_num, job, replies>> /\ RingQueue' = RingQueue
    BY DEF Parse, Go, ring, served, RingQueue
<1>3. m.name \in Strings /\ fd[d] \in Requests /\ fd[d] # Null /\ m.name # Null
    BY <1>2, ParsedType, QueueTypes DEF SolInv, ThreadInv
<1>4. /\ pc'[d] = "put" /\ mybuf'[d] = m
      /\ \A e \in Dispatchers \ {d} : mybuf'[e] = mybuf[e] /\ pc'[e] = pc[e]
      /\ asked'[fd[d]] = m.name /\ \A r \in Requests \ {fd[d]} : asked'[r] = asked[r]
      /\ asked[fd[d]] = Null
    <2>1. pc'[d] = "put" /\ \A e \in Dispatchers \ {d} : pc'[e] = pc[e]
        BY <1>2 DEF SolInv, TypeOK, Threads
    <2>2. asked'[fd[d]] = m.name /\ \A r \in Requests \ {fd[d]} : asked'[r] = asked[r]
        BY <1>1, <1>3 DEF SolInv, TypeOK
    <2>3. asked[fd[d]] = Null
        BY <1>2, <1>3 DEF OneHolder, InHand
    <2>4. mybuf'[d] = m /\ \A e \in Dispatchers \ {d} : mybuf'[e] = mybuf[e]
        BY <1>1 DEF SolInv, TypeOK
    <2> QED BY <2>1, <2>2, <2>3, <2>4
<1>5. InHand'
    <2>1. replies[fd[d]] = <<>>
        BY <1>3, <1>4 DEF OneHolder, Replied
    <2>2. \A e \in Dispatchers \ {d} : fd[e] # Null => fd[e] \in Requests \ {fd[d]}
        BY <1>3 DEF OneHolder, InHand, SolInv, TypeOK
    <2> QED BY <1>2, <1>3, <1>4, <2>1, <2>2 DEF OneHolder, InHand, Due
<1>6. InRing'
    BY <1>2, <1>3, <1>4, QueueTypes DEF OneHolder, InRing, Due
<1>7. InWork'
    BY <1>2, <1>3, <1>4, QueueTypes DEF OneHolder, InWork, Due
<1>8. Replied'
    BY <1>2, <1>3, <1>4 DEF OneHolder, Replied
<1> QED BY <1>5, <1>6, <1>7, <1>8 DEF OneHolder

\* A refused connection is in no hand any more.
LEMMA HolderRefuse ==
    ASSUME SolInv, OneHolder, NEW d \in Dispatchers, Refuse(d)
    PROVE  OneHolder'
<1>1. /\ pc[d] = "parse" /\ pc' = [pc EXCEPT ![d] = "accept"]
      /\ refused' = refused \cup {fd[d]} /\ fd' = [fd EXCEPT ![d] = Null]
      /\ UNCHANGED <<mybuf, asked, req_num, job, replies>> /\ RingQueue' = RingQueue
    BY DEF Refuse, Go, ring, served, RingQueue
<1>2. /\ fd'[d] = Null /\ \A e \in Dispatchers \ {d} : fd'[e] = fd[e] /\ pc'[e] = pc[e]
    BY <1>1 DEF SolInv, TypeOK, Threads
<1>3. InHand'
    BY <1>1, <1>2 DEF OneHolder, InHand, Due
<1>4. InRing'
    BY <1>1, <1>2, QueueTypes DEF OneHolder, InRing, Due
<1>5. InWork'
    BY <1>1, <1>2, QueueTypes DEF OneHolder, InWork, Due
<1>6. Replied'
    BY <1>1 DEF OneHolder, Replied
<1> QED BY <1>3, <1>4, <1>5, <1>6 DEF OneHolder

\* From a dispatcher's hand into the ring, or back to sleep.
LEMMA HolderPut ==
    ASSUME SolInv, OneHolder, NEW d \in Dispatchers, Put(d)
    PROVE  OneHolder'
<1>1. pc[d] = "put" /\ UNCHANGED <<mybuf, asked, refused, args, job, replies>>
    BY DEF Put, served
<1>2. main = "joining" /\ d \in Threads /\ d \notin Workers
    BY <1>1, SolAssumption DEF SolInv, ThreadInv, Unstarted, Threads, TypeOK
<1>3. CASE Go(d, "full") /\ UNCHANGED <<ring, fd>>
    <2>1. req_num' = req_num /\ RingQueue' = RingQueue
        BY <1>1, <1>3 DEF ring, RingQueue
    <2>2. pc'[d] = "full" /\ \A e \in Dispatchers \ {d} : pc'[e] = pc[e]
        BY <1>2, <1>3 DEF Go, SolInv, TypeOK, Threads
    <2> QED BY <1>1, <1>3, <2>1, <2>2, HolderKept
<1>4. CASE /\ req_num # args.qlen
           /\ Insert([fd |-> fd[d], request |-> mybuf[d].name])
           /\ fd' = [fd EXCEPT ![d] = Null]
           /\ \E S \in SomeOf(WaitingForWork) : GoWakingWorkers(d, "accept", S)
    <2> DEFINE x == [fd |-> fd[d], request |-> mybuf[d].name]
    <2>1. x \in Slot /\ x # ExitSlot /\ x.fd = fd[d] /\ fd[d] # Null
        BY <1>1, QueueTypes DEF SolInv, ThreadInv, TypeOK, Slot
    <2>2. Due(x.fd, x.request)
        BY <1>1, <2>1 DEF OneHolder, InHand
    <2>3. RingQueue' = Append(RingQueue, x) /\ req_num' = req_num + 1
        BY <1>1, <1>2, <1>4, <2>1, Inserted DEF SolInv, Insert, Unstarted
    <2>4. /\ fd'[d] = Null
          /\ \A e \in Dispatchers \ {d} : fd'[e] = fd[e] /\ fd[e] # x.fd
        BY <1>4, <2>1 DEF SolInv, TypeOK, OneHolder, InHand
    <2>5. \A e \in Dispatchers \ {d} : pc'[e] = pc[e]
        <3>1. PICK S \in SomeOf(WaitingForWork) : GoWakingWorkers(d, "accept", S)
            BY <1>4
        <3> QED BY <3>1, WorkersWoken, SolAssumption DEF GoWakingWorkers, Threads
    <2>6. /\ RingQueue'[req_num + 1] = x /\ \A k \in 1..req_num : RingQueue'[k] = RingQueue[k]
          /\ req_num' = req_num + 1
        <3> HIDE DEF x
        <3> QED BY <2>1, <2>3, QueueTypes
    <2>7. InHand'
        BY <1>1, <2>1, <2>4, <2>5 DEF OneHolder, InHand, Due
    <2>8. InRing'
        <3> HIDE DEF x
        <3>1. \A k \in 1..req_num : RingQueue[k].fd # x.fd
            BY <2>1, QueueTypes DEF OneHolder, InRing, Slot
        <3>2. \A e \in Dispatchers : fd'[e] # x.fd
            BY <2>1, <2>4
        <3>3. \A k \in 1..req_num : RingQueue[k] # ExitSlot =>
                \A e \in Dispatchers : fd'[e] # RingQueue[k].fd
            BY <2>4, QueueTypes DEF OneHolder, InRing, Slot
        <3> QED BY <1>1, <2>2, <2>6, <3>1, <3>2, <3>3, QueueTypes DEF OneHolder, InRing, Due
    <2>9. InWork'
        <3> HIDE DEF x
        <3>1. \A w \in Workers : job[w] # NoSlot => job[w].fd # x.fd /\ job[w].fd # Null
            BY <2>1, QueueTypes DEF OneHolder, InWork, Due
        <3> QED BY <1>1, <2>4, <2>6, <3>1, QueueTypes DEF OneHolder, InWork, Due
    <2>10. Replied'
        BY <1>1 DEF OneHolder, Replied
    <2> QED BY <2>7, <2>8, <2>9, <2>10 DEF OneHolder
<1> QED BY <1>3, <1>4 DEF Put

\* main's exit request is nobody's connection.
LEMMA HolderExit ==
    ASSUME SolInv, OneHolder, PutExit
    PROVE  OneHolder'
<1>1. main = "put" /\ UNCHANGED <<fd, mybuf, asked, refused, args, job, replies>>
    BY DEF PutExit, parsing, served
<1>2. \A d \in Dispatchers : fd[d] = Null
    BY <1>1 DEF SolInv, ThreadInv, OneHolder, InHand
<1>3. CASE UNCHANGED <<pc, ring>>
    BY <1>1, <1>3, HolderKept DEF ring, RingQueue
<1>4. CASE req_num # args.qlen /\ Insert(ExitSlot)
    <2>1. RingQueue' = Append(RingQueue, ExitSlot) /\ req_num' = req_num + 1
        BY <1>1, <1>4, Inserted DEF SolInv, Insert, Unstarted
    <2>2. RingQueue'[req_num + 1] = ExitSlot /\ \A k \in 1..req_num : RingQueue'[k] = RingQueue[k]
        BY <2>1, QueueTypes
    <2>3. InHand' /\ Replied'
        BY <1>1, <1>2 DEF OneHolder, InHand, Replied
    <2>4. InRing'
        BY <1>1, <1>2, <2>1, <2>2, QueueTypes DEF OneHolder, InRing, Due
    <2>5. InWork'
        BY <1>1, <1>2, <2>1, <2>2, QueueTypes DEF OneHolder, InWork, Due
    <2> QED BY <2>3, <2>4, <2>5 DEF OneHolder
<1> QED BY <1>3, <1>4 DEF PutExit, ExitSlot

\* A worker's steps.
LEMMA HolderGet ==
    ASSUME SolInv, OneHolder, NEW w \in Workers, Get(w)
    PROVE  OneHolder'
<1>1. /\ pc[w] = "get" /\ UNCHANGED <<fd, mybuf, asked, refused, args, replies>>
      /\ w \in Threads /\ w \notin Dispatchers
    BY SolAssumption DEF Get, Threads, parsing
<1>2. main \notin Unstarted /\ job[w] = NoSlot /\ job \in [Workers -> Slot \cup {NoSlot}]
    BY <1>1 DEF SolInv, ThreadInv, TypeOK
<1>3. CASE UNCHANGED <<ring, job, main>> /\ (Go(w, "empty") \/ Go(w, "exited"))
    <2>1. req_num' = req_num /\ RingQueue' = RingQueue
        BY <1>1, <1>3 DEF ring, RingQueue
    <2>2. \A d \in Dispatchers : pc'[d] = pc[d]
        BY <1>1, <1>3 DEF Go, SolInv, TypeOK, Threads
    <2> QED BY <1>1, <1>3, <2>1, <2>2, HolderKept
<1>4. CASE /\ req_num # 0 /\ requests[req_remove_index].fd # Exit
           /\ job' = [job EXCEPT ![w] = requests[req_remove_index]]
           /\ req_num' = req_num - 1
           /\ req_remove_index' = (req_remove_index + 1) % args.qlen
           /\ \E S \in SomeOf(WaitingForRoom) : GoWakingPutters(w, "serve", S)
           /\ UNCHANGED <<requests, req_insert_index>>
    <2>1. RingQueue # <<>> /\ Head(RingQueue) = requests[req_remove_index]
          /\ RingQueue' = Tail(RingQueue)
        BY <1>1, <1>2, <1>4, Removed DEF SolInv
    <2> DEFINE x == RingQueue[1]
    <2>2. /\ req_num \in Nat \ {0} /\ req_num' = req_num - 1 /\ 1 \in 1..req_num
          /\ \A k \in 1..req_num - 1 : RingQueue'[k] = RingQueue[k + 1]
          /\ x = requests[req_remove_index] /\ x # ExitSlot /\ x \in Slot
        BY <1>4, <2>1, QueueTypes
    <2>3. job'[w] = x /\ \A v \in Workers \ {w} : job'[v] = job[v]
        BY <1>2, <1>4, <2>2
    <2>4. /\ Due(x.fd, x.request) /\ (\A d \in Dispatchers : fd[d] # x.fd)
          /\ \A m \in 1..req_num : RingQueue[m].fd = x.fd => m = 1
        BY <2>2 DEF OneHolder, InRing
    <2>5. \A v \in Workers \ {w} : job[v].fd # x.fd
        BY <1>2, <2>2, <2>4, QueueTypes DEF OneHolder, InWork, Due
    <2>6. \A d \in Dispatchers : pc'[d] = pc[d] \/ (pc[d] = "full" /\ pc'[d] = "put")
        <3>1. PICK S \in SomeOf(WaitingForRoom) : GoWakingPutters(w, "serve", S)
            BY <1>4
        <3> QED BY <1>1, <3>1, PuttersWoken DEF GoWakingPutters, Threads
    <2> HIDE DEF x
    <2>7. InHand'
        BY <1>1, <2>6 DEF OneHolder, InHand, Due
    <2>8. \A k \in 1..req_num' : k + 1 \in 1..req_num /\ RingQueue'[k] = RingQueue[k + 1]
        BY <2>2
    <2>9. InRing'
        <3> SUFFICES ASSUME NEW k \in 1..req_num', RingQueue'[k] # ExitSlot
                     PROVE  /\ Due(RingQueue[k].fd, RingQueue[k].request)'
                            /\ \A d \in Dispatchers : fd'[d] # RingQueue'[k].fd
                            /\ \A m \in 1..req_num' : RingQueue'[m].fd = RingQueue'[k].fd => m = k
            BY DEF InRing, Due, ExitSlot
        <3>1. /\ Due(RingQueue[k + 1].fd, RingQueue[k + 1].request)
              /\ \A d \in Dispatchers : fd[d] # RingQueue[k + 1].fd
              /\ \A m \in 1..req_num : RingQueue[m].fd = RingQueue[k + 1].fd => m = k + 1
            BY <2>8 DEF OneHolder, InRing
        <3>2. \A m \in 1..req_num' : RingQueue'[m].fd = RingQueue'[k].fd => m + 1 = k + 1
            BY <2>8, <3>1
        <3> QED BY <1>1, <2>2, <2>8, <3>1, <3>2 DEF Due
    <2>10. InWork'
        <3> SUFFICES ASSUME NEW v \in Workers, job'[v] # NoSlot
                     PROVE  /\ Due(job[v].fd, job[v].request)'
                            /\ \A d \in Dispatchers : fd'[d] # job'[v].fd
                            /\ \A k \in 1..req_num' : RingQueue'[k].fd # job'[v].fd
                            /\ \A u \in Workers : job'[u].fd = job'[v].fd => u = v
            BY DEF InWork, Due, NoSlot
        <3>1. CASE v = w
            <4>1. \A k \in 1..req_num' : RingQueue'[k].fd # x.fd
                <5>1. \A k \in 1..req_num' : k + 1 # 1 /\ k + 1 \in 1..req_num
                    BY <2>2
                <5> QED BY <2>4, <2>8, <5>1
            <4> QED BY <1>1, <2>3, <2>4, <2>5, <3>1, <4>1 DEF Due
        <3>2. CASE v # w
            <4>1. /\ job'[v] = job[v] /\ job[v] # NoSlot
                  /\ Due(job[v].fd, job[v].request) /\ (\A d \in Dispatchers : fd[d] # job[v].fd)
                  /\ (\A k \in 1..req_num : RingQueue[k].fd # job[v].fd)
                  /\ \A u \in Workers : job[u].fd = job[v].fd => u = v
                BY <2>3, <3>2 DEF OneHolder, InWork
            <4>2. \A k \in 1..req_num' : RingQueue'[k].fd # job[v].fd
                BY <2>8, <4>1
            <4>3. \A u \in Workers : job'[u].fd = job[v].fd => u = v
                BY <2>3, <2>5, <3>2, <4>1
            <4> QED BY <1>1, <4>1, <4>2, <4>3 DEF Due
        <3> QED BY <3>1, <3>2
    <2>11. Replied'
        BY <1>1 DEF OneHolder, Replied
    <2> QED BY <2>7, <2>9, <2>10, <2>11 DEF OneHolder
<1> QED BY <1>3, <1>4 DEF Get

\* Found names the slots of entries; the one Serve takes is one of them.
LEMMA FoundOne ==
    ASSUME SolInv, NEW name, Found(name) # {}
    PROVE  Max(Found(name)) \in Found(name)
<1>1. Found(name) \subseteq Nat /\ args.entries \in Int
    BY DEF Found, Valid, Slots, SolInv, ArgsInv, Argument
<1>2. \A i \in Found(name) : i < args.entries
    BY <1>1 DEF Found, Valid, Slots
<1>3. PICK i \in Found(name) : TRUE
    OBVIOUS
<1>4. args.entries \in Nat /\ \A j \in Found(name) : j <= args.entries
    BY <1>1, <1>2, <1>3
<1> QED BY <1>1, <1>4, MaxIsGreatest

\* What a worker answers with.
LEMMA Served1 ==
    ASSUME SolInv, OneHolder, OwnFile, NEW w \in Workers, Serve(w)
    PROVE  \E reply \in Reply :
             /\ reply.status = "ok" => reply.name = FileOf(job[w].request)
             /\ replies' = [replies EXCEPT ![job[w].fd] = Append(@, reply)]
<1> DEFINE name == FileOf(job[w].request)
<1>1. pc[w] = "serve" /\ job[w] # NoSlot
    BY DEF Serve, SolInv, ThreadInv
<1>2. name \in Strings
    BY <1>1 DEF OneHolder, InWork, Due, FileOf, Strings
<1>3. CASE Found(name) = {}
    <2>1. \E reply \in {[status |-> "error"], [status |-> "ok", name |-> name]} :
            replies' = [replies EXCEPT ![job[w].fd] = Append(@, reply)]
        BY <1>3 DEF Serve
    <2> QED BY <1>2, <2>1 DEF Reply
<1>4. CASE Found(name) # {}
    <2>1. Max(Found(name)) \in Found(name)
        BY <1>4, FoundOne
    <2>2. cache[Max(Found(name))].memory = name
        <3>1. \A i \in Found(name) : /\ i \in 0..MAX_CE - 1 /\ cache[i].valid = 1
                                     /\ cache[i].request = name
            <4>1. main \notin Unstarted /\ MAX_CE \in Nat
                BY <1>1, SolAssumption DEF SolInv, ThreadInv, Threads
            <4>2. args.entries \in 1..MAX_CE
                BY <4>1 DEF SolInv, ArgsInv
            <4> QED BY <4>1, <4>2 DEF Found, Valid, Slots
        <3> QED BY <2>1, <3>1 DEF OwnFile
    <2>3. replies' = [replies EXCEPT ![job[w].fd] =
                        Append(@, [status |-> "ok", name |-> cache[Max(Found(name))].memory])]
        BY <1>4 DEF Serve
    <2>4. [status |-> "ok", name |-> name] \in Reply
        BY <1>2 DEF Reply
    <2> QED BY <2>2, <2>3, <2>4
<1> QED BY <1>3, <1>4

\* The worker that answers was the only holder.
LEMMA HolderServe ==
    ASSUME SolInv, OneHolder, OwnFile, NEW w \in Workers, Serve(w)
    PROVE  OneHolder'
<1>1. /\ pc[w] = "serve" /\ pc' = [pc EXCEPT ![w] = "get"]
      /\ job' = [job EXCEPT ![w] = NoSlot]
      /\ UNCHANGED <<fd, mybuf, asked, refused, req_num>> /\ RingQueue' = RingQueue
      /\ w \in Threads /\ w \notin Dispatchers
    BY SolAssumption DEF Serve, Go, Threads, parsing, ring, RingQueue
<1>2. job[w] # NoSlot /\ job'[w] = NoSlot /\ \A v \in Workers \ {w} : job'[v] = job[v]
    BY <1>1 DEF SolInv, ThreadInv, TypeOK
<1>3. \A d \in Dispatchers : pc'[d] = pc[d]
    BY <1>1 DEF SolInv, TypeOK, Threads
<1> DEFINE r == job[w].fd
<1>4. /\ Due(r, job[w].request) /\ (\A d \in Dispatchers : fd[d] # r)
      /\ (\A k \in 1..req_num : RingQueue[k].fd # r)
      /\ \A v \in Workers : job[v].fd = r => v = w
    BY <1>2 DEF OneHolder, InWork
<1> HIDE DEF r
<1>5. /\ replies' \in [Requests -> Seq(Reply)]
      /\ \A c \in Requests \ {r} : replies'[c] = replies[c]
    <2>1. PICK reply \in Reply : replies' = [replies EXCEPT ![r] = Append(replies[r], reply)]
        BY Served1 DEF r
    <2>2. Append(replies[r], reply) \in Seq(Reply)
        BY <1>4 DEF OneHolder, Replied, Due
    <2> QED BY <2>1, <2>2 DEF OneHolder, Replied
<1>6. Replied'
    BY <1>1, <1>4, <1>5, QueueTypes DEF OneHolder, Replied, Due
<1>7. InHand'
    BY <1>1, <1>3, <1>4, <1>5 DEF OneHolder, InHand, Due
<1>8. InRing'
    BY <1>1, <1>4, <1>5 DEF OneHolder, InRing, Due
<1>9. InWork'
    BY <1>1, <1>2, <1>4, <1>5, QueueTypes DEF OneHolder, InWork, Due
<1> QED BY <1>6, <1>7, <1>8, <1>9 DEF OneHolder

\* Misses put a file under its own name, hits leave names and files alone.
LEMMA OwnFileStep ==
    ASSUME SolInv, OneHolder, OwnFile, NEW w \in Workers, Serve(w)
    PROVE  OwnFile'
<1> DEFINE name == FileOf(job[w].request)
           now == global_timestamp + 1
<1>1. pc[w] = "serve" /\ job[w] # NoSlot /\ main \notin Unstarted
    BY DEF Serve, SolInv, ThreadInv, Threads
<1>2. name \in Strings /\ now \in Nat /\ global_timestamp' = now
    BY <1>1 DEF OneHolder, InWork, Due, FileOf, Strings, OwnFile, Serve
<1>3. cache \in [0..MAX_CE - 1 -> Entry]
    BY DEF OwnFile
<1>4. CASE UNCHANGED cache
    BY <1>2, <1>4 DEF OwnFile
<1>5. CASE \E i : cache' = [cache EXCEPT ![i].timestamp = now]
    <2>1. PICK i : cache' = [cache EXCEPT ![i] = [cache[i] EXCEPT !.timestamp = now]]
        BY <1>5
    <2>2. ASSUME NEW j \in 0..MAX_CE - 1
          PROVE  /\ cache'[j] \in Entry
                 /\ cache'[j].valid = cache[j].valid
                 /\ cache'[j].request = cache[j].request /\ cache'[j].memory = cache[j].memory
        <3>1. CASE j = i
            BY <1>2, <1>3, <2>1, <3>1 DEF Entry
        <3>2. CASE j # i
            BY <1>3, <2>1, <3>2
        <3> QED BY <3>1, <3>2
    <2>3. cache' \in [0..MAX_CE - 1 -> Entry]
        BY <1>3, <2>1, <2>2
    <2> QED BY <1>2, <2>2, <2>3 DEF OwnFile
<1>6. CASE \E i, stamp :
            /\ stamp \in {now, cache[i].timestamp}
            /\ cache' = [cache EXCEPT ![i] = [valid |-> 1, request |-> name, memory |-> name,
                                              timestamp |-> stamp]]
    <2>1. PICK i, stamp :
            /\ stamp \in {now, cache[i].timestamp}
            /\ cache' = [cache EXCEPT ![i] = [valid |-> 1, request |-> name, memory |-> name,
                                              timestamp |-> stamp]]
        BY <1>6
    <2>2. ASSUME NEW j \in 0..MAX_CE - 1
          PROVE  /\ cache'[j] \in Entry
                 /\ \/ cache'[j] = cache[j]
                    \/ cache'[j].request = name /\ cache'[j].memory = name
        <3>1. CASE j = i
            <4>1. cache[i] \in Entry /\ stamp \in Nat
                BY <1>2, <1>3, <2>1, <3>1 DEF Entry
            <4>2. cache'[j] = [valid |-> 1, request |-> name, memory |-> name, timestamp |-> stamp]
                BY <1>3, <2>1, <3>1
            <4> HIDE DEF name
            <4> QED BY <1>2, <4>1, <4>2 DEF Entry
        <3>2. CASE j # i
            BY <1>3, <2>1, <3>2
        <3> QED BY <3>1, <3>2
    <2>3. cache' \in [0..MAX_CE - 1 -> Entry]
        BY <1>3, <2>1, <2>2
    <2> HIDE DEF name
    <2> QED BY <1>2, <2>2, <2>3 DEF OwnFile
<1>7. \/ UNCHANGED cache
      \/ Store(name, now)
      \/ Hit(Max(Found(name)), now)
    BY DEF Serve
<1>8. CASE Store(name, now)
    <2>1. args.caching \in {0, 1, 2}
        BY <1>1 DEF SolInv, ArgsInv
    <2> HIDE DEF name, now
    <2> QED BY <1>4, <1>6, <1>8, <2>1 DEF Store
<1>9. CASE Hit(Max(Found(name)), now)
    BY <1>5, <1>9 DEF Hit
<1> QED BY <1>4, <1>7, <1>8, <1>9

ServiceInv == SolInv /\ OneHolder /\ OwnFile

\* All of it holds at the start,
LEMMA ServiceInvInitially == Init => ServiceInv
<1> SUFFICES ASSUME Init PROVE ServiceInv
    OBVIOUS
<1>1. OneHolder
    BY SolAssumption DEF Init, OneHolder, Replied, InHand, InRing, InWork
<1>2. OwnFile
    BY SolAssumption DEF Init, OwnFile, Entry, NoEntry
<1> QED BY <1>1, <1>2, SolInvInitially DEF ServiceInv

\* and through every step.
LEMMA ServiceInvStep == ServiceInv /\ [Next]_vars => ServiceInv'
<1> SUFFICES ASSUME ServiceInv, [Next]_vars PROVE OneHolder' /\ OwnFile'
    BY SolInvStep DEF ServiceInv
<1> USE DEF ServiceInv
<1>1. ASSUME UNCHANGED <<cache, global_timestamp>> PROVE OwnFile'
    BY <1>1 DEF OwnFile
<1>2. CASE \E w \in Workers : Serve(w)
    BY <1>2, HolderServe, OwnFileStep
<1>3. CASE \E w \in Workers : Get(w)
    BY <1>1, <1>3, HolderGet DEF Get, cacheVars
<1>4. CASE \E d \in Dispatchers : Put(d)
    BY <1>1, <1>4, HolderPut DEF Put, served, cacheVars
<1>5. CASE PutExit
    BY <1>1, <1>5, HolderExit DEF PutExit, served, cacheVars
<1>6. CASE \E d \in Dispatchers : Refuse(d)
    BY <1>1, <1>6, HolderRefuse DEF Refuse, served, cacheVars
<1>7. CASE \E d \in Dispatchers : Parse(d)
    BY <1>1, <1>7, HolderParse DEF Parse, served, cacheVars
<1>8. CASE \E d \in Dispatchers, r \in Requests : Accept(d, r)
    BY <1>1, <1>8, HolderAccept DEF Accept, served, cacheVars
<1>9. CASE Start \/ JoinDispatchers \/ Return \/ SpuriousWakeup \/ UNCHANGED vars
           \/ \E d \in Dispatchers : AcceptFails(d) \/ Read(d)
    <2>1. UNCHANGED <<fd, mybuf, asked, refused, ring, args, served>>
        BY <1>9 DEF Start, JoinDispatchers, Return, SpuriousWakeup, AcceptFails, Read, vars, parsing
    <2>2. /\ UNCHANGED <<fd, mybuf, asked, refused, req_num, job, replies, cache, global_timestamp>>
          /\ RingQueue' = RingQueue
        BY <2>1 DEF ring, served, cacheVars, RingQueue
    <2>3. \A d \in Dispatchers : fd[d] # Null =>
                \/ pc'[d] = pc[d]
                \/ pc[d] = "full" /\ pc'[d] = "put"
                \/ pc[d] = "read" /\ pc'[d] = "parse"
        <3> SUFFICES ASSUME NEW d \in Dispatchers, fd[d] # Null
                     PROVE  pc'[d] = pc[d] \/ (pc[d] = "full" /\ pc'[d] = "put")
                                \/ (pc[d] = "read" /\ pc'[d] = "parse")
            OBVIOUS
        <3>1. /\ pc[d] \in {"read", "parse", "put", "full"} /\ pc \in [Threads -> Places]
              /\ d \in Threads /\ d \notin Workers
            BY SolAssumption DEF OneHolder, InHand, SolInv, TypeOK, Places, Threads
        <3>2. main \notin Unstarted
            BY <3>1 DEF SolInv, ThreadInv
        <3>3. CASE Start \/ JoinDispatchers \/ Return \/ UNCHANGED vars
            BY <3>2, <3>3 DEF Start, JoinDispatchers, Return, vars, Unstarted
        <3>4. CASE SpuriousWakeup
            BY <3>1, <3>4 DEF SpuriousWakeup, WaitingForRoom, WaitingForWork, Go
        <3>5. CASE \E e \in Dispatchers : AcceptFails(e) \/ Read(e)
            BY <3>1, <3>5 DEF AcceptFails, Read, Go
        <3> QED BY <1>9, <3>3, <3>4, <3>5
    <2>4. OneHolder'
        <3>1. OneHolder
            OBVIOUS
        <3>2. UNCHANGED <<fd, mybuf, asked, refused, req_num, RingQueue, job, replies>>
            BY <2>2
        <3>3. \A d \in Dispatchers : fd[d] # Null =>
                \/ pc'[d] = pc[d]
                \/ pc[d] = "full" /\ pc'[d] = "put"
                \/ pc[d] = "put" /\ pc'[d] = "full"
                \/ pc[d] = "read" /\ pc'[d] = "parse"
            BY <2>3
        <3> HIDE DEF ServiceInv
        <3> QED BY <3>1, <3>2, <3>3, HolderKept
    <2>5. OwnFile'
        BY <1>1, <2>2
    <2> QED BY <2>4, <2>5
<1> QED BY <1>2, <1>3, <1>4, <1>5, <1>6, <1>7, <1>8, <1>9 DEF Next, Main, Dispatch, Work

\* Parse asks, Refuse refuses, Serve answers; every other step is none of the client's.
LEMMA ServiceStep ==
    ServiceInv /\ [Next]_vars =>
        [Service!Next]_<<[r \in Requests |-> IF asked[r] = Null THEN Null ELSE FileOf(asked[r])],
                        refused, replies>>
<1> DEFINE filename == [r \in Requests |-> IF asked[r] = Null THEN Null ELSE FileOf(asked[r])]
<1> SUFFICES ASSUME ServiceInv, [Next]_vars
             PROVE  [Service!Next]_<<filename, refused, replies>>
    OBVIOUS
<1> USE DEF ServiceInv
<1>1. ASSUME UNCHANGED <<asked, refused, replies>>
      PROVE  UNCHANGED <<filename, refused, replies>>
    BY <1>1
<1>2. ASSUME NEW d \in Dispatchers, Parse(d)
      PROVE  \E r \in Requests, f \in Strings : Service!Ask(r, f)
    <2>1. pc[d] = "parse" /\ fd[d] \in Requests /\ fd[d] # Null
        BY <1>2, QueueTypes DEF Parse, SolInv, ThreadInv
    <2>2. asked[fd[d]] = Null /\ fd[d] \notin refused
        BY <2>1 DEF OneHolder, InHand
    <2>3. PICK m \in Parsed(d) : asked' = [asked EXCEPT ![fd[d]] = m.name]
        BY <1>2 DEF Parse
    <2>4. m.name \in Strings /\ m.name # Null
        BY <2>1, ParsedType, QueueTypes DEF SolInv
    <2>5. FileOf(m.name) \in Strings
        BY <2>4 DEF FileOf, Strings
    <2>6. filename' = [filename EXCEPT ![fd[d]] = FileOf(m.name)]
        <3>1. asked \in [Requests -> Strings \cup {Null}]
            BY DEF SolInv, TypeOK
        <3> QED BY <2>1, <2>3, <2>4, <3>1
    <2>7. filename[fd[d]] = Null /\ UNCHANGED <<refused, replies>>
        BY <1>2, <2>1, <2>2 DEF Parse, served
    <2>8. Service!Ask(fd[d], FileOf(m.name))
        BY <2>2, <2>6, <2>7 DEF Service!Ask
    <2> QED BY <2>1, <2>5, <2>8
<1>3. ASSUME NEW d \in Dispatchers, Refuse(d)
      PROVE  \E r \in Requests : Service!Refuse(r)
    <2>1. pc[d] = "parse" /\ fd[d] \in Requests /\ fd[d] # Null
        BY <1>3, QueueTypes DEF Refuse, SolInv, ThreadInv
    <2>2. asked[fd[d]] = Null
        BY <2>1 DEF OneHolder, InHand
    <2>3. refused' = refused \cup {fd[d]} /\ UNCHANGED <<asked, replies>>
        BY <1>3 DEF Refuse, served
    <2>4. filename[fd[d]] = Null /\ filename' = filename
        BY <2>1, <2>2, <2>3
    <2>5. Service!Refuse(fd[d])
        BY <2>3, <2>4 DEF Service!Refuse
    <2> QED BY <2>1, <2>5
<1>4. ASSUME NEW w \in Workers, Serve(w)
      PROVE  \E r \in Requests : Service!Answer(r)
    <2> DEFINE r == job[w].fd
    <2>1. job[w] # NoSlot /\ UNCHANGED <<asked, refused>>
        BY <1>4 DEF Serve, SolInv, ThreadInv, parsing
    <2>2. Due(r, job[w].request)
        BY <2>1 DEF OneHolder, InWork
    <2>3. PICK reply \in Reply : /\ reply.status = "ok" => reply.name = FileOf(job[w].request)
                                 /\ replies' = [replies EXCEPT ![r] = Append(@, reply)]
        BY <1>4, Served1
    <2> HIDE DEF r
    <2>4. replies[r] = <<>> /\ r \in Requests /\ asked[r] = job[w].request /\ asked[r] # Null
        BY <2>2, QueueTypes DEF Due
    <2>5. replies'[r] = <<reply>> /\ replies' = [replies EXCEPT ![r] = replies'[r]]
        <3>1. replies \in [Requests -> Seq(Reply)]
            BY DEF OneHolder, Replied
        <3>2. Append(<<>>, reply) = <<reply>>
            OBVIOUS
        <3> QED BY <2>3, <2>4, <3>1, <3>2
    <2>6. Len(replies'[r]) = 1 /\ replies'[r][1] = reply
        BY <2>5
    <2>7. filename[r] = FileOf(job[w].request) /\ filename[r] # Null /\ filename' = filename
        <3>1. FileOf(job[w].request) # Null
            BY <2>2, QueueTypes DEF Due, FileOf, Strings
        <3> QED BY <2>1, <2>4, <3>1
    <2>8. Service!Answer(r)
        <3> HIDE DEF filename
        <3>1. Service!Proper(replies'[r][1], filename[r])
            BY <2>3, <2>6, <2>7 DEF Service!Proper
        <3> QED BY <2>1, <2>4, <2>5, <2>6, <2>7, <3>1 DEF Service!Answer, filename
    <2> QED BY <2>4, <2>8
<1>5. ASSUME Main \/ SpuriousWakeup \/ (\E w \in Workers : Get(w))
             \/ (\E d \in Dispatchers : AcceptFails(d) \/ Read(d) \/ Put(d))
             \/ (\E d \in Dispatchers, r \in Requests : Accept(d, r)) \/ UNCHANGED vars
      PROVE  UNCHANGED <<asked, refused, replies>>
    BY <1>5 DEF Main, Start, JoinDispatchers, PutExit, Return, SpuriousWakeup, Get, AcceptFails,
                Read, Put, Accept, vars, parsing, served
<1> HIDE DEF filename
<1>6. (\E r \in Requests, f \in Strings : Service!Ask(r, f))
         \/ (\E r \in Requests : Service!Refuse(r) \/ Service!Answer(r)) => Service!Next
    BY DEF Service!Next
<1> QED BY <1>1, <1>2, <1>3, <1>4, <1>5, <1>6 DEF Next, Dispatch, Work

\* Whatever the dispatchers, workers, requests and bounds, a connection is refused or asks
\* for one file, and is answered at most once, with that file or with an error.
THEOREM ServiceHolds == Spec => ImplementsService
<1>1. Init => Service!Init
    BY DEF Init, Service!Init
<1> QED BY <1>1, ServiceInvInitially, ServiceInvStep, ServiceStep, PTL
        DEF Spec, ImplementsService, Service!Spec
-----------------------------------------------------------------------------
(* The cache *)

LogLine == [fd : Requests, name : Strings, hit : BOOLEAN, status : {"ok", "error"}]

\* The lines of a log that use the name n, and those that load it.
Uses(lines, n) == {k \in DOMAIN lines : lines[k].name = n}
Loads(lines, n) == {k \in DOMAIN lines : lines[k].name = n /\ ~lines[k].hit}

\* The log has a line for every request served, stamped with its place; what was
\* served is a file, and was loaded once.
LogInv ==
    /\ log \in Seq(LogLine) /\ Len(log) = global_timestamp
    /\ Served \subseteq Present
    /\ \A n \in Served : Loads(log, n) # {}

\* What the caching method goes by: the last load for 'oldest', else the last use.
Stamp == [n \in Served |-> IF args.caching = 1 THEN LastLoad(n) ELSE LastUse(n)]

\* The slots are filled from the first; from cache_insert_index on, and then from
\* the first again, they are in the order they were loaded in.
Earlier(i, j, first) ==
    \/ i < j /\ (i < first <=> j < first)
    \/ first <= i /\ j < first
InTurn ==
    /\ cache_insert_index \in Slots
    /\ Valid = Slots \/ Valid = 0..cache_insert_index - 1
    /\ \A i, j \in Valid : Earlier(i, j, cache_insert_index) =>
                               Stamp[cache[i].request] < Stamp[cache[j].request]

\* The timestamp of an entry is the place of its last line.
Stamped == \A i \in Valid : cache[i].timestamp = Stamp[cache[i].request]

\* What was served and is not cached is older than all that is, and the cache is full.
LeftOut ==
    \A n \in Served : \/ \E i \in Valid : cache[i].request = n
                      \/ Valid = Slots /\ \A i \in Slots : Stamp[n] < Stamp[cache[i].request]

CacheInv ==
    /\ main \in Unstarted =>
        log = <<>> /\ cache_insert_index = 0 /\ \A i \in 0..MAX_CE - 1 : cache[i].valid = 0
    /\ main \notin Unstarted =>
        /\ \A i \in Valid : cache[i].request \in Served
        /\ \A i, j \in Valid : cache[i].request = cache[j].request => i = j
        /\ args.caching = 0 => Valid = {}
        /\ args.caching = 1 => InTurn /\ LeftOut
        /\ args.caching = 2 => Stamped /\ LeftOut

\* Of a set S stamped by f, a part C of at most K that is newer than the rest, and
\* of K if there is a rest, is the K newest.
LEMMA NewestOfAll ==
    ASSUME NEW S, IsFiniteSet(S), NEW f, \A n \in S : f[n] \in Nat,
           NEW C, C \subseteq S, NEW K \in Nat, Cardinality(C) <= K,
           \A n \in S \ C : Cardinality(C) = K /\ \A c \in C : f[n] < f[c]
    PROVE  C = {n \in S : Cardinality({m \in S : f[m] > f[n]}) < K}
<1>1. IsFiniteSet(C) /\ Cardinality(C) \in Nat
    BY FS_Subset, FS_CardinalityType
<1>2. ASSUME NEW n \in C PROVE Cardinality({m \in S : f[m] > f[n]}) < K
    <2> DEFINE Newer == {m \in S : f[m] > f[n]}
    <2>1. Newer \subseteq C \ {n}
        OBVIOUS
    <2>2. IsFiniteSet(C \ {n}) /\ Cardinality(C \ {n}) = Cardinality(C) - 1
        BY <1>1, FS_RemoveElement
    <2> HIDE DEF Newer
    <2>3. Cardinality(Newer) <= Cardinality(C) - 1 /\ Cardinality(Newer) \in Nat
        BY <2>1, <2>2, FS_Subset, FS_CardinalityType
    <2>4. Cardinality(Newer) < K
        BY <1>1, <2>3
    <2> QED BY <2>4 DEF Newer
<1>3. ASSUME NEW n \in S \ C PROVE ~(Cardinality({m \in S : f[m] > f[n]}) < K)
    <2> DEFINE Newer == {m \in S : f[m] > f[n]}
    <2>1. C \subseteq Newer /\ Newer \subseteq S /\ Cardinality(C) = K
        OBVIOUS
    <2> HIDE DEF Newer
    <2>2. IsFiniteSet(Newer) /\ Cardinality(Newer) \in Nat
        BY <2>1, FS_Subset, FS_CardinalityType
    <2>3. Cardinality(C) <= Cardinality(Newer)
        BY <2>1, <2>2, FS_Subset
    <2>4. ~(Cardinality(Newer) < K)
        BY <2>1, <2>2, <2>3
    <2> QED BY <2>4 DEF Newer
<1> QED BY <1>2, <1>3

\* Where what was served last stood in the log.
LEMMA LastLines ==
    ASSUME LogInv, NEW n \in Served
    PROVE  /\ LastUse(n) \in Uses(log, n) /\ \A k \in Uses(log, n) : LastUse(n) >= k
           /\ LastLoad(n) \in Loads(log, n) /\ \A k \in Loads(log, n) : LastLoad(n) >= k
           /\ Stamp[n] \in 1..Len(log)
<1>1. /\ Loads(log, n) \subseteq Uses(log, n) /\ Uses(log, n) \subseteq 1..Len(log)
      /\ Loads(log, n) # {}
    BY DEF LogInv, Uses, Loads
<1>2. Len(log) \in Nat
    BY DEF LogInv
<1>3. LastUse(n) = Max(Uses(log, n)) /\ LastLoad(n) = Max(Loads(log, n))
    BY DEF LastUse, LastLoad, Uses, Loads
<1> HIDE DEF Uses, Loads
<1>4. Max(Uses(log, n)) \in Uses(log, n) /\ \A k \in Uses(log, n) : Max(Uses(log, n)) >= k
    BY <1>1, <1>2, MaxIsGreatest
<1>5. Max(Loads(log, n)) \in Loads(log, n) /\ \A k \in Loads(log, n) : Max(Loads(log, n)) >= k
    BY <1>1, <1>2, MaxIsGreatest
<1> QED BY <1>1, <1>3, <1>4, <1>5 DEF Stamp

\* Two names never have the same stamp.
LEMMA StampsDiffer ==
    ASSUME LogInv, NEW m \in Served, NEW n \in Served, Stamp[m] = Stamp[n]
    PROVE  m = n
<1>1. Stamp[m] \in Uses(log, m) /\ Stamp[n] \in Uses(log, n)
    BY LastLines DEF Stamp, Uses, Loads
<1> QED BY <1>1 DEF Uses

\* The invariant says which names are cached: the newest.
LEMMA CacheIsNewest ==
    ASSUME SolInv, OwnFile, LogInv, CacheInv
    PROVE  CacheHoldsTheNewest
<1> SUFFICES ASSUME main \notin Unstarted
             PROVE  /\ {cache[i].request : i \in Valid} =
                         CASE args.caching = 1 -> Newest(LastLoad)
                           [] args.caching = 2 -> Newest(LastUse)
                           [] OTHER -> {}
                    /\ \A i, j \in Valid : cache[i].request = cache[j].request => i = j
                    /\ \A i \in Valid : cache[i].memory = cache[i].request
    BY DEF CacheHoldsTheNewest, Unstarted
<1>1. /\ args.caching \in 0..2 /\ args.entries \in Nat \ {0}
      /\ args.entries <= MAX_CE /\ MAX_CE \in Nat
    BY SolAssumption DEF SolInv, ArgsInv
<1>2. Valid \subseteq Slots /\ Slots \subseteq 0..MAX_CE - 1 /\ Slots = 0..args.entries - 1
    BY <1>1 DEF Valid, Slots
<1>3. \A i \in Valid : cache[i].memory = cache[i].request
    BY <1>2 DEF OwnFile, Valid
<1>4. \A i, j \in Valid : cache[i].request = cache[j].request => i = j
    BY DEF CacheInv
<1> DEFINE C == {cache[i].request : i \in Valid}
           f == Stamp
           K == args.entries
<1>5. CASE args.caching = 0
    BY <1>3, <1>4, <1>5 DEF CacheInv
<1>6. CASE args.caching # 0
    <2>1. IsFiniteSet(Served)
        <3>1. Len(log) \in Nat /\ DOMAIN log = 1..Len(log)
            BY DEF LogInv
        <3> DEFINE D == {j \in DOMAIN log : log[j].status = "ok"}
        <3>2. IsFiniteSet(1..Len(log)) /\ D \subseteq 1..Len(log)
            BY <3>1, FS_Interval
        <3>3. IsFiniteSet(D)
            BY <3>2, FS_Subset
        <3> DEFINE g == [i \in D |-> log[i].name]
        <3>4. g \in Surjection(D, Served)
            BY DEF Served, Surjection
        <3> HIDE DEF D, g
        <3> QED BY <3>3, <3>4, FS_Surjection
    <2>2. IsFiniteSet(Valid) /\ IsFiniteSet(Slots) /\ Cardinality(Slots) = K
          /\ Cardinality(Valid) <= K
        <3>1. IsFiniteSet(Slots) /\ Cardinality(Slots) = K
            <4>1. 0 \in Int /\ K - 1 \in Int /\ ~(0 > K - 1) /\ K - 1 - 0 + 1 = K
                BY <1>1
            <4>2. /\ IsFiniteSet(0..K - 1)
                  /\ Cardinality(0..K - 1) = IF 0 > K - 1 THEN 0 ELSE K - 1 - 0 + 1
                BY <4>1, FS_Interval
            <4> QED BY <1>2, <4>1, <4>2
        <3> QED BY <1>2, <3>1, FS_Subset
    <2>3. C \subseteq Served
        BY DEF CacheInv
    <2>4. Cardinality(C) = Cardinality(Valid)
        <3> DEFINE h == [i \in Valid |-> cache[i].request]
        <3>1. h \in Surjection(Valid, C)
            BY DEF Surjection
        <3>2. h \in [Valid -> C] /\ \A i, j \in Valid : h[i] = h[j] => i = j
            BY <1>4
        <3>3. h \in Injection(Valid, C)
            BY <3>2 DEF Injection, IsInjective
        <3> HIDE DEF h, C
        <3> QED BY <2>2, <3>1, <3>3, FS_Surjection
    <2>5. \A n \in Served : f[n] \in Nat
        BY LastLines DEF LogInv
    <2>6. LeftOut
        BY <1>1, <1>6 DEF CacheInv
    <2>7. ASSUME NEW n \in Served \ C PROVE Cardinality(C) = K /\ \A c \in C : f[n] < f[c]
        <3>1. Valid = Slots /\ \A i \in Slots : Stamp[n] < Stamp[cache[i].request]
            BY <2>6, <2>7 DEF LeftOut
        <3>2. Cardinality(C) = K
            BY <2>2, <2>4, <3>1
        <3>3. \A c \in C : f[n] < f[c]
            BY <2>3, <2>7, <3>1
        <3> QED BY <3>2, <3>3
    <2>8. C = {n \in Served : Cardinality({m \in Served : f[m] > f[n]}) < K}
        <3> HIDE DEF C, f
        <3>1. Cardinality(C) <= K
            BY <2>2, <2>4
        <3> QED BY <1>1, <2>1, <2>3, <2>5, <2>7, <3>1, NewestOfAll
    <2>9. CASE args.caching = 1
        <3>1. \A n \in Served : {m \in Served : f[m] > f[n]}
                                   = {m \in Served : LastLoad(m) > LastLoad(n)}
            BY <2>9 DEF Stamp
        <3>2. C = Newest(LastLoad)
            BY <2>8, <3>1 DEF Newest
        <3> QED BY <1>3, <1>4, <2>9, <3>2
    <2>10. CASE args.caching = 2
        <3>1. \A n \in Served : {m \in Served : f[m] > f[n]}
                                   = {m \in Served : LastUse(m) > LastUse(n)}
            BY <2>10 DEF Stamp
        <3>2. C = Newest(LastUse)
            BY <2>8, <3>1 DEF Newest
        <3> QED BY <1>3, <1>4, <2>10, <3>2
    <2> QED BY <1>1, <1>6, <2>9, <2>10
<1> QED BY <1>5, <1>6

\* A line is appended: the stamp of its name becomes its place, unless only loads count
\* and it is no load; the other stamps stay.
LEMMA LogGrows ==
    ASSUME LogInv, NEW line \in LogLine, log' = Append(log, line),
           global_timestamp' = global_timestamp + 1, args' = args,
           line.status = "ok" <=> line.name \in Present, line.hit => line.name \in Served
    PROVE  /\ LogInv'
           /\ Served' = IF line.status = "ok" THEN Served \cup {line.name} ELSE Served
           /\ \A n \in Served \ {line.name} : Stamp'[n] = Stamp[n]
           /\ line.name \in Served' =>
                Stamp'[line.name] = IF line.hit /\ args.caching = 1 THEN Stamp[line.name]
                                    ELSE Len(log) + 1
<1> DEFINE N == Len(log)
           name == line.name
<1>1. /\ N \in Nat /\ log' \in Seq(LogLine) /\ Len(log') = N + 1
      /\ DOMAIN log = 1..N /\ DOMAIN log' = 1..N + 1
      /\ log'[N + 1] = line /\ \A k \in 1..N : log'[k] = log[k]
    BY DEF LogInv
<1>2. line.status \in {"ok", "error"} /\ line.hit \in BOOLEAN
    BY DEF LogLine
<1> HIDE DEF N
<1>3. ASSUME NEW n
      PROVE  /\ Uses(log', n) = Uses(log, n) \cup (IF n = name THEN {N + 1} ELSE {})
             /\ Loads(log', n) = Loads(log, n) \cup (IF n = name /\ ~line.hit THEN {N + 1} ELSE {})
             /\ Uses(log, n) \subseteq 1..N /\ Loads(log, n) \subseteq 1..N
    BY <1>1 DEF Uses, Loads
<1> DEFINE Latest(lines, n) == IF args.caching = 1 THEN Max(Loads(lines, n))
                              ELSE Max(Uses(lines, n))
<1>4. Stamp = [n \in Served |-> Latest(log, n)] /\ Stamp' = [n \in Served' |-> Latest(log', n)]
    BY DEF Stamp, LastUse, LastLoad, Uses, Loads
<1>5. ASSUME NEW I, I \subseteq 1..N PROVE Max(I \cup {N + 1}) = N + 1
    <2>1. I \cup {N + 1} \subseteq Nat /\ \A i \in I \cup {N + 1} : i <= N + 1
        BY <1>1, <1>5
    <2>2. /\ Max(I \cup {N + 1}) \in I \cup {N + 1}
          /\ \A j \in I \cup {N + 1} : Max(I \cup {N + 1}) >= j
        BY <1>1, <2>1, MaxIsGreatest
    <2>3. ASSUME NEW m \in I \cup {N + 1}, m >= N + 1 PROVE m = N + 1
        BY <1>1, <1>5, <2>3
    <2> QED BY <2>2, <2>3
<1>6. Served' = IF line.status = "ok" THEN Served \cup {name} ELSE Served
    <2>1. {k \in DOMAIN log' : log'[k].status = "ok"}
            = {k \in DOMAIN log : log[k].status = "ok"}
                \cup (IF line.status = "ok" THEN {N + 1} ELSE {})
        BY <1>1
    <2>2. \A k \in {k \in DOMAIN log : log[k].status = "ok"} : log'[k] = log[k]
        BY <1>1
    <2>3. Served' = {log'[k].name : k \in {k \in DOMAIN log' : log'[k].status = "ok"}}
          /\ Served = {log[k].name : k \in {k \in DOMAIN log : log[k].status = "ok"}}
        BY DEF Served

    <2> QED BY <1>1, <2>1, <2>2, <2>3
<1>7. LogInv'
    <2>1. Len(log') = global_timestamp'
        BY <1>1 DEF LogInv, N
    <2>2. Served' \subseteq Present
        BY <1>6 DEF LogInv
    <2>3. ASSUME NEW n \in Served' PROVE Loads(log', n) # {}
        <3>1. CASE n \in Served
            BY <1>3, <3>1 DEF LogInv
        <3>2. CASE n \notin Served
            <4>1. n = name /\ ~line.hit
                BY <1>6, <2>3, <3>2
            <4> QED BY <1>3, <4>1
        <3> QED BY <3>1, <3>2
    <2> QED BY <1>1, <2>1, <2>2, <2>3 DEF LogInv
<1>8. ASSUME NEW n \in Served \ {name} PROVE Stamp'[n] = Stamp[n]
    <2>1. Uses(log', n) = Uses(log, n) /\ Loads(log', n) = Loads(log, n) /\ n \in Served'
        BY <1>3, <1>6
    <2> HIDE DEF Latest
    <2>2. Latest(log', n) = Latest(log, n)
        BY <2>1 DEF Latest
    <2> QED BY <1>4, <2>1, <2>2
<1>9. ASSUME name \in Served'
      PROVE  Stamp'[name] = IF line.hit /\ args.caching = 1 THEN Stamp[name] ELSE N + 1
    <2>1. Max(Uses(log', name)) = N + 1
        BY <1>3, <1>5
    <2>2. ~line.hit => Max(Loads(log', name)) = N + 1
        BY <1>3, <1>5
    <2>3. line.hit => Loads(log', name) = Loads(log, name) /\ name \in Served
        BY <1>3
    <2> QED BY <1>4, <1>9, <2>1, <2>2, <2>3
<1> QED BY <1>6, <1>7, <1>8, <1>9 DEF N

\* The place a miss is stored in: empty, or that of the oldest entry of a full cache.
SlotChosen == IF args.caching = 1 THEN cache_insert_index ELSE Victim

\* It is one of the slots in use, and replaces nothing newer than what stays.
LEMMA OldestChosen ==
    ASSUME SolInv, OwnFile, LogInv, CacheInv, main \notin Unstarted, args.caching # 0
    PROVE  /\ SlotChosen \in Slots
           /\ \/ SlotChosen \notin Valid
              \/ /\ Valid = Slots
                 /\ \A i \in Slots \ {SlotChosen} :
                        Stamp[cache[SlotChosen].request] < Stamp[cache[i].request]
<1>1. /\ args.caching \in 1..2 /\ args.entries \in Nat \ {0}
      /\ args.entries <= MAX_CE /\ MAX_CE \in Nat
    BY SolAssumption DEF SolInv, ArgsInv
<1>2. Valid \subseteq Slots /\ Slots \subseteq 0..MAX_CE - 1 /\ Slots = 0..args.entries - 1
    BY <1>1 DEF Valid, Slots
<1>3. \A i \in Valid : cache[i].request \in Served /\ Stamp[cache[i].request] \in Nat
    BY LastLines DEF CacheInv, LogInv
<1>4. CASE args.caching = 1
    <2>1. InTurn /\ SlotChosen = cache_insert_index
        BY <1>4 DEF CacheInv, SlotChosen
    <2>2. CASE Valid = 0..cache_insert_index - 1
        BY <1>2, <2>1, <2>2 DEF InTurn
    <2>3. CASE Valid = Slots
        <3>1. \A i \in Slots \ {cache_insert_index} :
                Earlier(cache_insert_index, i, cache_insert_index)
            BY <1>1, <1>2, <2>1 DEF Earlier, InTurn
        <3> QED BY <2>1, <2>3, <3>1 DEF InTurn
    <2> QED BY <2>1, <2>2, <2>3 DEF InTurn
<1>5. CASE args.caching = 2
    <2>1. Stamped /\ SlotChosen = Victim
        BY <1>5 DEF CacheInv, SlotChosen
    <2>2. CASE Valid # Slots
        <3>1. Slots \subseteq Nat /\ \A i \in Slots : i <= args.entries
            BY <1>1, <1>2
        <3>2. Slots \ Valid # {} /\ Slots \ Valid \subseteq Nat
              /\ \A i \in Slots \ Valid : i <= args.entries
            BY <1>2, <2>2, <3>1
        <3>3. Max(Slots \ Valid) \in Slots \ Valid
            BY <1>1, <3>2, MaxIsGreatest
        <3> QED BY <2>1, <2>2, <3>3 DEF Victim
    <2>3. CASE Valid = Slots
        <3> DEFINE Oldest == {i \in Slots :
                                \A j \in Slots : cache[i].timestamp <= cache[j].timestamp}
                   Times == {cache[i].timestamp : i \in Slots}
        <3>1. Times \subseteq Nat /\ Times # {}
            <4>1. \A i \in Slots : cache[i].timestamp \in Nat
                BY <1>2 DEF OwnFile, Entry
            <4>2. 0 \in Slots
                BY <1>1, <1>2
            <4> QED BY <4>1, <4>2
        <3>2. PICK t \in Times : \A u \in Times : t <= u
            <4> HIDE DEF Times
            <4> QED BY <3>1, LeastNatural
        <3>3. Oldest # {} /\ Oldest \subseteq Nat
            BY <1>2, <3>2
        <3>4. Min(Oldest) \in Oldest
            <4> HIDE DEF Oldest
            <4> QED BY <3>3, MinIsLeast
        <3>5. Victim \in Oldest
            BY <2>3, <3>4 DEF Victim
        <3>6. ASSUME NEW i \in Slots \ {Victim}
              PROVE  Stamp[cache[Victim].request] < Stamp[cache[i].request]
            <4>1. cache[Victim].request # cache[i].request
                BY <2>3, <3>5 DEF CacheInv
            <4>2. Stamp[cache[Victim].request] # Stamp[cache[i].request]
                BY <1>3, <2>3, <3>5, <4>1, StampsDiffer
            <4>3. Stamp[cache[Victim].request] <= Stamp[cache[i].request]
                BY <2>1, <2>3, <3>5 DEF Stamped
            <4> QED BY <1>3, <2>3, <3>5, <4>2, <4>3
        <3> QED BY <2>1, <2>3, <3>5, <3>6
    <2> QED BY <2>2, <2>3
<1> QED BY <1>1, <1>4, <1>5

\* A miss puts name in the place chosen: what it replaces is the oldest.
LEMMA CacheTakes ==
    ASSUME SolInv, OwnFile, LogInv, CacheInv, main \notin Unstarted, UNCHANGED <<args, main>>,
           NEW name, Found(name) = {}, NEW now, now = Len(log) + 1, Store(name, now),
           Served' = Served \cup {name}, Stamp'[name] = now,
           \A n \in Served \ {name} : Stamp'[n] = Stamp[n]
    PROVE  CacheInv'
<1> DEFINE v == SlotChosen
           K == args.entries
<1>1. /\ args.caching \in 0..2 /\ K \in Nat \ {0} /\ K <= MAX_CE /\ MAX_CE \in Nat
      /\ cache \in [0..MAX_CE - 1 -> Entry] /\ now \in Nat
    BY SolAssumption DEF SolInv, ArgsInv, OwnFile, LogInv
<1>2. /\ Valid \subseteq Slots /\ Slots \subseteq 0..MAX_CE - 1
      /\ Slots = 0..K - 1 /\ Slots' = Slots
    BY <1>1 DEF Valid, Slots
<1>3. ASSUME NEW i \in Valid
      PROVE  /\ cache[i].request \in Served /\ cache[i].request # name
             /\ Stamp[cache[i].request] \in Nat /\ Stamp[cache[i].request] < now
    BY LastLines DEF CacheInv, LogInv, Found
<1>4. CASE args.caching = 0
    <2>1. UNCHANGED cache
        BY <1>4 DEF Store
    <2>2. Valid' = Valid /\ Valid = {}
        BY <1>2, <1>4, <2>1 DEF Valid, CacheInv
    <2> QED BY <1>4, <2>2 DEF CacheInv
<1>5. CASE args.caching # 0
    <2>1. PICK stamp :
            /\ cache' = [cache EXCEPT ![v] = [valid |-> 1, request |-> name, memory |-> name,
                                              timestamp |-> stamp]]
            /\ args.caching = 2 => stamp = now
        <3>1. CASE args.caching = 1
            <4>1. cache' = [cache EXCEPT ![v] = [valid |-> 1, request |-> name, memory |-> name,
                                                timestamp |-> cache[v].timestamp]]
                BY <3>1 DEF Store, SlotChosen
            <4>2. args.caching # 2
                BY <3>1
            <4> QED BY <4>1, <4>2, Zenon
        <3>2. CASE args.caching = 2
            <4>1. cache' = [cache EXCEPT ![v] = [valid |-> 1, request |-> name, memory |-> name,
                                                timestamp |-> now]]
                BY <3>2 DEF Store, SlotChosen
            <4> QED BY <4>1
        <3>3. args.caching = 1 \/ args.caching = 2
            BY <1>1, <1>5
        <3> QED BY <3>1, <3>2, <3>3, Zenon
    <2>2. v \in Slots /\ v \in DOMAIN cache
        BY <1>1, <1>2, <1>5, OldestChosen
    <2>3. \/ v \notin Valid
          \/ /\ Valid = Slots
             /\ \A i \in Slots \ {v} : Stamp[cache[v].request] < Stamp[cache[i].request]
        BY <1>5, OldestChosen
    <2> HIDE DEF v
    <2>4. /\ cache'[v].request = name /\ cache'[v].valid = 1
          /\ args.caching = 2 => cache'[v].timestamp = now
          /\ \A i \in Slots \ {v} : cache'[i] = cache[i]
        BY <1>1, <1>2, <2>1, <2>2
    <2>5. Valid' = Valid \cup {v}
        BY <1>2, <2>2, <2>4 DEF Valid
    <2>6. ASSUME NEW i \in Valid', i # v
          PROVE  /\ i \in Valid /\ cache'[i] = cache[i]
                 /\ cache[i].request \in Served /\ cache[i].request # name
                 /\ Stamp'[cache[i].request] = Stamp[cache[i].request]
                 /\ Stamp[cache[i].request] \in Nat /\ Stamp[cache[i].request] < now
        BY <1>2, <1>3, <2>4, <2>5, <2>6
    <2>7. \A i \in Valid' : cache'[i].request \in Served'
        BY <2>4, <2>6
    <2>8. \A i, j \in Valid' : cache'[i].request = cache'[j].request => i = j
        BY <2>4, <2>6 DEF CacheInv
    <2>9. LeftOut'
        <3> SUFFICES ASSUME NEW n \in Served', \A i \in Valid' : cache'[i].request # n
                     PROVE  /\ Valid' = Slots'
                            /\ \A i \in Slots' : Stamp'[n] < Stamp'[cache'[i].request]
            BY DEF LeftOut
        <3>1. n # name /\ n \in Served /\ Stamp'[n] = Stamp[n] /\ Stamp[n] \in Nat /\ Stamp[n] < now
            BY <2>4, <2>5, LastLines DEF LogInv
        <3>2. Valid = Slots /\ \A i \in Slots \ {v} : Stamp[n] < Stamp[cache[i].request]
            <4>1. CASE \E i \in Valid : cache[i].request = n
                <5>1. v \in Valid /\ cache[v].request = n
                    BY <2>4, <2>5, <2>6, <4>1
                <5> QED BY <2>3, <5>1
            <4>2. CASE ~ \E i \in Valid : cache[i].request = n
                BY <1>1, <1>5, <3>1, <4>2 DEF CacheInv, LeftOut
            <4> QED BY <4>1, <4>2
        <3>3. Valid' = Slots'
            BY <1>2, <2>2, <2>5, <3>2
        <3>4. ASSUME NEW i \in Slots' PROVE Stamp'[n] < Stamp'[cache'[i].request]
            BY <1>2, <2>4, <2>6, <3>1, <3>2, <3>3
        <3> QED BY <3>3, <3>4
    <2>10. CASE args.caching = 1
        <3>1. /\ v = cache_insert_index /\ cache_insert_index' = (v + 1) % K
              /\ InTurn /\ v \in 0..K - 1
            BY <1>2, <2>2, <2>10 DEF SlotChosen, Store, CacheInv, v
        <3>2. cache_insert_index' = IF v + 1 < K THEN v + 1 ELSE 0
            <4>1. 1 \in 0..K /\ (v + 1 < K \/ v + 1 - K = 0)
                BY <1>1, <3>1
            <4>2. (v + 1) % K = IF v + 1 < K THEN v + 1 ELSE v + 1 - K
                BY <1>1, <3>1, <4>1, Wrap
            <4> QED BY <3>1, <4>1, <4>2
        <3>3. cache_insert_index' \in Slots'
            BY <1>1, <1>2, <3>1, <3>2
        <3>4. Valid' = Slots' \/ Valid' = 0..cache_insert_index' - 1
            <4>1. CASE Valid = Slots
                BY <1>2, <2>2, <2>5, <4>1
            <4>2. CASE Valid = 0..v - 1
                <5>1. Valid' = 0..v
                    BY <2>5, <3>1, <4>2
                <5> QED BY <1>1, <1>2, <3>1, <3>2, <5>1
            <4> QED BY <3>1, <4>1, <4>2 DEF InTurn
        <3>5. ASSUME NEW i \in Valid', NEW j \in Valid', Earlier(i, j, cache_insert_index')
              PROVE  Stamp'[cache'[i].request] < Stamp'[cache'[j].request]
            <4>1. i \in 0..K - 1 /\ j \in 0..K - 1 /\ v \in 0..K - 1
                BY <1>2, <2>2, <2>5
            <4>2. i # v
                BY <1>1, <3>2, <3>5, <4>1 DEF Earlier
            <4>3. CASE j = v
                BY <2>4, <2>6, <4>2, <4>3
            <4>4. CASE j # v
                <5>1. Earlier(i, j, v)
                    BY <1>1, <3>2, <3>5, <4>1, <4>2, <4>4 DEF Earlier
                <5>2. Stamp[cache[i].request] < Stamp[cache[j].request]
                    BY <2>6, <3>1, <4>2, <4>4, <5>1 DEF InTurn
                <5> QED BY <2>6, <4>2, <4>4, <5>2
            <4> QED BY <4>3, <4>4
        <3>6. InTurn'
            BY <3>3, <3>4, <3>5 DEF InTurn
        <3> QED BY <2>7, <2>8, <2>9, <2>10, <3>6 DEF CacheInv
    <2>11. CASE args.caching = 2
        <3>1. ASSUME NEW i \in Valid' PROVE cache'[i].timestamp = Stamp'[cache'[i].request]
            <4>1. CASE i = v
                BY <2>4, <2>11, <4>1
            <4>2. CASE i # v
                BY <2>6, <2>11, <4>2 DEF CacheInv, Stamped
            <4> QED BY <4>1, <4>2
        <3>2. Stamped'
            BY <3>1 DEF Stamped
        <3> QED BY <2>7, <2>8, <2>9, <2>11, <3>2 DEF CacheInv
    <2> QED BY <1>1, <1>5, <2>10, <2>11
<1> QED BY <1>4, <1>5

\* A hit stamps the entry it finds.
LEMMA CacheHits ==
    ASSUME SolInv, OwnFile, LogInv, CacheInv, main \notin Unstarted, UNCHANGED <<args, main>>,
           NEW name, NEW h \in Found(name), NEW now, now = Len(log) + 1, Hit(h, now),
           Served' = Served, Stamp'[name] = (IF args.caching = 1 THEN Stamp[name] ELSE now),
           \A n \in Served \ {name} : Stamp'[n] = Stamp[n]
    PROVE  CacheInv'
<1>1. /\ args.caching \in 0..2 /\ args.entries \in Nat \ {0} /\ args.entries <= MAX_CE
      /\ MAX_CE \in Nat /\ cache \in [0..MAX_CE - 1 -> Entry] /\ now \in Nat
    BY SolAssumption DEF SolInv, ArgsInv, OwnFile, LogInv
<1>2. Valid \subseteq Slots /\ Slots \subseteq 0..MAX_CE - 1 /\ Slots' = Slots
    BY <1>1 DEF Valid, Slots
<1>3. h \in Valid /\ cache[h].request = name /\ args.caching # 0
    BY DEF Found, CacheInv
<1>4. \A i \in Slots : /\ cache'[i].request = cache[i].request /\ cache'[i].valid = cache[i].valid
                        /\ cache'[i].timestamp = IF i = h THEN now ELSE cache[i].timestamp
    <2>1. cache' = [cache EXCEPT ![h] = [cache[h] EXCEPT !.timestamp = now]]
        BY DEF Hit
    <2>2. ASSUME NEW i \in Slots
          PROVE  /\ cache'[i].request = cache[i].request /\ cache'[i].valid = cache[i].valid
                 /\ cache'[i].timestamp = IF i = h THEN now ELSE cache[i].timestamp
        <3>1. i \in DOMAIN cache /\ cache[i] \in Entry
            BY <1>1, <1>2
        <3>2. cache'[i] = IF i = h THEN [cache[i] EXCEPT !.timestamp = now] ELSE cache[i]
            BY <2>1, <3>1
        <3> QED BY <3>1, <3>2 DEF Entry
    <2> QED BY <2>2
<1>5. Valid' = Valid /\ cache_insert_index' = cache_insert_index
    BY <1>2, <1>4 DEF Valid, Hit
<1>6. \A n \in Served : Stamp[n] \in Nat /\ Stamp[n] < now
    BY LastLines DEF LogInv
<1>7. \A i \in Valid : cache[i].request \in Served /\ (cache[i].request = name => i = h)
    BY <1>3 DEF CacheInv
<1>8. LeftOut'
    <2> SUFFICES ASSUME NEW n \in Served', \A i \in Valid' : cache'[i].request # n
                 PROVE  /\ Valid' = Slots'
                        /\ \A i \in Slots' : Stamp'[n] < Stamp'[cache'[i].request]
        BY DEF LeftOut
    <2>1. n \in Served /\ \A i \in Valid : cache[i].request # n
        BY <1>2, <1>4, <1>5
    <2>2. Valid = Slots /\ \A i \in Slots : Stamp[n] < Stamp[cache[i].request]
        BY <1>1, <1>3, <2>1 DEF CacheInv, LeftOut
    <2>3. n # name /\ Stamp'[n] = Stamp[n]
        BY <1>3, <2>1
    <2>4. ASSUME NEW i \in Slots PROVE Stamp'[n] < Stamp'[cache'[i].request]
        <3>1. cache'[i].request = cache[i].request /\ cache[i].request \in Served
            BY <1>4, <1>7, <2>2
        <3>2. CASE cache[i].request = name
            BY <1>6, <2>1, <2>2, <2>3, <3>1, <3>2
        <3>3. CASE cache[i].request # name
            BY <2>2, <2>3, <3>1, <3>3
        <3> QED BY <3>2, <3>3
    <2> QED BY <1>2, <1>5, <2>2, <2>4
<1>9. /\ \A i \in Valid' : cache'[i].request \in Served'
      /\ \A i, j \in Valid' : cache'[i].request = cache'[j].request => i = j
    BY <1>2, <1>4, <1>5, <1>7 DEF CacheInv
<1>10. CASE args.caching = 1
    <2>1. InTurn /\ \A n \in Served : Stamp'[n] = Stamp[n]
        BY <1>10 DEF CacheInv
    <2>2. \A i \in Valid' : Stamp'[cache'[i].request] = Stamp[cache[i].request]
        BY <1>2, <1>4, <1>5, <1>7, <2>1
    <2>3. InTurn'
        BY <1>2, <1>5, <2>1, <2>2 DEF InTurn
    <2> QED BY <1>8, <1>9, <1>10, <2>3 DEF CacheInv
<1>11. CASE args.caching = 2
    <2>1. ASSUME NEW i \in Valid' PROVE cache'[i].timestamp = Stamp'[cache'[i].request]
        <3>1. i \in Valid /\ i \in Slots /\ cache'[i].request = cache[i].request
            BY <1>2, <1>4, <1>5
        <3>2. CASE i = h
            BY <1>3, <1>4, <1>11, <3>1, <3>2
        <3>3. CASE i # h
            BY <1>4, <1>7, <1>11, <3>1, <3>3 DEF CacheInv, Stamped
        <3> QED BY <3>2, <3>3
    <2>2. Stamped'
        BY <2>1 DEF Stamped
    <2> QED BY <1>8, <1>9, <1>11, <2>2 DEF CacheInv
<1> QED BY <1>1, <1>3, <1>10, <1>11

\* Serve looks, logs and keeps the invariant.
LEMMA CacheServe ==
    ASSUME ServiceInv, LogInv, CacheInv, NEW w \in Workers, Serve(w)
    PROVE  LogInv' /\ CacheInv'
<1> DEFINE name == FileOf(job[w].request)
           now == global_timestamp + 1
<1>1. /\ job[w] # NoSlot /\ main \notin Unstarted /\ UNCHANGED <<args, main>>
      /\ global_timestamp' = now
    BY DEF Serve, ServiceInv, SolInv, ThreadInv, Threads
<1>2. name \in Strings /\ job[w].fd \in Requests /\ now = Len(log) + 1
    BY <1>1 DEF ServiceInv, OneHolder, InWork, Due, FileOf, Strings, LogInv
<1>3. \A i \in Valid : cache[i].request \in Served
    BY <1>1 DEF CacheInv
<1>4. Served \subseteq Present
    BY DEF LogInv
<1> DEFINE New(hit, status) == Line(w, name, hit, status)
<1>5. ASSUME NEW hit \in BOOLEAN, NEW status \in {"ok", "error"}
      PROVE  /\ New(hit, status) \in LogLine /\ New(hit, status).name = name
             /\ New(hit, status).hit = hit /\ New(hit, status).status = status
    BY <1>2 DEF Line, LogLine
<1>6. CASE Found(name) = {} /\ name \notin Present
    <2>1. log' = Append(log, New(FALSE, "error")) /\ UNCHANGED <<cache, cache_insert_index>>
        BY <1>6 DEF Serve
    <2> HIDE DEF name, now, New
    <2>2. LogInv' /\ Served' = Served /\ \A n \in Served \ {name} : Stamp'[n] = Stamp[n]
        BY <1>1, <1>5, <1>6, <2>1, LogGrows DEF now
    <2>3. \A n \in Served : Stamp'[n] = Stamp[n]
        BY <1>4, <1>6, <2>2
    <2>4. Valid' = Valid /\ Slots' = Slots /\ Valid \subseteq Slots
        BY <1>1, <2>1 DEF Valid, Slots
    <2>5. LeftOut => LeftOut'
        <3>1. Valid = Slots => \A i \in Slots : cache[i].request \in Served
            BY <1>3
        <3> QED BY <2>1, <2>2, <2>3, <2>4, <3>1 DEF LeftOut
    <2>6. InTurn => InTurn'
        BY <1>3, <2>1, <2>3, <2>4 DEF InTurn
    <2>7. Stamped => Stamped'
        BY <1>3, <2>1, <2>3, <2>4 DEF Stamped
    <2>8. CacheInv'
        BY <1>1, <2>1, <2>2, <2>4, <2>5, <2>6, <2>7 DEF CacheInv
    <2> QED BY <2>2, <2>8
<1>7. CASE Found(name) = {} /\ name \in Present
    <2>1. log' = Append(log, New(FALSE, "ok")) /\ Store(name, now)
        BY <1>7 DEF Serve
    <2> HIDE DEF name, now, New
    <2>2. /\ LogInv' /\ Served' = Served \cup {name} /\ Stamp'[name] = now
          /\ \A n \in Served \ {name} : Stamp'[n] = Stamp[n]
        BY <1>1, <1>2, <1>5, <1>7, <2>1, LogGrows DEF now
    <2> QED BY <1>1, <1>2, <1>7, <2>1, <2>2, CacheTakes DEF ServiceInv
<1>8. CASE Found(name) # {}
    <2> DEFINE h == Max(Found(name))
    <2>1. log' = Append(log, New(TRUE, "ok")) /\ Hit(h, now)
        BY <1>8 DEF Serve
    <2> HIDE DEF name, now, New
    <2>2. h \in Found(name)
        BY <1>8, FoundOne DEF ServiceInv
    <2> HIDE DEF h
    <2>3. name \in Served /\ name \in Present
        BY <1>3, <1>4, <2>2 DEF Found
    <2>4. /\ LogInv' /\ Served' = Served
          /\ Stamp'[name] = IF args.caching = 1 THEN Stamp[name] ELSE now
          /\ \A n \in Served \ {name} : Stamp'[n] = Stamp[n]
        BY <1>1, <1>2, <1>5, <2>1, <2>3, LogGrows DEF now
    <2> QED BY <1>1, <1>2, <2>1, <2>2, <2>4, CacheHits DEF ServiceInv
<1> QED BY <1>6, <1>7, <1>8

\* The steps that serve nobody leave the cache and the log alone.
LEMMA CacheKept ==
    ASSUME LogInv, CacheInv, UNCHANGED <<args, cacheVars, log>>,
           main' \in Unstarted <=> main \in Unstarted
    PROVE  LogInv' /\ CacheInv'
<1>1. UNCHANGED <<Served, Valid, Slots, cache, cache_insert_index, log, args, global_timestamp>>
    BY DEF Served, Valid, Slots, cacheVars
<1>2. Stamp' = Stamp
    BY <1>1 DEF Stamp, LastUse, LastLoad
<1>3. LogInv'
    BY <1>1 DEF LogInv
<1>4. (InTurn => InTurn') /\ (Stamped => Stamped') /\ (LeftOut => LeftOut')
    BY <1>1, <1>2 DEF InTurn, Stamped, LeftOut
<1>5. CacheInv'
    BY <1>1, <1>4 DEF CacheInv
<1> QED BY <1>3, <1>5

\* When the threads are created the cache is empty.
LEMMA CacheStarts ==
    ASSUME SolInv, LogInv, CacheInv, Start
    PROVE  LogInv' /\ CacheInv'
<1>1. /\ main \in Unstarted /\ UNCHANGED <<args, cache, cache_insert_index, global_timestamp, log>>
    BY DEF Start, Unstarted, served, cacheVars
<1>2. LogInv'
    BY <1>1 DEF LogInv, Served
<1>3. CASE main' = "usage"
    BY <1>1, <1>3, CacheKept DEF cacheVars, Unstarted
<1>4. CASE Legal /\ main' = "joining"
    <2>1. args.entries \in 1..MAX_CE /\ MAX_CE \in Nat
        BY <1>4, SolAssumption DEF Legal
    <2>2. log' = <<>> /\ cache_insert_index' = 0 /\ \A i \in 0..MAX_CE - 1 : cache'[i].valid = 0
        BY <1>1 DEF CacheInv
    <2>3. Slots' = 0..args.entries - 1
        BY <1>1 DEF Slots
    <2>4. Valid' = {} /\ 0 \in Slots'
        BY <2>1, <2>2, <2>3 DEF Valid
    <2>5. Served' = {}
        BY <2>2 DEF Served
    <2>6. InTurn' /\ Stamped' /\ LeftOut'
        BY <2>2, <2>4, <2>5 DEF InTurn, Stamped, LeftOut
    <2>7. CacheInv'
        BY <1>4, <2>4, <2>6 DEF CacheInv, Unstarted
    <2> QED BY <1>2, <2>7
<1> QED BY <1>3, <1>4 DEF Start

\* It holds from the first state on.
LEMMA CacheInitially == Init => LogInv /\ CacheInv
<1> SUFFICES ASSUME Init PROVE LogInv /\ CacheInv
    OBVIOUS
<1>1. log = <<>> /\ cache_insert_index = 0 /\ global_timestamp = 0 /\ main = "start"
      /\ \A i \in 0..MAX_CE - 1 : cache[i].valid = 0
    BY DEF Init, NoEntry
<1>2. Served = {}
    BY <1>1 DEF Served
<1> QED BY <1>1, <1>2 DEF LogInv, CacheInv, Unstarted

\* Every step keeps it.
LEMMA CacheStep == ServiceInv /\ LogInv /\ CacheInv /\ [Next]_vars => LogInv' /\ CacheInv'
<1> SUFFICES ASSUME ServiceInv, LogInv, CacheInv, [Next]_vars PROVE LogInv' /\ CacheInv'
    OBVIOUS
<1>1. CASE Start
    BY <1>1, CacheStarts DEF ServiceInv
<1>2. CASE \E w \in Workers : Serve(w)
    BY <1>2, CacheServe
<1>3. CASE \E w \in Workers : Get(w)
    <2>1. PICK w \in Workers : Get(w)
        BY <1>3
    <2>2. main' \in Unstarted <=> main \in Unstarted
        <3>1. CASE main' = main
            BY <3>1
        <3>2. CASE \E S \in SomeOf(WaitingForRoom) : GoWakingPutters(w, "serve", S)
            BY <3>2, PuttersWoken DEF GoWakingPutters, Unstarted
        <3> QED BY <2>1, <3>1, <3>2 DEF Get
    <2> QED BY <2>1, <2>2, CacheKept DEF Get
<1>4. CASE JoinDispatchers \/ PutExit \/ Return \/ SpuriousWakeup \/ UNCHANGED vars
           \/ (\E d \in Dispatchers : Dispatch(d) \/ AcceptFails(d))
           \/ (\E d \in Dispatchers, r \in Requests : Accept(d, r))
    <2>1. UNCHANGED <<args, cacheVars, log>>
        BY <1>4 DEF JoinDispatchers, PutExit, Return, SpuriousWakeup, Dispatch, Read, Parse, Refuse,
                    Put, AcceptFails, Accept, vars, served
    <2>2. main' \in Unstarted <=> main \in Unstarted
        BY <1>4 DEF JoinDispatchers, PutExit, Return, SpuriousWakeup, Dispatch, Read, Parse, Refuse,
                    Put, AcceptFails, Accept, vars, Unstarted
    <2> QED BY <2>1, <2>2, CacheKept
<1> QED BY <1>1, <1>2, <1>3, <1>4 DEF Next, Main, Work

\* Whatever the names asked for, the entries and the caching method, the cache holds
\* the files its method calls for and no other: the scan of worker, the timestamps and
\* cache_insert_index agree.
THEOREM CacheIsTheNewest == Spec => []CacheHoldsTheNewest
<1>1. Init => ServiceInv /\ LogInv /\ CacheInv
    BY ServiceInvInitially, CacheInitially
<1>2. (ServiceInv /\ LogInv /\ CacheInv) /\ [Next]_vars
          => (ServiceInv /\ LogInv /\ CacheInv)'
    BY ServiceInvStep, CacheStep
<1>3. ServiceInv /\ LogInv /\ CacheInv => CacheHoldsTheNewest
    BY CacheIsNewest DEF ServiceInv
<1> QED BY <1>1, <1>2, <1>3, PTL DEF Spec
=============================================================================
