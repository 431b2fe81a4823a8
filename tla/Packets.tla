------------------------------- MODULE Packets -------------------------------
(***************************************************************************)
(* project3/packet_public.c: a timer's signal handler receives packets and *)
(* keeps them in memory of the memory manager, main waits for each message *)
(* to be complete and resets the counters for the next.                    *)
(*                                                                         *)
(* The handler masks all signals and main stands still meanwhile, so only  *)
(* one of the two moves; the steps in the handler are its calls of mm_get  *)
(* and mm_put.  The signal may come between any two statements of main.    *)
(***************************************************************************)
EXTENDS MemoryManager, Sequences

CONSTANTS DataSize,      \* sizeof(data_t)
          MaxPackets, NumMessages,
          Fills,         \* what malloc's memory may hold
          MaxAlarms      \* how many signals may fall outside pause

ASSUME PacketsAssumption ==
    /\ DataSize \in Nat \ {0} /\ MaxAlarms \in Nat
    /\ NumMessages \in Nat \ {0} /\ MaxPackets \in Nat /\ NumMessages < MaxPackets
    /\ Fills # {} /\ Fills \subseteq [Cells -> Int]

VARIABLES
    catalog,       \* of the memory manager
    data, numReceived,    \* message.data and message.numReceivedOfPacket
    pkt_cnt, pkt_total, cnt_msg,
    pc, j, i,      \* main: the statement it is at, the message, the reset loop's index
    handler,       \* "idle", or where the handler is
    k, which,      \* the handler's loop index, and the packet it got
    held,          \* the packets that have their memory now
    printed,       \* the messages printed: the number, and how many packets of it
    late,          \* how many signals fell outside pause
    fault

counters == <<pkt_cnt, pkt_total, cnt_msg>>
mainVars == <<pc, j, i>>
message == <<data, numReceived>>
vars == <<catalog, message, counters, mainVars, handler, k, which, held, printed, late, fault>>

Packet == 0..MaxPackets - 1
Running == fault = "none"

Init ==
    /\ \E fill \in Fills : catalog = mm_init(fill)
    /\ data = [p \in Packet |-> NULL] /\ numReceived = [p \in Packet |-> 0]
    /\ pkt_cnt = 0 /\ pkt_total = 1 /\ cnt_msg = 1
    /\ pc = "wait" /\ j = 1 /\ i = 0
    /\ handler = "idle" /\ k = 0 /\ which = 0
    /\ held = {} /\ printed = <<>>
    /\ late = 0 /\ fault = "none"
-----------------------------------------------------------------------------
(* packet_handler *)

\* SIGALRM: get_packet draws one of the cnt_msg packets, repeats and all.
Alarm ==
    /\ Running /\ handler = "idle" /\ pc # "exited"
    /\ IF pc = "pause" THEN pc' = "wait" /\ late' = late
       ELSE pc' = pc /\ late < MaxAlarms /\ late' = late + 1
    /\ \E p \in 0..cnt_msg - 1 : which' = p
    /\ k' = 0
    /\ handler' = IF pkt_cnt = 0 THEN "allocate" ELSE "store"
    /\ UNCHANGED <<catalog, message, counters, j, i, held, printed, fault>>

\* With the manager released, mm_get, mm_put and strcpy work in freed memory.
UseAfterFree ==
    /\ Running /\ pc = "released" /\ handler \in {"allocate", "store", "put"}
    /\ fault' = "use_after_free"
    /\ UNCHANGED <<catalog, message, counters, mainVars, handler, k, which, held, printed, late>>

\* The first packet: memory for the whole message.
Allocate ==
    LET n == Address(catalog, DataSize)
    IN  /\ Running /\ handler = "allocate" /\ pc # "released"
        /\ \/ /\ k < cnt_msg
              /\ data' = [data EXCEPT ![k] = n]
              /\ catalog' = IF n = NULL THEN catalog ELSE Cut(catalog, n, DataSize)
              /\ held' = IF n = NULL THEN held ELSE held \cup {k}
              /\ k' = k + 1 /\ handler' = handler
           \/ /\ k = cnt_msg
              /\ handler' = "store"
              /\ UNCHANGED <<data, catalog, held, k>>
        /\ UNCHANGED <<numReceived, counters, mainVars, which, printed, late, fault>>

\* How many lines the loop prints: one each time that one of the first n packets came.
Lines(received, n) ==
    LET upTo[p \in 0..n] == IF p = 0 THEN 0 ELSE upTo[p - 1] + received[p - 1]
    IN  upTo[n]

\* Mutant: the message is complete one packet early.
IsLastEarly == pkt_cnt + 1 = IF cnt_msg > 1 THEN cnt_msg - 1 ELSE 1

IsLast == pkt_cnt + 1 = cnt_msg

\* pkt_total is set, the packet counted and copied to its memory.
Store ==
    /\ Running /\ handler = "store" /\ pc # "released"
    /\ \/ /\ data[which] = NULL
          /\ fault' = "null_write"
          /\ UNCHANGED <<numReceived, counters, handler, k, printed>>
       \/ /\ data[which] # NULL
          /\ numReceived' = [numReceived EXCEPT ![which] = @ + 1]
          /\ pkt_total' = cnt_msg /\ pkt_cnt' = pkt_cnt + 1
          /\ k' = 0 /\ UNCHANGED <<cnt_msg, fault>>
          /\ IF IsLast
             THEN /\ handler' = "put"
                  /\ printed' = Append(printed, [number |-> cnt_msg,
                                                 packets |-> Lines(numReceived', cnt_msg)])
             ELSE handler' = "idle" /\ printed' = printed
    /\ UNCHANGED <<catalog, data, mainVars, which, held, late>>

\* The memory of every packet goes back, in the order of the packets.
PutBack ==
    /\ Running /\ handler = "put" /\ pc # "released"
    /\ \/ /\ k < pkt_total
          /\ catalog' = IF data[k] = NULL THEN catalog ELSE mm_put(catalog, data[k])
          /\ held' = held \ {k}
          /\ k' = k + 1 /\ handler' = handler
       \/ /\ k = pkt_total
          /\ handler' = "idle" /\ UNCHANGED <<catalog, held, k>>
    /\ UNCHANGED <<message, counters, mainVars, which, printed, late, fault>>
-----------------------------------------------------------------------------
(* main *)

MainMoves == Running /\ handler = "idle"

\* while (pkt_cnt < pkt_total) pause(): only a signal during pause ends it, one that
\* comes after the test and before pause does not.
WaitForMessage ==
    /\ MainMoves
    /\ \/ pc = "wait" /\ pc' = IF pkt_cnt < pkt_total THEN "call" ELSE "total"
       \/ pc = "call" /\ pc' = "pause"
    /\ UNCHANGED <<catalog, message, counters, j, i, handler, k, which, held, printed, late, fault>>

\* pkt_total = 1; pkt_cnt = 0
ResetTotal ==
    /\ MainMoves /\ pc = "total"
    /\ pkt_total' = 1 /\ pc' = "cnt"
    /\ UNCHANGED <<catalog, message, pkt_cnt, cnt_msg, j, i, handler, k, which, held, printed,
                   late, fault>>

ResetCount ==
    /\ MainMoves /\ pc = "cnt"
    /\ pkt_cnt' = 0 /\ i' = 0 /\ pc' = "received"
    /\ UNCHANGED <<catalog, message, pkt_total, cnt_msg, j, handler, k, which, held, printed,
                   late, fault>>

\* Mutants: the counts stay; the loop does not go on.
ResetReceivedNot ==
    /\ MainMoves /\ pc = "received" /\ pc' = "next"
    /\ UNCHANGED <<catalog, message, counters, j, i, handler, k, which, held, printed, late,
                   fault>>
ResetReceivedForever ==
    /\ MainMoves /\ pc = "received"
    /\ numReceived' = [numReceived EXCEPT ![i] = 0]
    /\ UNCHANGED <<catalog, data, counters, mainVars, handler, k, which, held, printed, late,
                   fault>>

ResetReceived ==
    /\ MainMoves /\ pc = "received"
    /\ IF i < MaxPackets
       THEN numReceived' = [numReceived EXCEPT ![i] = 0] /\ i' = i + 1 /\ pc' = pc
       ELSE pc' = "next" /\ UNCHANGED <<numReceived, i>>
    /\ UNCHANGED <<catalog, data, counters, j, handler, k, which, held, printed, late, fault>>

\* Mutant: the number of the message stays.
NextMessageSame ==
    /\ MainMoves /\ pc = "next"
    /\ j' = j + 1 /\ pc' = IF j < NumMessages THEN "wait" ELSE "release"
    /\ UNCHANGED <<catalog, message, counters, i, handler, k, which, held, printed, late, fault>>

\* cnt_msg++, and the for loop goes on, or mm_release.
NextMessage ==
    /\ MainMoves /\ pc = "next"
    /\ cnt_msg' = cnt_msg + 1
    /\ j' = j + 1 /\ pc' = IF j < NumMessages THEN "wait" ELSE "release"
    /\ UNCHANGED <<catalog, message, pkt_cnt, pkt_total, i, handler, k, which, held, printed,
                   late, fault>>

\* mm_release, and the end of main.
Exit ==
    /\ MainMoves
    /\ \/ pc = "release" /\ pc' = "released"
       \/ pc = "released" /\ pc' = "exited"
    /\ UNCHANGED <<catalog, message, counters, j, i, handler, k, which, held, printed, late, fault>>

Handler == UseAfterFree \/ Allocate \/ Store \/ PutBack
Main == WaitForMessage \/ ResetTotal \/ ResetCount \/ ResetReceived \/ NextMessage \/ Exit

Next == Alarm \/ Handler \/ Main

Spec == Init /\ [][Next]_vars

\* The timer keeps ticking (setitimer with an interval) and the process runs.
FairSpec == Spec /\ WF_vars(Handler) /\ WF_vars(Main) /\ WF_vars(Alarm /\ pc = "pause")
=============================================================================
