-------------------------- MODULE PacketsProperties --------------------------
(* What the packet program and the memory manager under it must keep to. *)
EXTENDS Packets

\* The heap is big enough for what is lost of it, chunks that are not merged again: the
\* program has 200 bytes for five messages of packets of nine.  The catalog is the first
\* memory that the process asks malloc for, and nothing in it looks like a free chunk.
ASSUME RoomAssumption ==
    /\ 2 * Size > NumMessages * (NumMessages + 3) * DataSize
    /\ \A fill \in Fills : \A c \in Cells : fill[c] <= 0

\* Every variable has a value of its kind; nothing is written before the catalog or beyond
\* the cell behind it, which would add a cell.
TypeOK ==
    /\ catalog \in [Cells -> Int]
    /\ data \in [Packet -> Bytes \cup {NULL}]
    /\ numReceived \in [Packet -> 0..MaxPackets + MaxAlarms]
    /\ pkt_cnt \in 0..MaxPackets + MaxAlarms /\ pkt_total \in 1..MaxPackets
    /\ cnt_msg \in 1..NumMessages + 1
    /\ pc \in {"wait", "call", "pause", "total", "cnt", "received", "next", "release",
               "released", "exited"}
    /\ j \in 1..NumMessages + 1 /\ i \in 0..MaxPackets
    /\ handler \in {"idle", "allocate", "store", "put"}
    /\ k \in 0..MaxPackets /\ which \in Packet
    /\ held \subseteq Packet
    /\ late \in 0..MaxAlarms
    /\ fault \in {"none", "null_write", "use_after_free"}

Chunk(n) == n..n + DataSize - 1
HeapOfPackets == INSTANCE Heap WITH
    HeapSize <- Size, Holders <- Packet, live <- {<<p, data[p]>> : p \in held}

\* The memory the packets of a message are stored in is theirs alone, although the
\* catalog comes to count bytes in use as free (mm_put merges with the wrong cell).
ImplementsHeap == HeapOfPackets!Spec

\* While the signals come in pause, the messages are printed in order, each once and
\* with as many packets as it has, and the process does not fault: a packet is stored in
\* memory its message has, and no message leaves the next without memory.
MessagesWhole ==
    late = 0 =>
        /\ fault = "none"
        /\ \A n \in DOMAIN printed : printed[n] = [number |-> n, packets |-> n]
        /\ handler = "store" => which \in held
        /\ pc \in {"total", "cnt", "received", "next", "release", "released"} => held = {}

\* As the timer keeps ticking, the program comes to its end, or to a fault.
Ends == <>(pc = "exited" \/ fault # "none")
=============================================================================
