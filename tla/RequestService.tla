--------------------------- MODULE RequestService ---------------------------
(***************************************************************************)
(* What the web server promises its clients, after util.h: a connection    *)
(* either fails in get_request, and is then never answered, or asks for    *)
(* one file and is answered at most once, with the contents of that very   *)
(* file or with an error.  Nothing is promised about when.                 *)
(***************************************************************************)
EXTENDS Sequences

CONSTANTS Requests, Files, Null

VARIABLES filename,   \* what each connection asked for, Null before it did
          refused,    \* connections that never got a request through
          replies     \* what was sent on each connection

Init ==
    /\ filename = [r \in Requests |-> Null]
    /\ refused = {}
    /\ replies = [r \in Requests |-> <<>>]

Ask(r, f) ==
    /\ filename[r] = Null /\ r \notin refused
    /\ filename' = [filename EXCEPT ![r] = f]
    /\ UNCHANGED <<refused, replies>>

Refuse(r) ==
    /\ filename[r] = Null
    /\ refused' = refused \cup {r}
    /\ UNCHANGED <<filename, replies>>

\* An error, or the file that was asked for.
Proper(reply, f) == reply.status = "ok" => reply.name = f

Answer(r) ==
    /\ filename[r] # Null /\ replies[r] = <<>> /\ Len(replies'[r]) = 1
    /\ Proper(replies'[r][1], filename[r])
    /\ replies' = [replies EXCEPT ![r] = replies'[r]]
    /\ UNCHANGED <<filename, refused>>

Next ==
    \/ \E r \in Requests, f \in Files : Ask(r, f)
    \/ \E r \in Requests : Refuse(r) \/ Answer(r)

Spec == Init /\ [][Next]_<<filename, refused, replies>>
=============================================================================
