------------------------------ MODULE MCPackets ------------------------------
(* The packet program for TLC, with its own sizes. *)
EXTENDS PacketsProperties

\* Memory from malloc: pages fresh from the system, or filled by a debugging malloc.
SomeFills == {[c \in Cells |-> n] : n \in {0, -3}}
=============================================================================
