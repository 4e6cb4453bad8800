---------------------------- MODULE MCRemoteCalls ----------------------------
(* The output of the command in the instance for TLC. *)
EXTENDS RemoteCalls

\* A line on each stream, together one more than the limit.
ShortLines == [s \in Streams |-> <<"line">>]
=============================================================================
