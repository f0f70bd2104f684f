---------------------------- MODULE SecureStream ----------------------------
(***************************************************************************)
(* What a secured connection promises its two applications: each receives  *)
(* a prefix of the bytes the other one sent, in order, and is told that it *)
(* has all of them only when it has.  No records, numbers or network here: *)
(* a connection that breaks simply delivers no more.                       *)
(***************************************************************************)
EXTENDS Naturals, Sequences

CONSTANTS Client, Server,
          MaxWrite    \* the most bytes one call sends

VARIABLES
    written,     \* written[s]: bytes the application of s has sent
    finished,    \* finished[s]: s has said that it sends no more
    delivered,   \* delivered[s]: the bytes the application of s has received
    complete     \* complete[s]: s has been told that it has them all

vars == <<written, finished, delivered, complete>>

Side == {Client, Server}
Other(s) == IF s = Client THEN Server ELSE Client

Init ==
    /\ written = [s \in Side |-> 0]
    /\ finished = [s \in Side |-> FALSE]
    /\ delivered = [s \in Side |-> <<>>]
    /\ complete = [s \in Side |-> FALSE]

Write(s) ==
    /\ ~finished[s]
    /\ \E n \in 1 .. MaxWrite : written' = [written EXCEPT ![s] = @ + n]
    /\ UNCHANGED <<finished, delivered, complete>>

\* s sends no more; it may still receive.
Finish(s) ==
    /\ ~finished[s]
    /\ finished' = [finished EXCEPT ![s] = TRUE]
    /\ UNCHANGED <<written, delivered, complete>>

\* The next bytes of the other side's stream reach the application of s.
Deliver(s) ==
    LET have == Len(delivered[s]) IN
    /\ ~complete[s]
    /\ \E n \in 1 .. written[Other(s)] - have :
        delivered' = [delivered EXCEPT ![s] = @ \o [i \in 1 .. n |-> have + i]]
    /\ UNCHANGED <<written, finished, complete>>

Complete(s) ==
    /\ ~complete[s]
    /\ finished[Other(s)]
    /\ Len(delivered[s]) = written[Other(s)]
    /\ complete' = [complete EXCEPT ![s] = TRUE]
    /\ UNCHANGED <<written, finished, delivered>>

Next == \E s \in Side : Write(s) \/ Finish(s) \/ Deliver(s) \/ Complete(s)

Spec == Init /\ [][Next]_vars

=============================================================================
