------------------------------- MODULE Commons -------------------------------
(***************************************************************************)
(* What a federation of stores promises, with the protocol left out: each    *)
(* replica is a set that only grows, by what its own clients write and by    *)
(* copies of what another replica shares.                                    *)
(***************************************************************************)
EXTENDS Provenance

CONSTANTS Node,   \* replicas
          Shares  \* Shares[n]: the items n gives to others once it holds them

VARIABLES written,  \* written[n]: accepted from n's own clients
          held      \* held[n]: in n's tables

Init ==
  /\ written = [n \in Node |-> {}]
  /\ held = [n \in Node |-> {}]

\* A client of n writes item i.
Write(n, i) ==
  /\ written' = [written EXCEPT ![n] = @ \cup {i}]
  /\ held' = [held EXCEPT ![n] = @ \cup {i}]

\* Replica n copies an item that replica m holds and shares.
Copy(n, m, i) ==
  /\ i \in held[m] \cap Shares[m]
  /\ held' = [held EXCEPT ![n] = @ \cup {i}]
  /\ UNCHANGED written

Next == \E n \in Node, i \in Item : Write(n, i) \/ \E m \in Node : Copy(n, m, i)

Spec == Init /\ [][Next]_<<written, held>>
=============================================================================
