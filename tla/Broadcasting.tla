----------------------------- MODULE Broadcasting -----------------------------
(***************************************************************************)
(* What a service promises its clients: one that joins hears so first, and *)
(* then every broadcast from there on, once, in the order they were made.  *)
(***************************************************************************)
EXTENDS Integers, Sequences

CONSTANTS Sockets, Messages,    \* Messages \subseteq Nat, numbered in their order
          Welcome               \* not in Messages

VARIABLES joined,
          heard,                \* what each socket has been sent
          last                  \* the last message broadcast

vars == <<joined, heard, last>>

Init == /\ joined = {}
        /\ heard = [s \in Sockets |-> <<>>]
        /\ last = 0

Join(s) == /\ s \notin joined
           /\ joined' = joined \cup {s}
           /\ heard' = [heard EXCEPT ![s] = <<Welcome>>]
           /\ UNCHANGED last

Broadcast(b) == /\ b > last
                /\ last' = b
                /\ heard' = [s \in Sockets |-> IF s \in joined THEN Append(heard[s], b)
                                                               ELSE heard[s]]
                /\ UNCHANGED joined

Next == \/ \E s \in Sockets : Join(s)
        \/ \E b \in Messages : Broadcast(b)

Spec == Init /\ [][Next]_vars
================================================================================
