--------------------------- MODULE CountingSemaphore ---------------------------
(***************************************************************************)
(* What a counting semaphore promises its callers: a number of permits,    *)
(* atomic Take and Give, and a lifetime between Create and Destroy.        *)
(* XLSemaPhore implements it with a mutex and a condition variable.        *)
(***************************************************************************)
EXTENDS Integers

CONSTANT InitialPermits     \* the numbers of permits a Create may hand out

VARIABLES permits,          \* Takes that can still succeed
          exists            \* between Create and Destroy

semVars == <<permits, exists>>

Init == permits = 0 /\ exists = FALSE

Create(n) == /\ ~exists
             /\ exists' = TRUE
             /\ permits' = n

Destroy == /\ exists
           /\ exists' = FALSE
           /\ permits' = 0

\* A Take completes only by consuming a permit.
Take == /\ exists
        /\ permits > 0
        /\ permits' = permits - 1
        /\ UNCHANGED exists

Give == /\ exists
        /\ permits' = permits + 1
        /\ UNCHANGED exists

Next == \/ \E n \in InitialPermits : Create(n)
        \/ Destroy
        \/ Take
        \/ Give

Spec == Init /\ [][Next]_semVars
================================================================================
