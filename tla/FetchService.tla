---------------------------- MODULE FetchService ----------------------------
(***************************************************************************)
(* What the fetch ring promises to the GPU: requests are numbered in the   *)
(* order they are issued, the host reads them one after another in that    *)
(* order, and a wait for a request returns only when that request has been *)
(* read.  No ring, no done word, no retries and no losses here.            *)
(***************************************************************************)
EXTENDS Naturals

VARIABLES
    issued,     \* requests issued so far: they are numbered 1 .. issued
    served,     \* the requests whose rows have been read
    returned    \* the requests whose wait has returned

vars == <<issued, served, returned>>

Init ==
    /\ issued = 0
    /\ served = {}
    /\ returned = {}

\* The GPU asks for one more request.
Issue ==
    /\ issued' = issued + 1
    /\ UNCHANGED <<served, returned>>

\* The host reads the oldest request that has not been read.
Serve ==
    /\ \E s \in 1 .. issued:
          /\ served = 1 .. (s - 1)
          /\ served' = served \union {s}
    /\ UNCHANGED <<issued, returned>>

\* A wait returns.
Return ==
    /\ \E s \in served \ returned: returned' = returned \union {s}
    /\ UNCHANGED <<issued, served>>

Next == Issue \/ Serve \/ Return

Spec == Init /\ [][Next]_vars
=============================================================================
