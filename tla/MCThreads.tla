----------------------------- MODULE MCThreads -----------------------------
(* Model checking of Threads. *)
EXTENDS Threads

(* Jobs differ by name only: TLC takes the smallest new one.               *)
SmallestJob ==
    \A i, j \in Job : i < j /\ jobs'[j] # "new" => jobs'[i] # "new"
=============================================================================
