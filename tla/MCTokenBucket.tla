--------------------------- MODULE MCTokenBucket ---------------------------
(***************************************************************************)
(* Three threads, a bucket of two requests and a clock of six ticks.  A    *)
(* tick earns two thirds of a request, so that the bucket holds fractions. *)
(* The threads are interchangeable and no property is temporal.            *)
(***************************************************************************)
EXTENDS TokenBucket, TLC

Symmetry == Permutations(Threads)

=============================================================================
