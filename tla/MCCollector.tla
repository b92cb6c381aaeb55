----------------------------- MODULE MCCollector -----------------------------
(* Instances of Collector for TLC.                                         *)
EXTENDS Collector, TLC

\* Nothing distinguishes the threads, slots, objects or VALUEs of an instance.
Symmetry ==
    Permutations(Threads) \union Permutations(Slots)
        \union Permutations(Objects) \union Permutations(Refs)

\* The values given to max_heap_samples= in the instances.
Sizes12 == {1, 2}
Sizes2 == {2}

=============================================================================
