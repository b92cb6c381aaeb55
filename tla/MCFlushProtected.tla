-------------------------- MODULE MCFlushProtected --------------------------
(* An instance of FlushProtected for TLC: a name that is also a reserved     *)
(* string, two names that are the same as far as they are kept, and the      *)
(* empty name; streams of less than one chunk to more than two.              *)
EXTENDS FlushProtected

MCStrings == {"", "retained_objects", "count", "retained_size", "bytes",
              "long_", "a.rb"}
MCKept == [n \in {"", "count", "a.rb", "long_1", "long_2"} |->
             IF n \in {"long_1", "long_2"} THEN "long_" ELSE n]
MCFrames ==
    [name : {"count", "long_1"}, file : {"a.rb"}, line : {1, 2}]
        \union [name : {"long_2"}, file : {"count", ""}, line : {1}]
MCPayloads == {0, 1, 3}
MCStreams == {1, 2, 5}

=============================================================================
