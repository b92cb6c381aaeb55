------------------------------ MODULE SampleLog ------------------------------
(* What the profile under construction promises its caller: a sample that is *)
(* handed to mpp_pprof_serctx_add_sample is in the profile when the call     *)
(* returns, with the frames of its backtrace in order, and what is in the    *)
(* profile does not change.                                                  *)
EXTENDS Sequences

CONSTANTS
    Stacks,     \* the backtraces of samples
    NoStack,    \* no call of add_sample in progress
    Seen(_)     \* what a reader of the profile sees of a backtrace

VARIABLES
    sample,     \* the backtrace of the sample being added
    profile     \* the backtraces in the profile, as a reader sees them

Init == sample = NoStack /\ profile = <<>>

Call(stack) ==
    /\ sample = NoStack
    /\ sample' = stack
    /\ UNCHANGED profile

Return ==
    /\ sample # NoStack
    /\ sample' = NoStack
    /\ profile' = Append(profile, Seen(sample))

Next == Return \/ \E stack \in Stacks : Call(stack)

Spec == Init /\ [][Next]_<<sample, profile>>

=============================================================================
