---------------------------- MODULE MCOmniCluster ----------------------------
EXTENDS OmniCluster

\* A Linux machine with an AMD driver and an Intel Mac.
MCMachine ==
    [p \in Peers |->
        IF p = "p1"
        THEN [os |-> "Linux", arch |-> "x86_64", OMNI_FORCE_BACKEND |-> "unset", kfd |-> TRUE]
        ELSE [os |-> "MacOs", arch |-> "x86_64", OMNI_FORCE_BACKEND |-> "unset", kfd |-> FALSE]]

\* A near worker on either side of the overload threshold, whose scores lie on
\* either side of that of an idle one.
MCDiscovered ==
    {[fp16_tflops |-> 24, rtt_ms |-> 0, current_load |-> 98],
     [fp16_tflops |-> 24, rtt_ms |-> 0, current_load |-> 99]}
=============================================================================
