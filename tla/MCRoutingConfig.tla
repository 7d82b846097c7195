-------------------------- MODULE MCRoutingConfig --------------------------
EXTENDS RoutingConfig, TLC

CONSTANTS c1, c2, m1, m2, field

MCChains == <<c1, c2>>

\* Each section has values of its own, so that a value shows where it is from.
Own(o) == CASE o = Global -> 1 [] o = c1 -> 2 [] o = c2 -> 3

\* The latency of a section: absent, without methods, with m1 listed (with a
\* threshold of its own or not), with both methods, with or without a
\* top-level threshold, or with thresholds below zero.
Latencies(o) ==
    {Nil} \cup [methods : {<<>>, m1 :> 0, m1 :> 20 + Own(o),
                           m1 :> 20 + Own(o) @@ m2 :> 0},
                threshold : {0, 10 + Own(o)}]
          \cup {[methods |-> m1 :> -1 @@ m2 :> 20 + Own(o), threshold |-> -1]}

\* The errors of a section: absent, without a rate, with one, with a bad one.
ErrorConfigs(o) ==
    {Nil} \cup {[codes |-> {Own(o)}, rate |-> 0],
                [codes |-> {Own(o), 9}, rate |-> 30 + Own(o)],
                [codes |-> {}, rate |-> 150]}

\* The second chain, which only reads, says less.
MCSections(o) ==
    [fields : [Fields -> {Nil, Own(o)}],
     latency : IF o = c2 THEN {Nil, [methods |-> m1 :> 0, threshold |-> 0]}
               ELSE Latencies(o),
     errors : IF o = c2 THEN {Nil, [codes |-> {3}, rate |-> 33]}
              ELSE ErrorConfigs(o)]

\* A global section that sets a threshold for all methods and a first chain that
\* lists a method; everything else as above.
MCThresholdSections(o) ==
    {s \in MCSections(o) :
        /\ o = Global => s.latency = [methods |-> <<>>, threshold |-> 11]
        /\ o = c1 => s.latency = [methods |-> m1 :> 0, threshold |-> 0]}

MCDefaultField == [f \in Fields |-> 7]
=============================================================================
