---------------------------- MODULE MCCaveatLimits ----------------------------
(* A grant with one rate, one with two, and one with the other caveats; the  *)
(* process remembers one bucket.  Four calls race for one bucket, or buckets *)
(* replace each other, or discharges and approvals are at work.              *)
EXTENDS CaveatLimits, TLC

Rate(n, window) == [kind |-> "rate", n |-> n, window |-> window]

Call(g, bridge, amount) == [grant |-> g, bridge |-> bridge, amount |-> amount, domain |-> "good"]
Slow == Call("slow", FALSE, 0)
Both == Call("both", TRUE, 1)
Much == Call("both", TRUE, 2)
Read == Call("held", FALSE, 0)
Held == Call("held", TRUE, 1)

MCCalls == {Slow, Both, Much, Read, Held}

MCCaveats ==
    [slow |-> <<Rate(1, 1)>>,
     both |-> <<[kind |-> "max-amount", n |-> 1], Rate(2, 1), Rate(1, 2)>>,
     held |-> <<[kind |-> "time <", at |-> 2], [kind |-> "discharge-from", url |-> "verifier"],
                [kind |-> "request", met |-> {Held}], [kind |-> "only-domain", allowed |-> {"good"}], [kind |-> "requires-human-approval"]>>]

Load(f, discharges, restarts) ==
    [calls |-> [c \in MCCalls |-> IF c \in DOMAIN f THEN f[c] ELSE 0], discharges |-> discharges, restarts |-> restarts]

MCWorkloads ==
    {Load(Slow :> 4, 0, 1), Load(Slow :> 1 @@ Both :> 2, 0, 0), Load(Slow :> 1 @@ Both :> 1 @@ Much :> 1, 0, 1),
     Load(Held :> 2 @@ Read :> 1, 2, 1)}

MCSymmetry == Permutations(Evaluators)

=============================================================================
