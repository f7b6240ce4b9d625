--------------------------- MODULE MCTraceStartup ---------------------------
(***************************************************************************)
(* Instances of TraceStartup: its default flags; and, with a small trace,  *)
(* every command line and loader configuration, and with good ones every   *)
(* trace of two functions over two minutes of up to two invocations.       *)
(***************************************************************************)
EXTENDS TraceStartup

Default == [gateway |-> "k8s", backend |-> "fake", autoscaler |-> "one-time", config |-> ""]
Good ==
    {[Default EXCEPT !.config = "oneTime"],
     [Default EXCEPT !.autoscaler = "kpa", !.config = "both"],
     [Default EXCEPT !.gateway = "knative", !.backend = "grpc"]}

Loader == [platform |-> "Dirigent", duration |-> 2, warmup |-> 0, iat |-> "exponential",
           granularity |-> "minute"]
Loaders ==
    {Loader, [Loader EXCEPT !.platform = "other"], [Loader EXCEPT !.iat = "other"],
     [Loader EXCEPT !.granularity = "second"], [Loader EXCEPT !.duration = 0],
     [Loader EXCEPT !.duration = 1], [Loader EXCEPT !.duration = 1, !.warmup = 1]}

\* Times of a minute, in microseconds: none, one, two that fit, two that do not.
Minutes == {<<>>, <<0>>, <<20000000, 30000000>>, <<40000000, 50000000>>}
Small == <<<<20000000>>, <<30000000, 1>>, <<>>>>
Files ==
    {<<>>, <<Small>>, <<Small, Small, Small>>}
    \cup {<<<<a, b>>, <<c, <<5>>>>>> : a, b \in Minutes, c \in Minutes}

MCInputs(fs, ls, files) ==
    [flags : fs, deployments : SUBSET Keys, services : SUBSET Keys, loader : ls, file : files]

MCDefaultInputs == MCInputs({Default}, {Loader}, {<<>>, <<Small>>, <<Small, Small>>})
MCAllInputs ==
    MCInputs(Flag, {Loader}, {<<Small, Small>>})
    \cup MCInputs(Good, Loaders, {<<Small>>, <<Small, Small>>})
    \cup MCInputs(Good, {Loader}, Files)
=============================================================================
