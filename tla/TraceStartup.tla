---------------------------- MODULE TraceStartup ----------------------------
(***************************************************************************)
(* The start of a trace replay (experiments/trace/main.go): from the       *)
(* command line over the gateway, its autoscaler, the trace and the client *)
(* to the first request.  Each step runs to its end, stops the process     *)
(* with a message ("fatal"), or panics ("crashed").                        *)
(*                                                                         *)
(* Deployments and services are numbered in the order the API server lists *)
(* them in.  A trace file has, per function and minute, the inter-arrival  *)
(* times that the generator draws for that minute.                         *)
(***************************************************************************)
EXTENDS TraceSpec, FiniteSets

CONSTANTS
    Keys,               \* deployments and Knative services; a service has its
                        \* deployment's number
    Inputs              \* [flags, deployments, services, loader, file]

(***************************************************************************)
(* A configuration file is "" (none), "unreadable", or one with the given  *)
(* sections: "empty", "kpa", "oneTime" or "both".                          *)
(***************************************************************************)
ConfigFiles == {"", "unreadable", "empty", "kpa", "oneTime", "both"}
Flag == [gateway : {"k8s", "knative", "other"},
         backend : {"", "fake", "grpc", "other"},
         autoscaler : {"", "kpa", "one-time", "other"},
         config : ConfigFiles]

VARIABLES
    flags,              \* the flags, as validateFlags leaves them
    deployments,        \* trace workloads in the cluster
    services,           \* Knative services in the cluster
    loader, file,       \* the loader's configuration and the trace file
    stage,              \* how far main is
    keys,               \* keys the gateway has registered
    autoscaler,         \* the gateway's autoscaler, "nil" if there is none
    running,            \* its Run has set runCtx
    traces,             \* the client's traces: the functions they come from
    workers,            \* per target of the client, the number of its trace
    disturbed           \* something outside the process went wrong meanwhile

input == <<deployments, services, loader, file>>
gateway == <<keys, autoscaler, running>>
client == <<traces, workers>>
vars == <<flags, input, stage, gateway, client, disturbed>>

Stages == {"flags", "gateway", "setup", "load", "client", "manager", "gatewayStarted",
           "started", "serving", "fatal", "crashed"}

TypeOK ==
    /\ flags \in Flag
    /\ deployments \subseteq Keys
    /\ services \subseteq Keys
    /\ loader \in LoaderConfig
    /\ stage \in Stages
    /\ keys \subseteq Keys
    /\ autoscaler \in {"nil", "kpa", "one-time"}
    /\ running \in BOOLEAN
    /\ DOMAIN workers \subseteq Keys
    /\ disturbed \in BOOLEAN

Init ==
    /\ \E i \in Inputs :
          /\ flags = i.flags
          /\ deployments = i.deployments /\ services = i.services
          /\ loader = i.loader /\ file = i.file
    /\ stage = "flags"
    /\ keys = {} /\ autoscaler = "nil" /\ running = FALSE
    /\ traces = <<>> /\ workers = <<>>
    /\ disturbed = FALSE

Goto(s) == stage' = s

----------------------------------------------------------------------------
(* validateFlags                                                           *)

ValidateKnative ==
    /\ stage = "flags"
    /\ flags.gateway = "knative"
    /\ IF flags.backend \in {"", "grpc"}
       THEN /\ flags' = [flags EXCEPT !.autoscaler = "", !.config = "", !.backend = "grpc"]
            /\ Goto("gateway")
       ELSE Goto("fatal") /\ UNCHANGED flags
    /\ UNCHANGED <<input, gateway, client, disturbed>>

ValidateK8s ==
    /\ stage = "flags"
    /\ flags.gateway = "k8s"
    /\ IF \/ flags.autoscaler # "one-time" /\ flags.config = ""
          \/ flags.backend = "other"
       THEN Goto("fatal") /\ UNCHANGED flags
       ELSE /\ flags' = [flags EXCEPT !.backend = IF @ = "" THEN "fake" ELSE @]
            /\ Goto("gateway")
    /\ UNCHANGED <<input, gateway, client, disturbed>>

ValidateUnknown ==
    /\ stage = "flags"
    /\ flags.gateway = "other"
    /\ Goto("fatal")
    /\ UNCHANGED <<flags, input, gateway, client, disturbed>>

----------------------------------------------------------------------------
(* The gateway                                                             *)

\* NewK8sGateway parses the configuration, if there is one.
NewGateway ==
    /\ stage = "gateway"
    /\ Goto(IF flags.config = "unreadable" THEN "fatal" ELSE "setup")
    /\ UNCHANGED <<flags, input, gateway, client, disturbed>>

\* asConfig is nil without a file; its sections are nil if the file lacks
\* them, which Complete handles for the one-time autoscaler only.
AutoscalerCrashes ==
    \/ flags.autoscaler = "kpa" /\ flags.config \notin {"kpa", "both"}
    \/ flags.autoscaler = "one-time" /\ flags.config = ""

NewAutoscaler ==
    IF flags.autoscaler \in {"kpa", "one-time"} THEN flags.autoscaler ELSE "nil"

SetUpK8sGateway ==
    /\ stage = "setup"
    /\ flags.gateway = "k8s"
    /\ keys' = deployments
    /\ IF AutoscalerCrashes
       THEN Goto("crashed") /\ UNCHANGED autoscaler
       ELSE Goto("load") /\ autoscaler' = NewAutoscaler
    /\ UNCHANGED <<flags, input, running, client, disturbed>>

SetUpKnativeGateway ==
    /\ stage = "setup"
    /\ flags.gateway = "knative"
    /\ keys' = services
    /\ Goto("load")
    /\ UNCHANGED <<flags, input, autoscaler, running, client, disturbed>>

----------------------------------------------------------------------------
(* The client                                                              *)

\* The parser reads the first d minutes, the generator draws their times.
Generate(minutes, d) ==
    LET parsed == SubSeq(minutes, 1, d)
    IN  [perMinute |-> [m \in DOMAIN parsed |-> Len(parsed[m])],
         iat |-> FlattenSeq(parsed),
         runtimes |-> Len(FlattenSeq(parsed))]

\* What the checks of LoadDirigentTraceFromConfig and TranslateDirigentFunction
\* are there for: a generator with a time or a runtime too many or too few.
Garble(f) ==
    {[f EXCEPT !.runtimes = @ + 1],
     [f EXCEPT !.iat = Append(@, 1), !.runtimes = @ + 1]}
    \cup IF f.iat = <<>> THEN {}
         ELSE {[f EXCEPT !.iat = Front(@), !.runtimes = @ - 1]}

\* LoadTraceFromConfig and the output file.
LoadTrace(functions) ==
    /\ stage = "load"
    /\ traces' = functions
    /\ IF ~LoaderAccepts(loader) \/ \E f \in ToSet(functions) : Len(f.iat) # f.runtimes
       THEN Goto("fatal")
       ELSE IF \E f \in ToSet(functions) : TranslateDirigentFunction(f).panic
       THEN Goto("crashed")
       ELSE Goto(IF \A f \in ToSet(functions) : CountsMatch(f) THEN "client" ELSE "fatal")
    /\ UNCHANGED <<flags, input, gateway, workers>>

Functions ==
    [i \in DOMAIN file |-> Generate(file[i], DetermineDurationToParse(loader))]

NewClient == LoadTrace(Functions) /\ UNCHANGED disturbed

NewClientGarbled ==
    /\ file # <<>>
    /\ \E g \in Garble(Functions[1]) : LoadTrace([Functions EXCEPT ![1] = g])
    /\ disturbed' = TRUE

Position(k) == Cardinality({d \in deployments : d <= k})

SetUpClientOffByOne ==
    /\ stage = "client"
    /\ IF Cardinality(deployments) >= Len(traces)
       THEN Goto("fatal") /\ UNCHANGED workers
       ELSE IF deployments \subseteq keys
            THEN Goto("manager") /\ workers' = [k \in deployments |-> Position(k)]
            ELSE Goto("crashed") /\ UNCHANGED workers
    /\ UNCHANGED <<flags, input, gateway, traces, disturbed>>

\* One worker per deployment, with the trace of the same position; RequestChan
\* crashes for a key that the gateway does not know.
SetUpClient ==
    /\ stage = "client"
    /\ IF Cardinality(deployments) > Len(traces)
       THEN Goto("fatal") /\ UNCHANGED workers
       ELSE IF deployments \subseteq keys
            THEN Goto("manager") /\ workers' = [k \in deployments |-> Position(k)]
            ELSE Goto("crashed") /\ UNCHANGED workers
    /\ UNCHANGED <<flags, input, gateway, traces, disturbed>>

----------------------------------------------------------------------------
(* The goroutines                                                          *)

\* The manager's cache has synchronised, and main starts the gateway.
StartGateway ==
    /\ stage = "manager"
    /\ Goto("gatewayStarted")
    /\ UNCHANGED <<flags, input, gateway, client, disturbed>>

\* The last goroutine that the k8s gateway's Start starts: Run.
RunAutoscaler ==
    /\ stage \in {"gatewayStarted", "started"}
    /\ autoscaler # "nil" /\ ~running
    /\ running' = TRUE
    /\ UNCHANGED <<flags, input, stage, keys, autoscaler, client, disturbed>>

\* 5 s later, which order nothing.
StartClient ==
    /\ stage = "gatewayStarted"
    /\ Goto("started")
    /\ UNCHANGED <<flags, input, gateway, client, disturbed>>

\* relay calls onReqIn, which for the k8s gateway calls the autoscaler.  Without
\* runCtx the KPA autoscaler panics; the one-time autoscaler's goroutine does if
\* it has something to scale.
FirstRequest ==
    /\ stage = "started"
    /\ \E k \in DOMAIN workers : traces[workers[k]].iat # <<>>
    /\ \/ /\ flags.gateway = "k8s" /\ ~running
          /\ Goto("crashed")
       \/ /\ flags.gateway # "k8s" \/ running \/ autoscaler = "one-time"
          /\ Goto("serving")
    /\ disturbed' = (disturbed \/ (autoscaler # "nil" /\ ~running))
    /\ UNCHANGED <<flags, input, gateway, client>>

----------------------------------------------------------------------------
(* The cluster                                                             *)

\* A request to the API server fails, the trace cannot be loaded, the output
\* file cannot be created, or the cache does not synchronise.
StepFails ==
    /\ stage \in {"setup", "load", "client", "manager"}
    /\ Goto("fatal")
    /\ disturbed' = TRUE
    /\ UNCHANGED <<flags, input, gateway, client>>

\* The gateway and the client list the deployments at different times.
ChangeDeployments(k) ==
    /\ stage \in {"load", "client"}
    /\ ~disturbed
    /\ deployments' = IF k \in deployments THEN deployments \ {k} ELSE deployments \cup {k}
    /\ disturbed' = TRUE
    /\ UNCHANGED <<flags, services, loader, file, stage, gateway, client>>

Next ==
    \/ ValidateKnative \/ ValidateK8s \/ ValidateUnknown
    \/ NewGateway \/ SetUpK8sGateway \/ SetUpKnativeGateway
    \/ NewClient \/ NewClientGarbled \/ SetUpClient
    \/ StartGateway \/ RunAutoscaler \/ StartClient \/ FirstRequest
    \/ StepFails \/ \E k \in Keys : ChangeDeployments(k)

Spec == Init /\ [][Next]_vars

----------------------------------------------------------------------------
(***************************************************************************)
(* validateFlags requires a configuration of every autoscaler "!=          *)
(* one-time" (main.go:72), and Complete has a default for a nil one-time   *)
(* configuration: what it accepts for the one-time autoscaler starts.      *)
(***************************************************************************)
OneTimeNeedsNoConfig == flags.autoscaler = "one-time" => stage # "crashed"

(***************************************************************************)
(* A complete set-up starts.  If the flags name a gateway with a backend   *)
(* it supports, the k8s gateway's autoscaler is known and, but for a       *)
(* one-time autoscaler without a section, has its section in the file, the *)
(* loader's configuration is one that is supported, and there are traces   *)
(* and, for Knative, services for all deployments, then main neither stops *)
(* nor panics - unless a call fails, the deployments change between the    *)
(* two listings, the generator miscounts, or a request is faster than the  *)
(* goroutine of the autoscaler.                                            *)
(***************************************************************************)
Complete ==
    /\ \/ /\ flags.gateway = "k8s" /\ flags.backend \in {"", "fake", "grpc"}
          /\ \/ flags.autoscaler = "kpa" /\ flags.config \in {"kpa", "both"}
             \/ flags.autoscaler = "one-time" /\ flags.config \in {"empty", "kpa", "oneTime", "both"}
       \/ /\ flags.gateway = "knative" /\ flags.backend \in {"", "grpc"}
          /\ deployments \subseteq services
    /\ LoaderAccepts(loader)
    /\ Cardinality(deployments) <= Len(file)

CompleteSetupStarts == Complete /\ ~disturbed => stage \notin {"fatal", "crashed"}

(***************************************************************************)
(* What the workers are about to send is the trace, whatever happened to   *)
(* the cluster since the gateway listed it.  Their targets have a channel; *)
(* no two replay the same trace, and none is skipped; every invocation is  *)
(* at its arrival time; senders share a worker's invocations evenly, none  *)
(* above its limit, and each gets them in the order of their arrival if    *)
(* the times drawn for each minute fit into it.                            *)
(***************************************************************************)
ReplaysTrace(f) ==
    LET n == Len(f.iat)
        arrivals == TranslateDirigentFunction(f).invocations
        Share(s) == {i \in 1..n : SenderOf(i - 1, n) = s}
    IN  /\ arrivals = [i \in 1..n |-> ArrivalTime(f, i)]
        /\ UNION {Share(s) : s \in 0 .. (NSenders(n) - 1)} = 1..n
        /\ \A r, s \in 0 .. (NSenders(n) - 1) :
              /\ Cardinality(Share(s)) <= PerSender
              /\ Cardinality(Share(s)) <= Cardinality(Share(r)) + 1
        /\ FitsMinutes(f) =>
              \A i, j \in 1..n :
                  i < j /\ SenderOf(i - 1, n) = SenderOf(j - 1, n) => arrivals[i] <= arrivals[j]

WorkersReplayTrace ==
    stage \in {"manager", "gatewayStarted", "started", "serving"} =>
        /\ DOMAIN workers \subseteq keys
        /\ {workers[k] : k \in DOMAIN workers} = 1 .. Cardinality(DOMAIN workers)
        /\ \A k \in DOMAIN workers : ReplaysTrace(traces[workers[k]])
=============================================================================
