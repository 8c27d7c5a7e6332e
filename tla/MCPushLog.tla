----------------------------- MODULE MCPushLog -----------------------------
(* TLC instances of the two appenders that send batches, of the routing of *)
(* records to appenders and of the promises the helpers make.  They share  *)
(* nothing, so one run checks one beside the others at rest.               *)
EXTENDS PushLog, FirehoseLog, LogRouting, DeferredPromise

VARIABLE part   \* what is checked

\* One context for everything, one for a category, exclusive and of a level of
\* its own.
MCContexts ==
    {[pattern |-> Categories, level |-> NoLevel, appenders |-> <<"c">>, exclusive |-> FALSE],
     [pattern |-> {"net"}, level |-> 1, appenders |-> <<"d">>, exclusive |-> TRUE]}

MCInit ==
    /\ part \in {"push", "firehose", "routing", "deferred"}
    /\ Init
    /\ FirehoseInit /\ (part # "firehose" => fast)
    /\ RoutingInit /\ (part # "routing" => rootLevel = 1)
    /\ DeferredInit

MCNext ==
    /\ UNCHANGED part
    /\ \/ part = "push" /\ Next /\ UNCHANGED <<firehose, routing, deferred>>
       \/ part = "firehose" /\ FirehoseNext /\ UNCHANGED <<vars, routing, deferred>>
       \/ part = "routing" /\ RoutingNext /\ UNCHANGED <<vars, firehose, deferred>>
       \/ part = "deferred" /\ DeferredNext /\ UNCHANGED <<vars, firehose, routing>>

MCSpec ==
    /\ MCInit
    /\ [][MCNext]_<<vars, firehose, routing, deferred, part>>
    /\ Fairness /\ FirehoseFairness

(***************************************************************************)
(* Both queues empty in the end: the records are sent, and those of        *)
(* firehose put, or given up where the code gives them up.                 *)
(***************************************************************************)
RecordsArrive == QueueDrains /\ PutInTheEnd
=============================================================================
