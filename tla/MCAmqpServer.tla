---------------------------- MODULE MCAmqpServer ----------------------------
(* Instances of AmqpServer for TLC.                                        *)
EXTENDS AmqpServer, TLC

CONSTANTS main, other, s1, s2

\* main() of amqp_consumer_server.cc: it sets the server up, joins and
\* destroys it; another thread stops and joins.
MainAndOther ==
    main :> {"InsertAsyncService", "RemoveAsyncService", "Start", "Join", "Destroy"}
    @@ other :> {"Stop", "Join"}
=============================================================================
