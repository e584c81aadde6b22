-------------------------- MODULE MCWorkerServices --------------------------
(* Pools of one and two workers.  The cfg gives the output buffer four pieces *)
(* for lines of three, so that blocks end inside lines, and a message counter *)
(* that wraps at the second session.                                          *)
EXTENDS WorkerServices

MCPoolRange == [min |-> 1, max |-> 2, default |-> 2]

MCOutcomes == {<<"HEARTBEAT", "heartbeat_received">>, <<"REGISTER", "node_register_error">>,
               <<"ANALYZE_GRAPH", "none">>}
=============================================================================
