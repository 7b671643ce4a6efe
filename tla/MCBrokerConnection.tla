------------------------- MODULE MCBrokerConnection -------------------------
(* One message in the queue of each of two consumers. *)
EXTENDS BrokerConnection, TLC

CONSTANTS processing, completed, m1, m2

MCQueueOf == m1 :> processing @@ m2 :> completed

=============================================================================
