------------------------------ MODULE WorkQueue ------------------------------
(***************************************************************************)
(* One durable RabbitMQ queue as RabbitMQService uses it.  The queue is    *)
(* declared durable, messages are persistent, the channel is not in        *)
(* confirm mode, and consumers acknowledge by hand and set no prefetch, so *)
(* that any number of deliveries may be in progress at once.               *)
(*                                                                         *)
(* Each message has an identity of its own, and msg[m] is where it is:     *)
(*   "none"       not published                                            *)
(*   "sent"       sendToQueue returned; the bytes are still the client's   *)
(*   "lost"       the connection went away with the bytes unsent           *)
(*   "ready"      stored by the broker                                     *)
(*   "delivered"  handed to the consumer callback, which has not yet       *)
(*                changed anything                                         *)
(*   "handled"    the callback's database write has committed              *)
(*   "acked"      acknowledged, and forgotten by the broker                *)
(*                                                                         *)
(* The module states one queue; the modules that use it conjoin its        *)
(* actions with what the publishing and the consuming handlers do.         *)
(***************************************************************************)
CONSTANT Msg

VARIABLE msg

Places == {"none", "sent", "lost", "ready", "delivered", "handled", "acked"}

TypeOK == msg \in [Msg -> Places]

Init == msg = [m \in Msg |-> "none"]

Move(m, from, to) ==
    /\ msg[m] \in from
    /\ msg' = [msg EXCEPT ![m] = to]

\* sendToQueue: its result is only logged, and no confirmation is awaited.
Publish(m) == Move(m, {"none"}, "sent")

\* The broker stores a message whose bytes arrive, or it never sees them.
Store(m) == Move(m, {"sent"}, "ready")
Lose(m)  == Move(m, {"sent"}, "lost")

Deliver(m) == Move(m, {"ready"}, "delivered")

\* The callback's write commits (to be conjoined with that write).
Handle(m) == Move(m, {"delivered"}, "handled")

\* Mutants: the message is acknowledged when it arrives; ack and nack swapped.
AckOnArrival(m) == Move(m, {"delivered", "handled"}, "acked")
AckRequeues(m) == Move(m, {"handled"}, "ready")

Ack(m) == Move(m, {"handled"}, "acked")

\* The callback threw, before its write committed or after it (the answer was
\* lost): nack(msg, false, true) puts the message back.
Nack(m) == Move(m, {"delivered", "handled"}, "ready")

\* The consumer's process or connection dies: the broker puts back everything
\* delivered on it that was not acknowledged.
InProgress == {m \in Msg : msg[m] \in {"delivered", "handled"}}

PutBack ==
    msg' = [m \in Msg |-> IF m \in InProgress THEN "ready" ELSE msg[m]]

=============================================================================
